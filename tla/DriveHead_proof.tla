---------------------------- MODULE DriveHead_proof ----------------------------
(***************************************************************************)
(* Proofs about DriveHead, for every set of drives, of tracks asked for,   *)
(* every length of the heads' way and every number of tries longer than    *)
(* it.                                                                     *)
(***************************************************************************)
EXTENDS DriveHead, TLAPS

\* A recalibration goes one cylinder out at every try.
Progress ==
    op = "recalibrate" /\ active \in Connected =>
        position[active] + tries <= MaxCylinder

\* A seek that steps has a track to go to.
HasGoal == op = "seek" => goal \in Targets

IInv == TypeOK /\ Progress /\ HasGoal

\* The drives whose counter means something. A seek that has begun to step
\* trusts the counter of its drive.
Known(d) == Trusted(d) \/ (op = "seek" /\ d = active)

NotBeyond == \A d \in Connected : Known(d) => position[d] <= counter[d]

Exact ==
    \A d \in Connected \ stopped : Known(d) => position[d] = counter[d]

-------------------------------------------------------------------------------
(* What a pulse does to the counter and to the head. *)

\* What the proofs use of the constants.
LEMMA Assumptions ==
    /\ Connected \subseteq Types
    /\ MaxCylinder \in Nat
    /\ MaxSteps \in Nat
    /\ MaxCylinder < MaxSteps
    /\ \A t \in Targets : t \in 0 .. 255
BY DriveAssumption DEF Types, Byte

\* A pulse inwards counts up inside the byte,
LEMMA StepInCounts ==
    ASSUME TypeOK, StepIn, counter[active] < 255
    PROVE  /\ counter' \in [Types -> Byte]
           /\ counter'[active] = counter[active] + 1
           /\ \A d \in Types \ {active} : counter'[d] = counter[d]
<1>1. active \in Types /\ counter[active] \in 0 .. 255
    BY DEF TypeOK, Byte
<1>2. (counter[active] + 1) % 256 = counter[active] + 1
    BY <1>1
<1>3. counter[active] + 1 \in Byte
    BY <1>1 DEF Byte
<1>. QED
    BY <1>1, <1>2, <1>3 DEF StepIn, TypeOK

\* a pulse outwards counts down,
LEMMA StepOutCounts ==
    ASSUME TypeOK, StepOut
    PROVE  /\ counter' \in [Types -> Byte]
           /\ counter'[active] =
                IF counter[active] > 0 THEN counter[active] - 1 ELSE 0
           /\ \A d \in Types \ {active} : counter'[d] = counter[d]
<1>1. active \in Types /\ counter[active] \in 0 .. 255
    BY DEF TypeOK, Byte
<1>2. (IF counter[active] > 0 THEN counter[active] - 1 ELSE 0) \in Byte
    BY <1>1 DEF Byte
<1>. QED
    BY <1>1, <1>2 DEF StepOut, TypeOK

\* and both move the selected head alone
LEMMA StepInMoves ==
    ASSUME TypeOK, StepIn
    PROVE  /\ position' \in [Connected -> Cylinders]
           /\ stopped' \subseteq Connected
           /\ \A d \in Connected :
                position'[d] = IF d = active /\ position[d] < MaxCylinder
                                 THEN position[d] + 1 ELSE position[d]
<1>1. \A d \in Connected : position[d] \in 0 .. MaxCylinder
    BY DEF TypeOK, Cylinders
<1>2. \A d \in Connected :
         position[d] < MaxCylinder => position[d] + 1 \in 0 .. MaxCylinder
    BY <1>1, Assumptions
<1>3. stopped' \subseteq Connected
    BY DEF StepIn, TypeOK
<1>. QED
    BY <1>1, <1>2, <1>3 DEF StepIn, Cylinders

\* by at most one cylinder.
LEMMA StepOutMoves ==
    ASSUME TypeOK, StepOut
    PROVE  /\ position' \in [Connected -> Cylinders]
           /\ stopped' \subseteq Connected
           /\ \A d \in Connected :
                position'[d] = IF d = active /\ position[d] > 0
                                 THEN position[d] - 1 ELSE position[d]
<1>1. \A d \in Connected : position[d] \in 0 .. MaxCylinder
    BY DEF TypeOK, Cylinders
<1>2. \A d \in Connected :
         position[d] > 0 => position[d] - 1 \in 0 .. MaxCylinder
    BY <1>1, Assumptions
<1>3. stopped' \subseteq Connected
    BY DEF StepOut, TypeOK
<1>. QED
    BY <1>1, <1>2, <1>3 DEF StepOut, Cylinders

\* The goal of a seek is in the range of the counter.
LEMMA GoalIsByte ==
    ASSUME TypeOK, HasGoal, op = "seek"
    PROVE  /\ goal \in 0 .. 255
           /\ active \in Types
           /\ counter[active] \in 0 .. 255
BY Assumptions DEF TypeOK, HasGoal, Byte

-------------------------------------------------------------------------------
(* The types, the way of a recalibration, the goal of a seek. *)

\* No drive has been moved yet.
LEMMA InvInit == Init => IInv
<1>. SUFFICES ASSUME Init PROVE IInv
    OBVIOUS
<1>1. 0 \in Byte /\ 0 \in 0 .. MaxSteps /\ "NONE" \in Types
    BY Assumptions DEF Byte, Types
<1>. QED
    BY <1>1 DEF Init, IInv, TypeOK, Progress, HasGoal

\* Every step keeps the types and the bound of the tries.
LEMMA InvNext ==
    ASSUME IInv, [Next]_vars
    PROVE  IInv'
<1>. USE DEF IInv
<1>1. ASSUME NEW type \in Selectable, Select(type)
      PROVE  IInv'
  <2>1. type \in Types
      BY DriveAssumption
  <2>. QED
      BY <1>1, <2>1 DEF Select, TypeOK, Progress, HasGoal
<1>2. CASE Recalibrate
  <2>1. 0 \in 0 .. MaxSteps
      BY Assumptions
  <2>2. active \in Connected => position[active] + 0 <= MaxCylinder
      BY Assumptions DEF TypeOK, Cylinders
  <2>3. TypeOK'
      BY <1>2, <2>1 DEF Recalibrate, TypeOK
  <2>. QED
      BY <1>2, <2>2, <2>3 DEF Recalibrate, Progress, HasGoal
<1>3. ASSUME NEW track \in Targets, Seek(track)
      PROVE  IInv'
  <2>1. 0 \in 0 .. MaxSteps
      BY Assumptions
  <2>2. active \in Connected => position[active] + 0 <= MaxCylinder
      BY Assumptions DEF TypeOK, Cylinders
  <2>3. TypeOK'
      BY <1>3, <2>1 DEF Seek, TypeOK
  <2>. QED
      BY <1>3, <2>2, <2>3 DEF Seek, Progress, HasGoal
<1>4. CASE GetStatus
  <2>1. AtTrack0 \in BOOLEAN
      BY DEF AtTrack0
  <2>. QED
      BY <1>4, <2>1 DEF GetStatus, TypeOK, Progress, HasGoal
<1>5. CASE RecalibrateFound
  <2>1. 0 \in Byte
      BY DEF Byte
  <2>2. TypeOK'
      BY <1>5, <2>1 DEF RecalibrateFound, Recalibrated, TypeOK
  <2>. QED
      BY <1>5, <2>2 DEF RecalibrateFound, Recalibrated, TypeOK, Progress, HasGoal
<1>6. CASE RecalibrateStep
  <2>1. StepOut /\ ~AtTrack0 /\ op = "recalibrate" /\ op' = op /\ active' = active
      BY <1>6 DEF RecalibrateStep
  <2>2. tries' = tries + 1 /\ tries' \in 0 .. MaxSteps
      BY <1>6, Assumptions DEF RecalibrateStep, TypeOK
  <2>3. TypeOK'
      BY <1>6, <2>1, <2>2, StepOutCounts, StepOutMoves
      DEF RecalibrateStep, TypeOK
  <2>4. Progress'
    <3>. SUFFICES ASSUME active \in Connected
                  PROVE  position'[active] + tries' <= MaxCylinder
        BY <2>1 DEF Progress
    <3>1. position[active] \in 0 .. MaxCylinder /\ tries \in 0 .. MaxSteps
        BY DEF TypeOK, Cylinders
    <3>2. position[active] > 0
        BY <2>1, <3>1, Assumptions DEF AtTrack0
    <3>3. position'[active] = position[active] - 1
        BY <2>1, <3>2, StepOutMoves
    <3>4. position[active] + tries <= MaxCylinder
        BY <2>1 DEF Progress
    <3>. QED
        BY <2>2, <3>1, <3>3, <3>4, Assumptions
  <2>. QED
      BY <2>1, <2>3, <2>4 DEF HasGoal
<1>7. CASE RecalibrateFailed
    BY <1>7 DEF RecalibrateFailed, Recalibrated, TypeOK, Progress, HasGoal
<1>8. CASE SeekStep
  <2>1. /\ op = "seek" /\ op' = op /\ goal' = goal
        /\ UNCHANGED <<active, track0, tries, result>>
      BY <1>8 DEF SeekStep
  <2>2. CASE counter[active] < goal /\ StepIn
    <3>1. counter[active] < 255
        BY <2>1, <2>2, GoalIsByte
    <3>. QED
        BY <2>1, <2>2, <3>1, StepInCounts, StepInMoves
        DEF TypeOK, Progress, HasGoal
  <2>3. CASE counter[active] > goal /\ StepOut
      BY <2>1, <2>3, StepOutCounts, StepOutMoves DEF TypeOK, Progress, HasGoal
  <2>. QED
      BY <1>8, <2>2, <2>3 DEF SeekStep
<1>9. CASE SeekEnd
    BY <1>9 DEF SeekEnd, TypeOK, Progress, HasGoal
<1>10. CASE UNCHANGED vars
    BY <1>10 DEF vars, TypeOK, Progress, HasGoal
<1>. QED
    BY <1>1, <1>2, <1>3, <1>4, <1>5, <1>6, <1>7, <1>8, <1>9, <1>10
    DEF Next, Command, Continue

\* The invariant the other theorems rest on.
THEOREM Invariance == Spec => []IInv
<1>. QED
    BY InvInit, InvNext, PTL DEF Spec

\* The state keeps its types, and the byte that counts the tracks never wraps.
THEOREM TypeCorrect == Spec => []TypeOK
<1>1. IInv => TypeOK
    BY DEF IInv
<1>. QED
    BY <1>1, Invariance, PTL

\* With a try left for each cylinder the head arrives.
LEMMA FindsTrack0 == IInv => RecalibrationFinds
<1>. SUFFICES ASSUME IInv, op = "recalibrate", tries = MaxSteps,
                     active \in Connected
              PROVE  FALSE
    BY DEF RecalibrationFinds
<1>1. position[active] \in 0 .. MaxCylinder
    BY DEF IInv, TypeOK, Cylinders
<1>2. position[active] + tries <= MaxCylinder
    BY DEF IInv, Progress
<1>. QED
    BY <1>1, <1>2, Assumptions

\* The 85 tries are enough for every head whose way is shorter.
THEOREM Recalibrates == Spec => []RecalibrationFinds
<1>. QED
    BY FindsTrack0, Invariance, PTL

-------------------------------------------------------------------------------
(* The counter and the head. *)

\* What both theorems need of a step that moves no head.
LEMMA Still ==
    ASSUME UNCHANGED <<counter, position>>,
           NEW d \in Connected, Known(d)' => Known(d)
    PROVE  /\ (Known(d) => position[d] <= counter[d])
                => (Known(d)' => position'[d] <= counter'[d])
           /\ (Known(d) => position[d] = counter[d])
                => (Known(d)' => position'[d] = counter'[d])
OBVIOUS

\* A step other than the pulses and the end of a recalibration moves no head
\* and makes no counter known, unless the head is at track 0.
LEMMA NoNewKnowledge ==
    ASSUME IInv, NEW d \in Connected,
           \/ \E type \in Selectable : Select(type)
           \/ Recalibrate
           \/ \E track \in Targets : Seek(track)
           \/ RecalibrateFailed
           \/ SeekEnd
           \/ UNCHANGED vars
    PROVE  UNCHANGED <<counter, position>> /\ (Known(d)' => Known(d))
<1>. USE DEF Known, Trusted
<1>1. ASSUME NEW type \in Selectable, Select(type)
      PROVE  UNCHANGED <<counter, position>> /\ (Known(d)' => Known(d))
    BY <1>1 DEF Select
<1>2. CASE Recalibrate
    BY <1>2 DEF Recalibrate
<1>3. ASSUME NEW track \in Targets, Seek(track)
      PROVE  UNCHANGED <<counter, position>> /\ (Known(d)' => Known(d))
  <2>1. counter[active] # 0 => counter[active] > 0
      BY DEF IInv, TypeOK, Byte
  <2>. QED
      BY <1>3, <2>1 DEF Seek
<1>4. CASE RecalibrateFailed
  <2>1. d # active
      BY <1>4, FindsTrack0 DEF RecalibrateFailed, RecalibrationFinds
  <2>. QED
      BY <1>4, <2>1 DEF RecalibrateFailed
<1>5. CASE SeekEnd
    BY <1>5 DEF SeekEnd
<1>6. CASE UNCHANGED vars
    BY <1>6 DEF vars
<1>. QED
    BY <1>1, <1>2, <1>3, <1>4, <1>5, <1>6

\* At track 0 a counter that becomes known is right.
LEMMA StatusKnows ==
    ASSUME IInv, GetStatus, NEW d \in Connected, Known(d)'
    PROVE  /\ UNCHANGED <<counter, position>>
           /\ Known(d) \/ (position[d] = 0 /\ counter[d] = 0)
<1>1. counter[d] \in 0 .. 255
    BY Assumptions DEF IInv, TypeOK, Byte
<1>2. active \in Types /\ track0 \in [Types -> BOOLEAN]
    BY DEF IInv, TypeOK
<1>. QED
    BY <1>1, <1>2, Assumptions DEF GetStatus, Known, Trusted, AtTrack0

\* Recalibration that found the sensor leaves the counter right.
LEMMA FoundKnows ==
    ASSUME IInv, RecalibrateFound, NEW d \in Connected
    PROVE  /\ d = active => position'[d] = 0 /\ counter'[d] = 0
           /\ d # active => /\ position'[d] = position[d]
                            /\ counter'[d] = counter[d]
                            /\ Known(d)' => Known(d)
<1>. USE DEF RecalibrateFound, AtTrack0
<1>1. counter' = [counter EXCEPT ![active] = 0] /\ active \in Types
    BY DEF IInv, TypeOK
<1>2. track0' = [track0 EXCEPT ![active] = TRUE]
    OBVIOUS
<1>3. d \in Types /\ counter \in [Types -> Byte] /\ track0 \in [Types -> BOOLEAN]
    BY Assumptions DEF IInv, TypeOK
<1>. QED
    BY <1>1, <1>2, <1>3 DEF Known, Trusted

\* A pulse outwards keeps both relations.
LEMMA StepOutKeeps ==
    ASSUME IInv, StepOut, UNCHANGED <<active, track0, op>>,
           NEW d \in Connected
    PROVE  /\ (Known(d) => position[d] <= counter[d])
                => (Known(d)' => position'[d] <= counter'[d])
           /\ (Known(d) => position[d] = counter[d])
                => (Known(d)' => position'[d] = counter'[d])
<1>1. position[d] \in 0 .. MaxCylinder /\ counter[d] \in 0 .. 255
    BY Assumptions DEF IInv, TypeOK, Cylinders, Byte
<1>2. CASE d # active
  <2>1. position'[d] = position[d] /\ counter'[d] = counter[d]
      BY <1>2, StepOutMoves, StepOutCounts, Assumptions DEF IInv
  <2>. QED
      BY <1>2, <2>1 DEF Known, Trusted
<1>3. CASE d = active
  <2>1. position'[d] = IF position[d] > 0 THEN position[d] - 1 ELSE position[d]
      BY <1>3, StepOutMoves DEF IInv
  <2>2. counter'[d] = IF counter[d] > 0 THEN counter[d] - 1 ELSE 0
      BY <1>3, StepOutCounts DEF IInv
  <2>3. Known(d)' => Known(d)
      BY <1>1, <1>3, <2>2 DEF Known, Trusted
  <2>. QED
      BY <1>1, <1>3, <2>1, <2>2, <2>3, Assumptions
<1>. QED
    BY <1>2, <1>3

\* A pulse inwards keeps the second one as long as the head follows it.
LEMMA StepInKeeps ==
    ASSUME IInv, StepIn, op = "seek", UNCHANGED <<active, track0, op>>,
           counter[active] < goal, NEW d \in Connected
    PROVE  /\ (Known(d) => position[d] <= counter[d])
                => (Known(d)' => position'[d] <= counter'[d])
           /\ d \notin stopped' =>
                ((Known(d) => position[d] = counter[d])
                   => (Known(d)' => position'[d] = counter'[d]))
           /\ stopped \subseteq stopped'
<1>1. position[d] \in 0 .. MaxCylinder /\ counter[d] \in 0 .. 255
    BY Assumptions DEF IInv, TypeOK, Cylinders, Byte
<1>2. goal \in 0 .. 255 /\ counter[active] < 255
    BY GoalIsByte DEF IInv
<1>3. stopped \subseteq stopped'
    BY DEF StepIn
<1>4. CASE d # active
  <2>1. position'[d] = position[d] /\ counter'[d] = counter[d]
      BY <1>2, <1>4, StepInMoves, StepInCounts, Assumptions DEF IInv
  <2>. QED
      BY <1>4, <1>3, <2>1 DEF Known, Trusted
<1>5. CASE d = active
  <2>1. position'[d] =
           IF position[d] < MaxCylinder THEN position[d] + 1 ELSE position[d]
      BY <1>5, StepInMoves DEF IInv
  <2>2. counter'[d] = counter[d] + 1
      BY <1>2, <1>5, StepInCounts DEF IInv
  <2>3. Known(d)
      BY <1>5 DEF Known
  <2>4. d \notin stopped' => position[d] < MaxCylinder
      BY <1>1, <1>5, Assumptions DEF StepIn
  <2>. QED
      BY <1>1, <1>2, <1>5, <1>3, <2>1, <2>2, <2>3, <2>4, Assumptions
<1>. QED
    BY <1>4, <1>5

\* Every step keeps the head at or below a known counter.
LEMMA NotBeyondNext ==
    ASSUME IInv, NotBeyond, [Next]_vars
    PROVE  NotBeyond'
<1>. SUFFICES ASSUME NEW d \in Connected
              PROVE  Known(d)' => position'[d] <= counter'[d]
    BY DEF NotBeyond
<1>1. Known(d) => position[d] <= counter[d]
    BY DEF NotBeyond
<1>2. CASE \/ \E type \in Selectable : Select(type)
           \/ Recalibrate
           \/ \E track \in Targets : Seek(track)
           \/ RecalibrateFailed
           \/ SeekEnd
           \/ UNCHANGED vars
  <2>1. UNCHANGED <<counter, position>> /\ (Known(d)' => Known(d))
      BY <1>2, NoNewKnowledge
  <2>. QED
      BY <1>1, <2>1, Still
<1>3. CASE GetStatus
  <2>1. SUFFICES ASSUME Known(d)' PROVE position'[d] <= counter'[d]
      OBVIOUS
  <2>2. CASE Known(d)
      BY <1>1, <1>3, <2>1, <2>2, StatusKnows
  <2>3. CASE position[d] = 0 /\ counter[d] = 0
      BY <1>3, <2>1, <2>3, StatusKnows
  <2>. QED
      BY <1>3, <2>1, <2>2, <2>3, StatusKnows
<1>4. CASE RecalibrateFound
  <2>1. CASE d = active
      BY <1>4, <2>1, FoundKnows
  <2>2. CASE d # active
      BY <1>1, <1>4, <2>2, FoundKnows
  <2>. QED
      BY <2>1, <2>2
<1>5. CASE RecalibrateStep
    BY <1>1, <1>5, StepOutKeeps DEF RecalibrateStep
<1>6. CASE SeekStep /\ StepOut
    BY <1>1, <1>6, StepOutKeeps DEF SeekStep
<1>7. CASE SeekStep /\ counter[active] < goal /\ StepIn
    BY <1>1, <1>7, StepInKeeps DEF SeekStep
<1>. QED
    BY <1>2, <1>3, <1>4, <1>5, <1>6, <1>7
    DEF Next, Command, Continue, SeekStep

\* Every step keeps a known counter exact, until the head meets the end of its way.
LEMMA ExactNext ==
    ASSUME IInv, Exact, [Next]_vars
    PROVE  Exact'
<1>. SUFFICES ASSUME NEW d \in Connected, d \notin stopped'
              PROVE  Known(d)' => position'[d] = counter'[d]
    BY DEF Exact
<1>1. d \notin stopped => (Known(d) => position[d] = counter[d])
    BY DEF Exact
<1>2. CASE \/ \E type \in Selectable : Select(type)
           \/ Recalibrate
           \/ \E track \in Targets : Seek(track)
           \/ RecalibrateFailed
           \/ SeekEnd
           \/ UNCHANGED vars
  <2>1. UNCHANGED <<counter, position>> /\ (Known(d)' => Known(d))
      BY <1>2, NoNewKnowledge
  <2>2. stopped' = stopped
      BY <1>2 DEF Select, Recalibrate, Seek, RecalibrateFailed, SeekEnd, vars
  <2>. QED
      BY <1>1, <2>1, <2>2, Still
<1>3. CASE GetStatus
  <2>1. SUFFICES ASSUME Known(d)' PROVE position'[d] = counter'[d]
      OBVIOUS
  <2>2. CASE Known(d)
      BY <1>1, <1>3, <2>1, <2>2, StatusKnows DEF GetStatus
  <2>3. CASE position[d] = 0 /\ counter[d] = 0
      BY <1>3, <2>1, <2>3, StatusKnows
  <2>. QED
      BY <1>3, <2>1, <2>2, <2>3, StatusKnows
<1>4. CASE RecalibrateFound
  <2>1. CASE d = active
      BY <1>4, <2>1, FoundKnows
  <2>2. CASE d # active
      BY <1>1, <1>4, <2>2, FoundKnows DEF RecalibrateFound
  <2>. QED
      BY <2>1, <2>2
<1>5. CASE RecalibrateStep
    BY <1>1, <1>5, StepOutKeeps DEF RecalibrateStep, StepOut
<1>6. CASE SeekStep /\ StepOut
    BY <1>1, <1>6, StepOutKeeps DEF SeekStep, StepOut
<1>7. CASE SeekStep /\ counter[active] < goal /\ StepIn
    BY <1>1, <1>7, StepInKeeps DEF SeekStep
<1>. QED
    BY <1>2, <1>3, <1>4, <1>5, <1>6, <1>7
    DEF Next, Command, Continue, SeekStep

\* Whatever tracks the host asks for, a head is never further in than its
\* counter says.
THEOREM HeadIsNotBeyond == Spec => []HeadNotBeyondCounter
<1>1. Init => NotBeyond
    BY Assumptions DEF Init, NotBeyond, Known, Trusted
<1>2. IInv /\ NotBeyond /\ [Next]_vars => NotBeyond'
    BY NotBeyondNext
<1>3. NotBeyond => HeadNotBeyondCounter
    BY DEF NotBeyond, HeadNotBeyondCounter, Known
<1>. QED
    BY <1>1, <1>2, <1>3, Invariance, PTL DEF Spec

\* Until the head meets the end of its way, a known counter is the cylinder.
THEOREM CounterIsExact == Spec => []CounterIsHead
<1>1. Init => Exact
    BY Assumptions DEF Init, Exact, Known, Trusted
<1>2. IInv /\ Exact /\ [Next]_vars => Exact'
    BY ExactNext
<1>3. Exact => CounterIsHead
    BY DEF Exact, CounterIsHead, Known
<1>. QED
    BY <1>1, <1>2, <1>3, Invariance, PTL DEF Spec

\* What a counter in use tells of its head, driven against the end or not.
THEOREM CounterTells == Spec => []CounterTellsHead
<1>1. CounterIsHead /\ HeadNotBeyondCounter => CounterTellsHead
    BY DEF CounterTellsHead
<1>. QED
    BY <1>1, CounterIsExact, HeadIsNotBeyond, PTL

-------------------------------------------------------------------------------
(* Every function ends. *)

\* What is left of the function that runs: tries of a recalibration, with the longest
\* seek that may follow it, or the distance of the counter from the goal.
Distance == IF counter[active] < goal THEN goal - counter[active] ELSE counter[active] - goal

Rest == IF op = "recalibrate" THEN 257 + (MaxSteps - tries)
        ELSE IF op = "seek" THEN 1 + Distance
        ELSE 0

\* A seek is at most the range of the byte away from its goal.
LEMMA DistanceOfBytes ==
    IInv => (op = "seek" => Distance \in 0 .. 255)
<1>. SUFFICES ASSUME IInv, op = "seek" PROVE Distance \in 0 .. 255
    OBVIOUS
<1>1. goal \in 0 .. 255 /\ counter[active] \in 0 .. 255
    BY GoalIsByte DEF IInv
<1>2. \A m, n \in 0 .. 255 : (IF m < n THEN n - m ELSE m - n) \in 0 .. 255
    OBVIOUS
<1>. QED
    BY <1>1, <1>2 DEF Distance

\* What is left is a natural number.
LEMMA RestIsCounted == IInv => Rest \in Nat
<1>. SUFFICES ASSUME IInv PROVE Rest \in Nat
    OBVIOUS
<1>1. CASE op = "recalibrate"
  <2>1. tries \in 0 .. MaxSteps /\ MaxSteps \in Nat
      BY Assumptions DEF IInv, TypeOK
  <2>. QED
      BY <1>1, <2>1 DEF Rest
<1>2. CASE op = "seek"
  <2>1. Distance \in 0 .. 255
      BY <1>2, DistanceOfBytes
  <2>. QED
      BY <1>2, <2>1 DEF Rest
<1>3. CASE op = "none"
    BY <1>3 DEF Rest
<1>. QED
    BY <1>1, <1>2, <1>3 DEF IInv, TypeOK

\* The same after a step.
LEMMA StillCounted ==
    IInv' => Rest' \in Nat /\ (op' = "seek" => Distance' \in 0 .. 255)
<1>1. IInv' => (Rest \in Nat)'
    BY RestIsCounted, PTL
<1>2. IInv' => (op = "seek" => Distance \in 0 .. 255)'
    BY DistanceOfBytes, PTL
<1>. QED
    BY <1>1, <1>2

\* A recalibration that returns leaves a seek, or nothing.
LEMMA RecalibratedDecreases ==
    ASSUME IInv, IInv', op = "recalibrate", tries \in 0 .. MaxSteps, NEW res, Recalibrated(res)
    PROVE  Rest' < Rest
<1>1. Rest >= 257
    BY Assumptions DEF Rest
<1>2. op' = "none" \/ op' = "seek"
    BY DEF Recalibrated
<1>3. CASE op' = "none"
    BY <1>1, <1>3, Assumptions DEF Rest
<1>4. CASE op' = "seek"
  <2>1. Distance' \in 0 .. 255
      BY <1>4, StillCounted
  <2>2. Rest' = 1 + Distance'
      BY <1>4 DEF Rest
  <2>. QED
      BY <1>1, <2>1, <2>2, RestIsCounted
<1>. QED
    BY <1>2, <1>3, <1>4

\* Every step of a function leaves less of it.
LEMMA ContinueDecreases ==
    ASSUME IInv, IInv', Continue
    PROVE  Rest' < Rest
<1>0. tries \in 0 .. MaxSteps /\ MaxSteps \in Nat
    BY Assumptions DEF IInv, TypeOK
<1>1. CASE RecalibrateFound
    BY <1>0, <1>1, RecalibratedDecreases DEF RecalibrateFound
<1>2. CASE RecalibrateStep
  <2>1. op = "recalibrate" /\ op' = "recalibrate" /\ tries' = tries + 1
      BY <1>2 DEF RecalibrateStep
  <2>. QED
      BY <1>0, <2>1, Assumptions DEF Rest
<1>3. CASE RecalibrateFailed
    BY <1>0, <1>3, RecalibratedDecreases DEF RecalibrateFailed
<1>4. CASE SeekStep
  <2>1. op = "seek" /\ op' = "seek" /\ goal' = goal /\ active' = active
      BY <1>4 DEF SeekStep
  <2>2. goal \in 0 .. 255 /\ counter[active] \in 0 .. 255
      BY <2>1, GoalIsByte DEF IInv
  <2>3. CASE counter[active] < goal /\ StepIn
    <3>1. counter'[active] = counter[active] + 1
        BY <2>2, <2>3, StepInCounts DEF IInv
    <3>2. Distance = goal - counter[active]
        BY <2>3 DEF Distance
    <3>3. Distance' = goal - (counter[active] + 1)
        BY <2>1, <2>2, <2>3, <3>1 DEF Distance
    <3>. QED
        BY <2>1, <2>2, <3>2, <3>3 DEF Rest
  <2>4. CASE counter[active] > goal /\ StepOut
    <3>1. counter'[active] = counter[active] - 1
        BY <2>2, <2>4, StepOutCounts DEF IInv
    <3>2. Distance = counter[active] - goal
        BY <2>2, <2>4 DEF Distance
    <3>3. Distance' = (counter[active] - 1) - goal
        BY <2>1, <2>2, <2>4, <3>1 DEF Distance
    <3>. QED
        BY <2>1, <2>2, <3>2, <3>3 DEF Rest
  <2>. QED
      BY <1>4, <2>3, <2>4 DEF SeekStep
<1>5. CASE SeekEnd
  <2>1. op = "seek" /\ op' = "none"
      BY <1>5 DEF SeekEnd
  <2>2. Distance \in 0 .. 255
      BY <2>1, DistanceOfBytes
  <2>. QED
      BY <2>1, <2>2 DEF Rest
<1>. QED
    BY <1>1, <1>2, <1>3, <1>4, <1>5 DEF Continue

\* Every step of a recalibration or a seek brings it nearer to its end, for every drive,
\* also one that is missing, and every track asked for; only a new command adds anything.
\* So the two loops end (ufi_main.c, lines 309 to 347).
THEOREM FunctionsAreFinite ==
    Spec => /\ [](Rest \in Nat)
            /\ [][Continue => Rest' < Rest]_vars
            /\ [][Rest' > Rest => Command]_vars
<1>1. IInv => Rest \in Nat
    BY RestIsCounted
<1>2. IInv /\ IInv' /\ [Next]_vars => [Continue => Rest' < Rest]_vars
    BY ContinueDecreases
<1>3. IInv /\ IInv' /\ [Next]_vars => [Rest' > Rest => Command]_vars
  <2>. SUFFICES ASSUME IInv, IInv', Next, ~Command PROVE ~(Rest' > Rest)
      OBVIOUS
  <2>1. Rest \in Nat
      BY RestIsCounted
  <2>2. Rest' \in Nat
      BY StillCounted
  <2>3. Rest' < Rest
      BY ContinueDecreases DEF Next
  <2>. QED
      BY <2>1, <2>2, <2>3
<1>. QED
    BY <1>1, <1>2, <1>3, Invariance, PTL DEF Spec

===============================================================================
