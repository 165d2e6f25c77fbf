-------------------------- MODULE DriveControl_proof --------------------------
(***************************************************************************)
(* Proofs about DriveControl, for every set of drives and of types, every  *)
(* way of the heads, and every number of steps.                            *)
(***************************************************************************)
EXTENDS DriveControl, TLAPS

\* What is selected is exactly the drive of the current type; a Disk II may be off.
Selection == current # "APPLE_II" => selected = DriveOf(current)

\* Only a Shugart drive on the cable shows TRACK0.
OnTrack0 == \A t \in known : DriveOf(t) \subseteq Connected \cap Shugarts

IInv == TypeOK /\ PinsAgree /\ Selection /\ OnTrack0 /\ CounterIsHead

-------------------------------------------------------------------------------
(* The drives of the types, and one step. *)

\* A type stands for at most one drive.
LEMMA DriveOfType ==
    ASSUME NEW t \in Types
    PROVE  /\ DriveOf(t) \subseteq Drives
           /\ \A c, d \in DriveOf(t) : c = d
           /\ "II" \in DriveOf(t) <=> t = "APPLE_II"
<1>1. CASE t \in {"SHUGART_A", "AMIGA"}
    BY <1>1 DEF DriveOf, Drives, Shugarts
<1>2. CASE t = "SHUGART_B"
    BY <1>2 DEF DriveOf, Drives, Shugarts
<1>3. CASE t = "APPLE_II"
    BY <1>3 DEF DriveOf, Drives, Shugarts
<1>4. CASE t \in {"NONE", "IEC"}
    BY <1>4 DEF DriveOf, Drives, Shugarts
<1>. QED
    BY <1>1, <1>2, <1>3, <1>4 DEF Types

\* The head of a Disk II stays within its way,
LEMMA AppleHeadMoves ==
    ASSUME TypeOK, NEW d \in {-1, 1}, "II" \in Connected
    PROVE  AppleHeads(d) \subseteq 0 .. LastHalf
<1>1. head["II"] \in 0 .. LastHalf
    BY DEF TypeOK, Way
<1>. QED
    BY <1>1 DEF AppleHeads, Pulled

\* and so do the heads of the Shugart drives.
LEMMA ShugartHeadMoves ==
    ASSUME TypeOK, NEW d \in {-1, 1}
    PROVE  /\ ShugartHeads(d) \in [Connected -> Nat]
           /\ \A m \in Connected : ShugartHeads(d)[m] <= Way(m)
<1>1. SUFFICES ASSUME NEW m \in Connected
               PROVE  ShugartHeads(d)[m] \in Nat /\ ShugartHeads(d)[m] <= Way(m)
    BY DEF ShugartHeads
<1>2. ShugartHeads(d)[m] =
        IF m \in selected \cap Shugarts /\ head[m] + d \in 0 .. LastCylinder
          THEN head[m] + d ELSE head[m]
    BY DEF ShugartHeads
<1>3. head[m] \in Nat /\ head[m] <= Way(m)
    BY DEF TypeOK
<1>4. m \in Shugarts => Way(m) = LastCylinder
    BY DEF Shugarts, Way
<1>5. LastCylinder \in Nat
    BY ControlAssumption
<1>. QED
    BY <1>2, <1>3, <1>4, <1>5

\* A step keeps heads, phase and coils in their sets, and one coil at most active.
LEMMA MoveType ==
    ASSUME TypeOK, NEW d \in {-1, 1}, MoveHead(d)
    PROVE  /\ head' \in [Connected -> Nat]
           /\ \A m \in Connected : head'[m] <= Way(m)
           /\ phase' \in 0 .. 3 /\ odd' \in BOOLEAN /\ coils' \subseteq 0 .. 3
           /\ coils \subseteq {phase} => coils' \subseteq {phase'}
<1>0. phase \in 0 .. 3 /\ odd \in BOOLEAN /\ coils \subseteq 0 .. 3
      /\ head \in [Connected -> Nat] /\ \A m \in Connected : head[m] <= Way(m)
    BY DEF TypeOK
<1>1. CASE current = "APPLE_II"
    <2>1. phase + d + 4 \in Nat
        BY <1>0
    <2>2. NextPhase(d) \in 0 .. 3
        BY <2>1 DEF NextPhase
    <2>3. phase' = NextPhase(d) /\ odd' = ~odd
          /\ coils' = (coils \ {phase}) \cup {NextPhase(d)}
        BY <1>1 DEF MoveHead
    <2>4. /\ head' \in [Connected -> Nat]
          /\ \A m \in Connected : head'[m] <= Way(m)
        <3>1. CASE "II" \in selected \cap Connected
            <4>1. PICK h \in AppleHeads(d) : head' = [head EXCEPT !["II"] = h]
                BY <1>1, <3>1 DEF MoveHead
            <4>2. h \in 0 .. LastHalf /\ LastHalf \in Nat
                BY <3>1, AppleHeadMoves, ControlAssumption
            <4>3. h \in Nat /\ h <= Way("II")
                BY <4>2 DEF Way
            <4>. QED
                BY <1>0, <4>1, <4>3
        <3>2. CASE ~("II" \in selected \cap Connected)
            BY <1>0, <1>1, <3>2 DEF MoveHead
        <3>. QED
            BY <3>1, <3>2
    <2>. QED
        BY <1>0, <2>2, <2>3, <2>4
<1>2. CASE current # "APPLE_II"
    <2>1. head' = ShugartHeads(d) /\ phase' = phase /\ odd' = odd /\ coils' = coils
        BY <1>2 DEF MoveHead
    <2>. QED
        BY <1>0, <2>1, ShugartHeadMoves
<1>. QED
    BY <1>1, <1>2

\* A counter stays in its range.
LEMMA CountType ==
    ASSUME TypeOK, NEW d \in {-1, 1}
    PROVE  Counted(d) \in 0 .. LastTrack \cup 0 .. LastApple
<1>1. track[current] \in 0 .. LastTrack \cup 0 .. LastApple
    BY DEF TypeOK
<1>2. LastTrack \in Nat /\ LastApple \in Nat
    BY ControlAssumption
<1>. QED
    BY <1>1, <1>2 DEF Counted

\* Only the counter of the current type is set.
LEMMA SetTrackType ==
    ASSUME TypeOK, NEW n \in 0 .. LastTrack \cup 0 .. LastApple, SetTrack(n)
    PROVE  /\ track' \in [Types -> 0 .. LastTrack \cup 0 .. LastApple]
           /\ track'[current] = n
           /\ \A t \in Types \ {current} : track'[t] = track[t]
BY DEF TypeOK, SetTrack

\* A step does not touch a drive that is not selected, and keeps a known position.
LEMMA StepKeepsKnown ==
    ASSUME IInv, NEW d \in {-1, 1}, MoveHead(d), SetTrack(Counted(d)), NEW t \in StillKnown(d)
    PROVE  \A m \in DriveOf(t) : head'[m] = track'[t]
<1>. DEFINE c == track[current]
<1>1. t \in known /\ t \in Types /\ known \subseteq Types /\ current \in Types
    BY DEF IInv, TypeOK, StillKnown
<1>2. Counted(d) \in 0 .. LastTrack \cup 0 .. LastApple
    BY CountType DEF IInv
<1>3. track'[current] = Counted(d) /\ \A u \in Types \ {current} : track'[u] = track[u]
    BY <1>2, SetTrackType DEF IInv
<1>4. DriveOf(t) \subseteq Connected \cap Shugarts /\ \A m \in DriveOf(t) : head[m] = track[t]
    BY <1>1 DEF IInv, OnTrack0, CounterIsHead
<1>5. SUFFICES ASSUME NEW m \in DriveOf(t) PROVE head'[m] = track'[t]
    OBVIOUS
<1>6. m \in Connected /\ m \in Shugarts /\ m # "II" /\ head[m] = track[t] /\ head[m] \in Nat
    BY <1>4 DEF Shugarts, IInv, TypeOK
<1>7. CASE t = current
    <2>1. current # "APPLE_II"
        BY <1>1, <1>4, <1>7, DriveOfType DEF Shugarts
    <2>2. selected = DriveOf(current)
        BY <2>1 DEF IInv, Selection
    <2>3. head' = ShugartHeads(d)
        BY <2>1 DEF MoveHead
    <2>4. head'[m] = IF head[m] + d \in 0 .. LastCylinder THEN head[m] + d ELSE head[m]
        BY <1>6, <1>7, <2>2, <2>3 DEF ShugartHeads
    <2>5. d = 1 => head[m] < LastCylinder
        BY <1>7 DEF StillKnown
    <2>6. head[m] <= LastCylinder /\ LastCylinder \in Nat /\ LastTrack \in Nat
          /\ LastCylinder <= LastTrack
        BY <1>6, ControlAssumption DEF IInv, TypeOK, Way
    <2>7. Counted(d) = IF d = 1 /\ head[m] < LastTrack THEN head[m] + 1
                       ELSE IF d = -1 /\ head[m] > 0 THEN head[m] - 1 ELSE head[m]
        BY <1>6, <1>7, <2>1 DEF Counted
    <2>8. CASE d = 1
        BY <1>3, <1>6, <1>7, <2>4, <2>5, <2>6, <2>7, <2>8
    <2>9. CASE d = -1
        BY <1>3, <1>6, <1>7, <2>4, <2>6, <2>7, <2>9
    <2>. QED
        BY <2>8, <2>9
<1>8. CASE t # current
    <2>1. m \notin selected
        BY <1>8 DEF StillKnown
    <2>2. head'[m] = head[m]
        <3>1. CASE current = "APPLE_II"
            <4>1. head' = head \/ \E h \in AppleHeads(d) : head' = [head EXCEPT !["II"] = h]
                BY <3>1 DEF MoveHead
            <4>. QED
                BY <1>6, <4>1 DEF IInv, TypeOK
        <3>2. CASE current # "APPLE_II"
            BY <1>6, <2>1, <3>2 DEF MoveHead, ShugartHeads
        <3>. QED
            BY <3>1, <3>2
    <2>. QED
        BY <1>1, <1>3, <1>6, <1>8, <2>2
<1>. QED
    BY <1>7, <1>8

\* TRACK0 is that of the drive of the current type.
LEMMA Track0IsCurrent ==
    ASSUME IInv, NEW heads, AtTrack0(heads)
    PROVE  /\ DriveOf(current) \subseteq Connected \cap Shugarts
           /\ \A m \in DriveOf(current) : heads[m] = 0
<1>1. PICK d \in selected \cap Connected \cap Shugarts : heads[d] = 0
    BY DEF AtTrack0
<1>2. d \in DriveOf(current) /\ current \in Types
    BY <1>1 DEF IInv, PinsAgree, TypeOK
<1>. QED
    BY <1>1, <1>2, DriveOfType

-------------------------------------------------------------------------------
(* The invariant. *)

\* What a step of any function establishes, whatever it does to op and left.
LEMMA Stepped ==
    ASSUME IInv, NEW d \in {-1, 1}, MoveHead(d), SetTrack(Counted(d)), known' = StillKnown(d),
           op' \in {"none", "seek", "recalibrate"}, dir' \in {-1, 1}, left' \in Nat
    PROVE  IInv'
<1>1. /\ UNCHANGED <<current, side, motorOn, selected, spinning, sideHigh>>
      /\ known' \subseteq known
    BY DEF MoveHead, StillKnown
<1>2. TypeOK /\ PinsAgree /\ Selection /\ OnTrack0
    BY DEF IInv
<1>3. track' \in [Types -> 0 .. LastTrack \cup 0 .. LastApple]
    BY <1>2, CountType, SetTrackType
<1>4. TypeOK'
    BY <1>1, <1>2, <1>3, MoveType DEF TypeOK
<1>5. PinsAgree'
    BY <1>1, <1>2, MoveType DEF PinsAgree
<1>6. Selection' /\ OnTrack0'
    BY <1>1, <1>2 DEF Selection, OnTrack0
<1>7. CounterIsHead'
    BY StepKeepsKnown DEF CounterIsHead
<1>. QED
    BY <1>4, <1>5, <1>6, <1>7 DEF IInv

\* The same for a step that ends on TRACK0.
LEMMA SteppedToTrack0 ==
    ASSUME IInv, NEW d \in {-1, 1}, MoveHead(d), AtTrack0(head'), SetTrack(0),
           known' = StillKnown(d) \cup {current},
           op' \in {"none", "seek", "recalibrate"}, dir' \in {-1, 1}, left' \in Nat
    PROVE  IInv'
<1>1. /\ UNCHANGED <<current, side, motorOn, selected, spinning, sideHigh>>
      /\ StillKnown(d) \subseteq known
    BY DEF MoveHead, StillKnown
<1>2. TypeOK /\ PinsAgree /\ Selection /\ OnTrack0 /\ CounterIsHead
    BY DEF IInv
<1>3. 0 \in 0 .. LastTrack
    BY ControlAssumption
<1>4. /\ track' \in [Types -> 0 .. LastTrack \cup 0 .. LastApple]
      /\ track'[current] = 0
      /\ \A t \in Types \ {current} : track'[t] = track[t]
    BY <1>2, <1>3, SetTrackType
<1>5. TypeOK'
    BY <1>1, <1>2, <1>4, MoveType DEF TypeOK
<1>6. PinsAgree'
    BY <1>1, <1>2, MoveType DEF PinsAgree
<1>7. /\ DriveOf(current) \subseteq Connected \cap Shugarts
      /\ \A m \in DriveOf(current) : head'[m] = 0
    BY Track0IsCurrent
<1>8. Selection' /\ OnTrack0'
    BY <1>1, <1>2, <1>7 DEF Selection, OnTrack0
<1>9. CounterIsHead'
    <2>1. SUFFICES ASSUME NEW t \in known', t # current, NEW m \in DriveOf(t)
                   PROVE  head'[m] = track'[t]
        BY <1>4, <1>7 DEF CounterIsHead
    <2>2. t \in known /\ t \in Types /\ DriveOf(t) \cap selected = {}
        BY <1>1, <1>2, <2>1 DEF StillKnown, TypeOK
    <2>3. m \in Connected /\ m \in Shugarts /\ m # "II" /\ m \notin selected
          /\ head[m] = track[t]
        BY <1>2, <2>2 DEF OnTrack0, CounterIsHead, Shugarts
    <2>4. head'[m] = head[m]
        <3>1. CASE current = "APPLE_II"
            <4>1. head' = head \/ \E h \in AppleHeads(d) : head' = [head EXCEPT !["II"] = h]
                BY <3>1 DEF MoveHead
            <4>. QED
                BY <1>2, <2>3, <4>1 DEF TypeOK
        <3>2. CASE current # "APPLE_II"
            BY <2>3, <3>2 DEF MoveHead, ShugartHeads
        <3>. QED
            BY <3>1, <3>2
    <2>. QED
        BY <1>4, <2>1, <2>2, <2>3, <2>4
<1>. QED
    BY <1>5, <1>6, <1>8, <1>9 DEF IInv

\* Functions that only change op, dir and left.
LEMMA HeadStays ==
    ASSUME IInv, UNCHANGED <<current, status, phase, odd, pins, head, known>>,
           op' \in {"none", "seek", "recalibrate"}, dir' \in {-1, 1}, left' \in Nat
    PROVE  IInv'
<1>1. TypeOK'
    BY DEF IInv, TypeOK, status, pins
<1>2. PinsAgree' /\ Selection' /\ OnTrack0' /\ CounterIsHead'
    BY DEF IInv, PinsAgree, Selection, OnTrack0, CounterIsHead, status, pins
<1>. QED
    BY <1>1, <1>2 DEF IInv

\* It holds at the start.
LEMMA InitInvariant == Init => IInv
<1>. SUFFICES ASSUME Init PROVE IInv
    OBVIOUS
<1>1. 0 \in 0 .. LastTrack /\ LastCylinder \in Nat /\ LastHalf \in Nat
    BY ControlAssumption
<1>2. head \in [Connected -> Nat] /\ \A d \in Connected : head[d] <= Way(d)
    BY <1>1 DEF Init
<1>3. TypeOK
    <2>1. track \in [Types -> 0 .. LastTrack \cup 0 .. LastApple]
        BY <1>1 DEF Init
    <2>2. side \in [Types -> Nat] /\ motorOn \in [Types -> BOOLEAN]
        BY DEF Init
    <2>3. current \in Types
        BY DEF Init, Types
    <2>4. odd \in BOOLEAN /\ sideHigh \in BOOLEAN
        BY DEF Init
    <2>6. /\ phase \in 0 .. 3
          /\ selected \subseteq Drives /\ spinning \subseteq Shugarts
          /\ coils \subseteq 0 .. 3 /\ known \subseteq Types
        BY DEF Init
    <2>5. op \in {"none", "seek", "recalibrate"} /\ dir \in {-1, 1} /\ left \in Nat
        BY DEF Init
    <2>. QED
        BY <1>2, <2>1, <2>2, <2>3, <2>4, <2>5, <2>6 DEF TypeOK
<1>4. DriveOf("NONE") = {}
    BY DEF DriveOf
<1>5. PinsAgree /\ Selection /\ OnTrack0 /\ CounterIsHead
    BY <1>4 DEF Init, PinsAgree, Selection, OnTrack0, CounterIsHead
<1>. QED
    BY <1>3, <1>5 DEF IInv

\* Selecting, switching the motor and the side.
LEMMA SwitchesKeep ==
    ASSUME IInv, \/ \E t \in Selectable : Select(t)
                 \/ \E on \in BOOLEAN : Motor(on)
                 \/ \E s \in Sides : SelectSide(s)
    PROVE  IInv'
<1>0. /\ TypeOK /\ PinsAgree /\ Selection /\ OnTrack0 /\ CounterIsHead
      /\ current \in Types
    BY DEF IInv, TypeOK
<1>1. CASE \E t \in Selectable : Select(t)
    <2>1. PICK t \in Selectable : Select(t)
        BY <1>1
    <2>2. t \in Types /\ DriveOf(t) \subseteq Drives
        BY ControlAssumption, DriveOfType
    <2>3. TypeOK'
        BY <1>0, <2>1, <2>2 DEF Select, Returns, TypeOK, status
    <2>4. PinsAgree' /\ Selection' /\ OnTrack0' /\ CounterIsHead'
        BY <1>0, <2>1 DEF Select, status, PinsAgree, Selection, OnTrack0, CounterIsHead
    <2>. QED
        BY <2>3, <2>4 DEF IInv
<1>2. CASE \E on \in BOOLEAN : Motor(on)
    <2>1. PICK on \in BOOLEAN : Motor(on)
        BY <1>2
    <2>2. CASE UNCHANGED vars
        BY <1>0, <2>2, HeadStays DEF vars, IInv, TypeOK
    <2>3. CASE ~UNCHANGED vars
        <3>1. /\ spinning' = Switch(spinning, DriveOf(current) \cap Shugarts, on)
              /\ selected' = Switch(selected, DriveOf(current) \cap {"II"}, on)
              /\ motorOn' = [motorOn EXCEPT ![current] = on]
              /\ UNCHANGED <<op, dir, left>>
              /\ UNCHANGED <<current, track, side, phase, odd, sideHigh, coils, head, known>>
            BY <2>1, <2>3 DEF Motor, Refuse, Returns
        <3>2. spinning' \subseteq Shugarts /\ selected' \subseteq Drives
            BY <1>0, <3>1, DriveOfType DEF Switch, TypeOK
        <3>3. motorOn' \in [Types -> BOOLEAN]
            BY <1>0, <3>1 DEF TypeOK
        <3>4. TypeOK'
            BY <1>0, <3>1, <3>2, <3>3 DEF TypeOK
        <3>5. selected' \subseteq DriveOf(current)
            BY <1>0, <3>1 DEF Switch, PinsAgree
        <3>6. \A d \in spinning' : \E t \in Types : d \in DriveOf(t) /\ motorOn'[t]
            <4>1. SUFFICES ASSUME NEW d \in spinning'
                           PROVE  \E t \in Types : d \in DriveOf(t) /\ motorOn'[t]
                OBVIOUS
            <4>2. motorOn'[current] = on
                  /\ \A t \in Types \ {current} : motorOn'[t] = motorOn[t]
                BY <1>0, <3>1 DEF TypeOK
            <4>3. CASE on /\ d \in DriveOf(current)
                BY <1>0, <4>2, <4>3
            <4>4. CASE ~(on /\ d \in DriveOf(current))
                <5>1. d \in spinning /\ d \notin DriveOf(current)
                    BY <1>0, <3>1, <4>4 DEF Switch, TypeOK
                <5>2. PICK t \in Types : d \in DriveOf(t) /\ motorOn[t]
                    BY <1>0, <5>1 DEF PinsAgree
                <5>. QED
                    BY <4>2, <5>1, <5>2
            <4>. QED
                BY <4>3, <4>4
        <3>7. PinsAgree'
            BY <1>0, <3>1, <3>5, <3>6 DEF PinsAgree
        <3>8. Selection'
            BY <1>0, <3>1, DriveOfType DEF Selection, Switch
        <3>9. OnTrack0' /\ CounterIsHead'
            BY <1>0, <3>1 DEF OnTrack0, CounterIsHead
        <3>. QED
            BY <3>4, <3>7, <3>8, <3>9 DEF IInv
    <2>. QED
        BY <2>2, <2>3
<1>3. CASE \E s \in Sides : SelectSide(s)
    <2>1. PICK s \in Sides : SelectSide(s)
        BY <1>3
    <2>2. CASE UNCHANGED vars
        BY <1>0, <2>2, HeadStays DEF vars, IInv, TypeOK
    <2>3. CASE ~UNCHANGED vars
        <3>1. /\ sideHigh' = (s = 0)
              /\ side' = [side EXCEPT ![current] = s]
              /\ UNCHANGED <<op, dir, left>>
              /\ UNCHANGED <<current, track, motorOn, phase, odd, selected, spinning, coils,
                             head, known>>
            BY <2>1, <2>3 DEF SelectSide, Refuse, Returns
        <3>2. s \in Nat
            BY ControlAssumption
        <3>3. side' \in [Types -> Nat] /\ sideHigh' \in BOOLEAN
            BY <1>0, <3>1, <3>2 DEF TypeOK
        <3>4. TypeOK'
            BY <1>0, <3>1, <3>3 DEF TypeOK
        <3>5. PinsAgree' /\ Selection' /\ OnTrack0' /\ CounterIsHead'
            BY <1>0, <3>1 DEF PinsAgree, Selection, OnTrack0, CounterIsHead
        <3>. QED
            BY <3>4, <3>5 DEF IInv
    <2>. QED
        BY <2>2, <2>3
<1>. QED
    BY <1>1, <1>2, <1>3

\* The functions that move the head.
LEMMA FunctionsKeep ==
    ASSUME IInv, Continue \/ Recalibrate \/ (\E n \in Targets : Seek(n))
                 \/ (\E d \in {-1, 1} : Step(d))
    PROVE  IInv'
<1>0. /\ TypeOK /\ op \in {"none", "seek", "recalibrate"} /\ dir \in {-1, 1} /\ left \in Nat
      /\ current \in Types
    BY DEF IInv, TypeOK
<1>1. CASE SeekStep
    <2>1. CASE dir = -1 /\ AtTrack0(head')
        BY <1>0, <1>1, <2>1, SteppedToTrack0 DEF SeekStep
    <2>2. CASE ~(dir = -1 /\ AtTrack0(head'))
        <3>1. left - 1 \in Nat
            BY <1>0, <1>1 DEF SeekStep
        <3>. QED
            BY <1>0, <1>1, <2>2, <3>1, Stepped DEF SeekStep
    <2>. QED
        BY <2>1, <2>2
<1>2. CASE SeekEnds
    BY <1>0, <1>2, HeadStays DEF SeekEnds
<1>3. CASE RecalibrateStep
    <2>1. left - 1 \in Nat
        BY <1>0, <1>3 DEF RecalibrateStep
    <2>. QED
        BY <1>0, <1>3, <2>1, Stepped DEF RecalibrateStep
<1>4. CASE Recalibrated
    <2>1. /\ AtTrack0(head) /\ SetTrack(0) /\ known' = known \cup {current}
          /\ op' = "none" /\ left' = 0 /\ dir' = 1
          /\ UNCHANGED <<current, side, motorOn, phase, odd, pins, head>>
        BY <1>4 DEF Recalibrated
    <2>2. 0 \in 0 .. LastTrack
        BY ControlAssumption
    <2>3. /\ track' \in [Types -> 0 .. LastTrack \cup 0 .. LastApple]
          /\ track'[current] = 0
          /\ \A t \in Types \ {current} : track'[t] = track[t]
        BY <1>0, <2>1, <2>2, SetTrackType
    <2>4. TypeOK'
        BY <1>0, <2>1, <2>3 DEF TypeOK, pins
    <2>5. /\ DriveOf(current) \subseteq Connected \cap Shugarts
          /\ \A m \in DriveOf(current) : head[m] = 0
        BY <2>1, Track0IsCurrent
    <2>6. PinsAgree' /\ Selection' /\ OnTrack0'
        BY <2>1, <2>5 DEF IInv, PinsAgree, Selection, OnTrack0, pins
    <2>7. CounterIsHead'
        BY <1>0, <2>1, <2>3, <2>5 DEF IInv, CounterIsHead, TypeOK
    <2>. QED
        BY <2>4, <2>6, <2>7 DEF IInv
<1>5. CASE RecalibrationFails
    BY <1>0, <1>5, HeadStays DEF RecalibrationFails
<1>6. CASE Recalibrate
    <2>1. MaxSteps \in Nat /\ MaxApple \in Nat
        BY ControlAssumption
    <2>. QED
        BY <1>0, <1>6, <2>1, HeadStays DEF Recalibrate, Refuse, Begin, vars
<1>7. CASE \E n \in Targets : Seek(n)
    <2>1. PICK n \in Targets : Seek(n)
        BY <1>7
    <2>2. n \in Nat /\ track[current] \in Nat
        BY <1>0, ControlAssumption DEF TypeOK
    <2>3. CASE UNCHANGED vars
        BY <1>0, <2>3, HeadStays DEF vars
    <2>4. CASE ~UNCHANGED vars
        <3>1. \/ n > track[current] /\ Begin("seek", 1, n - track[current])
              \/ ~(n > track[current]) /\ Begin("seek", -1, track[current] - n)
            BY <2>1, <2>4 DEF Seek, Refuse
        <3>2. CASE n > track[current] /\ Begin("seek", 1, n - track[current])
            <4>1. n - track[current] \in Nat
                BY <2>2, <3>2
            <4>. QED
                BY <3>2, <4>1, HeadStays DEF Begin
        <3>3. CASE ~(n > track[current]) /\ Begin("seek", -1, track[current] - n)
            <4>1. track[current] - n \in Nat
                BY <2>2, <3>3
            <4>. QED
                BY <3>3, <4>1, HeadStays DEF Begin
        <3>. QED
            BY <3>1, <3>2, <3>3
    <2>. QED
        BY <2>3, <2>4
<1>8. CASE \E d \in {-1, 1} : Step(d)
    <2>1. PICK d \in {-1, 1} : Step(d)
        BY <1>8
    <2>2. CASE UNCHANGED vars
        BY <1>0, <2>2, HeadStays DEF vars
    <2>3. CASE ~UNCHANGED vars
        <3>1. /\ MoveHead(d) /\ SetTrack(Counted(d)) /\ known' = StillKnown(d)
              /\ UNCHANGED <<op, dir, left>>
            BY <2>1, <2>3 DEF Step, Refuse, Returns
        <3>. QED
            BY <1>0, <3>1, Stepped
    <2>. QED
        BY <2>2, <2>3
<1>. QED
    BY <1>1, <1>2, <1>3, <1>4, <1>5, <1>6, <1>7, <1>8 DEF Continue

-------------------------------------------------------------------------------

\* It holds always.
THEOREM Invariant == Spec => []IInv
<1>1. Init => IInv
    BY InitInvariant
<1>2. IInv /\ [Next]_vars => IInv'
    <2>. SUFFICES ASSUME IInv, [Next]_vars PROVE IInv'
        OBVIOUS
    <2>1. CASE UNCHANGED vars
        BY <2>1, HeadStays DEF vars, IInv, TypeOK
    <2>2. CASE Next
        BY <2>2, SwitchesKeep, FunctionsKeep DEF Next, Call
    <2>. QED
        BY <2>1, <2>2
<1>. QED
    BY <1>1, <1>2, PTL DEF Spec

\* Counters stay in their range and heads within their ways.
THEOREM TypeCorrect == Spec => []TypeOK
<1>1. IInv => TypeOK
    BY DEF IInv
<1>. QED
    BY Invariant, <1>1, PTL

\* Selects, motors and coils agree with the status, whatever drives were used before.
THEOREM PinsCorrect == Spec => []PinsAgree
<1>1. IInv => PinsAgree
    BY DEF IInv
<1>. QED
    BY Invariant, <1>1, PTL

\* A counter set on TRACK0 tells where the head is until the same drive is moved under its
\* other name or driven against the inner end.
THEOREM CounterCorrect == Spec => []CounterIsHead
<1>1. IInv => CounterIsHead
    BY DEF IInv
<1>. QED
    BY Invariant, <1>1, PTL

------------------------------------------------------------------------------
(* Every function ends.                                                     *)

\* What is left of the function that moves the head.
Rest == IF op = "none" THEN 0 ELSE left + 1

\* Every step of a seek or of a recalibration brings it nearer to its end, whatever the
\* TRACK0 line says and for every drive, also a Disk II, which never answers; only a new
\* call adds anything (ufi_drive.c, lines 334 to 402).
THEOREM FunctionsAreFinite ==
    Spec => /\ [](Rest \in Nat)
            /\ [][Continue => Rest' < Rest]_vars
            /\ [][Rest' > Rest => Call]_vars
<1>1. IInv => Rest \in Nat
    BY DEF IInv, TypeOK, Rest
<1>2. ASSUME IInv, Continue PROVE Rest' < Rest
  <2>1. left \in Nat /\ op # "none"
      BY <1>2 DEF IInv, TypeOK, Continue, SeekStep, SeekEnds, RecalibrateStep, Recalibrated,
                  RecalibrationFails
  <2>2. CASE op' = "none"
      BY <2>1, <2>2 DEF Rest
  <2>3. CASE op' # "none"
    <3>1. left' = left - 1 \/ (left' = 0 /\ left > 0)
        BY <1>2, <2>3 DEF Continue, SeekStep, SeekEnds, RecalibrateStep, Recalibrated,
                          RecalibrationFails
    <3>. QED
        BY <2>1, <2>3, <3>1 DEF Rest
  <2>. QED
      BY <2>2, <2>3
<1>0. IInv' => (Rest \in Nat)'
    BY <1>1, PTL
<1>3. IInv /\ IInv' /\ [Next]_vars => [Rest' > Rest => Call]_vars
  <2>. SUFFICES ASSUME IInv, IInv', Next, ~Call PROVE ~(Rest' > Rest)
      OBVIOUS
  <2>1. Rest \in Nat
      BY <1>1
  <2>2. Rest' \in Nat
      BY <1>0
  <2>3. Rest' < Rest
      BY <1>2 DEF Next
  <2>. QED
      BY <2>1, <2>2, <2>3
<1>4. IInv /\ IInv' /\ [Next]_vars => [Continue => Rest' < Rest]_vars
    BY <1>2
<1>. QED
    BY <1>1, <1>3, <1>4, Invariant, PTL DEF Spec

==============================================================================
