-------------------------- MODULE FluxCapture_proof --------------------------
(***************************************************************************)
(* Proofs about FluxCapture, for every number of revolutions, every buffer *)
(* length, every flux density and every set of surfaces.                   *)
(***************************************************************************)
EXTENDS FluxCapture, TLAPS

USE DEF arm, sending

(***************************************************************************)
(* The inductive invariant, in four named parts.                           *)
(***************************************************************************)

\* How far the read is, in each of its states.
Progress ==
    /\ state # "IDLE" \/ main = "starting" => requested \in 1 .. RevBuffers
    /\ state = "WAITING_INDEX" \/ main = "starting" => revs = <<>>
    /\ state = "RUNNING" => Len(revs) < requested
    /\ state = "COMPLETE" => Len(revs) = requested

\* Which states the steps of the main loop and of the interrupt go with.
Control ==
    /\ main = "starting" => state = "IDLE"
    /\ main = "sending" => state = "COMPLETE" /\ next <= Len(revs)
    /\ main # "sending" => next = 0 /\ taken = <<>>
    /\ isr = "copying" => state = "RUNNING" /\ ~armed

\* When the stream may store samples, and what it starts from.
Stream ==
    /\ main \in {"timer stopped", "dma stopped"} => ~capturing
    /\ state = "IDLE" /\ main # "starting" => ~(capturing /\ armed)
    /\ state = "COMPLETE" => ~armed
    /\ ~capturing /\ armed => dmaBuf = <<>> \/ Foreign

\* How long the stream stays where ufi_flux_init has sent it: until it is stopped in
\* the first read, of which it then was the first revolution.
FirstStream ==
    /\ reads = "none" => /\ state = "IDLE" /\ main # "starting"
                         /\ armed => Foreign
    /\ Foreign /\ armed => \/ reads = "none"
                           \/ reads = "first" /\ (state # "IDLE" \/ main = "starting")
    /\ Foreign /\ state = "RUNNING" => revs = <<>>
    /\ Foreign /\ (state # "IDLE" \/ main = "starting") => reads = "first"
    /\ main \in {"timer stopped", "dma stopped"} => ~(Foreign /\ armed)

\* The revolution being captured, once one has been stored.
InOneTurn(buf, t) ==
    /\ buf # <<Stray>>
    /\ \A i \in 1 .. Len(buf) : buf[i].turn = t
    /\ \A i \in 1 .. Len(buf) - 1 : buf[i + 1].nth = buf[i].nth + 1

Current ==
    /\ state = "RUNNING" /\ isr = "off" => opened = turn
    /\ state = "RUNNING" /\ isr = "copying" => turn = NextTurn(opened)
    /\ state = "RUNNING" /\ revs # <<>> =>
           /\ InOneTurn(dmaBuf, opened)
           /\ isr = "off" /\ capturing /\ armed /\ dmaBuf # <<>> =>
                  dmaBuf[Len(dmaBuf)].nth = nth
           /\ opened = NextTurn(revs[Len(revs)].turn)

IInv ==
    /\ TypeOK
    /\ Progress
    /\ Control
    /\ Stream
    /\ FirstStream
    /\ Current
    /\ LaterRevolutionsPure
    /\ ConsecutiveTurns

-------------------------------------------------------------------------------
(* Facts about the operators. *)

\* The number of the next turn is the number of a turn.
LEMMA NextTurnType ==
    ASSUME NEW t \in TurnNo
    PROVE  NextTurn(t) \in TurnNo
BY CaptureAssumption DEF TurnNo, NextTurn

\* What was never sampled is not a sample, and a buffer of it is not one of samples.
LEMMA StrayIsNone ==
    /\ <<>> # <<Stray>>
    /\ \A q \in Seq(Sample) : q # <<Stray>>
<1>1. \A s \in Sample : s # Stray
    BY CaptureAssumption DEF Sample, TurnNo
<1>2. ASSUME NEW q \in Seq(Sample), q = <<Stray>> PROVE FALSE
  <2>1. q[1] = Stray /\ q[1] \in Sample
      BY <1>2
  <2>. QED
      BY <1>1, <2>1
<1>. QED
    BY <1>2

\* Whatever the host asks for, between one and RevBuffers revolutions are read.
LEMMA ClampType ==
    ASSUME NEW n \in Nat
    PROVE  Clamp(n) \in 1 .. RevBuffers
BY CaptureAssumption DEF Clamp

-------------------------------------------------------------------------------
(* The invariant holds initially and every step preserves it. *)

\* The invariant holds before the first command.
LEMMA InitInv == Init => IInv
<1>. SUFFICES ASSUME Init PROVE IInv
    OBVIOUS
<1>1. TypeOK
  <2>1. 0 \in TurnNo /\ 0 \in 0 .. RevBuffers /\ 0 \in 0 .. FluxPerTurn
      BY CaptureAssumption DEF TurnNo
  <2>2. <<>> \in Seq(Revolution) /\ <<Stray>> \in Buffer /\ <<>> \in Seq(Nat)
      BY DEF Buffer
  <2>. QED
      BY <2>1, <2>2 DEF Init, TypeOK, States, MainSteps
<1>2. Progress /\ Control /\ Stream /\ FirstStream /\ Current
    BY DEF Init, Progress, Control, Stream, FirstStream, Foreign, Current
<1>3. LaterRevolutionsPure /\ ConsecutiveTurns
    BY DEF Init, LaterRevolutionsPure, ConsecutiveTurns
<1>. QED
    BY <1>1, <1>2, <1>3 DEF IInv

\* A pulse of the index gives the disk a turn and a count that have their type.
LEMMA NewTurnType ==
    ASSUME TypeOK, NewTurn
    PROVE  turn' \in TurnNo /\ nth' \in 0 .. FluxPerTurn
BY CaptureAssumption, NextTurnType DEF TypeOK, NewTurn

\* What is stored is not touched by a step that stores nothing.
LEMMA StoredFrame ==
    ASSUME LaterRevolutionsPure, ConsecutiveTurns, UNCHANGED revs
    PROVE  LaterRevolutionsPure' /\ ConsecutiveTurns'
BY DEF LaterRevolutionsPure, ConsecutiveTurns, FromOneTurn

\* A read starts from nothing stored and, as IInv says, from an empty buffer.
LEMMA CaptureStartInv ==
    ASSUME IInv, NEW s \in Surfaces, NEW n \in Nat, CaptureStart(s, n)
    PROVE  IInv'
<1>1. requested' \in 1 .. RevBuffers
    BY ClampType DEF CaptureStart
<1>2. TypeOK'
  <2>1. requested' \in 0 .. RevBuffers
      BY <1>1, CaptureAssumption
  <2>2. dmaBuf' \in Buffer
    <3>1. <<>> \in Buffer
        BY DEF Buffer
    <3>. QED
        BY <3>1 DEF IInv, TypeOK, CaptureStart, RestartDma
  <2>3. revs' \in Seq(Revolution)
    <3>1. <<>> \in Seq(Revolution)
        OBVIOUS
    <3>. QED
        BY <3>1 DEF CaptureStart
  <2>4. /\ state' \in States /\ next' \in Nat /\ taken' \in Seq(Nat) /\ isr' \in {"off", "copying"}
        /\ opened' \in TurnNo
        /\ turn' \in TurnNo /\ nth' \in 0 .. FluxPerTurn
      BY DEF IInv, TypeOK, CaptureStart, disk
  <2>5. /\ label' \in Surfaces /\ head' \in Surfaces
        /\ armed' \in BOOLEAN /\ capturing' \in BOOLEAN
        /\ moved' \in BOOLEAN /\ main' \in MainSteps
        /\ reads' \in {"none", "first", "later"}
      BY DEF IInv, TypeOK, CaptureStart, RestartDma, MainSteps
  <2>. QED
      BY <2>1, <2>2, <2>3, <2>4, <2>5 DEF TypeOK
<1>3. Progress' /\ Control'
    BY <1>1 DEF IInv, TypeOK, Progress, Control, CaptureStart, MainAt
<1>4. Stream'
    BY DEF IInv, TypeOK, Stream, FirstStream, Foreign, Control, CaptureStart, RestartDma, MainAt
<1>6. FirstStream' /\ Current'
    BY DEF IInv, TypeOK, Stream, FirstStream, Foreign, Current, Control, CaptureStart, RestartDma,
           MainAt
<1>5. LaterRevolutionsPure' /\ ConsecutiveTurns'
    BY DEF CaptureStart, LaterRevolutionsPure, ConsecutiveTurns
<1>. QED
    BY <1>2, <1>3, <1>4, <1>5, <1>6 DEF IInv

\* The state of an accepted read becomes visible to the interrupt.
LEMMA AwaitIndexInv ==
    ASSUME IInv, AwaitIndex
    PROVE  IInv'
<1>1. TypeOK'
    BY DEF IInv, TypeOK, AwaitIndex, MainAt, hardware, disk, States, MainSteps
<1>2. Progress' /\ Control'
    BY DEF IInv, TypeOK, Progress, Control, AwaitIndex, MainAt, hardware, disk
<1>3. Stream' /\ FirstStream' /\ Current'
    BY DEF IInv, TypeOK, Progress, Control, Stream, FirstStream, Foreign, Current, AwaitIndex, MainAt, hardware, disk
<1>4. LaterRevolutionsPure' /\ ConsecutiveTurns'
    BY StoredFrame DEF IInv, AwaitIndex, MainAt, hardware, disk
<1>. QED
    BY <1>1, <1>2, <1>3, <1>4 DEF IInv

\* An abort stops the timer first: from here on no sample is stored.
LEMMA AbortTimerInv ==
    ASSUME IInv, AbortTimer
    PROVE  IInv'
<1>1. TypeOK'
    BY DEF IInv, TypeOK, AbortTimer, MainAt, capture, disk, States, MainSteps
<1>2. Progress' /\ Control'
    BY DEF IInv, TypeOK, Progress, Control, AbortTimer, MainAt, capture, disk
<1>3. Stream' /\ FirstStream' /\ Current'
    BY DEF IInv, TypeOK, Progress, Control, Stream, FirstStream, Foreign, Current, AbortTimer, MainAt, capture, disk
<1>4. LaterRevolutionsPure' /\ ConsecutiveTurns'
    BY StoredFrame DEF IInv, AbortTimer, MainAt, capture, disk
<1>. QED
    BY <1>1, <1>2, <1>3, <1>4 DEF IInv

\* It stops the stream, which an interrupt may start again afterwards.
LEMMA AbortDmaInv ==
    ASSUME IInv, AbortDma
    PROVE  IInv'
<1>1. TypeOK'
    BY DEF IInv, TypeOK, AbortDma, MainAt, capture, disk, States, MainSteps
<1>2. Progress' /\ Control'
    BY DEF IInv, TypeOK, Progress, Control, AbortDma, MainAt, capture, disk
<1>3. Stream' /\ FirstStream' /\ Current'
    BY DEF IInv, TypeOK, Progress, Control, Stream, FirstStream, Foreign, Current, AbortDma, MainAt, capture, disk
<1>4. LaterRevolutionsPure' /\ ConsecutiveTurns'
    BY StoredFrame DEF IInv, AbortDma, MainAt, capture, disk
<1>. QED
    BY <1>1, <1>2, <1>3, <1>4 DEF IInv

\* It ends with the timer off, so that an enabled stream stays empty.
LEMMA AbortIdleInv ==
    ASSUME IInv, AbortIdle
    PROVE  IInv'
<1>1. TypeOK'
    BY DEF IInv, TypeOK, AbortIdle, MainAt, hardware, disk, States, MainSteps
<1>2. Progress' /\ Control'
    BY DEF IInv, TypeOK, Progress, Control, AbortIdle, MainAt, hardware, disk
<1>3. Stream' /\ FirstStream' /\ Current'
    BY DEF IInv, TypeOK, Progress, Control, Stream, FirstStream, Foreign, Current, AbortIdle, MainAt, hardware, disk
<1>4. LaterRevolutionsPure' /\ ConsecutiveTurns'
    BY StoredFrame DEF IInv, AbortIdle, MainAt, hardware, disk
<1>. QED
    BY <1>1, <1>2, <1>3, <1>4 DEF IInv

\* Moving the head changes none of what the capture keeps.
LEMMA SeekInv ==
    ASSUME IInv, NEW s \in Surfaces, Seek(s)
    PROVE  IInv'
<1>1. TypeOK'
    BY DEF IInv, TypeOK, Seek, MainAt, capture, hardware, disk, States, MainSteps
<1>2. Progress' /\ Control'
    BY DEF IInv, TypeOK, Progress, Control, Seek, MainAt, capture, hardware, disk
<1>3. Stream' /\ FirstStream' /\ Current'
    BY DEF IInv, TypeOK, Progress, Control, Stream, FirstStream, Foreign, Current, Seek, MainAt, capture, hardware, disk
<1>4. LaterRevolutionsPure' /\ ConsecutiveTurns'
    BY StoredFrame DEF IInv, Seek, MainAt, capture, hardware, disk
<1>. QED
    BY <1>1, <1>2, <1>3, <1>4 DEF IInv

\* Sending begins with a whole read.
LEMMA SendBeginInv ==
    ASSUME IInv, SendBegin
    PROVE  IInv'
<1>1. TypeOK'
    BY DEF IInv, TypeOK, SendBegin, MainAt, capture, hardware, disk, States, MainSteps
<1>2. Progress' /\ Control'
    BY DEF IInv, TypeOK, Progress, Control, SendBegin, MainAt, capture, hardware, disk
<1>3. Stream' /\ FirstStream' /\ Current'
    BY DEF IInv, TypeOK, Progress, Control, Stream, FirstStream, Foreign, Current, SendBegin, MainAt, capture, hardware, disk
<1>4. LaterRevolutionsPure' /\ ConsecutiveTurns'
    BY StoredFrame DEF IInv, SendBegin, MainAt, capture, hardware, disk
<1>. QED
    BY <1>1, <1>2, <1>3, <1>4 DEF IInv

\* It goes on revolution by revolution.
LEMMA SendRevolutionInv ==
    ASSUME IInv, SendRevolution
    PROVE  IInv'
<1>0. next' \in Nat /\ taken' \in Seq(Nat)
    <2>1. next \in Nat /\ taken \in Seq(Nat) /\ Append(taken, next) \in Seq(Nat)
        BY DEF IInv, TypeOK
    <2>2. next' = next + 1 /\ taken' \in {taken, Append(taken, next)}
        BY DEF SendRevolution
    <2>. QED
        BY <2>1, <2>2
<1>1. TypeOK'
    BY <1>0 DEF IInv, TypeOK, SendRevolution, MainAt, capture, hardware, disk, States, MainSteps, arm
<1>2. Progress' /\ Control'
    BY DEF IInv, TypeOK, Progress, Control, SendRevolution, MainAt, capture, hardware, disk
<1>3. Stream' /\ FirstStream' /\ Current'
    BY DEF IInv, TypeOK, Progress, Control, Stream, FirstStream, Foreign, Current, SendRevolution, MainAt, capture, hardware, disk
<1>4. LaterRevolutionsPure' /\ ConsecutiveTurns'
    BY StoredFrame DEF IInv, SendRevolution, MainAt, capture, hardware, disk
<1>. QED
    BY <1>1, <1>2, <1>3, <1>4 DEF IInv

\* It ends with the stream off.
LEMMA SendEndInv ==
    ASSUME IInv, SendEnd
    PROVE  IInv'
<1>1. TypeOK'
    BY DEF IInv, TypeOK, SendEnd, MainAt, hardware, disk, States, MainSteps
<1>2. Progress' /\ Control'
    BY DEF IInv, TypeOK, Progress, Control, SendEnd, MainAt, hardware, disk
<1>3. Stream' /\ FirstStream' /\ Current'
    BY DEF IInv, TypeOK, Progress, Control, Stream, FirstStream, Foreign, Current, SendEnd, MainAt, hardware, disk
<1>4. LaterRevolutionsPure' /\ ConsecutiveTurns'
    BY StoredFrame DEF IInv, SendEnd, MainAt, hardware, disk
<1>. QED
    BY <1>1, <1>2, <1>3, <1>4 DEF IInv

\* A pulse that is not for the capture only turns the disk.
LEMMA IndexIgnoredInv ==
    ASSUME IInv, IndexIgnored
    PROVE  IInv'
<1>1. turn' \in TurnNo /\ nth' \in 0 .. FluxPerTurn
    BY NewTurnType DEF IInv, IndexIgnored
<1>2. TypeOK'
    BY <1>1 DEF IInv, TypeOK, IndexIgnored, NewTurn, capture, hardware, States
<1>3. Progress' /\ Control'
    BY DEF IInv, TypeOK, Progress, Control, IndexIgnored, NewTurn, capture, hardware
<1>4. Stream' /\ FirstStream' /\ Current'
    BY DEF IInv, TypeOK, Progress, Control, Stream, FirstStream, Foreign, Current, InOneTurn, IndexIgnored, NewTurn, capture, hardware
<1>5. LaterRevolutionsPure' /\ ConsecutiveTurns'
    BY StoredFrame DEF IInv, IndexIgnored, NewTurn, capture, hardware
<1>. QED
    BY <1>2, <1>3, <1>4, <1>5 DEF IInv

\* The opening pulse: nothing is stored yet.
LEMMA IndexOpensInv ==
    ASSUME IInv, IndexOpens
    PROVE  IInv'
<1>1. turn' \in TurnNo /\ nth' \in 0 .. FluxPerTurn
    BY NewTurnType DEF IInv, IndexOpens
<1>2. TypeOK'
    BY <1>1 DEF IInv, TypeOK, IndexOpens, NewTurn, hardware, States
<1>3. Progress' /\ Control'
    BY DEF IInv, TypeOK, Progress, Control, IndexOpens, NewTurn, hardware
<1>4. Stream' /\ FirstStream' /\ Current'
    BY DEF IInv, TypeOK, Progress, Control, Stream, FirstStream, Foreign, Current, InOneTurn, IndexOpens, NewTurn, hardware
<1>5. LaterRevolutionsPure' /\ ConsecutiveTurns'
    BY StoredFrame DEF IInv, IndexOpens, NewTurn, hardware
<1>. QED
    BY <1>2, <1>3, <1>4, <1>5 DEF IInv

\* A closing pulse: the buffer is that of the turn that has just ended.
LEMMA IndexStopsDmaInv ==
    ASSUME IInv, IndexStopsDma
    PROVE  IInv'
<1>1. turn' \in TurnNo /\ nth' \in 0 .. FluxPerTurn
    BY NewTurnType DEF IInv, IndexStopsDma
<1>2. TypeOK'
    BY <1>1 DEF IInv, TypeOK, IndexStopsDma, NewTurn, capture, States
<1>3. Progress' /\ Control'
    BY DEF IInv, TypeOK, Progress, Control, IndexStopsDma, NewTurn, capture
<1>4. Stream' /\ FirstStream' /\ Current'
    BY DEF IInv, TypeOK, Progress, Control, Stream, FirstStream, Foreign, Current, InOneTurn, IndexStopsDma, NewTurn, capture
<1>5. LaterRevolutionsPure' /\ ConsecutiveTurns'
    BY StoredFrame DEF IInv, IndexStopsDma, NewTurn, capture
<1>. QED
    BY <1>2, <1>3, <1>4, <1>5 DEF IInv

\* The stored revolution is the buffer of the turn that has just ended, and its
\* turn follows that of the revolution before it.
LEMMA IndexStoresInv ==
    ASSUME IInv, IndexStores
    PROVE  IInv'
<1>. DEFINE rev == [turn |-> opened, samples |-> dmaBuf]
<1>1. /\ state = "RUNNING" /\ ~armed /\ isr = "copying"
      /\ turn = NextTurn(opened)
      /\ requested \in 1 .. RevBuffers /\ Len(revs) < requested
    BY DEF IInv, Control, Current, Progress, IndexStores
<1>2. rev \in Revolution /\ revs \in Seq(Revolution)
    BY DEF IInv, TypeOK, Revolution
<1>3. /\ revs' = Append(revs, rev) /\ revs' \in Seq(Revolution)
      /\ Len(revs') = Len(revs) + 1
      /\ revs'[Len(revs) + 1] = rev
      /\ \A k \in 1 .. Len(revs) : revs'[k] = revs[k]
    BY <1>2 DEF IndexStores
<1>4. TypeOK'
  <2>1. dmaBuf' \in Buffer /\ armed' \in BOOLEAN
    <3>1. <<>> \in Buffer
        BY DEF Buffer
    <3>. QED
        BY <1>1, <3>1 DEF IInv, TypeOK, IndexStores, RestartDma
  <2>2. state' \in States
      BY DEF IInv, TypeOK, IndexStores, States
  <2>. QED
      BY <1>3, <2>1, <2>2 DEF IInv, TypeOK, IndexStores, disk
<1>5. Progress' /\ Control'
    BY <1>1, <1>3 DEF IInv, TypeOK, Progress, Control, IndexStores
<1>6. Stream' /\ FirstStream'
    BY <1>1, StrayIsNone DEF IInv, TypeOK, Stream, FirstStream, Foreign, Control, IndexStores, RestartDma
<1>7. Current'
  <2>. SUFFICES ASSUME state' = "RUNNING" PROVE Current'
      BY <1>5 DEF Current, Control
  <2>1. isr' = "off" /\ opened' = turn' /\ dmaBuf' = <<>>
      BY <1>1 DEF IndexStores, RestartDma, disk
  <2>2. revs'[Len(revs')].turn = opened /\ opened' = NextTurn(opened)
      BY <1>1, <1>2, <1>3 DEF IndexStores, Revolution
  <2>. QED
      BY <2>1, <2>2 DEF Current, InOneTurn
<1>8. LaterRevolutionsPure'
  <2>1. \A k \in 2 .. Len(revs) : FromOneTurn(revs'[k])
      BY <1>3 DEF IInv, LaterRevolutionsPure
  <2>2. Len(revs) > 0 => FromOneTurn(revs'[Len(revs) + 1])
    <3>1. Len(revs) > 0 => InOneTurn(dmaBuf, opened)
        BY <1>1, <1>2 DEF IInv, Current
    <3>2. rev.turn = opened /\ rev.samples = dmaBuf
        OBVIOUS
    <3>. QED
        BY <1>3, <3>1, <3>2 DEF InOneTurn, FromOneTurn
  <2>. QED
      BY <1>2, <1>3, <2>1, <2>2 DEF LaterRevolutionsPure
<1>9. ConsecutiveTurns'
  <2>1. Len(revs) > 0 => opened = NextTurn(revs[Len(revs)].turn)
      BY <1>1, <1>2 DEF IInv, Current
  <2>2. \A k \in 2 .. Len(revs) : revs'[k].turn = NextTurn(revs'[k - 1].turn)
      BY <1>2, <1>3 DEF IInv, ConsecutiveTurns
  <2>. QED
      BY <1>2, <1>3, <2>1, <2>2 DEF ConsecutiveTurns
<1>. QED
    BY <1>4, <1>5, <1>6, <1>7, <1>8, <1>9 DEF IInv

\* A transition of the current turn follows the last one in the buffer.
LEMMA TransitionInv ==
    ASSUME IInv, Transition
    PROVE  IInv'
<1>. DEFINE sample == [turn |-> turn, nth |-> nth + 1, at |-> Under]
<1>1. /\ sample \in Sample /\ dmaBuf \in Buffer /\ nth' \in 0 .. FluxPerTurn
      /\ ~Foreign => dmaBuf \in Seq(Sample)
    BY CaptureAssumption DEF IInv, TypeOK, Transition, Sample, Under, Buffer, Foreign
<1>2. \/ dmaBuf' = dmaBuf /\ ~(capturing /\ armed /\ ~Foreign)
      \/ dmaBuf' = <<>> /\ capturing /\ armed /\ ~Foreign
      \/ dmaBuf' = Append(dmaBuf, sample) /\ capturing /\ armed /\ ~Foreign
    BY DEF Transition, Store
<1>a. \/ dmaBuf' = dmaBuf
      \/ dmaBuf' \in Seq(Sample) /\ ~Foreign'
  <2>1. CASE ~Foreign
    <3>1. Append(dmaBuf, sample) \in Seq(Sample) /\ <<>> \in Seq(Sample)
        BY <1>1, <2>1
    <3>. QED
        BY <1>2, <3>1, StrayIsNone DEF Foreign
  <2>. QED
      BY <1>2, <2>1
<1>3. dmaBuf' \in Buffer
    BY <1>1, <1>a DEF Buffer
<1>4. TypeOK'
    BY <1>1, <1>3 DEF IInv, TypeOK, Transition, capture
<1>5. Progress' /\ Control'
    BY DEF IInv, TypeOK, Progress, Control, Transition, capture
<1>6. Stream' /\ FirstStream'
    BY <1>2, <1>a DEF IInv, TypeOK, Stream, FirstStream, Foreign, Transition, capture
<1>7. Current'
  <2>1. CASE dmaBuf' = dmaBuf /\ ~(capturing /\ armed /\ ~Foreign)
    <3>1. state = "RUNNING" /\ revs # <<>> => ~(capturing /\ armed)
        BY <2>1 DEF IInv, FirstStream
    <3>2. UNCHANGED <<state, revs, isr, opened, turn, capturing, armed>>
        BY DEF Transition, capture
    <3>. QED
        BY <2>1, <3>1, <3>2 DEF IInv, Current, InOneTurn
  <2>2. CASE dmaBuf' = <<>>
    <3>1. InOneTurn(<<>>, opened)
        BY StrayIsNone DEF InOneTurn
    <3>2. UNCHANGED <<state, revs, isr, opened, turn, capturing, armed>>
        BY DEF Transition, capture
    <3>. QED
        BY <2>2, <3>1, <3>2 DEF IInv, Current
  <2>3. CASE dmaBuf' = Append(dmaBuf, sample) /\ capturing /\ armed /\ ~Foreign
    <3>. SUFFICES ASSUME state = "RUNNING", revs # <<>>
                  PROVE  Current'
        BY DEF IInv, Current, Transition, capture
    <3>1. isr = "off" /\ opened = turn
        BY <2>3 DEF IInv, TypeOK, Control, Current
    <3>2. /\ Len(dmaBuf') = Len(dmaBuf) + 1
          /\ dmaBuf'[Len(dmaBuf) + 1] = sample
          /\ \A i \in 1 .. Len(dmaBuf) : dmaBuf'[i] = dmaBuf[i]
        BY <1>1, <2>3
    <3>3. /\ InOneTurn(dmaBuf, opened)
          /\ dmaBuf # <<>> => dmaBuf[Len(dmaBuf)].nth = nth
        BY <2>3, <3>1 DEF IInv, Current
    <3>4. \A i \in 1 .. Len(dmaBuf') : dmaBuf'[i].turn = opened
        BY <1>1, <3>1, <3>2, <3>3 DEF InOneTurn
    <3>5. \A i \in 1 .. Len(dmaBuf') - 1 :
              dmaBuf'[i + 1].nth = dmaBuf'[i].nth + 1
        BY <1>1, <3>2, <3>3 DEF InOneTurn
    <3>6. dmaBuf'[Len(dmaBuf')].nth = nth'
        BY <1>1, <3>2 DEF Transition
    <3>. QED
        BY <1>a, <2>3, <3>1, <3>4, <3>5, <3>6
        DEF IInv, Current, InOneTurn, Foreign, Transition, capture
  <2>. QED
      BY <1>2, <2>1, <2>2, <2>3
<1>8. LaterRevolutionsPure' /\ ConsecutiveTurns'
    BY StoredFrame DEF IInv, Transition, capture
<1>. QED
    BY <1>4, <1>5, <1>6, <1>7, <1>8 DEF IInv

-------------------------------------------------------------------------------
(* The theorems. *)

\* Every step keeps the invariant.
LEMMA NextInv == IInv /\ [Next]_vars => IInv'
<1>. SUFFICES ASSUME IInv, [Next]_vars PROVE IInv'
    OBVIOUS
<1>1. CASE Command
    BY <1>1, CaptureAssumption, CaptureStartInv, SeekInv, AbortTimerInv
    DEF Command
<1>2. CASE MainContinues
    BY <1>2, AwaitIndexInv, AbortDmaInv, AbortIdleInv, SendBeginInv,
       SendRevolutionInv, SendEndInv
    DEF MainContinues
<1>3. CASE IndexHandler
    BY <1>3, IndexIgnoredInv, IndexOpensInv, IndexStopsDmaInv, IndexStoresInv
    DEF IndexHandler
<1>4. CASE Transition
    BY <1>4, TransitionInv
<1>5. CASE UNCHANGED vars
    BY <1>5
    DEF vars, capture, hardware, disk, IInv, TypeOK, Progress, Control, Stream,
        FirstStream, Foreign, Current, InOneTurn, LaterRevolutionsPure, ConsecutiveTurns,
        FromOneTurn
<1>. QED
    BY <1>1, <1>2, <1>3, <1>4, <1>5 DEF Next

\* The inductive invariant holds throughout: everything below follows from it.
THEOREM Invariance == Spec => []IInv
    BY InitInv, NextInv, PTL DEF Spec

\* The capture context keeps its type.
THEOREM TypeCorrect == Spec => []TypeOK
    BY Invariance, PTL DEF IInv

\* A revolution is always copied into a slot that exists and was asked for.
THEOREM SlotsSafe == Spec => []SlotInBounds
<1>1. IInv => SlotInBounds
    BY CaptureAssumption DEF IInv, TypeOK, Progress, Control, SlotInBounds
<1>. QED
    BY <1>1, Invariance, PTL

\* Only whole reads are sent.
THEOREM SentWhole == Spec => []SentIsWhole
<1>1. IInv => SentIsWhole
    BY DEF IInv, TypeOK, Progress, Control, SentIsWhole
<1>. QED
    BY <1>1, Invariance, PTL

\* Slots and sending keep to the read that was accepted.
THEOREM ReadsWhole == Spec => []WholeReads
<1>1. SlotInBounds /\ SentIsWhole => WholeReads
    BY DEF WholeReads
<1>. QED
    BY <1>1, SlotsSafe, SentWhole, PTL

\* Nothing is stored without a read, and every read but the first after power-up starts
\* with an empty buffer (ufi_main.c, lines 172 to 225 and 508 to 555; ufi_flux.c, 77).
THEOREM Quiet == Spec => []NothingWithoutRead
<1>1. IInv => NothingWithoutRead
    BY DEF IInv, TypeOK, Control, Stream, FirstStream, NothingWithoutRead, IdleIsQuiet, StartsAtZero
<1>. QED
    BY <1>1, Invariance, PTL

\* Every revolution but the first is a part of one turn without holes, and the
\* revolutions are consecutive turns.
THEOREM Pure == Spec => []TurnsInOrder
<1>1. IInv => TurnsInOrder
    BY DEF IInv, TurnsInOrder
<1>. QED
    BY <1>1, Invariance, PTL

-------------------------------------------------------------------------------
(* Where the samples of a read come from. *)

FromLabel(buf) == \A i \in 1 .. Len(buf) : buf[i] # Stray /\ buf[i].at = label

\* The head is where the read put it, and so were all samples stored since.
Place ==
    ~moved /\ (state # "IDLE" \/ main = "starting") =>
        /\ head = label
        /\ Foreign \/ FromLabel(dmaBuf)
        /\ \A k \in 1 .. Len(revs) :
               \/ revs[k].samples = <<Stray>> /\ reads = "first" /\ k = 1
               \/ FromLabel(revs[k].samples)

\* A read starts at its label with nothing stored; seeks end the promise.
LEMMA CommandPlace ==
    ASSUME IInv, Place, Command
    PROVE  Place'
<1>. USE DEF Place, FromLabel
<1>1. ASSUME NEW s \in Surfaces, NEW n \in 0 .. RevBuffers + 1,
             CaptureStart(s, n)
      PROVE  Place'
  <2>1. revs' = <<>> /\ head' = label'
      BY <1>1 DEF CaptureStart
  <2>2. dmaBuf' = <<>> \/ Foreign'
      BY <1>1 DEF IInv, Stream, Foreign, CaptureStart, RestartDma, MainAt
  <2>. QED
      BY <2>1, <2>2
<1>2. ASSUME NEW s \in Surfaces, Seek(s) PROVE Place'
  <2>. SUFFICES ASSUME ~moved', state # "IDLE" PROVE Place'
      BY <1>2 DEF Seek, MainAt, capture
  <2>1. s = label /\ ~moved
      BY <1>2 DEF IInv, TypeOK, Seek
  <2>. QED
      BY <1>2, <2>1 DEF Seek, capture, hardware, Foreign
<1>3. CASE AbortTimer
    BY <1>3 DEF AbortTimer, MainAt, capture, Foreign
<1>. QED
    BY <1>1, <1>2, <1>3 DEF Command

\* The main loop stores no samples.
LEMMA MainPlace ==
    ASSUME Place, MainContinues
    PROVE  Place'
<1>1. /\ UNCHANGED <<label, revs, dmaBuf, reads, head>>
      /\ moved' = moved
    BY DEF MainContinues, AwaitIndex, AbortDma, AbortIdle, SendBegin,
           SendRevolution, SendEnd, capture, hardware
<1>2. state' # "IDLE" \/ main' = "starting" => state # "IDLE" \/ main = "starting"
    BY DEF MainContinues, AwaitIndex, AbortDma, AbortIdle, SendBegin,
           SendRevolution, SendEnd, MainAt, capture
<1>. QED
    BY <1>1, <1>2 DEF Place, FromLabel, Foreign

\* A stored revolution is the buffer, whose samples come from the label.
LEMMA IndexPlace ==
    ASSUME IInv, Place, IndexHandler
    PROVE  Place'
<1>. USE DEF Place, FromLabel
<1>1. CASE IndexIgnored \/ IndexOpens \/ IndexStopsDma
    BY <1>1 DEF IndexIgnored, IndexOpens, IndexStopsDma, capture, hardware, Foreign
<1>2. CASE IndexStores
  <2>. DEFINE rev == [turn |-> opened, samples |-> dmaBuf]
  <2>. SUFFICES ASSUME ~moved PROVE Place'
      BY <1>2 DEF IndexStores
  <2>1. /\ head = label /\ (Foreign \/ FromLabel(dmaBuf))
        /\ Foreign => revs = <<>> /\ reads = "first"
      BY <1>2 DEF IInv, Control, FirstStream, IndexStores
  <2>2. dmaBuf' = dmaBuf \/ dmaBuf' = <<>>
      BY <1>2 DEF IndexStores, RestartDma
  <2>3. rev \in Revolution /\ revs \in Seq(Revolution)
      BY DEF IInv, TypeOK, Revolution
  <2>4. \A k \in 1 .. Len(revs') :
            \/ revs'[k].samples = <<Stray>> /\ reads = "first" /\ k = 1
            \/ FromLabel(revs'[k].samples)
    <3>1. /\ revs' = Append(revs, rev) /\ Len(revs') = Len(revs) + 1
          /\ revs'[Len(revs) + 1] = rev
          /\ \A k \in 1 .. Len(revs) : revs'[k] = revs[k]
        BY <1>2, <2>3 DEF IndexStores
    <3>2. \A k \in 1 .. Len(revs) :
              \/ revs[k].samples = <<Stray>> /\ reads = "first" /\ k = 1
              \/ FromLabel(revs[k].samples)
        BY <1>2 DEF IInv, Control, IndexStores
    <3>3. rev.samples = dmaBuf /\ (Foreign => Len(revs) = 0)
        BY <2>1
    <3>. QED
        BY <2>1, <2>3, <3>1, <3>2, <3>3 DEF Foreign
  <2>. QED
      BY <1>2, <2>1, <2>2, <2>4 DEF IndexStores, Foreign
<1>. QED
    BY <1>1, <1>2 DEF IndexHandler

\* A transition is sampled where the head is.
LEMMA TransitionPlace ==
    ASSUME IInv, Place, Transition
    PROVE  Place'
<1>. DEFINE sample == [turn |-> turn, nth |-> nth + 1, at |-> Under]
<1>. USE DEF Place, FromLabel
<1>1. /\ sample \in Sample /\ sample # Stray
      /\ ~Foreign => dmaBuf \in Seq(Sample)
    BY CaptureAssumption
    DEF IInv, TypeOK, Transition, Sample, TurnNo, Under, Buffer, Foreign
<1>2. \/ dmaBuf' = dmaBuf
      \/ dmaBuf' = <<>>
      \/ dmaBuf' = Append(dmaBuf, sample) /\ ~Foreign
    BY DEF Transition, Store
<1>3. /\ UNCHANGED <<state, label, revs, main, reads, head>>
      /\ moved' = moved
    BY DEF Transition, capture
<1>4. CASE dmaBuf' = Append(dmaBuf, sample) /\ ~Foreign
  <2>1. /\ Len(dmaBuf') = Len(dmaBuf) + 1
        /\ dmaBuf'[Len(dmaBuf) + 1] = sample
        /\ \A i \in 1 .. Len(dmaBuf) : dmaBuf'[i] = dmaBuf[i]
      BY <1>1, <1>4
  <2>2. ~moved => sample.at = head
      BY DEF Under
  <2>. QED
      BY <1>1, <1>3, <1>4, <2>1, <2>2
<1>5. CASE dmaBuf' = dmaBuf \/ dmaBuf' = <<>>
    BY <1>3, <1>5 DEF Foreign
<1>. QED
    BY <1>2, <1>4, <1>5

\* A read during which the head stays holds transitions of its surface only, except in
\* the first revolution of the first read, which is of no transition (ufi_flux.c, 77 to
\* 82; ufi_main.c, 198 to 205 and 530 to 537).
THEOREM Undisturbed == Spec => []OneSurfaceOnly
<1>1. Init => Place
    BY DEF Init, Place
<1>2. IInv /\ Place /\ [Next]_vars => Place'
  <2>1. ASSUME Place, UNCHANGED vars PROVE Place'
      BY <2>1 DEF Place, FromLabel, Foreign, vars, capture, hardware
  <2>. QED
      BY <2>1, CommandPlace, MainPlace, IndexPlace, TransitionPlace DEF Next
<1>3. Place => OneSurfaceOnly
    BY DEF Place, FromLabel, OneSurfaceOnly
<1>. QED
    BY <1>1, <1>2, <1>3, Invariance, PTL DEF Spec

-------------------------------------------------------------------------------
(* The refinement: every step of the capture is a step of the service or does *)
(* not show. The read is accepted when it starts to wait for the index, and   *)
(* cancelled when the abort has made the capture idle.                        *)

\* The service starts with no read.
LEMMA ServiceInit == Init => Service!Init
BY DEF Init, Service!Init, Service!Idle, Busy

\* A command begins a read, drops one or is no step of the service.
LEMMA CommandService ==
    ASSUME IInv, Command
    PROVE  UNCHANGED Service!vars
<1>1. CASE AbortTimer \/ \E s \in Surfaces : Seek(s)
    BY <1>1 DEF AbortTimer, Seek, capture, Service!vars, Busy
<1>2. CASE \E s \in Surfaces, n \in 0 .. RevBuffers + 1 : CaptureStart(s, n)
    BY <1>2 DEF CaptureStart, Service!vars, Busy
<1>. QED
    BY <1>1, <1>2 DEF Command

\* The main loop hands over the next revolution or ends the read.
LEMMA MainService ==
    ASSUME IInv, MainContinues
    PROVE  [Service!Next]_(Service!vars)
<1>1. CASE AwaitIndex
  <2>1. /\ state = "IDLE" /\ state' = "WAITING_INDEX" /\ revs' = <<>>
        /\ requested' \in 1 .. RevBuffers /\ label' \in Surfaces
        /\ next' = next /\ taken' = taken
      BY <1>1 DEF IInv, TypeOK, Progress, Control, AwaitIndex, MainAt
  <2>2. Service!Accept(label', requested')
      BY <2>1 DEF Service!Accept, Busy
  <2>. QED
      BY <2>1, <2>2 DEF Service!Next
<1>2. CASE AbortIdle
  <2>1. /\ state' = "IDLE" /\ next = 0 /\ next' = 0
        /\ taken = <<>> /\ taken' = <<>>
      BY <1>2 DEF IInv, Control, AbortIdle, MainAt
  <2>2. CASE state = "IDLE"
      BY <2>1, <2>2 DEF Service!vars, Busy
  <2>3. CASE state # "IDLE"
    <3>1. Service!Cancel
        BY <2>1, <2>3 DEF IInv, TypeOK, States, Service!Cancel, Service!Idle, Busy
    <3>. QED
        BY <3>1 DEF Service!Next
  <2>. QED
      BY <2>2, <2>3
<1>3. CASE SendRevolution
  <2>1. /\ state = "COMPLETE" /\ next < Len(revs) /\ next' = next + 1
        /\ taken' \in {taken, Append(taken, next)}
        /\ UNCHANGED <<state, label, requested, revs>>
      BY <1>3 DEF IInv, Control, SendRevolution, MainAt, capture
  <2>2. Service!Offer
      BY <2>1 DEF Service!Offer, Busy
  <2>. QED
      BY <2>2 DEF Service!Next
<1>4. CASE SendEnd
  <2>1. /\ state = "COMPLETE" /\ next = requested
        /\ state' = "IDLE" /\ next' = 0 /\ taken' = <<>>
      BY <1>4 DEF IInv, TypeOK, Progress, Control, SendEnd, MainAt
  <2>2. Service!Finish
      BY <2>1 DEF Service!Finish, Service!Idle, Busy
  <2>. QED
      BY <2>2 DEF Service!Next
<1>5. CASE AbortDma \/ SendBegin
    BY <1>5 DEF AbortDma, SendBegin, capture, Service!vars, Busy
<1>. QED
    BY <1>1, <1>2, <1>3, <1>4, <1>5 DEF MainContinues

\* The interrupt adds one revolution to a read.
LEMMA IndexService ==
    ASSUME IInv, IndexHandler
    PROVE  [Service!Next]_(Service!vars)
<1>1. CASE IndexOpens
  <2>1. /\ state = "WAITING_INDEX" /\ state' = "RUNNING"
        /\ UNCHANGED <<label, requested, revs, next, taken>>
      BY <1>1 DEF IndexOpens
  <2>2. Service!OpeningPulse
      BY <2>1 DEF Service!OpeningPulse, Busy
  <2>. QED
      BY <2>2 DEF Service!Next
<1>2. CASE IndexStores
  <2>1. /\ state = "RUNNING" /\ Len(revs) < requested
        /\ Len(revs) \in Nat /\ requested \in Nat
        /\ Len(revs') = Len(revs) + 1
        /\ UNCHANGED <<label, requested, next, taken>>
      BY <1>2 DEF IInv, TypeOK, Progress, Control, IndexStores
  <2>2. state' = IF Len(revs') = requested THEN "COMPLETE" ELSE "RUNNING"
      BY <1>2, <2>1 DEF IndexStores
  <2>3. Service!ClosingPulse
      BY <2>1, <2>2 DEF Service!ClosingPulse, Busy
  <2>. QED
      BY <2>3 DEF Service!Next
<1>3. CASE IndexIgnored \/ IndexStopsDma
    BY <1>3 DEF IndexIgnored, IndexStopsDma, capture, Service!vars, Busy
<1>. QED
    BY <1>1, <1>2, <1>3 DEF IndexHandler

\* The revolutions of whole reads, and no others, are offered to the link in order and
\* each once, whatever it takes of them (ufi_main.c, lines 574 to 590).
THEOREM Refinement == Spec => Refines
<1>1. IInv /\ [Next]_vars => [Service!Next]_(Service!vars)
  <2>. SUFFICES ASSUME IInv, [Next]_vars
                PROVE  [Service!Next]_(Service!vars)
      OBVIOUS
  <2>1. CASE Command
      BY <2>1, CommandService
  <2>2. CASE MainContinues
      BY <2>2, MainService
  <2>3. CASE IndexHandler
      BY <2>3, IndexService
  <2>4. CASE Transition
      BY <2>4 DEF Transition, capture, Service!vars, Busy
  <2>5. CASE UNCHANGED vars
      BY <2>5 DEF vars, capture, Service!vars, Busy
  <2>. QED
      BY <2>1, <2>2, <2>3, <2>4, <2>5 DEF Next
<1>. QED
    BY <1>1, ServiceInit, Invariance, PTL DEF Spec, Refines, Service!Spec

-------------------------------------------------------------------------------
(* What FluxWrite assumes of the capture with which it shares the interrupt.  *)

\* The machine of FluxWrite while nothing is written, with this capture as its own.
NotWriting == INSTANCE FluxWrite WITH
    BufferSize <- 0,
    wstate <- "IDLE", count <- 0, received <- 0, index <- 0, wgate <- FALSE,
    capt <- state, main <- "loop", started <- FALSE, touched <- FALSE

\* Any state change of the main loop is a read, an abort or the end of sending; any
\* of the interrupt, a step of the branch for the capture.
LEMMA StateSteps ==
    ASSUME IInv, [Next]_vars
    PROVE  \/ state' = state
           \/ state = "IDLE" /\ state' = "WAITING_INDEX"
           \/ state' = "IDLE"
           \/ state = "WAITING_INDEX" /\ state' = "RUNNING"
           \/ state = "RUNNING" /\ state' = "COMPLETE"
<1>1. CASE Command
    BY <1>1 DEF Command, CaptureStart, Seek, AbortTimer, capture
<1>2. CASE MainContinues
    BY <1>2 DEF MainContinues, AwaitIndex, AbortDma, AbortIdle, SendBegin, SendRevolution, SendEnd,
                capture, IInv, Control, MainAt
<1>3. CASE IndexHandler
    BY <1>3 DEF IndexHandler, IndexIgnored, IndexOpens, IndexStopsDma, IndexStores, capture,
                IInv, Control
<1>4. CASE Transition \/ UNCHANGED vars
    BY <1>4 DEF Transition, vars, capture
<1>. QED
    BY <1>1, <1>2, <1>3, <1>4 DEF Next

\* The capture does what FluxWrite takes it to do: g_capture.state changes only as the
\* read, the abort, the sending and the interrupt of that module change it
\* (ufi_main.c, lines 172 to 225, 519 to 554 and 574 to 590).
THEOREM CaptureForWriting == Spec => NotWriting!Spec
<1>1. Init => NotWriting!Init
    BY DEF Init, NotWriting!Init
<1>2. IInv /\ [Next]_vars => [NotWriting!Next]_(NotWriting!vars)
  <2>. SUFFICES ASSUME IInv, [Next]_vars
                PROVE  [NotWriting!Next]_(NotWriting!vars)
      OBVIOUS
  <2>. USE DEF NotWriting!Next, NotWriting!Command, NotWriting!MainContinues,
               NotWriting!IndexHandler, NotWriting!vars, NotWriting!buffer, NotWriting!history
  <2>1. CASE state' = state
      BY <2>1
  <2>2. CASE state = "IDLE" /\ state' = "WAITING_INDEX"
      BY <2>2 DEF NotWriting!Read
  <2>3. CASE state' = "IDLE"
      BY <2>3 DEF NotWriting!AbortRead
  <2>4. CASE \/ state = "WAITING_INDEX" /\ state' = "RUNNING"
             \/ state = "RUNNING" /\ state' = "COMPLETE"
      BY <2>4 DEF NotWriting!IndexForCapture
  <2>. QED
      BY <2>1, <2>2, <2>3, <2>4, StateSteps
<1>. QED
    BY <1>1, <1>2, Invariance, PTL DEF Spec, NotWriting!Spec

-------------------------------------------------------------------------------
(* Every read ends, if the disk turns. *)

\* The steps of the program and of the interrupt that do something for a read.
Advances == MainContinues \/ IndexOpens \/ IndexStopsDma \/ IndexStores

\* What is left of a read: pulses and copies until the last revolution, then the
\* sending; and what is left of an abort.
RestOfRead ==
    IF main = "starting" THEN 3 * requested + 4
    ELSE IF state = "WAITING_INDEX" THEN 3 * requested + 3
    ELSE IF state = "RUNNING"
      THEN (requested + 2) + (2 * (requested - Len(revs)) - (IF isr = "copying" THEN 1 ELSE 0))
    ELSE IF state = "COMPLETE"
      THEN IF main = "sending" THEN (Len(revs) - next) + 1 ELSE Len(revs) + 2
    ELSE 0

RestOfAbort == IF main = "timer stopped" THEN 2 ELSE IF main = "dma stopped" THEN 1 ELSE 0

Rest == RestOfRead + RestOfAbort

\* What the numbers of a read are.
LEMMA ReadNumbers ==
    ASSUME IInv
    PROVE  requested \in Nat /\ Len(revs) \in Nat /\ next \in Nat
<1>1. requested \in Nat
    BY CaptureAssumption DEF IInv, TypeOK
<1>2. Len(revs) \in Nat
    BY DEF IInv, TypeOK
<1>. QED
    BY <1>1, <1>2 DEF IInv, TypeOK

\* What is left is a natural number.
LEMMA PartsAreCounted == IInv => RestOfRead \in Nat /\ RestOfAbort \in 0 .. 2
<1>. SUFFICES ASSUME IInv PROVE RestOfRead \in Nat /\ RestOfAbort \in 0 .. 2
    OBVIOUS
<1>0. requested \in Nat /\ Len(revs) \in Nat /\ next \in Nat
    BY ReadNumbers
<1>1. CASE main = "starting"
  <2>1. RestOfRead = 3 * requested + 4
      BY <1>1 DEF RestOfRead
  <2>. QED
      BY <1>0, <2>1 DEF RestOfAbort
<1>2. CASE main # "starting" /\ state = "WAITING_INDEX"
  <2>1. RestOfRead = 3 * requested + 3
      BY <1>2 DEF RestOfRead
  <2>. QED
      BY <1>0, <2>1 DEF RestOfAbort
<1>3. CASE main # "starting" /\ state = "RUNNING"
  <2>1. Len(revs) < requested
      BY <1>3 DEF IInv, Progress
  <2>2. \/ RestOfRead = (requested + 2) + (2 * (requested - Len(revs)) - 1)
        \/ RestOfRead = (requested + 2) + (2 * (requested - Len(revs)) - 0)
      BY <1>3 DEF RestOfRead
  <2>. QED
      BY <1>0, <2>1, <2>2 DEF RestOfAbort
<1>4. CASE main # "starting" /\ state = "COMPLETE"
  <2>1. main = "sending" => next <= Len(revs)
      BY DEF IInv, Control
  <2>2. RestOfRead = IF main = "sending" THEN (Len(revs) - next) + 1 ELSE Len(revs) + 2
      BY <1>4 DEF RestOfRead
  <2>. QED
      BY <1>0, <2>1, <2>2 DEF RestOfAbort
<1>5. CASE main # "starting" /\ state \notin {"WAITING_INDEX", "RUNNING", "COMPLETE"}
    BY <1>5 DEF RestOfRead, RestOfAbort
<1>. QED
    BY <1>1, <1>2, <1>3, <1>4, <1>5

LEMMA RestIsCounted == IInv => Rest \in Nat
    BY PartsAreCounted DEF Rest

\* The same after a step.
LEMMA StillCounted == IInv' => RestOfRead' \in Nat /\ Rest' \in Nat
<1>1. IInv' => (RestOfRead \in Nat /\ RestOfAbort \in 0 .. 2)'
    BY PartsAreCounted, PTL
<1>2. IInv' => (Rest \in Nat)'
    BY RestIsCounted, PTL
<1>. QED
    BY <1>1, <1>2

\* The main loop: a start, an abort, and a sending have fewer steps before them,
LEMMA MainDecreases ==
    ASSUME IInv, IInv', MainContinues
    PROVE  Rest' < Rest
<1>0. requested \in Nat /\ Len(revs) \in Nat /\ next \in Nat /\ RestOfRead \in Nat
    BY ReadNumbers, PartsAreCounted
<1>1. CASE AwaitIndex
  <2>1. Rest = 3 * requested + 4
      BY <1>0, <1>1 DEF AwaitIndex, MainAt, Rest, RestOfRead, RestOfAbort
  <2>2. Rest' = 3 * requested + 3
      BY <1>0, <1>1 DEF AwaitIndex, Rest, RestOfRead, RestOfAbort
  <2>. QED
      BY <1>0, <2>1, <2>2
<1>2. CASE AbortDma
  <2>1. RestOfRead' = RestOfRead
      BY <1>2 DEF AbortDma, MainAt, capture, RestOfRead
  <2>2. RestOfAbort = 2 /\ RestOfAbort' = 1
      BY <1>2 DEF AbortDma, MainAt, RestOfAbort
  <2>. QED
      BY <1>0, <2>1, <2>2 DEF Rest
<1>3. CASE AbortIdle
  <2>1. RestOfRead' = 0 /\ RestOfAbort' = 0
      BY <1>3 DEF AbortIdle, RestOfRead, RestOfAbort
  <2>2. RestOfAbort = 1
      BY <1>3 DEF AbortIdle, MainAt, RestOfAbort
  <2>. QED
      BY <1>0, <2>1, <2>2 DEF Rest
<1>4. CASE SendBegin
  <2>1. next = 0
      BY <1>4 DEF SendBegin, MainAt, IInv, Control
  <2>2. Rest = Len(revs) + 2
      BY <1>0, <1>4 DEF SendBegin, MainAt, Rest, RestOfRead, RestOfAbort
  <2>3. Rest' = (Len(revs) - 0) + 1
      BY <1>0, <1>4, <2>1 DEF SendBegin, capture, Rest, RestOfRead, RestOfAbort
  <2>. QED
      BY <1>0, <2>2, <2>3
<1>5. CASE SendRevolution
  <2>1. state = "COMPLETE" /\ main = "sending"
      BY <1>5 DEF SendRevolution, MainAt, IInv, Control
  <2>2. Rest = (Len(revs) - next) + 1
      BY <1>0, <2>1 DEF Rest, RestOfRead, RestOfAbort
  <2>3. Rest' = (Len(revs) - (next + 1)) + 1
      BY <1>0, <1>5, <2>1 DEF SendRevolution, capture, Rest, RestOfRead, RestOfAbort
  <2>. QED
      BY <1>0, <2>2, <2>3
<1>6. CASE SendEnd
  <2>1. state = "COMPLETE" /\ main = "sending" /\ next <= Len(revs)
      BY <1>6 DEF SendEnd, MainAt, IInv, Control
  <2>2. Rest = (Len(revs) - next) + 1
      BY <1>0, <2>1 DEF Rest, RestOfRead, RestOfAbort
  <2>3. Rest' = 0
      BY <1>6 DEF SendEnd, Rest, RestOfRead, RestOfAbort
  <2>. QED
      BY <1>0, <2>1, <2>2, <2>3
<1>. QED
    BY <1>1, <1>2, <1>3, <1>4, <1>5, <1>6 DEF MainContinues

\* and every pulse of the index during a read brings it on, in the middle of an abort too.
LEMMA IndexDecreases ==
    ASSUME IInv, IInv', IndexOpens \/ IndexStopsDma \/ IndexStores
    PROVE  Rest' < Rest
<1>0. requested \in Nat /\ Len(revs) \in Nat
    BY ReadNumbers
<1>1. main' = main /\ main # "starting" /\ main # "sending" /\ requested' = requested
    BY DEF IndexOpens, IndexStopsDma, IndexStores, capture, IInv, Control
<1>2. RestOfAbort' = RestOfAbort /\ RestOfAbort \in Nat
    BY <1>1 DEF RestOfAbort
<1>3. RestOfRead \in Nat /\ RestOfRead' \in Nat
    BY PartsAreCounted, StillCounted
<1>4. RestOfRead' < RestOfRead
  <2>1. CASE IndexOpens
    <3>1. /\ state = "WAITING_INDEX" /\ state' = "RUNNING" /\ revs' = revs /\ revs = <<>>
          /\ isr = "off" /\ isr' = "off"
        BY <2>1 DEF IndexOpens, NewTurn, IInv, Progress
    <3>. QED
        BY <1>0, <1>1, <3>1 DEF RestOfRead
  <2>2. CASE IndexStopsDma
    <3>1. /\ state = "RUNNING" /\ state' = "RUNNING" /\ revs' = revs
          /\ isr = "off" /\ isr' = "copying" /\ Len(revs) < requested
        BY <2>2 DEF IndexStopsDma, NewTurn, capture, IInv, Progress
    <3>. QED
        BY <1>0, <1>1, <3>1 DEF RestOfRead
  <2>3. CASE IndexStores
    <3>1. /\ state = "RUNNING" /\ isr = "copying" /\ isr' = "off" /\ Len(revs) < requested
          /\ Len(revs') = Len(revs) + 1
        BY <2>3 DEF IndexStores, IInv, Control, Progress, TypeOK
    <3>2. CASE Len(revs) + 1 >= requested
      <4>1. state' = "COMPLETE"
          BY <2>3, <3>2 DEF IndexStores
      <4>. QED
          BY <1>0, <1>1, <3>1, <3>2, <4>1 DEF RestOfRead
    <3>3. CASE ~(Len(revs) + 1 >= requested)
      <4>1. state' = "RUNNING"
          BY <2>3, <3>1, <3>3 DEF IndexStores
      <4>. QED
          BY <1>0, <1>1, <3>1, <3>3, <4>1 DEF RestOfRead
    <3>. QED
        BY <3>2, <3>3
  <2>. QED
      BY <2>1, <2>2, <2>3
<1>5. Rest = RestOfRead + RestOfAbort /\ Rest' = RestOfRead' + RestOfAbort
    BY <1>2 DEF Rest
<1>6. \A m, n, k \in Nat : m < n => m + k < n + k
    OBVIOUS
<1>. QED
    BY <1>2, <1>3, <1>4, <1>5, <1>6

\* Every step of the main loop, and every index pulse that a read waits for, brings the
\* read nearer to its end, aborted or not; only a new command adds anything (ufi_main.c,
\* lines 172 to 225, 519 to 554 and 574 to 590). So a read ends if the disk turns.
THEOREM ReadsAreFinite ==
    Spec => /\ [](Rest \in Nat)
            /\ [][Advances => Rest' < Rest]_vars
            /\ [][Rest' > Rest => Command]_vars
<1>1. IInv => Rest \in Nat
    BY RestIsCounted
<1>2. ASSUME IInv, IInv', Advances PROVE Rest' < Rest
    BY <1>2, MainDecreases, IndexDecreases DEF Advances
<1>3. IInv /\ IInv' /\ [Next]_vars => [Rest' > Rest => Command]_vars
  <2>. SUFFICES ASSUME IInv, IInv', Next, ~Command PROVE ~(Rest' > Rest)
      OBVIOUS
  <2>1. Rest \in Nat
      BY RestIsCounted
  <2>2. Rest' \in Nat
      BY StillCounted
  <2>3. CASE Advances
    <3>1. Rest' < Rest
        BY <1>2, <2>3
    <3>. QED
        BY <2>1, <2>2, <3>1
  <2>4. CASE IndexIgnored \/ Transition
    <3>1. Rest' = Rest
        BY <2>4 DEF IndexIgnored, Transition, capture, Rest, RestOfRead, RestOfAbort
    <3>. QED
        BY <2>1, <2>2, <3>1
  <2>. QED
      BY <2>3, <2>4 DEF Next, Advances, IndexHandler
<1>4. IInv /\ IInv' /\ [Next]_vars => [Advances => Rest' < Rest]_vars
    BY <1>2
<1>. QED
    BY <1>1, <1>3, <1>4, Invariance, PTL DEF Spec

===============================================================================
