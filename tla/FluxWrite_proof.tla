---------------------------- MODULE FluxWrite_proof ----------------------------
(***************************************************************************)
(* Proofs about FluxWrite, for every buffer size.  What concerns the data  *)
(* holds in every history; what concerns the write gate holds as long as   *)
(* the main loop has not driven it, or has not started a write.            *)
(***************************************************************************)
EXTENDS FluxWrite, TLAPS

\* The interrupt ends the write a pulse belongs to, but it starts no other.
Pulsing == main = "pulsing" => wstate \in {"ACTIVE", "COMPLETE"}

\* No more is received than was announced.
Announced == received <= count

DataInv == TypeOK /\ WholeDataFirst /\ PulseInBounds /\ Pulsing /\ Announced

\* Where the gate is still the interrupt's: the main loop has not opened it, and
\* no pulse leaves a verification.
Untouched ==
    /\ main \in {"erasing", "aborting"} => touched
    /\ main = "verifying" => wstate = "VERIFYING"

\* Before the first start there is no write to wait for.
Unstarted ==
    ~started => wstate \in {"IDLE", "RECEIVING"}

GateInv == Untouched /\ Unstarted /\ GateMatchesState /\ GateIsErase

-------------------------------------------------------------------------------
\* An empty buffer is a buffer.
LEMMA ZeroInBuffer == BufferSize \in Nat /\ 0 \in 0 .. BufferSize
BY WriteAssumption

\* What prepare accepts fits.
LEMMA FitsInBuffer ==
    ASSUME NEW n \in 0 .. BufferSize + 1, n <= BufferSize
    PROVE  n \in 0 .. BufferSize
BY WriteAssumption

\* A chunk never goes past the announced length.
LEMMA ChunkFits ==
    ASSUME NEW n \in 0 .. BufferSize, NEW r \in 0 .. BufferSize,
           NEW len \in 1 .. BufferSize, r + len <= n
    PROVE  r + len \in 0 .. BufferSize
BY WriteAssumption

\* At power-up nothing is announced and nothing received.
LEMMA DataInit == Init => DataInv
<1>. SUFFICES ASSUME Init PROVE DataInv
    OBVIOUS
<1>1. TypeOK
    BY ZeroInBuffer DEF Init, TypeOK, WriteStates, CaptureStates, MainSteps
<1>. QED
    BY <1>1 DEF Init, DataInv, WholeDataFirst, PulseInBounds, Pulsing,
           Announced

\* One fact per step of the program, first for the types ...
LEMMA TypeNext ==
    ASSUME DataInv, [Next]_vars
    PROVE  TypeOK'
<1>. USE DEF DataInv, TypeOK, WriteStates, CaptureStates, MainSteps,
             PulseInBounds, buffer, history
<1>1. CASE \E n \in 0 .. BufferSize + 1 : Prepare(n)
  <2>1. PICK n \in 0 .. BufferSize + 1 : Prepare(n)
      BY <1>1
  <2>2. n \in 0 .. BufferSize
      BY <2>1, FitsInBuffer DEF Prepare
  <2>. QED
      BY <2>1, <2>2, ZeroInBuffer DEF Prepare
<1>2. CASE \E len \in 1 .. BufferSize : ReceiveChunk(len)
  <2>1. PICK len \in 1 .. BufferSize : ReceiveChunk(len)
      BY <1>2
  <2>2. received + len \in 0 .. BufferSize
      BY <2>1, ChunkFits DEF ReceiveChunk
  <2>. QED
      BY <2>1, <2>2 DEF ReceiveChunk
<1>3. CASE Start
    BY <1>3, ZeroInBuffer DEF Start
<1>4. CASE AbortGate \/ AbortIdle
    BY <1>4, ZeroInBuffer DEF AbortGate, AbortIdle
<1>5. CASE EraseBegin \/ EraseTimeout \/ EraseOpen \/ EraseClose
    BY <1>5, ZeroInBuffer DEF EraseBegin, EraseTimeout, EraseOpen, EraseClose
<1>6. CASE VerifyBegin \/ VerifyEnd \/ VerifyTimeout
    BY <1>6, ZeroInBuffer DEF VerifyBegin, VerifyEnd, VerifyTimeout
<1>7. CASE Read \/ AbortRead \/ SendCapture
    BY <1>7, ZeroInBuffer DEF Read, AbortRead, SendCapture
<1>8. CASE ProcessTest
    BY <1>8 DEF ProcessTest
<1>9. CASE ProcessPulse
  <2>1. index + 1 \in 0 .. BufferSize
      BY <1>9, WriteAssumption DEF ProcessPulse
  <2>. QED
      BY <1>9, <2>1 DEF ProcessPulse
<1>10. CASE IndexStartsWrite
    BY <1>10, ZeroInBuffer DEF IndexStartsWrite
<1>11. CASE IndexEndsWrite \/ IndexForCapture
    <2>1. CASE IndexEndsWrite
        BY <2>1, ZeroInBuffer DEF IndexEndsWrite
    <2>2. CASE IndexForCapture
      <3>1. capt' \in CaptureStates
          BY <2>2 DEF IndexForCapture
      <3>. QED
          BY <2>2, <3>1, ZeroInBuffer DEF IndexForCapture
    <2>. QED
        BY <1>11, <2>1, <2>2
<1>12. CASE UNCHANGED vars
    BY <1>12, ZeroInBuffer DEF vars
<1>. QED
    BY <1>1, <1>2, <1>3, <1>4, <1>5, <1>6, <1>7,
       <1>8, <1>9, <1>10, <1>11, <1>12
    DEF Next, Command, MainContinues, IndexHandler

\* ... then for what relates the state to the data.
LEMMA RestNext ==
    ASSUME DataInv, [Next]_vars
    PROVE  (WholeDataFirst /\ PulseInBounds /\ Pulsing /\ Announced)'
<1>. USE DEF DataInv, TypeOK, WholeDataFirst, PulseInBounds, Pulsing,
             Announced, buffer, history
<1>1. CASE \E n \in 0 .. BufferSize + 1 : Prepare(n)
    BY <1>1, ZeroInBuffer DEF Prepare
<1>2. CASE \E len \in 1 .. BufferSize : ReceiveChunk(len)
    BY <1>2, ZeroInBuffer DEF ReceiveChunk
<1>3. CASE Start
  <2>1. received = count /\ 0 <= count
      BY <1>3, WriteAssumption DEF Start
  <2>. QED
      BY <1>3, <2>1 DEF Start
<1>4. CASE AbortGate \/ AbortIdle
    BY <1>4, ZeroInBuffer DEF AbortGate, AbortIdle
<1>5. CASE EraseBegin \/ EraseTimeout \/ EraseOpen \/ EraseClose
    BY <1>5, ZeroInBuffer DEF EraseBegin, EraseTimeout, EraseOpen, EraseClose
<1>6. CASE VerifyBegin \/ VerifyEnd \/ VerifyTimeout
    BY <1>6, ZeroInBuffer DEF VerifyBegin, VerifyEnd, VerifyTimeout
<1>7. CASE Read \/ AbortRead \/ SendCapture
    BY <1>7, ZeroInBuffer DEF Read, AbortRead, SendCapture
<1>8. CASE ProcessTest \/ ProcessPulse
    BY <1>8, ZeroInBuffer DEF ProcessTest, ProcessPulse
<1>9. CASE IndexStartsWrite
    BY <1>9, ZeroInBuffer DEF IndexStartsWrite
<1>10. CASE IndexEndsWrite \/ IndexForCapture
    BY <1>10, ZeroInBuffer DEF IndexEndsWrite, IndexForCapture
<1>11. CASE UNCHANGED vars
    BY <1>11, ZeroInBuffer DEF vars
<1>. QED
    BY <1>1, <1>2, <1>3, <1>4, <1>5, <1>6, <1>7,
       <1>8, <1>9, <1>10, <1>11
    DEF Next, Command, MainContinues, IndexHandler

\* Every step keeps the gate and the state together.
LEMMA GateNext ==
    ASSUME GateInv, [Next]_vars
    PROVE  GateInv'
<1>. USE DEF GateInv, Untouched, Unstarted, GateMatchesState, GateIsErase,
             buffer, history
<1>1. CASE Command
    BY <1>1
    DEF Command, Prepare, ReceiveChunk, Start, AbortGate, EraseBegin,
        VerifyBegin, Read, AbortRead
<1>2. CASE ProcessTest \/ ProcessPulse \/ AbortIdle
    BY <1>2 DEF ProcessTest, ProcessPulse, AbortIdle
<1>3. CASE EraseTimeout \/ EraseOpen \/ EraseClose
    BY <1>3 DEF EraseTimeout, EraseOpen, EraseClose
<1>4. CASE VerifyEnd \/ VerifyTimeout \/ SendCapture
    BY <1>4 DEF VerifyEnd, VerifyTimeout, SendCapture
<1>5. CASE IndexHandler
    BY <1>5
    DEF IndexHandler, IndexStartsWrite, IndexEndsWrite, IndexForCapture
<1>6. CASE UNCHANGED vars
    BY <1>6 DEF vars
<1>. QED
    BY <1>1, <1>2, <1>3, <1>4, <1>5, <1>6 DEF Next, MainContinues

-------------------------------------------------------------------------------
\* The types and the data belong together: a length is one that prepare accepted.
THEOREM DataInvariant == Spec => []DataInv
<1>1. DataInv /\ [Next]_vars => DataInv'
    BY TypeNext, RestNext DEF DataInv
<1>. QED
    BY <1>1, DataInit, PTL DEF Spec

\* Every count stays within write_buffer and every state is one of write_state_t, for
\* every caller and wherever the interrupt falls.
THEOREM TypeCorrect == Spec => []TypeOK
<1>1. DataInv => TypeOK
    BY DEF DataInv
<1>. QED
    BY <1>1, DataInvariant, PTL

\* The data of a track are complete before the head writes, and no access to
\* write_buffer leaves them, for every caller.
THEOREM DataSafe == Spec => []DataReadWhole
<1>1. DataInv => DataReadWhole
    BY DEF DataInv, DataReadWhole
<1>. QED
    BY <1>1, DataInvariant, PTL

\* Until the main loop drives the gate, the head writes exactly in WRITE_ACTIVE;
\* until a write is started, only an erasure makes it write.
THEOREM GateSafe == Spec => []GateInOrder
<1>1. Init => GateInv
    BY DEF Init, GateInv, Untouched, Unstarted, GateMatchesState, GateIsErase
<1>2. GateInv /\ [Next]_vars => GateInv'
    BY GateNext
<1>3. GateInv => GateInOrder
    BY DEF GateInv, GateInOrder
<1>. QED
    BY <1>1, <1>2, <1>3, PTL DEF Spec

===============================================================================
