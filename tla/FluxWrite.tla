------------------------------- MODULE FluxWrite -------------------------------
(***************************************************************************)
(* Writing flux: the write state machine of firmware/src/ufi_write.c.      *)
(*                                                                         *)
(* The main loop calls the functions of this file; the index interrupt     *)
(* opens the write gate at one pulse and closes it at the next, and may    *)
(* preempt the main loop between any two of its steps.  The same interrupt *)
(* serves the capture (see FluxCapture), of which only the state is kept   *)
(* here: a verification starts a capture of one revolution and waits for   *)
(* it.                                                                     *)
(*                                                                         *)
(* Callers may use every function in every order. What only holds without  *)
(* some of them is said of the histories, by "touched" and "started"; the  *)
(* command dispatcher of the shipped firmware never starts a write.        *)
(*                                                                         *)
(* Data are counted in flux samples.  Sample values, precompensation, LEDs *)
(* and delays are left out; ufi_drive_seek of ufi_main.c always succeeds.  *)
(***************************************************************************)
EXTENDS Integers

CONSTANT
    BufferSize    \* WRITE_BUFFER_SIZE

ASSUME WriteAssumption == BufferSize \in Nat

VARIABLES
    wstate,       \* g_write.state
    count,        \* g_write.flux_count, and bytes_expected in samples
    received,     \* g_write.bytes_received in samples
    index,        \* g_write.flux_index
    wgate,        \* PIN_FDD_WGATE asserted: the head writes
    capt,         \* g_capture.state
    main,         \* where the main loop is
    started,      \* history: a write has been started
    touched       \* history: an abort or an erasure has driven the gate

buffer == <<count, received>>
history == <<started, touched>>
vars == <<wstate, buffer, index, wgate, capt, main, history>>

WriteStates == {"IDLE", "RECEIVING", "WAITING_INDEX", "ACTIVE", "COMPLETE",
                "VERIFYING", "ERROR"}
CaptureStates == {"IDLE", "WAITING_INDEX", "RUNNING", "COMPLETE"}
MainSteps == {"loop", "pulsing", "verifying", "seeking index", "erasing",
              "aborting"}

Init ==
    /\ wstate = "IDLE"
    /\ count = 0
    /\ received = 0
    /\ index = 0
    /\ wgate = FALSE
    /\ capt = "IDLE"
    /\ main = "loop"
    /\ started = FALSE
    /\ touched = FALSE

-------------------------------------------------------------------------------
(* Receiving the data of a track. *)

\* Slip: any length is accepted.
PrepareAnyLength(n) ==
    /\ main = "loop"
    /\ wstate = "IDLE"
    /\ count' = n
    /\ received' = 0
    /\ wstate' = "RECEIVING"
    /\ UNCHANGED <<index, wgate, capt, main, history>>

Prepare(n) ==
    /\ main = "loop"
    /\ wstate = "IDLE"
    /\ n <= BufferSize
    /\ count' = n
    /\ received' = 0
    /\ wstate' = "RECEIVING"
    /\ UNCHANGED <<index, wgate, capt, main, history>>

ReceiveChunk(len) ==
    /\ main = "loop"
    /\ wstate = "RECEIVING"
    /\ received + len <= count
    /\ received' = received + len
    /\ UNCHANGED <<wstate, count, index, wgate, capt, main, history>>

-------------------------------------------------------------------------------
(* Writing it. *)

\* Slip: the data need not be complete.
StartEarly ==
    /\ main = "loop"
    /\ wstate = "RECEIVING"
    /\ index' = 0
    /\ wstate' = "WAITING_INDEX"
    /\ started' = TRUE
    /\ UNCHANGED <<buffer, wgate, capt, main, touched>>

Start ==
    /\ main = "loop"
    /\ wstate = "RECEIVING"
    /\ received >= count
    /\ index' = 0
    /\ wstate' = "WAITING_INDEX"
    /\ started' = TRUE
    /\ UNCHANGED <<buffer, wgate, capt, main, touched>>

\* ufi_write_process: test, and, when the time has come, the pulse on WDATA.
ProcessTest ==
    /\ main = "loop"
    /\ wstate = "ACTIVE"
    /\ index < count
    /\ main' = "pulsing"
    /\ UNCHANGED <<wstate, buffer, index, wgate, capt, history>>

ProcessPulse ==
    /\ main = "pulsing"
    /\ index' = index + 1
    /\ main' = "loop"
    /\ UNCHANGED <<wstate, buffer, wgate, capt, history>>

\* ufi_write_abort, its effects in their order.
AbortGate ==
    /\ main = "loop"
    /\ wgate' = FALSE
    /\ main' = "aborting"
    /\ touched' = TRUE
    /\ UNCHANGED <<wstate, buffer, index, capt, started>>

AbortIdle ==
    /\ main = "aborting"
    /\ wstate' = "IDLE"
    /\ count' = 0
    /\ received' = 0
    /\ main' = "loop"
    /\ UNCHANGED <<index, wgate, capt, history>>

-------------------------------------------------------------------------------
(* Erasing: the main loop waits for the index itself, with a timeout. *)

EraseBegin ==
    /\ main = "loop"
    /\ main' = "seeking index"
    /\ UNCHANGED <<wstate, buffer, index, wgate, capt, history>>

EraseTimeout ==
    /\ main = "seeking index"
    /\ main' = "loop"
    /\ UNCHANGED <<wstate, buffer, index, wgate, capt, history>>

EraseOpen ==
    /\ main = "seeking index"
    /\ wgate' = TRUE
    /\ main' = "erasing"
    /\ touched' = TRUE
    /\ UNCHANGED <<wstate, buffer, index, capt, started>>

EraseClose ==
    /\ main = "erasing"
    /\ wgate' = FALSE
    /\ main' = "loop"
    /\ UNCHANGED <<wstate, buffer, index, capt, history>>

-------------------------------------------------------------------------------
(* Verifying, reading, and what the main loop does with a finished capture. *)

\* A capture that is not idle, or a missing drive, refuses the verification.
VerifyBegin ==
    /\ main = "loop"
    /\ wstate = "COMPLETE"
    /\ \/ /\ capt = "IDLE"
          /\ capt' = "WAITING_INDEX"
          /\ wstate' = "VERIFYING"
          /\ main' = "verifying"
       \/ /\ wstate' = "ERROR"
          /\ UNCHANGED <<capt, main>>
    /\ UNCHANGED <<buffer, index, wgate, history>>

\* The number of transitions read is within the tolerance, or not.
VerifyEnd ==
    /\ main = "verifying"
    /\ capt = "COMPLETE"
    /\ wstate' \in {"IDLE", "ERROR"}
    /\ main' = "loop"
    /\ UNCHANGED <<buffer, index, wgate, capt, history>>

\* The capture is left as it is.
VerifyTimeout ==
    /\ main = "verifying"
    /\ capt # "COMPLETE"
    /\ wstate' = "ERROR"
    /\ main' = "loop"
    /\ UNCHANGED <<buffer, index, wgate, capt, history>>

Read ==
    /\ main = "loop"
    /\ capt = "IDLE"
    /\ capt' = "WAITING_INDEX"
    /\ UNCHANGED <<wstate, buffer, index, wgate, main, history>>

\* ufi_capture_abort stops the capture and makes it idle.
AbortRead ==
    /\ main = "loop"
    /\ capt' = "IDLE"
    /\ UNCHANGED <<wstate, buffer, index, wgate, main, history>>

SendCapture ==
    /\ main = "loop"
    /\ capt = "COMPLETE"
    /\ capt' = "IDLE"
    /\ UNCHANGED <<wstate, buffer, index, wgate, main, history>>

-------------------------------------------------------------------------------
(* The index interrupt: a write that waits or is active takes the pulse, *)
(* otherwise the capture does.                                           *)

IndexStartsWrite ==
    /\ wstate = "WAITING_INDEX"
    /\ wstate' = "ACTIVE"
    /\ index' = 0
    /\ wgate' = TRUE
    /\ UNCHANGED <<buffer, capt, main, history>>

\* Slips: the gate stays open; the end of the write is not recorded.
IndexLeavesOpen ==
    /\ wstate = "ACTIVE"
    /\ wstate' = "COMPLETE"
    /\ UNCHANGED <<buffer, index, wgate, capt, main, history>>

IndexRestartsWrite ==
    /\ wstate = "ACTIVE"
    /\ wgate' = FALSE
    /\ wstate' = "WAITING_INDEX"
    /\ UNCHANGED <<buffer, index, capt, main, history>>

IndexEndsWrite ==
    /\ wstate = "ACTIVE"
    /\ wgate' = FALSE
    /\ wstate' = "COMPLETE"
    /\ UNCHANGED <<buffer, index, capt, main, history>>

\* A read may go on for further revolutions.
IndexForCapture ==
    /\ wstate \notin {"WAITING_INDEX", "ACTIVE"}
    /\ capt' \in CASE capt = "WAITING_INDEX" -> {"RUNNING"}
                   [] capt = "RUNNING" -> {"RUNNING", "COMPLETE"}
                   [] OTHER -> {capt}
    /\ UNCHANGED <<wstate, buffer, index, wgate, main, history>>

IndexHandler == IndexStartsWrite \/ IndexEndsWrite \/ IndexForCapture

-------------------------------------------------------------------------------
Command ==
    \/ \E n \in 0 .. BufferSize + 1 : Prepare(n)
    \/ \E len \in 1 .. BufferSize : ReceiveChunk(len)
    \/ Start
    \/ AbortGate
    \/ EraseBegin
    \/ VerifyBegin
    \/ Read
    \/ AbortRead

MainContinues ==
    \/ ProcessTest \/ ProcessPulse
    \/ AbortIdle
    \/ EraseTimeout \/ EraseOpen \/ EraseClose
    \/ VerifyEnd \/ VerifyTimeout
    \/ SendCapture

Next == Command \/ MainContinues \/ IndexHandler

Spec == Init /\ [][Next]_vars

\* The main loop goes on and the motor turns the disk.
FairSpec == Spec /\ WF_vars(MainContinues) /\ WF_vars(IndexHandler)

-------------------------------------------------------------------------------
(* Properties *)

TypeOK ==
    /\ wstate \in WriteStates
    /\ count \in 0 .. BufferSize
    /\ received \in 0 .. BufferSize
    /\ index \in 0 .. BufferSize
    /\ wgate \in BOOLEAN
    /\ capt \in CaptureStates
    /\ main \in MainSteps
    /\ started \in BOOLEAN
    /\ touched \in BOOLEAN

\* The head writes exactly while the state machine says so: no interleaving of
\* the interrupt with the calls leaves the gate open, or closes it early, until
\* an abort or an erasure drives the gate from the main loop.
GateMatchesState == ~touched => wgate = (wstate = "ACTIVE")

\* The head writes only when the data of the whole track have been received.
WholeDataFirst ==
    wstate \in {"WAITING_INDEX", "ACTIVE"} => received = count

\* Between the test of ufi_write_process and the access to write_buffer the
\* interrupt may end the write, but the index stays inside the track's data.
PulseInBounds ==
    /\ main = "pulsing" => index < count
    /\ wstate = "ACTIVE" => index <= count

\* Whatever order the calls come in and wherever the interrupt falls, what is
\* written are data of the track, received to the last one.
DataReadWhole == WholeDataFirst /\ PulseInBounds

\* A write that was started gets its turn of the disk, whatever reads are made,
\* unless it is aborted.
WriteEnds == (wstate = "WAITING_INDEX") ~> (wstate \in {"COMPLETE", "IDLE"})

\* Until a write is started, which the dispatcher never does, the gate is open
\* during the 220 ms of an erasure and at no other time.
GateIsErase == ~started => wgate = (main = "erasing")

\* The gate has three masters, the interrupt, an abort and an erasure, and is open
\* only when one of them is writing.
GateInOrder == GateMatchesState /\ GateIsErase

\* WRITE_ACTIVE is the state in which data are written, and an abort is to stop
\* the current operation: then an idle state machine never writes.
AbortStopsWriting == wstate = "IDLE" /\ main = "loop" => ~wgate

===============================================================================
