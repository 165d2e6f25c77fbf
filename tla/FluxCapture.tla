------------------------------ MODULE FluxCapture ------------------------------
(***************************************************************************)
(* Reading flux: the capture state machine of firmware/src/ufi_main.c.     *)
(*                                                                         *)
(* Four agents share the capture context:                                  *)
(*   - the main loop, which starts, aborts and sends captures, and which   *)
(*     the index interrupt may preempt between any two of its steps;       *)
(*   - the index interrupt ufi_flux_index_handler, which main never        *)
(*     preempts;                                                           *)
(*   - timer 2 and its circular DMA stream, which store a sample for every *)
(*     flux transition also while the processor runs an interrupt;         *)
(*   - the disk, which turns under a head that the main loop moves.        *)
(*                                                                         *)
(* A sample is the transition it stands for: the turn of the disk it       *)
(* belongs to, its number within that turn and the surface it was read     *)
(* from.  Timestamps, LEDs and delays are left out.  The disk turns        *)
(* independently of the program and its turns are numbered modulo Turns.   *)
(*                                                                         *)
(* ufi_flux_init starts the stream, with other buffers and no input capture *)
(* that would request a transfer.  The first read finds it enabled and     *)
(* leaves it as it is: until the stream is stopped once, what the program  *)
(* takes from g_flux_dma_buffer is Stray, a sample of no transition.       *)
(***************************************************************************)
EXTENDS Integers, Sequences

CONSTANTS
    Surfaces,     \* positions of the head: a track and a side
    NoSurface,    \* of no surface that is told apart; also: no read is pending
    RevBuffers,   \* REVOLUTIONS_BUFFER, and the clamp of the dispatcher
    MaxFlux,      \* MAX_FLUX_PER_REV, the length of the DMA buffer
    Stray,        \* what g_flux_dma_buffer holds while the stream fills another
    FluxPerTurn,  \* bound: transitions the medium has in one turn
    Turns         \* bound: turns are numbered 0 .. Turns - 1, then 0 again

ASSUME CaptureAssumption ==
    /\ Surfaces # {} /\ NoSurface \notin Surfaces
    /\ RevBuffers \in Nat \ {0}
    /\ MaxFlux \in Nat \ {0}
    /\ FluxPerTurn \in Nat
    /\ Turns \in Nat \ {0}
    /\ Stray \notin [turn : 0 .. Turns - 1, nth : 1 .. FluxPerTurn,
                  at : Surfaces \union {NoSurface}]

VARIABLES
    state,        \* g_capture.state
    label,        \* g_capture.current_track and current_side
    requested,    \* g_capture.revolutions_requested
    revs,         \* g_revolution_buffer[0 .. revolutions_captured - 1]
    capturing,    \* input capture of timer 2 enabled
    armed,        \* DMA stream enabled
    dmaBuf,       \* g_flux_dma_buffer[0 .. position - 1]
    main,         \* where the main loop is
    next,         \* i of the sending loop
    taken,        \* history: the revolutions of this read the ring has taken
    reads,        \* history: "none" was started yet, the "first", or a "later" one
    isr,          \* where the index interrupt is
    opened,       \* history: the turn whose pulse opened the current revolution
    head,         \* the surface under the head
    moved,        \* history: the head was moved since the read was started
    turn,         \* the current turn of the disk
    nth           \* transitions of this turn so far

capture  == <<state, label, requested, revs>>
hardware == <<capturing, armed, dmaBuf>>
arm      == <<head, moved>>
disk     == <<turn, nth>>
sending  == <<next, taken>>
vars     == <<capture, hardware, main, sending, reads, isr, opened, arm, disk>>

TurnNo == 0 .. Turns - 1
NextTurn(t) == IF t + 1 = Turns THEN 0 ELSE t + 1

Sample == [turn : TurnNo, nth : 1 .. FluxPerTurn, at : Surfaces \union {NoSurface}]
\* The buffer holds samples, or nothing that was ever sampled.
Buffer == Seq(Sample) \union {<<Stray>>}
Foreign == dmaBuf = <<Stray>>

Revolution == [turn : TurnNo, samples : Buffer]

States == {"IDLE", "WAITING_INDEX", "RUNNING", "COMPLETE"}
MainSteps == {"loop", "starting", "timer stopped", "dma stopped", "sending"}

Init ==
    /\ state = "IDLE"
    /\ label \in Surfaces
    /\ requested = 0
    /\ revs = <<>>
    /\ capturing = FALSE
    /\ armed = TRUE
    /\ dmaBuf = <<Stray>>
    /\ main = "loop"
    /\ next = 0
    /\ taken = <<>>
    /\ reads = "none"
    /\ isr = "off"
    /\ opened = 0
    /\ head \in Surfaces
    /\ moved = FALSE
    /\ turn = 0
    /\ nth = 0

-------------------------------------------------------------------------------
(* The main loop. It runs only while no interrupt does. *)

MainAt(step) == main = step /\ isr = "off"

\* Slip: no upper bound.
ClampLowOnly(n) == IF n = 0 THEN 1 ELSE n

\* UFI_CMD_READ_TRACK accepts any byte and captures 1 .. RevBuffers revolutions.
Clamp(n) == IF n = 0 THEN 1 ELSE IF n > RevBuffers THEN RevBuffers ELSE n

\* HAL_DMA_Start leaves a stream that is already enabled as it is.
RestartDma ==
    /\ armed' = TRUE
    /\ dmaBuf' = IF armed THEN dmaBuf ELSE <<>>

\* ufi_capture_start up to the timer; a capture that is not idle is refused
\* before anything changes. HAL_TIM_IC_Start_DMA starts the stream a second time:
\* whether it then enables the input capture is the library's, both are allowed.
CaptureStart(s, n) ==
    /\ MainAt("loop")
    /\ state = "IDLE"
    /\ head' = s
    /\ moved' = FALSE
    /\ label' = s
    /\ requested' = Clamp(n)
    /\ revs' = <<>>
    /\ RestartDma
    /\ capturing' \in {capturing, TRUE}
    /\ main' = "starting"
    /\ reads' = IF reads = "none" THEN "first" ELSE "later"
    /\ UNCHANGED <<state, sending, isr, opened, disk>>

\* ... and its last assignment, after which the interrupt takes part.
AwaitIndex ==
    /\ MainAt("starting")
    /\ state' = "WAITING_INDEX"
    /\ main' = "loop"
    /\ UNCHANGED <<label, requested, revs, hardware, sending, reads, isr, opened, arm, disk>>

\* Slip: HAL_TIM_IC_Stop_DMA is not called.
AbortLeavesTimer ==
    /\ MainAt("loop")
    /\ main' = "timer stopped"
    /\ UNCHANGED <<capture, hardware, sending, reads, isr, opened, arm, disk>>

\* ufi_capture_abort, its three effects in their order. Stopping the input
\* capture also stops the stream that serves it.
AbortTimer ==
    /\ MainAt("loop")
    /\ capturing' = FALSE
    /\ armed' = FALSE
    /\ main' = "timer stopped"
    /\ UNCHANGED <<capture, dmaBuf, sending, reads, isr, opened, arm, disk>>

AbortDma ==
    /\ MainAt("timer stopped")
    /\ armed' = FALSE
    /\ main' = "dma stopped"
    /\ UNCHANGED <<capture, capturing, dmaBuf, sending, reads, isr, opened, arm, disk>>

AbortIdle ==
    /\ MainAt("dma stopped")
    /\ state' = "IDLE"
    /\ main' = "loop"
    /\ UNCHANGED <<label, requested, revs, hardware, sending, reads, isr, opened, arm, disk>>

\* UFI_CMD_SEEK and UFI_CMD_SELECT_SIDE move the head whatever the capture does.
Seek(s) ==
    /\ MainAt("loop")
    /\ head' = s
    /\ moved' = (moved \/ s # label)
    /\ UNCHANGED <<capture, hardware, main, sending, reads, isr, opened, disk>>

\* Slip: what has been captured is sent, whatever the state.
SendCaptured ==
    /\ MainAt("loop")
    /\ revs # <<>>
    /\ main' = "sending"
    /\ UNCHANGED <<capture, hardware, sending, reads, isr, opened, arm, disk>>

\* The last part of ufi_main_loop: send all revolutions, then go idle.
SendBegin ==
    /\ MainAt("loop")
    /\ state = "COMPLETE"
    /\ main' = "sending"
    /\ UNCHANGED <<capture, hardware, sending, reads, isr, opened, arm, disk>>

\* The ring takes the whole revolution or, having no room, nothing of it; the loop
\* does not look at which.
SendRevolution ==
    /\ MainAt("sending")
    /\ next < Len(revs)
    /\ next' = next + 1
    /\ taken' \in {taken, Append(taken, next)}
    /\ UNCHANGED <<capture, hardware, main, reads, isr, opened, arm, disk>>

\* Slip: the last revolution is not sent.
SendAllButOne ==
    /\ MainAt("sending")
    /\ next + 1 >= Len(revs)
    /\ state' = "IDLE"
    /\ next' = 0
    /\ taken' = <<>>
    /\ main' = "loop"
    /\ UNCHANGED <<reads, label, requested, revs, hardware, isr, opened, arm, disk>>

\* Slip: the state is not reset.
SendEndStaysComplete ==
    /\ MainAt("sending")
    /\ next >= Len(revs)
    /\ next' = 0
    /\ taken' = <<>>
    /\ main' = "loop"
    /\ UNCHANGED <<reads, capture, hardware, isr, opened, arm, disk>>

SendEnd ==
    /\ MainAt("sending")
    /\ next >= Len(revs)
    /\ state' = "IDLE"
    /\ next' = 0
    /\ taken' = <<>>
    /\ main' = "loop"
    /\ UNCHANGED <<reads, label, requested, revs, hardware, isr, opened, arm, disk>>

-------------------------------------------------------------------------------
(* The index interrupt, read mode. *)

NewTurn ==
    /\ isr = "off"
    /\ turn' = NextTurn(turn)
    /\ nth' = 0

\* Neither waiting nor running: the handler does nothing.
IndexIgnored ==
    /\ NewTurn
    /\ state \in {"IDLE", "COMPLETE"}
    /\ UNCHANGED <<capture, hardware, main, sending, reads, isr, opened, arm>>

IndexOpens ==
    /\ NewTurn
    /\ state = "WAITING_INDEX"
    /\ state' = "RUNNING"
    /\ opened' = turn'
    /\ UNCHANGED <<label, requested, revs, hardware, main, sending, reads, isr, arm>>

\* Slip: the stream is not stopped before its buffer is read.
CopyWhileArmed ==
    /\ NewTurn
    /\ state = "RUNNING"
    /\ isr' = "copying"
    /\ UNCHANGED <<capture, hardware, main, sending, reads, opened, arm>>

\* The stream is stopped before its buffer is read.
IndexStopsDma ==
    /\ NewTurn
    /\ state = "RUNNING"
    /\ armed' = FALSE
    /\ isr' = "copying"
    /\ UNCHANGED <<capture, capturing, dmaBuf, main, sending, reads, opened, arm>>

\* It is started again after the copy, if more revolutions are wanted.
IndexStores ==
    /\ isr = "copying"
    /\ revs' = Append(revs, [turn |-> opened, samples |-> dmaBuf])
    /\ IF Len(revs) + 1 >= requested
         THEN /\ state' = "COMPLETE"
              /\ UNCHANGED <<armed, dmaBuf>>
         ELSE /\ RestartDma
              /\ UNCHANGED state
    /\ opened' = turn
    /\ isr' = "off"
    /\ UNCHANGED <<label, requested, capturing, main, sending, reads, arm, disk>>

IndexHandler == IndexIgnored \/ IndexOpens \/ IndexStopsDma \/ IndexStores

-------------------------------------------------------------------------------
(* The hardware: a flux transition passes the head. *)

\* The stream is circular: after MaxFlux samples it starts over at position 0.
Store(sample) ==
    IF Len(dmaBuf) + 1 >= MaxFlux THEN <<>> ELSE Append(dmaBuf, sample)

\* The surfaces are told apart until the head is moved; then the read has lost the
\* promise of its label anyway.
Under == IF moved THEN NoSurface ELSE head

Transition ==
    /\ nth < FluxPerTurn
    /\ nth' = nth + 1
    /\ dmaBuf' = IF capturing /\ armed /\ ~Foreign
                   THEN Store([turn |-> turn, nth |-> nth + 1, at |-> Under])
                   ELSE dmaBuf
    /\ UNCHANGED <<capture, capturing, armed, main, sending, reads, isr, opened, arm, turn>>

-------------------------------------------------------------------------------
Command ==
    \/ \E s \in Surfaces, n \in 0 .. RevBuffers + 1 : CaptureStart(s, n)
    \/ \E s \in Surfaces : Seek(s)
    \/ AbortTimer

MainContinues ==
    \/ AwaitIndex
    \/ AbortDma
    \/ AbortIdle
    \/ SendBegin
    \/ SendRevolution
    \/ SendEnd

Next ==
    \/ Command
    \/ MainContinues
    \/ IndexHandler
    \/ Transition

Spec == Init /\ [][Next]_vars

\* The main loop never stops, an interrupt handler runs to its end, and the
\* motor turns the disk. Nothing makes the host send a command.
FairSpec ==
    /\ Spec
    /\ WF_vars(MainContinues)
    /\ WF_vars(IndexHandler)

-------------------------------------------------------------------------------
(* Properties *)

TypeOK ==
    /\ state \in States
    /\ label \in Surfaces
    /\ requested \in 0 .. RevBuffers
    /\ revs \in Seq(Revolution)
    /\ capturing \in BOOLEAN
    /\ armed \in BOOLEAN
    /\ dmaBuf \in Buffer
    /\ main \in MainSteps
    /\ next \in Nat
    /\ taken \in Seq(Nat)
    /\ reads \in {"none", "first", "later"}
    /\ isr \in {"off", "copying"}
    /\ opened \in TurnNo
    /\ head \in Surfaces
    /\ moved \in BOOLEAN
    /\ turn \in TurnNo
    /\ nth \in 0 .. FluxPerTurn

\* When the interrupt copies a revolution, its slot g_capture.buffer[
\* revolutions_captured] is one of the RevBuffers slots and one that was asked
\* for, whatever aborts and new reads came before it.
SlotInBounds ==
    isr = "copying" => /\ Len(revs) < requested
                       /\ Len(revs) < RevBuffers

\* When the main loop sends a capture it sends as many revolutions as the
\* accepted request asked for: an abort that races the interrupt leaves no
\* half-captured read behind that is then sent.
SentIsWhole ==
    main = "sending" => /\ state = "COMPLETE"
                        /\ Len(revs) = requested
                        /\ requested > 0

\* What is captured and sent is the read that was accepted: no slot beyond it is
\* filled, and it is not sent before its last one is.
WholeReads == SlotInBounds /\ SentIsWhole

\* No sample reaches memory while no capture is in progress. Neither the stream
\* enabled since power-up nor an interrupt that restarts it in the middle of an
\* abort breaks this: without the input capture nothing requests a transfer.
IdleIsQuiet ==
    /\ state = "IDLE" /\ main # "starting" => ~(capturing /\ armed)
    /\ state = "COMPLETE" => ~(capturing /\ armed)

\* ufi_capture_start does not reset an enabled stream: every read but the first
\* finds it stopped or at position 0, so no read begins with samples of the last.
\* The first one finds the stream of ufi_flux_init, with no sample at all.
StartsAtZero ==
    state = "IDLE" /\ main = "loop" /\ armed =>
        IF reads = "none" THEN Foreign ELSE dmaBuf = <<>>

\* An abort that the interrupt interleaves leaves nothing running or stored that
\* a later read would take for its own.
NothingWithoutRead == IdleIsQuiet /\ StartsAtZero

\* Every revolution after the first holds only transitions of the turn whose
\* index pulse opened it, without a hole between two of them.
FromOneTurn(rev) ==
    /\ rev.samples # <<Stray>>
    /\ \A i \in 1 .. Len(rev.samples) : rev.samples[i].turn = rev.turn
    /\ \A i \in 1 .. Len(rev.samples) - 1 :
           rev.samples[i + 1].nth = rev.samples[i].nth + 1

LaterRevolutionsPure ==
    \A k \in 2 .. Len(revs) : FromOneTurn(revs[k])

\* The revolutions of a read are consecutive turns of the disk: no index pulse
\* is missed between two of them.
ConsecutiveTurns ==
    \A k \in 2 .. Len(revs) : revs[k].turn = NextTurn(revs[k - 1].turn)

\* The copy in the interrupt, with the disk turning on, neither mixes turns nor
\* skips one.
TurnsInOrder == LaterRevolutionsPure /\ ConsecutiveTurns

\* If the head stays where the read has put it, the read holds no transition of
\* another surface: none that an earlier read or an aborted one has left, and
\* none from before the head arrived. What comes from no transition at all is
\* confined to the first revolution of the first read after power-up.
OneSurfaceOnly ==
    ~moved /\ state # "IDLE" =>
        \A k \in 1 .. Len(revs) :
            \/ revs[k].samples = <<Stray>> /\ reads = "first" /\ k = 1
            \/ \A i \in 1 .. Len(revs[k].samples) :
                   revs[k].samples[i] # Stray /\ revs[k].samples[i].at = label

\* Every accepted read, sent or aborted, ends, so that the next one can be
\* accepted: with the disk turning the program cannot stay in a capture.
ReadEnds == (state = "WAITING_INDEX") ~> (state = "IDLE")

-------------------------------------------------------------------------------
(* Refinement: what the caller sees is CaptureService. *)

Busy == state # "IDLE"

Service == INSTANCE CaptureService WITH
    phase   <- CASE state = "IDLE" -> "idle"
                 [] state = "WAITING_INDEX" -> "waiting"
                 [] state = "RUNNING" -> "running"
                 [] state = "COMPLETE" -> "done",
    surface <- IF Busy THEN label ELSE NoSurface,
    want    <- IF Busy THEN requested ELSE 0,
    got     <- IF Busy THEN Len(revs) ELSE 0,
    out     <- next

\* The capture implements the service: the revolutions of a whole read, and of no
\* other, are offered to the link in order and each once, in spite of aborts that
\* the interrupt interleaves. It does not promise that the link takes them.
Refines == Service!Spec

===============================================================================
