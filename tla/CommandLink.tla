----------------------------- MODULE CommandLink -----------------------------
(***************************************************************************)
(* Commands and answers: the command buffer and the dispatcher of          *)
(* firmware/src/ufi_usb.c, and send_command and read_track of              *)
(* software/cm5/ufi_processor.py, which use them.                          *)
(*                                                                         *)
(* The USB interrupt copies a command into cmd_buffer and sets cmd_ready;  *)
(* the main loop clears cmd_ready and then reads the buffer twice, the     *)
(* code of the command first and its parameters later, and the interrupt   *)
(* may come in between. Answers and flux share one IN endpoint: it holds   *)
(* one packet until the host reads it, and refuses others meanwhile.       *)
(*                                                                         *)
(* Commands differ here in what comes back: nothing ("nop", "reset", and   *)
(* "long", of more than the 64 bytes of the buffer), a header ("header",   *)
(* and "abort", which ends a read), a header with data, or a header and    *)
(* later, when the disk has turned, flux. The revolutions of a read go     *)
(* through a ring, which takes them whole or not at all and from which     *)
(* each of them sends one packet; what is left begins the flux of the next *)
(* read. TransmitRing tells of the bytes in the ring.                      *)
(***************************************************************************)
EXTENDS Integers, Sequences

CONSTANTS
    Kinds,        \* among those of AllKinds
    Numbers,      \* bound: commands are numbered 0 .. Numbers - 1, then 0 again
    MaxRevs,      \* bound: revolutions of a read, at least 1
    RingRoom,     \* bound: revolutions the ring can hold, at least 1
    None          \* no packet

AllKinds == {"nop", "reset", "long", "header", "abort", "data", "flux"}

ASSUME LinkAssumption ==
    /\ Kinds \subseteq AllKinds
    /\ Numbers \in Nat \ {0, 1}
    /\ MaxRevs \in Nat \ {0}
    /\ RingRoom \in Nat \ {0}
    /\ None \notin [no : Nat, kind : AllKinds]
    /\ None \notin [type : {"header", "data", "flux"}, no : Nat, ok : BOOLEAN]

VARIABLES
    host,         \* what the host waits for: "header", "data", "flux"; or "idle"
    want,         \* the command it waits for
    mailbox,      \* cmd_buffer
    ready,        \* cmd_ready
    main,         \* where the main loop is
    cmd,          \* the command whose first byte was read
    args,         \* the command whose parameters were read
    done,         \* history: the command in the buffer has run
    capture,      \* the read in progress: None or its command
    complete,     \* g_capture.state = CAPTURE_COMPLETE
    left,         \* revolutions the main loop has still to send
    held,         \* for each revolution with bytes in the ring, its command's number
    wire,         \* the packet in the endpoint
    refused,      \* history: a packet met a busy endpoint
    late,         \* history: a wait for the endpoint ended by its timeout
    mistaken,     \* history: the host took a packet for another
    abandoned,    \* history: the host gave up on a read in progress
    leftover      \* history: a read ended with bytes in the ring

hostSide == <<host, want, mistaken, abandoned>>
buffer == <<mailbox, ready, done>>
copies == <<cmd, args>>
reading == <<capture, complete, left>>
endpoint == <<held, wire, refused, late, leftover>>
device == <<buffer, main, copies, reading, endpoint>>
vars == <<hostSide, device>>

\* No read has left anything behind that could come instead of an answer.
Clean == ~abandoned /\ ~leftover

Command == [no : 0 .. Numbers - 1, kind : Kinds]
Packet == [type : {"header", "data", "flux"}, no : 0 .. Numbers - 1, ok : BOOLEAN]
MainSteps == {"loop", "taken", "decoded", "answering", "sending",
              "flushing"}

Init ==
    /\ host = "idle"
    /\ want = None
    /\ mailbox = None
    /\ ready = FALSE
    /\ main = "loop"
    /\ cmd = None
    /\ args = None
    /\ done = TRUE
    /\ capture = None
    /\ complete = FALSE
    /\ left = 0
    /\ held = <<>>
    /\ wire = None
    /\ refused = FALSE
    /\ late = FALSE
    /\ mistaken = FALSE
    /\ abandoned = FALSE
    /\ leftover = FALSE

-------------------------------------------------------------------------------
(* The host. *)

NextNo == IF want = None \/ want.no + 1 = Numbers THEN 0 ELSE want.no + 1

\* ufi_usb_receive_callback copies what fits the buffer and ignores the rest.
Received(command) ==
    IF command.kind = "long"
      THEN UNCHANGED buffer
      ELSE mailbox' = command /\ ready' = TRUE /\ done' = FALSE

\* send_command writes the packet and waits for a header.
Send(kind) ==
    /\ host = "idle"
    /\ want' = [no |-> NextNo, kind |-> kind]
    /\ Received(want')
    /\ host' = "header"
    /\ UNCHANGED <<mistaken, abandoned, copies, reading, endpoint, main>>

\* The next packet is taken for what the host waits for. An error status, or a
\* packet of another length, raises an exception. After a packet of flux the host
\* may want another one; with its last one, or an exception, read_track ends.
Fetch ==
    /\ host # "idle"
    /\ wire # None
    /\ wire' = None
    /\ mistaken' = (mistaken \/ wire.type # host \/ wire.no # want.no)
    /\ host' \in IF host = "header" /\ wire.type = "header" /\ wire.ok
                      /\ want.kind \in {"data", "flux"}
                   THEN {want.kind}
                   ELSE {"idle"} \cup ({host} \cap {"flux"})
    /\ abandoned' = (abandoned \/ (host' = "idle" /\ capture # None))
    /\ UNCHANGED <<want, buffer, copies, reading, held, refused, late, leftover,
                   main>>

\* A timeout of 5 or 10 s: the device has nothing to say and nothing to do,
\* except that it may wait for the disk.
GiveUp ==
    /\ host # "idle"
    /\ wire = None
    /\ main = "loop"
    /\ ~ready
    /\ ~complete
    /\ host' = "idle"
    /\ abandoned' = (abandoned \/ capture # None)
    /\ UNCHANGED <<want, mistaken, device>>

-------------------------------------------------------------------------------
(* The main loop. *)

\* USBD_CDC_TransmitPacket, whose result the dispatcher ignores.
Transmit(packet) ==
    IF wire = None
      THEN wire' = packet /\ UNCHANGED refused
      ELSE refused' = TRUE /\ UNCHANGED wire

\* The dispatcher returns, and its variables are gone.
Return == main' = "loop" /\ cmd' = None /\ args' = None

\* Slip: cmd_ready is not cleared.
TakeWithoutClearing ==
    /\ main = "loop"
    /\ ready
    /\ main' = "taken"
    /\ UNCHANGED <<hostSide, buffer, copies, reading, endpoint>>

\* The main loop clears the flag, and the buffer is open for the interrupt.
Take ==
    /\ main = "loop"
    /\ ready
    /\ ready' = FALSE
    /\ main' = "taken"
    /\ UNCHANGED <<hostSide, mailbox, done, copies, reading, endpoint>>

\* Slip: the answer is given before the parameters are read.
DecodeAndAnswer ==
    /\ main = "taken"
    /\ cmd' = mailbox
    /\ Transmit([type |-> "header", no |-> cmd'.no, ok |-> TRUE])
    /\ main' = "decoded"
    /\ UNCHANGED <<hostSide, buffer, args, reading, held, late, leftover>>

\* It reads the command code from it.
Decode ==
    /\ main = "taken"
    /\ cmd' = mailbox
    /\ main' = "decoded"
    /\ UNCHANGED <<hostSide, buffer, args, reading, endpoint>>

\* The case of a command runs, up to its answer. A read that is started, which
\* may fail, is not started while another one is in progress.
Execute ==
    /\ main = "decoded"
    /\ cmd.kind # "reset"
    /\ done' = TRUE
    /\ capture' \in IF cmd.kind = "abort" THEN {None}
                     ELSE IF cmd.kind = "flux" /\ capture = None THEN {None, cmd}
                     ELSE {capture}
    /\ complete' = (complete /\ cmd.kind # "abort")
    /\ IF cmd.kind = "nop"
         THEN Return
         ELSE main' = "answering" /\ args' = mailbox /\ UNCHANGED cmd
    /\ UNCHANGED <<hostSide, mailbox, ready, left, endpoint>>

\* RESET and BOOTLOADER start the device again, with nothing in its memory.
Reset ==
    /\ main = "decoded"
    /\ cmd.kind = "reset"
    /\ done' = TRUE
    /\ mailbox' = None
    /\ ready' = FALSE
    /\ capture' = None
    /\ complete' = FALSE
    /\ left' = 0
    /\ held' = <<>>
    /\ wire' = None
    /\ Return
    /\ UNCHANGED <<hostSide, refused, late, leftover>>

\* The header says whether the command succeeded; data follow if it did.
Answer ==
    /\ main = "answering"
    /\ \E ok \in BOOLEAN :
         /\ cmd.kind = "flux" => (ok <=> capture = cmd)
         /\ Transmit([type |-> "header", no |-> cmd.no, ok |-> ok])
         /\ IF cmd.kind = "data" /\ ok
              THEN main' = "sending" /\ UNCHANGED copies
              ELSE Return
    /\ UNCHANGED <<hostSide, buffer, reading, held, late, leftover>>

\* Slip: the data are sent without waiting.
SendDataAtOnce ==
    /\ main = "sending"
    /\ Transmit([type |-> "data", no |-> cmd.no, ok |-> TRUE])
    /\ Return
    /\ UNCHANGED <<hostSide, buffer, reading, held, late, leftover>>

\* usb_wait_tx_complete waits for the header to be fetched, but 50 ms at most.
SendData ==
    /\ main = "sending"
    /\ late' = (late \/ wire # None)
    /\ Transmit([type |-> "data", no |-> cmd.no, ok |-> TRUE])
    /\ Return
    /\ UNCHANGED <<hostSide, buffer, reading, held, leftover>>

\* The disk has turned often enough.
Captured ==
    /\ capture # None
    /\ ~complete
    /\ complete' = TRUE
    /\ UNCHANGED <<hostSide, buffer, copies, capture, left, endpoint, main>>

\* The last part of the main loop sends the revolutions ...
FluxBegin ==
    /\ main = "loop"
    /\ complete
    /\ left' \in 1 .. MaxRevs
    /\ main' = "flushing"
    /\ UNCHANGED <<hostSide, buffer, copies, capture, complete, endpoint>>

\* There is no room, and the revolution is left out.
BufferFull == UNCHANGED <<held, wire, late>>

\* ufi_usb_flush, the ring holding `filled`: at most 512 bytes of what came first
\* are sent, whether they are of this read or not; after 100 ms at a busy endpoint,
\* nothing is.
FlushPacket(filled) ==
    IF wire = None
      THEN /\ wire' = [type |-> "flux", no |-> Head(filled), ok |-> TRUE]
           /\ \E whole \in 0 .. Len(filled) :
                held' = SubSeq(filled, whole + 1, Len(filled))
           /\ UNCHANGED late
      ELSE held' = filled /\ late' = TRUE /\ UNCHANGED wire

\* ufi_usb_send_flux puts a revolution into the ring if there is room for all of it;
\* the main loop ignores that there was none.
SendFlux ==
    \/ BufferFull
    \/ Len(held) < RingRoom /\ FlushPacket(Append(held, capture.no))

\* Slip: the capture is not made idle.
SendRevolutionOnly ==
    /\ main = "flushing"
    /\ SendFlux
    /\ left' = left - 1
    /\ IF left = 1
         THEN capture' = None /\ main' = "loop"
         ELSE UNCHANGED <<capture, main>>
    /\ UNCHANGED <<hostSide, buffer, copies, complete, refused, leftover>>

\* ... one by one, and makes the capture idle after the last, whether they went into
\* the ring or not and whether the ring has become empty or not.
SendRevolution ==
    /\ main = "flushing"
    /\ SendFlux
    /\ left' = left - 1
    /\ IF left = 1
         THEN /\ capture' = None
              /\ complete' = FALSE
              /\ main' = "loop"
              /\ leftover' = (leftover \/ held' # <<>>)
         ELSE UNCHANGED <<capture, complete, main, leftover>>
    /\ UNCHANGED <<hostSide, buffer, copies, refused>>

MainContinues == Take \/ Decode \/ Execute \/ Reset \/ Answer \/ SendData
                 \/ FluxBegin \/ SendRevolution

Next ==
    \/ \E kind \in Kinds : Send(kind)
    \/ Fetch
    \/ GiveUp
    \/ MainContinues
    \/ Captured

Spec == Init /\ [][Next]_vars

\* The main loop runs, the host reads what is there or times out, the disk turns.
FairSpec ==
    /\ Spec
    /\ WF_vars(MainContinues)
    /\ WF_vars(Fetch)
    /\ WF_vars(Captured)
    /\ WF_vars(GiveUp)

-------------------------------------------------------------------------------
(* Properties *)

\* The types, that a finished read belongs to a command, and that revolutions are
\* left to be sent just while the main loop sends them.
TypeOK ==
    /\ host \in {"idle", "header", "data", "flux"}
    /\ want \in Command \cup {None}
    /\ mailbox \in Command \cup {None}
    /\ ready \in BOOLEAN
    /\ main \in MainSteps
    /\ cmd \in Command \cup {None}
    /\ args \in Command \cup {None}
    /\ done \in BOOLEAN
    /\ capture \in Command \cup {None}
    /\ complete \in BOOLEAN
    /\ complete => capture # None
    /\ left \in 0 .. MaxRevs
    /\ left > 0 <=> main = "flushing"
    /\ held \in Seq(0 .. Numbers - 1)
    /\ Len(held) <= RingRoom
    /\ wire \in Packet \cup {None}
    /\ refused \in BOOLEAN
    /\ late \in BOOLEAN
    /\ mistaken \in BOOLEAN
    /\ abandoned \in BOOLEAN
    /\ leftover \in BOOLEAN

\* No command is run with the parameters of another: the host's waiting keeps
\* the interrupt away from the buffer while the main loop reads it. Timeouts do
\* no harm to the next command, unless a read is still going on or has left
\* something in the ring.
CommandIntact ==
    Clean /\ main \in {"answering", "sending"} => cmd = args

\* No command runs twice ...
RunsOnce == [][Clean /\ (Execute \/ Reset) => ~done]_vars

\* ... and none is overwritten before it has run.
NoneOverwritten ==
    [][\A kind \in Kinds :
         Clean /\ Send(kind) => ~ready /\ main \notin {"taken", "decoded"}]_vars

\* Each command runs once.
EachOnce == RunsOnce /\ NoneOverwritten

\* The host never takes a packet for another one, whatever packets the device has
\* lost, unless it gave up on a read in progress or a read left something in the
\* ring, which the next read sends first.
AnswerIsMine == Clean => ~mistaken

\* A packet meets a busy endpoint only after a wait that timed out.
NothingRefused == Clean /\ ~late => ~refused

\* Packets and the commands they answer stay in step, and none is lost before a wait
\* has timed out, until a read is given up or leaves something in the ring.
AnswersInOrder == AnswerIsMine /\ NothingRefused

\* Commands that are not answered.
Silent == {"nop", "reset", "long"}

\* Every other command is answered, with its data if it has some: a host gives up on
\* one only while it waits for flux, which the disk, or a ring without room, may
\* withhold. Any other silence is the loss of a packet that was sent late.
OthersAreAnswered ==
    [][GiveUp /\ Clean /\ ~late => host = "flux" \/ want.kind \in Silent]_vars

\* The host finishes with each of its commands.
Served == (host # "idle") ~> (host = "idle")

===============================================================================
