----------------------------- MODULE UsbLink_proof -----------------------------
(***************************************************************************)
(* Proofs about both directions of firmware/src/ufi_usb.c: the commands    *)
(* and their answers (CommandLink), for every set of commands, and the     *)
(* bytes of the flux (TransmitRing), for every size of the ring, of the    *)
(* packets and of the revolutions.                                         *)
(*                                                                         *)
(* What relates the host to the device holds until the host gives up on a  *)
(* read in progress or a read leaves something in the ring.                *)
(***************************************************************************)
EXTENDS CommandLink, TransmitRing, SequenceTheorems, TLAPS

\* What is read has been written, whatever the host does.
Sane ==
    /\ ready \/ main \in {"taken", "decoded"} => mailbox # None
    /\ main \in {"decoded", "answering", "sending"} => cmd # None
    /\ main = "flushing" => complete

Kept == TypeOK /\ Sane

\* A command waits to be run.
Pending == ready \/ main \in {"taken", "decoded"}

\* The parameters in the buffer are those of the command being waited for.
Mail ==
    /\ ready => main = "loop"
    /\ Pending => /\ host = "header" /\ mailbox = want /\ ~done
                  /\ wire = None /\ capture = None
    /\ main = "decoded" => cmd = want

\* An answer is made for that command while the host waits for it.
Replies ==
    /\ main = "answering" => /\ host = "header" /\ cmd = want /\ args = want
                             /\ wire = None
    /\ main = "sending" => /\ cmd = want /\ args = want /\ want.kind = "data"
                           /\ host = IF wire = None THEN "data" ELSE "header"
                           /\ wire # None => wire.ok

\* A read goes on only for the command that asked for it, and the ring is empty
\* but while it is sent.
Reads ==
    /\ capture # None => /\ capture = want /\ want.kind = "flux"
                         /\ host \in {"header", "flux"}
                         /\ host = "header" => IF wire = None THEN main = "answering"
                                                              ELSE wire.ok
    /\ main = "flushing" => capture # None
    /\ held # <<>> => main = "flushing"
    /\ \A i \in DOMAIN held : held[i] = want.no

\* A packet on the link is what the host waits for.
Answers ==
    /\ wire # None => wire.no = want.no /\ wire.type = host
    /\ want = None => host = "idle"
    /\ host = "idle" => main = "loop" /\ ~ready /\ wire = None /\ capture = None

\* Every answer on its way is one the host waits for, and only a wait that timed
\* out has cost a packet.
Own == /\ Mail /\ Replies /\ Reads /\ Answers
       /\ ~mistaken
       /\ ~late => ~refused

\* The inductive invariant.
IInv == Kept /\ (Clean => Own)

-------------------------------------------------------------------------------
\* What the proofs use of the constants.
LEMMA Assumptions ==
    /\ Numbers \in Nat
    /\ Numbers > 1
    /\ MaxRevs \in Nat /\ MaxRevs > 0
    /\ RingRoom \in Nat /\ RingRoom > 0
    /\ None \notin Command
    /\ None \notin Packet
    /\ \A c \in Command : c.no \in 0 .. Numbers - 1 /\ c.kind \in Kinds
<1>1. /\ Numbers \in Nat /\ Numbers > 1
      /\ MaxRevs \in Nat /\ MaxRevs > 0
      /\ RingRoom \in Nat /\ RingRoom > 0
    BY LinkAssumption
<1>2. \A c \in Command : c.no \in 0 .. Numbers - 1 /\ c.kind \in Kinds
    BY DEF Command
<1>3. None \notin Command
  <2>1. \A c \in Command : c \in [no : Nat, kind : AllKinds]
    <3>1. 0 .. Numbers - 1 \subseteq Nat
        BY <1>1
    <3>2. Kinds \subseteq AllKinds
        BY LinkAssumption
    <3>. QED
        BY <3>1, <3>2, Zenon DEF Command
  <2>. QED
      BY <2>1, LinkAssumption
<1>4. None \notin Packet
  <2>1. \A c \in Packet :
          c \in [type : {"header", "data", "flux"}, no : Nat, ok : BOOLEAN]
      BY <1>1 DEF Packet
  <2>. QED
      BY <2>1, LinkAssumption
<1>. QED
    BY <1>1, <1>2, <1>3, <1>4

\* Nothing is pending on a link that was just opened.
LEMMA InvInit == Init => IInv
<1>. SUFFICES ASSUME Init PROVE IInv
    OBVIOUS
<1>. USE DEF Init
<1>1. held \in Seq(0 .. Numbers - 1) /\ Len(held) = 0 /\ DOMAIN held = {}
    OBVIOUS
<1>2. 0 \in 0 .. MaxRevs /\ ~(0 > 0) /\ 0 <= RingRoom
    BY Assumptions
<1>3. Kept
    BY <1>1, <1>2 DEF Kept, Sane, TypeOK, MainSteps
<1>4. Own
    BY <1>1 DEF Own, Mail, Pending, Replies, Reads, Answers
<1>. QED
    BY <1>3, <1>4 DEF IInv

\* A read is sent by putting a revolution into the ring, or not.
LEMMA SendFluxTyped ==
    ASSUME held \in Seq(0 .. Numbers - 1), Len(held) <= RingRoom,
           wire \in Packet \cup {None}, late \in BOOLEAN,
           capture \in Command, SendFlux
    PROVE  /\ held' \in Seq(0 .. Numbers - 1) /\ Len(held') <= RingRoom
           /\ wire' \in Packet \cup {None} /\ late' \in BOOLEAN
<1>1. capture.no \in 0 .. Numbers - 1
    BY Assumptions
<1>2. CASE BufferFull
    BY <1>2 DEF BufferFull
<1>3. CASE Len(held) < RingRoom /\ FlushPacket(Append(held, capture.no))
  <2>. DEFINE filled == Append(held, capture.no)
  <2>1. /\ filled \in Seq(0 .. Numbers - 1) /\ Len(filled) \in 1 .. RingRoom
        /\ Head(filled) \in 0 .. Numbers - 1
      BY <1>1, <1>3, Assumptions
  <2>3. FlushPacket(filled)
      BY <1>3
  <2>. HIDE DEF filled
  <2>2. CASE wire = None
    <3>1. PICK whole \in 0 .. Len(filled) :
                held' = SubSeq(filled, whole + 1, Len(filled))
        BY <2>2, <2>3 DEF FlushPacket
    <3>2. held' \in Seq(0 .. Numbers - 1) /\ Len(held') <= RingRoom
        BY <2>1, <3>1, Assumptions
    <3>3. [type |-> "flux", no |-> Head(filled), ok |-> TRUE] \in Packet
        BY <2>1 DEF Packet
    <3>. QED
        BY <2>2, <2>3, <3>2, <3>3 DEF FlushPacket
  <2>4. CASE wire # None
    <3>1. held' = filled /\ late' = TRUE /\ wire' = wire
        BY <2>3, <2>4 DEF FlushPacket
    <3>2. Len(filled) <= RingRoom
        BY <2>1, Assumptions
    <3>. QED
        BY <2>1, <3>1, <3>2
  <2>. QED
      BY <2>2, <2>4
<1>. QED
    BY <1>2, <1>3 DEF SendFlux

\* Packets and commands keep their types, in every history.
LEMMA KeptNext ==
    ASSUME Kept, [Next]_vars
    PROVE  Kept'
<1>. USE DEF Kept, TypeOK, Sane, MainSteps, Return
<1>1. ASSUME NEW kind \in Kinds, Send(kind) PROVE Kept'
  <2>1. NextNo \in 0 .. Numbers - 1
      BY Assumptions DEF NextNo
  <2>2. want' \in Command
      BY <1>1, <2>1 DEF Send, Command
  <2>3. want' # None
      BY <2>2, Assumptions
  <2>4. \/ UNCHANGED <<mailbox, ready, done>>
        \/ mailbox' = want' /\ ready' = TRUE /\ done' = FALSE
      BY <1>1 DEF Send, Received, buffer
  <2>5. /\ host' = "header"
        /\ UNCHANGED <<mistaken, abandoned, cmd, args, capture, complete, left,
                       held, wire, refused, late, leftover, main>>
      BY <1>1 DEF Send, copies, reading, endpoint
  <2>6. mailbox' \in Command \cup {None} /\ ready' \in BOOLEAN /\ done' \in BOOLEAN
      BY <2>2, <2>4
  <2>7. TypeOK'
      BY <2>2, <2>5, <2>6
  <2>8. Sane'
      BY <2>3, <2>4, <2>5
  <2>. QED
      BY <2>7, <2>8
<1>2. CASE Fetch
  <2>1. host' \in {"idle", "header", "data", "flux"}
      BY <1>2 DEF Fetch
  <2>2. mistaken' \in BOOLEAN /\ abandoned' \in BOOLEAN
      BY <1>2 DEF Fetch
  <2>. QED
      BY <1>2, <2>1, <2>2 DEF Fetch, buffer, copies, reading
<1>3. CASE GiveUp
    BY <1>3 DEF GiveUp, device, buffer, copies, reading, endpoint
<1>4. CASE Take
  <2>1. /\ ready' = FALSE /\ main' = "taken" /\ mailbox' = mailbox /\ mailbox # None
        /\ main = "loop"
        /\ UNCHANGED <<hostSide, done, copies, reading, endpoint>>
      BY <1>4 DEF Take
  <2>4. ~(left > 0) /\ main' # "flushing"
      BY <2>1
  <2>5. left' > 0 <=> main' = "flushing"
      BY <2>1, <2>4 DEF reading
  <2>6. /\ UNCHANGED <<host, want, mailbox, cmd, args, done, capture, complete,
                       left, held, wire, refused, late, mistaken, abandoned,
                       leftover>>
        /\ ready' \in BOOLEAN /\ main' \in MainSteps
      BY <2>1 DEF hostSide, copies, reading, endpoint
  <2>. HIDE DEF MainSteps
  <2>2. TypeOK'
      BY <2>5, <2>6
  <2>. USE DEF MainSteps
  <2>3. Sane'
      BY <2>1 DEF hostSide, copies, reading
  <2>. QED
      BY <2>2, <2>3
<1>5. CASE Decode
    BY <1>5 DEF Decode, hostSide, buffer, reading, endpoint
<1>6. CASE Execute
  <2>1. capture' \in Command \cup {None} /\ (complete' => capture' # None)
      BY <1>6 DEF Execute
  <2>2. complete' \in BOOLEAN /\ done' \in BOOLEAN
      BY <1>6 DEF Execute
  <2>. QED
      BY <1>6, <2>1, <2>2 DEF Execute, hostSide, endpoint
<1>7. CASE Reset
  <2>1. held' \in Seq(0 .. Numbers - 1) /\ Len(held') = 0
      BY <1>7 DEF Reset
  <2>2. 0 \in 0 .. MaxRevs /\ ~(0 > 0) /\ 0 <= RingRoom
      BY Assumptions
  <2>3. /\ mailbox' = None /\ ready' = FALSE /\ done' = TRUE /\ left' = 0
        /\ capture' = None /\ complete' = FALSE /\ wire' = None
        /\ main' = "loop" /\ cmd' = None /\ args' = None
        /\ UNCHANGED <<hostSide, refused, late, leftover>>
      BY <1>7 DEF Reset
  <2>4. TypeOK'
      BY <2>1, <2>2, <2>3 DEF hostSide
  <2>. QED
      BY <2>3, <2>4
<1>8. CASE Answer
  <2>1. cmd \in Command
      BY <1>8 DEF Answer
  <2>2. /\ refused' \in BOOLEAN
        /\ wire' \in Packet \cup {None}
    <3>1. PICK ok \in BOOLEAN :
            Transmit([type |-> "header", no |-> cmd.no, ok |-> ok])
        BY <1>8 DEF Answer
    <3>2. [type |-> "header", no |-> cmd.no, ok |-> ok] \in Packet
        BY <2>1, Assumptions DEF Packet
    <3>. QED
        BY <3>1, <3>2 DEF Transmit
  <2>3. main = "answering" /\ ((main' = "sending" /\ UNCHANGED copies) \/ Return)
      BY <1>8 DEF Answer
  <2>. QED
      BY <1>8, <2>1, <2>2, <2>3 DEF Answer, hostSide, buffer, copies, reading
<1>9. CASE SendData
  <2>1. [type |-> "data", no |-> cmd.no, ok |-> TRUE] \in Packet
      BY <1>9, Assumptions DEF SendData, Packet
  <2>2. refused' \in BOOLEAN /\ wire' \in Packet \cup {None}
      BY <1>9, <2>1 DEF SendData, Transmit
  <2>3. late' \in BOOLEAN
      BY <1>9 DEF SendData
  <2>. QED
      BY <1>9, <2>2, <2>3 DEF SendData, hostSide, buffer, reading
<1>10. CASE Captured
    BY <1>10 DEF Captured, hostSide, buffer, copies, endpoint
<1>11. CASE FluxBegin
  <2>1. left' \in 0 .. MaxRevs /\ left' > 0
      BY <1>11, Assumptions DEF FluxBegin
  <2>. QED
      BY <1>11, <2>1 DEF FluxBegin, hostSide, buffer, copies, endpoint
<1>12. CASE SendRevolution
  <2>1. capture \in Command
      BY <1>12 DEF SendRevolution
  <2>2. /\ held' \in Seq(0 .. Numbers - 1) /\ Len(held') <= RingRoom
        /\ wire' \in Packet \cup {None} /\ late' \in BOOLEAN
      BY <1>12, <2>1, SendFluxTyped DEF SendRevolution
  <2>3. left \in 1 .. MaxRevs /\ left' = left - 1
      BY <1>12, Assumptions DEF SendRevolution
  <2>4. left' \in 0 .. MaxRevs /\ (left' > 0 <=> left # 1)
      BY <2>3, Assumptions
  <2>5. leftover' \in BOOLEAN
      BY <1>12 DEF SendRevolution
  <2>6. CASE left = 1
      BY <1>12, <2>2, <2>4, <2>5, <2>6 DEF SendRevolution, hostSide, buffer, copies
  <2>7. CASE left # 1
      BY <1>12, <2>2, <2>4, <2>5, <2>7 DEF SendRevolution, hostSide, buffer, copies
  <2>. QED
      BY <2>6, <2>7
<1>13. CASE UNCHANGED vars
    BY <1>13 DEF vars, device, hostSide, buffer, copies, reading, endpoint
<1>. QED
    BY <1>1, <1>2, <1>3, <1>4, <1>5, <1>6, <1>7, <1>8, <1>9, <1>10, <1>11, <1>12,
       <1>13
    DEF Next, MainContinues

\* What is sent in answer to a command is a packet, not the empty link.
LEMMA PacketExists ==
    ASSUME Kept, want # None, NEW type \in {"header", "data", "flux"},
           NEW ok \in BOOLEAN
    PROVE  [type |-> type, no |-> want.no, ok |-> ok] # None
<1>1. want.no \in 0 .. Numbers - 1
    BY Assumptions DEF Kept, TypeOK
<1>2. [type |-> type, no |-> want.no, ok |-> ok] \in Packet
    BY <1>1 DEF Packet
<1>. QED
    BY <1>2, Assumptions

-------------------------------------------------------------------------------
(* What the host waits for, one step of the program at a time. *)

\* A new command finds nothing else on its way, and is the one in the buffer.
LEMMA SendStep ==
    ASSUME Kept, Own, NEW kind \in Kinds, Send(kind)
    PROVE  Own'
<1>. USE DEF Kept, Own
<1>1. /\ want' = [no |-> NextNo, kind |-> kind] /\ host' = "header"
      /\ \/ UNCHANGED buffer
         \/ mailbox' = want' /\ ready' = TRUE /\ done' = FALSE
      /\ UNCHANGED <<mistaken, copies, reading, endpoint, main>>
    BY DEF Send, Received
<1>2. /\ host = "idle" /\ main = "loop" /\ ~ready /\ wire = None /\ capture = None
      /\ held = <<>>
    BY DEF Send, Answers, Reads
<1>3. NextNo \in 0 .. Numbers - 1
    BY Assumptions DEF NextNo, TypeOK
<1>4. want' \in Command
    BY <1>1, <1>3 DEF Command
<1>5. want' # None
    BY <1>4, Assumptions
<1>6. Mail' /\ Replies'
    BY <1>1, <1>2
    DEF Mail, Pending, Replies, copies, reading, endpoint, buffer
<1>7. Reads' /\ Answers' /\ ~mistaken' /\ (~late' => ~refused')
    BY <1>1, <1>2, <1>5 DEF Reads, Answers, reading, endpoint
<1>. QED
    BY <1>6, <1>7

\* The host takes an answer it waits for.
LEMMA FetchStep ==
    ASSUME Kept, Own, Fetch, ~abandoned'
    PROVE  Own'
<1>. USE DEF Kept, Own
<1>1. /\ host # "idle" /\ wire # None /\ wire' = None
      /\ UNCHANGED <<want, buffer, copies, reading, held, refused, late, main>>
    BY DEF Fetch
<1>2. wire.no = want.no /\ wire.type = host
    BY <1>1 DEF Answers
<1>3. ~mistaken'
    BY <1>2 DEF Fetch
<1>4. ~Pending /\ main # "answering"
    BY <1>1 DEF Mail, Replies
<1>5. want # None
    BY <1>1 DEF Answers
<1>6. host' = "idle" => capture = None
    BY DEF Fetch
<1>7. CASE host = "header" /\ wire.ok /\ want.kind \in {"data", "flux"}
  <2>1. host' = want.kind
      BY <1>2, <1>7 DEF Fetch
  <2>2. Mail' /\ Replies'
      BY <1>1, <1>4, <1>7, <2>1 DEF Mail, Pending, Replies, buffer, copies, reading
  <2>3. Reads' /\ Answers'
      BY <1>1, <1>5, <1>7, <2>1 DEF Reads, Answers, buffer, reading
  <2>. QED
      BY <1>1, <1>3, <2>2, <2>3
<1>8. CASE ~(host = "header" /\ wire.ok /\ want.kind \in {"data", "flux"})
  <2>1. host' = "idle" \/ (host = "flux" /\ host' = "flux")
      BY <1>2, <1>8 DEF Fetch
  <2>2. main # "sending"
      BY <1>1, <1>8 DEF Replies
  <2>3. Mail' /\ Replies'
      BY <1>1, <1>4, <2>2 DEF Mail, Pending, Replies, buffer, copies, reading
  <2>4. CASE host' = "idle"
    <3>1. capture = None /\ main = "loop"
        BY <1>4, <1>6, <2>2, <2>4 DEF Reads, Pending, TypeOK, MainSteps
    <3>2. ~ready
        BY <1>4 DEF Pending
    <3>3. Reads' /\ Answers'
        BY <1>1, <1>5, <2>4, <3>1, <3>2 DEF Reads, Answers, buffer, reading
    <3>. QED
        BY <1>1, <1>3, <2>3, <3>3
  <2>5. CASE host = "flux" /\ host' = "flux"
    <3>1. Reads' /\ Answers'
        BY <1>1, <1>5, <2>5 DEF Reads, Answers, buffer, reading
    <3>. QED
        BY <1>1, <1>3, <2>3, <3>1
  <2>. QED
      BY <2>1, <2>4, <2>5
<1>. QED
    BY <1>7, <1>8

\* A host that gives up on no read had nothing on its way.
LEMMA GiveUpStep ==
    ASSUME Kept, Own, GiveUp, ~abandoned'
    PROVE  Own'
<1>1. /\ wire = None /\ main = "loop" /\ ~ready /\ host' = "idle"
      /\ capture = None
      /\ UNCHANGED <<want, mistaken, device>>
    BY DEF GiveUp
<1>. QED
    BY <1>1
    DEF Own, Mail, Pending, Replies, Reads, Answers,
        device, buffer, copies, reading, endpoint

\* The main loop clears the flag and keeps the buffer.
LEMMA TakeStep ==
    ASSUME Own, Take
    PROVE  Own'
BY DEF Take, Own, Mail, Pending, Replies, Reads, Answers,
       hostSide, copies, reading, endpoint

\* It reads the code of the command,
LEMMA DecodeStep ==
    ASSUME Own, Decode
    PROVE  Own'
BY DEF Decode, Own, Mail, Pending, Replies, Reads, Answers,
       hostSide, buffer, reading, endpoint

\* runs it,
LEMMA ExecuteStep ==
    ASSUME Own, Execute
    PROVE  Own'
<1>1. /\ main = "decoded" /\ host = "header" /\ mailbox = want /\ cmd = want
      /\ ~ready /\ wire = None /\ capture = None /\ held = <<>>
    BY DEF Execute, Own, Mail, Pending, Reads
<1>2. /\ \/ main' = "loop" /\ want.kind = "nop"
         \/ main' = "answering" /\ cmd' = want /\ args' = want
      /\ capture' = None \/ (capture' = want /\ want.kind = "flux")
      /\ UNCHANGED <<hostSide, mailbox, ready, endpoint>>
    BY <1>1 DEF Execute, Return
<1>3. Mail' /\ Replies'
    BY <1>1, <1>2 DEF Mail, Pending, Replies, hostSide, endpoint
<1>4. Reads'
    BY <1>1, <1>2 DEF Reads, hostSide, endpoint, Own
<1>5. Answers' /\ ~mistaken' /\ (~late' => ~refused')
    BY <1>1, <1>2 DEF Own, Answers, hostSide, endpoint
<1>. QED
    BY <1>3, <1>4, <1>5 DEF Own

\* or starts the device again,
LEMMA ResetStep ==
    ASSUME Own, Reset
    PROVE  Own'
<1>1. host = "header"
    BY DEF Reset, Own, Mail, Pending
<1>. QED
    BY <1>1
    DEF Reset, Return, Own, Mail, Pending, Replies, Reads, Answers, hostSide

\* answers it,
LEMMA AnswerStep ==
    ASSUME Kept, Own, Answer
    PROVE  Own'
<1>1. /\ main = "answering" /\ host = "header" /\ cmd = want /\ args = want
      /\ wire = None /\ ~Pending /\ ~ready /\ held = <<>>
    BY DEF Answer, Own, Replies, Mail, Pending, Reads
<1>2. PICK ok \in BOOLEAN :
         /\ want.kind = "flux" => (ok <=> capture = want)
         /\ Transmit([type |-> "header", no |-> want.no, ok |-> ok])
         /\ IF want.kind = "data" /\ ok
              THEN main' = "sending" /\ UNCHANGED copies
              ELSE Return
    BY <1>1 DEF Answer
<1>11. \/ main' = "loop"
       \/ /\ main' = "sending" /\ want.kind = "data" /\ ok = TRUE
          /\ cmd' = cmd /\ args' = args
    BY <1>2 DEF Return, copies
<1>3. /\ wire' = [type |-> "header", no |-> want.no, ok |-> ok]
      /\ UNCHANGED refused
    BY <1>1, <1>2 DEF Transmit
<1>4. UNCHANGED <<hostSide, buffer, reading, held, late, leftover>>
    BY DEF Answer
<1>5. want # None
    BY <1>1 DEF Own, Answers
<1>6. wire' # None /\ wire'.ok = ok /\ wire'.no = want.no /\ wire'.type = "header"
    BY <1>3, <1>5, PacketExists
<1>7. main' \in {"sending", "loop"}
    BY <1>2 DEF Return
<1>8. Mail' /\ Replies'
  <2>1. Mail'
      BY <1>1, <1>4, <1>7 DEF Own, Mail, Pending, hostSide, buffer
  <2>2. CASE main' = "loop"
      BY <2>1, <2>2 DEF Replies
  <2>3. CASE main' # "loop"
    <3>1. wire'.ok = TRUE /\ host' = "header" /\ want' = want
        BY <1>1, <1>4, <1>6, <1>11, <2>3 DEF hostSide
    <3>. QED
        BY <1>1, <1>6, <1>11, <2>1, <2>3, <3>1 DEF Replies
  <2>. QED
      BY <2>1, <2>2, <2>3
<1>9. Reads'
    BY <1>1, <1>2, <1>4, <1>6, <1>7 DEF Own, Reads, hostSide, reading
<1>10. Answers' /\ ~mistaken' /\ (~late' => ~refused')
    BY <1>1, <1>3, <1>4, <1>5, <1>6 DEF Own, Answers, hostSide, buffer, reading
<1>. QED
    BY <1>8, <1>9, <1>10 DEF Own

\* and sends the data a second packet carries.
LEMMA SendDataStep ==
    ASSUME Kept, Own, SendData
    PROVE  Own'
<1>1. /\ main = "sending" /\ cmd = want /\ want.kind = "data"
      /\ host = IF wire = None THEN "data" ELSE "header"
      /\ main' = "loop" /\ ~Pending
      /\ UNCHANGED <<hostSide, buffer, reading, held, leftover>>
    BY DEF SendData, Return, Own, Replies, Mail, Pending
<1>2. want # None /\ capture = None /\ held = <<>>
    BY <1>1 DEF Own, Answers, Reads
<1>3. CASE wire = None
  <2>1. /\ wire' = [type |-> "data", no |-> want.no, ok |-> TRUE]
        /\ UNCHANGED refused
        /\ late' = late
      BY <1>1, <1>3 DEF SendData, Transmit, Kept, TypeOK
  <2>. QED
      BY <1>1, <1>2, <1>3, <2>1
      DEF Own, Mail, Pending, Replies, Reads, Answers,
          hostSide, buffer, reading
<1>4. CASE wire # None
  <2>1. wire' = wire /\ late'
      BY <1>4 DEF SendData, Transmit
  <2>. QED
      BY <1>1, <1>2, <1>4, <2>1
      DEF Own, Mail, Pending, Replies, Reads, Answers,
          hostSide, buffer, reading
<1>. QED
    BY <1>3, <1>4

\* A read ends in the interrupt of the index,
LEMMA CapturedStep ==
    ASSUME Own, Captured
    PROVE  Own'
BY DEF Captured, Own, Mail, Pending, Replies, Reads, Answers,
       hostSide, buffer, copies, endpoint

\* is noticed by the main loop
LEMMA FluxBeginStep ==
    ASSUME Kept, Own, FluxBegin
    PROVE  Own'
<1>1. capture # None
    BY DEF FluxBegin, Kept, TypeOK
<1>. QED
    BY <1>1
    DEF FluxBegin, Own, Mail, Pending, Replies, Reads, Answers,
        hostSide, buffer, copies, reading, endpoint

\* and sent: what goes through the ring is of this read.
LEMMA SendFluxOwn ==
    ASSUME Kept, Own, main = "flushing", SendFlux
    PROVE  /\ \A i \in DOMAIN held' : held'[i] = want.no
           /\ wire' # None => wire'.no = want.no /\ wire'.type = host
           /\ wire' # None /\ host = "header" => wire'.ok
           /\ wire' = None \/ wire # None \/ host = "flux"
           /\ host = "header" => wire' # None
           /\ ~late' => ~late
<1>1. /\ capture # None /\ capture = want /\ want # None
      /\ host = "flux" \/ (host = "header" /\ wire # None /\ wire.ok)
      /\ \A i \in DOMAIN held : held[i] = want.no
      /\ wire # None => wire.no = want.no /\ wire.type = host
    BY DEF Own, Reads, Answers
<1>2. held \in Seq(0 .. Numbers - 1) /\ want.no \in 0 .. Numbers - 1
    BY <1>1, Assumptions DEF Kept, TypeOK
<1>3. CASE BufferFull
    BY <1>1, <1>3 DEF BufferFull
<1>4. CASE Len(held) < RingRoom /\ FlushPacket(Append(held, capture.no))
  <2>. DEFINE filled == Append(held, want.no)
  <2>1. /\ filled \in Seq(0 .. Numbers - 1) /\ Len(filled) \in Nat /\ Len(filled) > 0
        /\ \A i \in 1 .. Len(filled) : filled[i] = want.no
        /\ DOMAIN filled = 1 .. Len(filled)
      BY <1>1, <1>2
  <2>2. Head(filled) = want.no
      BY <2>1
  <2>3. FlushPacket(filled)
      BY <1>1, <1>4
  <2>. HIDE DEF filled
  <2>4. CASE wire = None
    <3>1. PICK whole \in 0 .. Len(filled) :
                held' = SubSeq(filled, whole + 1, Len(filled))
        BY <2>3, <2>4 DEF FlushPacket
    <3>2. \A i \in DOMAIN held' : held'[i] = want.no
        BY <2>1, <3>1
    <3>3. wire' = [type |-> "flux", no |-> want.no, ok |-> TRUE] /\ late' = late
        BY <2>2, <2>3, <2>4 DEF FlushPacket
    <3>4. wire' # None
        BY <1>1, <3>3, PacketExists
    <3>. QED
        BY <1>1, <2>4, <3>2, <3>3, <3>4
  <2>5. CASE wire # None
    <3>1. held' = filled /\ late' = TRUE /\ wire' = wire
        BY <2>3, <2>5 DEF FlushPacket
    <3>. QED
        BY <1>1, <2>1, <2>5, <3>1
  <2>. QED
      BY <2>4, <2>5
<1>. QED
    BY <1>3, <1>4 DEF SendFlux

\* A read that leaves nothing in the ring leaves nothing for another to send.
LEMMA SendRevolutionStep ==
    ASSUME Kept, Own, SendRevolution, ~leftover'
    PROVE  Own'
<1>1. /\ main = "flushing" /\ capture # None /\ capture = want /\ want # None
      /\ want.kind = "flux" /\ host \in {"header", "flux"}
      /\ UNCHANGED <<hostSide, buffer, copies, refused>>
    BY DEF SendRevolution, Own, Reads, Answers
<1>2. SendFlux
    BY DEF SendRevolution
<1>3. ~Pending /\ ~Pending' /\ ~ready'
    BY <1>1 DEF Own, Mail, Pending, buffer, SendRevolution
<1>4. \/ main' = "loop" /\ capture' = None /\ held' = <<>>
      \/ UNCHANGED <<capture, main>>
    BY DEF SendRevolution
<1>5. Mail' /\ Replies'
    BY <1>1, <1>3, <1>4 DEF Mail, Pending, Replies, buffer
<1>6. Reads'
    BY <1>1, <1>2, <1>4, SendFluxOwn DEF Reads, hostSide
<1>7. Answers' /\ ~mistaken' /\ (~late' => ~refused')
    BY <1>1, <1>2, <1>4, SendFluxOwn DEF Own, Answers, hostSide
<1>. QED
    BY <1>5, <1>6, <1>7 DEF Own

\* Every step keeps the invariant; no step takes back that a read was abandoned or
\* has left something.
LEMMA InvNext ==
    ASSUME IInv, [Next]_vars
    PROVE  IInv'
<1>1. Kept'
    BY KeptNext DEF IInv
<1>2. Clean' => Clean
    BY DEF Clean, Next, Send, Fetch, GiveUp, MainContinues, Take, Decode, Execute,
           Reset, Answer, SendData, FluxBegin, SendRevolution, Captured, vars,
           hostSide, device, endpoint
<1>. SUFFICES ASSUME Clean', Own PROVE Own'
    BY <1>1, <1>2 DEF IInv
<1>. USE DEF IInv
<1>3. CASE \E kind \in Kinds : Send(kind)
    BY <1>3, SendStep
<1>4. CASE MainContinues
    BY <1>4, TakeStep, DecodeStep, ExecuteStep, ResetStep, AnswerStep, SendDataStep,
       FluxBeginStep, SendRevolutionStep DEF MainContinues, Clean
<1>5. CASE UNCHANGED vars
    BY <1>5
    DEF vars, device, hostSide, buffer, copies, reading, endpoint,
        Own, Mail, Pending, Replies, Reads, Answers
<1>. QED
    BY <1>3, <1>4, <1>5, FetchStep, GiveUpStep, CapturedStep DEF Next, Clean

-------------------------------------------------------------------------------
\* The inductive invariant: who waits for what tells where its command is.
THEOREM Invariance == Spec => []IInv
BY InvInit, InvNext, PTL DEF Spec

\* Every state is of its type, and a finished read belongs to a command.
THEOREM TypeCorrect == Spec => []TypeOK
<1>1. IInv => TypeOK
    BY DEF IInv, Kept
<1>. QED
    BY <1>1, Invariance, PTL

\* The code and the parameters a case of the dispatcher uses are of one command.
THEOREM CommandsStayWhole == Spec => []CommandIntact
<1>1. IInv => CommandIntact
    BY DEF IInv, Own, CommandIntact, Replies
<1>. QED
    BY <1>1, Invariance, PTL

\* Until the host gives up on a read in progress, or a read leaves something in the
\* ring, what the host takes is the answer it waits for; and a packet is refused only
\* after a timeout.
THEOREM AnswersMatch == Spec => []AnswersInOrder
<1>1. IInv => AnswersInOrder
    BY DEF IInv, Own, AnswersInOrder, AnswerIsMine, NothingRefused
<1>. QED
    BY <1>1, Invariance, PTL

\* The main loop runs each command once.
THEOREM CommandsRunOnce == Spec => RunsOnce
<1>1. IInv => [Clean /\ (Execute \/ Reset) => ~done]_vars
    BY DEF IInv, Own, Mail, Pending, Execute, Reset
<1>. QED
    BY <1>1, Invariance, PTL DEF RunsOnce

\* The interrupt leaves the command buffer alone until its command has run.
THEOREM CommandsKept == Spec => NoneOverwritten
<1>1. IInv => [\A kind \in Kinds : Clean /\ Send(kind) =>
                 ~ready /\ main \notin {"taken", "decoded"}]_vars
    BY DEF IInv, Own, Answers, Send
<1>. QED
    BY <1>1, Invariance, PTL DEF NoneOverwritten

\* Each command runs once, and none is overwritten before it has run.
THEOREM CommandsServedOnce == Spec => EachOnce
<1>1. RunsOnce /\ NoneOverwritten => EachOnce
    BY DEF EachOnce
<1>. QED
    BY <1>1, CommandsRunOnce, CommandsKept, PTL

-------------------------------------------------------------------------------
(* Silence. What the host waits for is still to be made, or was lost. *)

\* While no wait has timed out, the part of an answer that is neither on the link
\* nor still to be sent by the main loop is the answer to a command that has none,
\* or flux.
Heard ==
    /\ host = "header" /\ wire = None /\ main = "loop" /\ ~ready
          => want.kind \in Silent
    /\ host = "header" /\ wire # None
          => (want.kind = "data" /\ wire.ok => main = "sending")
    /\ host = "data" /\ wire = None => main = "sending"

HInv == IInv /\ (Clean /\ ~late => Heard)

\* No step of a host that gives up on no read makes it wait in vain.
LEMMA HeardNext ==
    ASSUME Kept, Own, Heard, Next, Clean', ~late'
    PROVE  Heard'
<1>. USE DEF Heard
<1>1. ASSUME NEW kind \in Kinds, Send(kind) PROVE Heard'
  <2>1. /\ host' = "header" /\ wire' = None /\ want'.kind = kind
        /\ ready' \/ kind = "long"
      BY <1>1 DEF Send, Received, Own, Answers, endpoint
  <2>. QED
      BY <2>1 DEF Silent
<1>2. CASE Fetch
  <2>1. /\ wire # None /\ wire' = None /\ wire.type = host
        /\ UNCHANGED <<want, main>>
        /\ host' \in IF host = "header" /\ wire.type = "header" /\ wire.ok
                        /\ want.kind \in {"data", "flux"}
                     THEN {want.kind}
                     ELSE {"idle"} \cup ({host} \cap {"flux"})
      BY <1>2 DEF Fetch, Own, Answers
  <2>2. host' # "header"
      BY <2>1
  <2>3. host' = "data" => host = "header" /\ wire.ok /\ want.kind = "data"
      BY <2>1
  <2>. QED
      BY <2>1, <2>2, <2>3
<1>3. CASE GiveUp
    BY <1>3 DEF GiveUp
<1>4. CASE Take \/ Decode
    BY <1>4 DEF Take, Decode, Own, Mail, Pending, hostSide, buffer, copies,
                reading, endpoint
<1>5. CASE Execute
  <2>1. cmd = want /\ host = "header" /\ wire = None
      BY <1>5 DEF Execute, Own, Mail, Pending
  <2>2. main' = "answering" \/ want.kind = "nop"
      BY <1>5, <2>1 DEF Execute
  <2>. QED
      BY <1>5, <2>1, <2>2 DEF Execute, hostSide, endpoint, Silent
<1>6. CASE Reset
  <2>1. cmd = want /\ host = "header" /\ wire' = None /\ want.kind = "reset"
      BY <1>6 DEF Reset, Own, Mail, Pending
  <2>. QED
      BY <1>6, <2>1 DEF Reset, hostSide, Silent
<1>7. CASE Answer
  <2>1. cmd = want /\ host = "header" /\ want # None /\ wire = None
      BY <1>7 DEF Answer, Own, Replies, Answers
  <2>2. PICK ok \in BOOLEAN :
         /\ Transmit([type |-> "header", no |-> want.no, ok |-> ok])
         /\ want.kind = "data" /\ ok => main' = "sending"
      BY <1>7, <2>1 DEF Answer
  <2>3. wire' # None /\ wire'.ok = ok
    <3>1. wire' = [type |-> "header", no |-> want.no, ok |-> ok]
        BY <2>1, <2>2 DEF Transmit
    <3>. QED
        BY <2>1, <3>1, PacketExists
  <2>. QED
      BY <1>7, <2>1, <2>2, <2>3 DEF Answer, hostSide
<1>8. CASE SendData
  <2>1. host = "data" /\ wire = None /\ want # None /\ cmd = want
      BY <1>8 DEF SendData, Own, Replies, Answers
  <2>2. wire' # None
    <3>1. wire' = [type |-> "data", no |-> want.no, ok |-> TRUE]
        BY <1>8, <2>1 DEF SendData, Transmit
    <3>. QED
        BY <2>1, <3>1, PacketExists
  <2>. QED
      BY <1>8, <2>1, <2>2 DEF SendData, hostSide
<1>9. CASE Captured
    BY <1>9 DEF Captured, hostSide, buffer, endpoint, reading
<1>10. CASE FluxBegin \/ SendRevolution
  <2>1. capture # None /\ UNCHANGED <<host, want>>
      BY <1>10 DEF FluxBegin, SendRevolution, Kept, Sane, TypeOK, hostSide
  <2>2. /\ want.kind = "flux" /\ host \in {"header", "flux"}
        /\ host = "header" => wire # None
      BY <1>10, <2>1 DEF FluxBegin, SendRevolution, Own, Reads
  <2>3. host = "header" => wire' # None
      BY <1>10, <2>2, SendFluxOwn DEF FluxBegin, SendRevolution, endpoint
  <2>. QED
      BY <2>1, <2>2, <2>3
<1>. QED
    BY <1>1, <1>2, <1>3, <1>4, <1>5, <1>6, <1>7, <1>8, <1>9, <1>10
    DEF Next, MainContinues

\* As long as no read was given up, none has left anything in the ring and no wait of
\* the device has timed out: a host that gives up sent a NOP, a RESET or a command that
\* is too long, or it waits for flux (ufi_usb.c, lines 114, 200 and 337 to 347). Every
\* other command has got its header and, where it has some, its data.
THEOREM SilenceExplained == Spec => OthersAreAnswered
<1>1. Init => HInv
    BY InvInit DEF HInv, Heard, Init
<1>2. HInv /\ [Next]_vars => HInv'
  <2>. SUFFICES ASSUME HInv, [Next]_vars PROVE HInv'
      OBVIOUS
  <2>1. IInv'
      BY InvNext DEF HInv
  <2>2. /\ Clean' => Clean
        /\ ~late' => ~late
    <3>1. CASE UNCHANGED vars
        BY <3>1 DEF Clean, vars, hostSide, device, endpoint
    <3>2. CASE SendRevolution
        BY <3>2 DEF Clean, SendRevolution, SendFlux, BufferFull, FlushPacket, hostSide
    <3>3. CASE Next /\ ~SendRevolution
        BY <3>3 DEF Clean, HInv, IInv, Kept, TypeOK, Next, Send, Fetch, GiveUp,
             MainContinues, Take, Decode, Execute, Reset, Answer, SendData,
             FluxBegin, Captured, hostSide, device, endpoint
    <3>. QED
        BY <3>1, <3>2, <3>3
  <2>3. CASE UNCHANGED vars
      BY <2>1, <2>3 DEF HInv, Heard, Clean, vars, hostSide, device, buffer, copies,
                        reading, endpoint
  <2>4. CASE Next
      BY <2>1, <2>2, <2>4, HeardNext DEF HInv, IInv
  <2>. QED
      BY <2>3, <2>4
<1>3. HInv => [GiveUp /\ Clean /\ ~late =>
                 host = "flux" \/ want.kind \in Silent]_vars
    BY DEF HInv, IInv, Kept, TypeOK, Heard, GiveUp
<1>. QED
    BY <1>1, <1>2, <1>3, PTL DEF Spec, OthersAreAnswered

-------------------------------------------------------------------------------
(* How much a command can still make happen. *)

\* The host still waits for a header, or for something else.
HostsPart == IF host = "idle" THEN 0 ELSE IF host = "header" THEN 2 ELSE 1

\* There is a packet it may take.
WiresPart == IF wire = None THEN 0 ELSE 1

\* Steps of the dispatcher, for the command in the buffer ...
BuffersPart == IF ready THEN 2 * MaxRevs + 10 ELSE 0

\* ... and for the one being served, with the packets they send; a decoded one may
\* start a read.
ServedPart ==
    CASE main = "taken"     -> 2 * MaxRevs + 9
      [] main = "decoded"   -> 2 * MaxRevs + 8
      [] main = "answering" -> 4
      [] main = "sending"   -> 2
      [] OTHER              -> 0

\* Steps of the read in progress, with the packets.
ReadsPart ==
    IF capture = None THEN 0
    ELSE IF ~complete THEN 2 * MaxRevs + 3
    ELSE IF main # "flushing" THEN 2 * MaxRevs + 2
    ELSE 2 * left + 1

WorkLeft == HostsPart + WiresPart + BuffersPart + ServedPart + ReadsPart

\* All of it is counted, before a step ...
LEMMA WorkIsCounted ==
    ASSUME Kept
    PROVE  /\ HostsPart \in Nat /\ WiresPart \in Nat /\ BuffersPart \in Nat
           /\ ServedPart \in Nat /\ ReadsPart \in Nat
<1>1. HostsPart \in Nat /\ WiresPart \in Nat
    BY DEF HostsPart, WiresPart
<1>2. 2 * MaxRevs \in Nat /\ 2 * left \in Nat
    BY Assumptions DEF Kept, TypeOK
<1>3. BuffersPart \in Nat /\ ReadsPart \in Nat
    BY <1>2 DEF BuffersPart, ReadsPart
<1>4. ServedPart \in Nat
    BY <1>2 DEF ServedPart
<1>. QED
    BY <1>1, <1>3, <1>4

\* ... and after it.
LEMMA WorkStillCounted ==
    ASSUME Kept'
    PROVE  /\ HostsPart' \in Nat /\ WiresPart' \in Nat /\ BuffersPart' \in Nat
           /\ ServedPart' \in Nat /\ ReadsPart' \in Nat
<1>1. HostsPart' \in Nat /\ WiresPart' \in Nat
    BY DEF HostsPart, WiresPart
<1>5. left' \in Nat /\ MaxRevs \in Nat
    BY Assumptions DEF Kept, TypeOK
<1>. DEFINE l == left'
<1>6. l \in Nat
    BY <1>5
<1>. HIDE DEF l
<1>7. 2 * MaxRevs \in Nat /\ 2 * l \in Nat
    BY <1>5, <1>6
<1>2. 2 * MaxRevs \in Nat /\ 2 * left' \in Nat
    BY <1>7 DEF l
<1>3. BuffersPart' \in Nat /\ ReadsPart' \in Nat
    BY <1>2 DEF BuffersPart, ReadsPart
<1>4. ServedPart' \in Nat
    BY <1>2 DEF ServedPart
<1>. QED
    BY <1>1, <1>3, <1>4

\* The host does its part: a packet, of whatever command, or a timeout.
LEMMA HostWorks ==
    ASSUME Kept, Kept', Fetch \/ GiveUp
    PROVE  WorkLeft' < WorkLeft
<1>1. /\ BuffersPart' = BuffersPart /\ ServedPart' = ServedPart
      /\ ReadsPart' = ReadsPart
    BY DEF Fetch, GiveUp, BuffersPart, ServedPart, ReadsPart, device, buffer, reading
<1>2. CASE Fetch
  <2>1. host' \in {"idle", "data", "flux"} /\ host # "idle"
      BY <1>2 DEF Fetch
  <2>2. HostsPart' <= HostsPart
      BY <2>1 DEF HostsPart
  <2>3. WiresPart' = 0 /\ WiresPart = 1
      BY <1>2 DEF Fetch, WiresPart
  <2>. QED
      BY <1>1, <2>2, <2>3, WorkIsCounted, WorkStillCounted DEF WorkLeft
<1>3. CASE GiveUp
  <2>1. HostsPart' < HostsPart /\ WiresPart' = WiresPart
      BY <1>3 DEF GiveUp, HostsPart, WiresPart, device, endpoint
  <2>. QED
      BY <1>1, <2>1, WorkIsCounted, WorkStillCounted DEF WorkLeft
<1>. QED
    BY <1>2, <1>3

\* A packet more is at most one more to take.
LEMMA OnePacketMore == WiresPart' <= WiresPart + 1
BY DEF WiresPart

\* The dispatcher does: a command is taken from the buffer once, and starts at most
\* one read.
LEMMA DispatcherWorks ==
    ASSUME Kept, Kept', Take \/ Decode \/ Execute \/ Reset \/ Answer \/ SendData
    PROVE  WorkLeft' < WorkLeft
<1>1. HostsPart' = HostsPart
    BY DEF Take, Decode, Execute, Reset, Answer, SendData, HostsPart,
       Kept, Sane, TypeOK, hostSide, buffer, copies, reading, endpoint, Return
<1>. DEFINE two == 2 * MaxRevs
<1>2. two \in Nat
    BY Assumptions
<1>3. CASE Take
  <2>1. /\ BuffersPart = two + 10 /\ BuffersPart' = 0 /\ WiresPart' = WiresPart
        /\ ServedPart = 0 /\ ServedPart' = two + 9 /\ ReadsPart' = ReadsPart
      BY <1>3 DEF Take, BuffersPart, ServedPart, ReadsPart, WiresPart,
         Kept, Sane, TypeOK, hostSide, buffer, copies, reading, endpoint, Return
  <2>. QED
      BY <1>1, <1>2, <2>1, WorkIsCounted, WorkStillCounted DEF WorkLeft
<1>4. CASE Decode
  <2>1. /\ BuffersPart' = BuffersPart /\ WiresPart' = WiresPart
        /\ ServedPart = two + 9 /\ ServedPart' = two + 8 /\ ReadsPart' = ReadsPart
      BY <1>4 DEF Decode, BuffersPart, ServedPart, ReadsPart, WiresPart,
         Kept, Sane, TypeOK, hostSide, buffer, copies, reading, endpoint, Return
  <2>. QED
      BY <1>1, <1>2, <2>1, WorkIsCounted, WorkStillCounted DEF WorkLeft
<1>5. CASE Execute
  <2>1. /\ BuffersPart' = BuffersPart /\ WiresPart' = WiresPart
        /\ ServedPart = two + 8 /\ ServedPart' \in {0, 4}
      BY <1>5 DEF Execute, BuffersPart, ServedPart, WiresPart,
         Kept, Sane, TypeOK, hostSide, buffer, copies, reading, endpoint, Return
  <2>2. ReadsPart' \in {0, two + 3, ReadsPart}
    <3>1. CASE capture' = None
        BY <3>1 DEF ReadsPart,
           Kept, Sane, TypeOK, hostSide, buffer, copies, reading, endpoint, Return
    <3>2. CASE capture' # None /\ capture = None
      <4>1. ~complete'
          BY <1>5, <3>2 DEF Execute,
             Kept, Sane, TypeOK, hostSide, buffer, copies, reading, endpoint, Return
      <4>. QED
          BY <3>2, <4>1 DEF ReadsPart,
             Kept, Sane, TypeOK, hostSide, buffer, copies, reading, endpoint, Return
    <3>3. CASE capture' # None /\ capture # None
        BY <1>5, <3>3 DEF Execute, ReadsPart,
           Kept, Sane, TypeOK, hostSide, buffer, copies, reading, endpoint, Return
    <3>. QED
        BY <3>1, <3>2, <3>3
  <2>. QED
      BY <1>1, <1>2, <2>1, <2>2, WorkIsCounted, WorkStillCounted DEF WorkLeft
<1>6. CASE Reset
  <2>1. /\ BuffersPart' = 0 /\ WiresPart' = 0 /\ ReadsPart' = 0
        /\ ServedPart = two + 8 /\ ServedPart' = 0
      BY <1>6 DEF Reset, BuffersPart, ServedPart, ReadsPart, WiresPart,
         Kept, Sane, TypeOK, hostSide, buffer, copies, reading, endpoint, Return
  <2>. QED
      BY <1>1, <1>2, <2>1, WorkIsCounted, WorkStillCounted DEF WorkLeft
<1>7. CASE Answer
  <2>1. main' \in {"sending", "loop"} /\ main = "answering"
      BY <1>7 DEF Answer,
         Kept, Sane, TypeOK, hostSide, buffer, copies, reading, endpoint, Return
  <2>2. /\ BuffersPart' = BuffersPart /\ ReadsPart' = ReadsPart
        /\ ServedPart = 4 /\ ServedPart' <= 2
      BY <1>7, <2>1 DEF Answer, BuffersPart, ServedPart, ReadsPart,
         Kept, Sane, TypeOK, hostSide, buffer, copies, reading, endpoint, Return
  <2>. QED
      BY <1>1, <2>2, OnePacketMore, WorkIsCounted, WorkStillCounted DEF WorkLeft
<1>8. CASE SendData
  <2>1. /\ BuffersPart' = BuffersPart /\ ReadsPart' = ReadsPart
        /\ ServedPart = 2 /\ ServedPart' = 0
      BY <1>8 DEF SendData, BuffersPart, ServedPart, ReadsPart,
         Kept, Sane, TypeOK, hostSide, buffer, copies, reading, endpoint, Return
  <2>. QED
      BY <1>1, <2>1, OnePacketMore, WorkIsCounted, WorkStillCounted DEF WorkLeft
<1>. QED
    BY <1>3, <1>4, <1>5, <1>6, <1>7, <1>8

\* And the read does, on the disk and at the end of the main loop.
LEMMA ReadWorks ==
    ASSUME Kept, Kept', Captured \/ FluxBegin \/ SendRevolution
    PROVE  WorkLeft' < WorkLeft
<1>1. HostsPart' = HostsPart /\ BuffersPart' = BuffersPart /\ ServedPart' = ServedPart
    BY DEF Captured, FluxBegin, SendRevolution, HostsPart, BuffersPart, ServedPart,
       Kept, Sane, TypeOK, hostSide, buffer, copies, reading, endpoint, Return
<1>2. MaxRevs \in Nat /\ left \in Nat
    BY Assumptions DEF Kept, TypeOK
<1>3. CASE Captured
  <2>1. /\ ReadsPart = 2 * MaxRevs + 3 /\ ReadsPart' = 2 * MaxRevs + 2
        /\ WiresPart' = WiresPart
      BY <1>3 DEF Captured, ReadsPart, WiresPart,
         Kept, Sane, TypeOK, hostSide, buffer, copies, reading, endpoint, Return
  <2>. QED
      BY <1>1, <1>2, <2>1, WorkIsCounted, WorkStillCounted DEF WorkLeft
<1>4. CASE FluxBegin
  <2>1. /\ ReadsPart = 2 * MaxRevs + 2 /\ ReadsPart' = 2 * left' + 1
        /\ left' \in 1 .. MaxRevs /\ WiresPart' = WiresPart
      BY <1>4 DEF FluxBegin, ReadsPart, WiresPart,
         Kept, Sane, TypeOK, hostSide, buffer, copies, reading, endpoint, Return
  <2>2. ReadsPart' < ReadsPart
    <3>. DEFINE l == left'
    <3>2. l \in 1 .. MaxRevs
        BY <2>1
    <3>. HIDE DEF l
    <3>3. 2 * l + 1 < 2 * MaxRevs + 2
        BY <1>2, <3>2
    <3>1. 2 * left' + 1 < 2 * MaxRevs + 2
        BY <3>3 DEF l
    <3>. QED
        BY <2>1, <3>1
  <2>. QED
      BY <1>1, <2>1, <2>2, WorkIsCounted, WorkStillCounted DEF WorkLeft
<1>5. CASE SendRevolution
  <2>1. ReadsPart = 2 * left + 1 /\ left > 0 /\ left' = left - 1
      BY <1>5, <1>2 DEF SendRevolution, ReadsPart,
         Kept, Sane, TypeOK, hostSide, buffer, copies, reading, endpoint, Return
  <2>2. ReadsPart' <= 2 * left - 1
    <3>1. CASE left = 1
      <4>1. ReadsPart' = 0
          BY <1>5, <3>1 DEF SendRevolution, ReadsPart,
             Kept, Sane, TypeOK, hostSide, buffer, copies, reading, endpoint, Return
      <4>. QED
          BY <3>1, <4>1
    <3>2. CASE left # 1
      <4>1. ReadsPart' = 2 * (left - 1) + 1
          BY <1>5, <2>1, <3>2 DEF SendRevolution, ReadsPart,
             Kept, Sane, TypeOK, hostSide, buffer, copies, reading, endpoint, Return
      <4>. QED
          BY <1>2, <4>1
    <3>. QED
        BY <3>1, <3>2
  <2>. QED
      BY <1>1, <1>2, <2>1, <2>2, OnePacketMore, WorkIsCounted, WorkStillCounted
      DEF WorkLeft
<1>. QED
    BY <1>3, <1>4, <1>5

\* Every step but a new command of the host uses something up: a command is taken from
\* the buffer, a read started and each of its revolutions sent at most once, also after
\* a timeout, the loss of a packet or a read that was given up (ufi_usb.c, lines 185 to
\* 190, ufi_main.c, lines 574 to 590, and send_command of ufi_processor.py). What is
\* left for a command to end is that the main loop runs, the disk turns and the host
\* times out.
THEOREM CommandsAreFinite ==
    Spec => [][(\E kind \in Kinds : Send(kind)) \/ WorkLeft' < WorkLeft]_vars
<1>1. Kept /\ Kept' /\ [Next]_vars
        => [(\E kind \in Kinds : Send(kind)) \/ WorkLeft' < WorkLeft]_vars
    BY HostWorks, DispatcherWorks, ReadWorks DEF Next, MainContinues
<1>2. IInv => Kept
    BY DEF IInv
<1>. QED
    BY <1>1, <1>2, Invariance, PTL DEF Spec

-------------------------------------------------------------------------------
(* The bytes of the flux. *)

\* The bytes that have been accepted and not handed to the endpoint.
Backlog == accepted - taken

\* The bytes of the ring, from tail on.
Content ==
    ~spilled => \A k \in 0 .. Backlog - 1 : ring[Advance(tail, k)] = taken + k

\* A flush has something to send.
Filled == flushing => Backlog > 0

\* The packet in the endpoint.
Flying ==
    /\ flight # <<>> => busy
    /\ Len(flight) <= PacketSize
    /\ Len(flight) <= taken
    /\ ~spilled /\ ~overrun =>
         \A i \in DOMAIN flight : ring[flight[i]] = Read + i - 1

RingInv == RingTypeOK /\ Conserved /\ StreamIntact /\ Content /\ Filled /\ Flying

-------------------------------------------------------------------------------
(* The arithmetic of the indices. *)

\* What the proofs use of the constants.
LEMMA RingConstants ==
    /\ RingSize \in Nat
    /\ RingSize > 0
    /\ PacketSize \in Nat
    /\ PacketSize > 0
    /\ Slack \in Nat
    /\ \A n \in Sizes : n \in Nat /\ n > 0
BY RingAssumption

\* An index that is advanced stays inside the ring.
LEMMA AdvanceInSlots ==
    ASSUME NEW i \in Slots, NEW n \in Nat, n <= RingSize
    PROVE  Advance(i, n) \in Slots
BY RingConstants DEF Advance, Slots

\* Two advances are one by the sum.
LEMMA AdvanceTwice ==
    ASSUME NEW i \in Slots, NEW m \in Nat, NEW n \in Nat, m + n <= RingSize
    PROVE  Advance(Advance(i, m), n) = Advance(i, m + n)
BY RingConstants DEF Advance, Slots

\* What ring_buffer_free counts as used is what has not been sent.
LEMMA UsedIsPending ==
    ASSUME RingTypeOK, Conserved
    PROVE  /\ Used = Backlog
           /\ Free = RingSize - Backlog - 1
           /\ Backlog \in 0 .. RingSize - 1
BY RingConstants DEF RingTypeOK, Conserved, Used, Free, Backlog, Advance, Slots

\* A packet is not empty, not longer than what is pending, and ends within the
\* buffer.
LEMMA PacketFits ==
    ASSUME RingTypeOK, Conserved, Backlog > 0
    PROVE  /\ PacketLength \in 1 .. Backlog
           /\ tail + PacketLength <= RingSize
<1>1. head \in 0 .. RingSize - 1 /\ tail \in 0 .. RingSize - 1
    BY DEF RingTypeOK, Slots
<1>2. Backlog \in 0 .. RingSize - 1 /\ head = Advance(tail, Backlog)
    BY UsedIsPending DEF Conserved, Backlog
<1>3. Contiguous \in 1 .. Backlog /\ tail + Contiguous <= RingSize
    BY <1>1, <1>2, RingConstants DEF Contiguous, Advance
<1>4. Contiguous \in Int /\ Backlog \in Int /\ tail \in Int
    BY <1>1, <1>2, <1>3
<1>. QED
    BY <1>3, <1>4, RingConstants DEF PacketLength

-------------------------------------------------------------------------------
\* The empty ring satisfies the invariant.
LEMMA RingInvInit == RingInit => RingInv
<1>. SUFFICES ASSUME RingInit PROVE RingInv
    OBVIOUS
<1>1. 0 \in Slots /\ Advance(0, 0) = 0
    BY RingConstants DEF Slots, Advance
<1>2. RingTypeOK
    BY <1>1 DEF RingInit, RingTypeOK
<1>3. Conserved /\ Filled
    BY <1>1, RingConstants DEF RingInit, Conserved, Filled
<1>4. StreamIntact /\ Flying
    BY RingConstants DEF RingInit, StreamIntact, Flying
<1>5. Content
    BY DEF RingInit, Content, Backlog
<1>. QED
    BY <1>2, <1>3, <1>4, <1>5 DEF RingInv

\* Accepting a revolution puts its bytes behind those that are pending.
LEMMA UsbSendFluxStep ==
    ASSUME RingInv, NEW n \in Sizes, UsbSendFlux(n)
    PROVE  RingInv'
<1>. USE DEF RingInv
<1>1. n \in Nat /\ n > 0 /\ Backlog \in 0 .. RingSize - 1 /\ Backlog + n < RingSize
    BY UsedIsPending, RingConstants DEF UsbSendFlux
<1>2. /\ accepted' = accepted + n /\ taken' = taken /\ tail' = tail
      /\ packet' = packet /\ busy' = busy /\ flight' = flight
      /\ head' = Advance(head, n) /\ flushing' = TRUE
      /\ spilled' = (spilled \/ head + n > RingSize)
      /\ overrun' = (overrun \/ \E i \in DOMAIN flight :
                                  flight[i] \in head .. head + n - 1)
    BY DEF UsbSendFlux, endpointVars
<1>3. accepted \in Nat /\ taken \in Nat /\ tail \in Slots /\ head \in Slots
    BY DEF RingTypeOK
<1>4. Backlog' = Backlog + n
    BY <1>1, <1>2, <1>3 DEF Backlog
<1>. /\ Backlog \in Nat
     /\ n <= RingSize
     /\ Backlog + n <= RingSize
     /\ n \in Nat
    BY <1>1, RingConstants
<1>5. ring' = [i \in Slots |->
                   IF i \in head .. head + n - 1 THEN accepted + (i - head)
                                                 ELSE ring[i]]
    BY DEF UsbSendFlux
<1>6. RingTypeOK'
  <2>1. head' \in Slots
      BY <1>1, <1>2, <1>3, AdvanceInSlots
  <2>2. \A i \in head .. head + n - 1 : accepted + (i - head) \in Nat
      BY <1>1, <1>3 DEF Slots
  <2>3. ring' \in [Slots -> Nat]
      BY <1>5, <2>2 DEF RingTypeOK
  <2>4. spilled' \in BOOLEAN /\ overrun' \in BOOLEAN
      BY <1>2, Zenon DEF RingTypeOK
  <2>. QED
      BY <1>1, <1>2, <1>3, <2>1, <2>3, <2>4 DEF RingTypeOK
<1>7. Conserved'
  <2>1. Advance(Advance(tail, Backlog), n) = Advance(tail, Backlog + n)
      BY <1>1, <1>3, AdvanceTwice
  <2>2. head = Advance(tail, Backlog)
      BY DEF Conserved, Backlog
  <2>3. head' = Advance(tail', accepted' - taken')
      BY <1>2, <1>4, <2>1, <2>2 DEF Backlog
  <2>4. taken' <= accepted' /\ accepted' - taken' < RingSize
      BY <1>1, <1>2, <1>3, <1>4, RingConstants DEF Backlog, Conserved
  <2>. QED
      BY <1>2, <2>3, <2>4 DEF Conserved, Advance
<1>8. Content'
  <2>. SUFFICES ASSUME ~spilled', NEW k \in 0 .. Backlog' - 1
                PROVE  ring'[Advance(tail', k)] = taken' + k
      BY DEF Content, Advance
  <2>. /\ tail' = tail
       /\ taken' = taken
       /\ k \in 0 .. Backlog + n - 1
       /\ k \in Nat
       /\ k <= RingSize
      BY <1>1, <1>2, <1>4, RingConstants
  <2>1. tail \in 0 .. RingSize - 1 /\ head \in 0 .. RingSize - 1
      BY <1>3 DEF Slots
  <2>2. ~spilled /\ ~(head + n > RingSize)
      BY <1>2
  <2>3. ~spilled /\ head + n <= RingSize
      BY <2>1, <2>2, RingConstants
  <2>4. head = Advance(tail, Backlog)
      BY DEF Conserved, Backlog
  <2>5. Advance(tail, k) \in Slots
      BY <1>1, <1>3, AdvanceInSlots
  <2>6. CASE k < Backlog
    <3>1. Advance(tail, k) \notin head .. head + n - 1
        BY <1>1, <2>3, <2>1, <2>4, <2>6, RingConstants DEF Advance
    <3>2. ring[Advance(tail, k)] = taken + k
        BY <1>1, <2>3, <2>6 DEF Content
    <3>. QED
        BY <1>5, <2>5, <3>1, <3>2
  <2>7. CASE k >= Backlog
    <3>1. Advance(tail, k) = head + (k - Backlog)
        BY <1>1, <2>3, <2>1, <2>4, <2>7, RingConstants DEF Advance
    <3>2. Advance(tail, k) \in head .. head + n - 1
        BY <1>1, <2>1, <2>7, <3>1
    <3>3. ring'[Advance(tail, k)] = accepted + (Advance(tail, k) - head)
        BY <1>5, <2>5, <3>2
    <3>. QED
        BY <1>1, <1>3, <2>1, <3>1, <3>3 DEF Backlog
  <2>. QED
      BY <1>1, <2>6, <2>7
<1>9. StreamIntact' /\ Filled'
  <2>1. /\ ~spilled' => ~spilled
        /\ ~overrun' => ~overrun
      BY <1>2
  <2>2. Backlog' > 0
      BY <1>1, <1>4
  <2>3. Read' = Read
      BY <1>2 DEF Read
  <2>. QED
      BY <1>2, <2>1, <2>2, <2>3 DEF StreamIntact, Filled
<1>10. Flying'
  <2>1. ASSUME ~spilled', ~overrun', NEW i \in DOMAIN flight
        PROVE  ring'[flight[i]] = Read' + i - 1
    <3>1. flight[i] \in Slots
        BY DEF RingTypeOK
    <3>2. flight[i] \notin head .. head + n - 1
        BY <1>2, <2>1
    <3>3. ring'[flight[i]] = ring[flight[i]]
        BY <1>5, <3>1, <3>2
    <3>. QED
        BY <1>2, <2>1, <3>3 DEF Flying, Read
  <2>. QED
      BY <1>2, <2>1 DEF Flying
<1>. QED
    BY <1>6, <1>7, <1>8, <1>9, <1>10

\* A packet takes the first of the pending bytes.
LEMMA FlushStep ==
    ASSUME RingInv, Flush
    PROVE  RingInv'
<1>. USE DEF RingInv
<1>. DEFINE len == PacketLength
<1>1. len \in 1 .. Backlog /\ tail + len <= RingSize /\ Backlog \in 1 .. RingSize - 1
    BY PacketFits, UsedIsPending DEF Flush, Filled
<1>2. /\ flight' = [i \in 1 .. len |-> tail + i - 1]
      /\ tail' = Advance(tail, len) /\ taken' = taken + len
      /\ busy' = TRUE /\ flushing' = FALSE
      /\ UNCHANGED <<head, ring, accepted, packet, spilled, overrun>>
    BY DEF Flush
<1>13. flight = <<>> /\ len <= PacketSize
  <2>1. Contiguous \in Int
      BY RingConstants DEF Contiguous, RingTypeOK, Slots
  <2>. QED
      BY <2>1, RingConstants DEF Flush, Flying, PacketLength
<1>. HIDE DEF len
<1>3. accepted \in Nat /\ taken \in Nat /\ tail \in Slots /\ head \in Slots
    BY DEF RingTypeOK
<1>4. Backlog' = Backlog - len
    BY <1>1, <1>2, <1>3 DEF Backlog
<1>5. len \in Nat /\ len <= RingSize /\ len <= Backlog /\ Backlog \in Nat
    BY <1>1, RingConstants
<1>6. Len(flight') = len /\ DOMAIN flight' = 1 .. len
    BY <1>2, <1>5
<1>14. Read = taken /\ Read' = taken
    BY <1>2, <1>3, <1>5, <1>6, <1>13 DEF Read
<1>7. \A i \in 1 .. len : tail + i - 1 \in Slots
    BY <1>1, <1>3, <1>5, RingConstants DEF Slots
<1>8. RingTypeOK'
  <2>1. tail' \in Slots
      BY <1>2, <1>3, <1>5, AdvanceInSlots
  <2>3. flight' \in Seq(Slots)
      BY <1>2, <1>5, <1>7
  <2>4. /\ busy' \in BOOLEAN /\ flushing' \in BOOLEAN
        /\ spilled' \in BOOLEAN /\ overrun' \in BOOLEAN
      BY <1>2, Zenon DEF RingTypeOK
  <2>. QED
      BY <1>2, <1>3, <1>5, <2>1, <2>3, <2>4 DEF RingTypeOK
<1>9. Conserved'
  <2>1. Advance(Advance(tail, len), Backlog - len) = Advance(tail, len + (Backlog - len))
      BY <1>1, <1>3, <1>5, AdvanceTwice, RingConstants
  <2>2. len + (Backlog - len) = Backlog
      BY <1>1, <1>5
  <2>3. head' = Advance(tail', Backlog')
      BY <1>2, <1>4, <2>1, <2>2 DEF Conserved, Backlog
  <2>4. taken' <= accepted' /\ accepted' - taken' < RingSize
    <3>1. Backlog - len >= 0 /\ Backlog - len < RingSize
        BY <1>1, <1>5, RingConstants
    <3>2. accepted' - taken' = Backlog - len
        BY <1>4 DEF Backlog
    <3>3. accepted' \in Int /\ taken' \in Int
        BY <1>2, <1>3, <1>5
    <3>. QED
        BY <3>1, <3>2, <3>3
  <2>. QED
      BY <2>3, <2>4 DEF Conserved, Advance, Backlog
<1>10. Content'
  <2>. SUFFICES ASSUME ~spilled, NEW k \in 0 .. Backlog - len - 1
                PROVE  ring[Advance(Advance(tail, len), k)] = taken + len + k
      BY <1>2, <1>4 DEF Content, Advance
  <2>1. k \in Nat /\ len + k <= RingSize
      BY <1>1, <1>5, RingConstants
  <2>2. Advance(Advance(tail, len), k) = Advance(tail, len + k)
      BY <1>3, <1>5, <2>1, AdvanceTwice
  <2>3. len + k \in 0 .. Backlog - 1
      BY <1>1, <1>5
  <2>4. ring[Advance(tail, len + k)] = taken + (len + k)
      BY <2>3 DEF Content
  <2>. QED
      BY <1>1, <1>3, <1>5, <2>2, <2>4
<1>11. StreamIntact'
    BY <1>2, <1>14 DEF StreamIntact
<1>12. Filled'
    BY <1>2 DEF Filled
<1>15. Flying'
  <2>1. ASSUME ~spilled, NEW i \in 1 .. len
        PROVE  ring[flight'[i]] = taken + i - 1
    <3>1. i - 1 \in 0 .. Backlog - 1
        BY <1>1, <1>5
    <3>2. Advance(tail, i - 1) = tail + i - 1
        BY <1>1, <1>3, <1>5, RingConstants DEF Advance, Slots
    <3>3. ring[Advance(tail, i - 1)] = taken + (i - 1)
        BY <2>1, <3>1 DEF Content
    <3>. QED
        BY <1>2, <1>3, <3>2, <3>3
  <2>2. len <= taken + len
      BY <1>3, <1>5
  <2>. QED
      BY <1>2, <1>6, <1>13, <1>14, <2>1, <2>2 DEF Flying
<1>. QED
    BY <1>8, <1>9, <1>10, <1>11, <1>12, <1>15

\* The host reads what lies in the slots of the packet.
LEMMA HostReadsStep ==
    ASSUME RingInv, HostReads
    PROVE  RingInv'
<1>. USE DEF RingInv
<1>1. /\ flight' = <<>> /\ Len(flight') = 0 /\ busy' = FALSE
      /\ packet' = IF flight = <<>> THEN packet
                   ELSE [i \in DOMAIN flight |-> ring[flight[i]]]
      /\ UNCHANGED <<indices, ring, flushing, accepted, taken, spilled, overrun>>
    BY DEF HostReads
<1>2. /\ Len(flight) \in Nat /\ DOMAIN flight = 1 .. Len(flight)
      /\ taken \in Nat /\ Len(flight) <= taken
    BY DEF RingTypeOK, Flying
<1>3. Read' = taken
    BY <1>1, <1>2 DEF Read
<1>6. <<>> \in Seq(Slots)
    OBVIOUS
<1>4. CASE flight = <<>>
  <2>1. packet' = packet /\ Read = taken
      BY <1>1, <1>2, <1>4 DEF Read
  <2>2. RingTypeOK' /\ Conserved'
      BY <1>1, <1>6, <2>1 DEF RingTypeOK, Conserved, Advance, indices
  <2>3. StreamIntact' /\ Content' /\ Filled' /\ Flying'
      BY <1>1, <1>2, <1>3, <2>1, RingConstants
      DEF StreamIntact, Content, Filled, Flying, Backlog, Advance, indices
  <2>. QED
      BY <2>2, <2>3
<1>5. CASE flight # <<>>
  <2>1. packet' = [i \in 1 .. Len(flight) |-> ring[flight[i]]]
      BY <1>1, <1>2, <1>5
  <2>2. /\ packet' \in Seq(Nat) /\ Len(packet') = Len(flight)
        /\ DOMAIN packet' = 1 .. Len(flight)
    <3>1. \A i \in 1 .. Len(flight) : ring[flight[i]] \in Nat
        BY <1>2 DEF RingTypeOK
    <3>. QED
        BY <1>2, <2>1, <3>1
  <2>3. RingTypeOK' /\ Conserved'
      BY <1>1, <1>6, <2>2 DEF RingTypeOK, Conserved, Advance, indices
  <2>4. StreamIntact'
    <3>. SUFFICES ASSUME ~spilled, ~overrun, NEW i \in 1 .. Len(flight)
                  PROVE  packet'[i] = Read' - Len(packet') + i - 1
        BY <1>1, <2>2 DEF StreamIntact
    <3>1. packet'[i] = Read + i - 1
        BY <1>2, <2>1 DEF Flying
    <3>. QED
        BY <1>2, <1>3, <2>2, <3>1 DEF Read
  <2>5. Content' /\ Filled' /\ Flying'
      BY <1>1, <1>2, RingConstants
      DEF Content, Filled, Flying, Backlog, Advance, indices
  <2>. QED
      BY <2>3, <2>4, <2>5
<1>. QED
    BY <1>4, <1>5

\* The remaining steps touch no byte of the ring.
LEMMA OtherStep ==
    ASSUME RingInv, FlushTimeout \/ Respond \/ UNCHANGED ringVars
    PROVE  RingInv'
<1>1. UNCHANGED <<indices, ring, flight, history>>
    BY DEF FlushTimeout, Respond, ringVars, endpointVars
<1>2. (flushing' = FALSE \/ flushing' = flushing) /\ (busy' = TRUE \/ busy' = busy)
    BY DEF FlushTimeout, Respond, ringVars, endpointVars
<1>3. RingTypeOK'
    BY <1>1, <1>2 DEF RingInv, RingTypeOK, indices, history
<1>4. Conserved' /\ StreamIntact'
    BY <1>1 DEF RingInv, Conserved, StreamIntact, Read, Advance, indices, history
<1>5. Content' /\ Filled' /\ Flying'
    BY <1>1, <1>2
    DEF RingInv, Content, Filled, Flying, Backlog, Read, Advance, indices, history
<1>. QED
    BY <1>3, <1>4, <1>5 DEF RingInv

\* The invariant the other theorems rest on.
THEOREM RingInvariance == RingSpec => []RingInv
<1>1. RingInv /\ [RingNext]_ringVars => RingInv'
    BY UsbSendFluxStep, FlushStep, HostReadsStep, OtherStep DEF RingNext
<1>. QED
    BY <1>1, RingInvInit, PTL DEF RingSpec

\* The indices stay inside the buffer.
THEOREM RingTypeCorrect == RingSpec => []RingTypeOK
<1>1. RingInv => RingTypeOK
    BY DEF RingInv
<1>. QED
    BY <1>1, RingInvariance, PTL

\* What lies between the indices is what has been accepted and not handed on,
\* for rings, packets and revolutions of every size.
THEOREM BytesConserved == RingSpec => []Conserved
<1>1. RingInv => Conserved
    BY DEF RingInv
<1>. QED
    BY <1>1, RingInvariance, PTL

\* Until a copy passes the end of the buffer or goes over the packet in the endpoint
\* (ufi_usb.c, lines 134 to 142 and 174 to 178), the host reads what was accepted.
THEOREM StreamIsIntact == RingSpec => []StreamIntact
<1>1. RingInv => StreamIntact
    BY DEF RingInv
<1>. QED
    BY <1>1, RingInvariance, PTL

-------------------------------------------------------------------------------
(* The ring implements the queue of ByteChannel. *)

\* The bytes that have been accepted and not read.
Unread == Len(flight) + Backlog

\* They are those of the packet and those from tail on.
Waiting ==
    [i \in 1 .. Unread |->
        IF i <= Len(flight) THEN ring[flight[i]]
                            ELSE ring[Advance(tail, i - Len(flight) - 1)]]

Channel == INSTANCE ByteChannel WITH
    queue <- Waiting, broken <- spilled \/ overrun

\* Numbers in their order.
Count(first, n) == [i \in 1 .. n |-> first + i - 1]

\* They are as many, and the ones, that one expects.
LEMMA Counts ==
    ASSUME NEW s \in Nat, NEW n \in Nat
    PROVE  /\ Count(s, n) \in Seq(Nat) /\ Len(Count(s, n)) = n
           /\ \A i \in 1 .. n : Count(s, n)[i] = s + i - 1
BY DEF Count

\* Numbers that go on where others end.
LEMMA CountGoesOn ==
    ASSUME NEW t \in Nat, NEW m \in Nat, NEW n \in Nat
    PROVE  Count(t, m) \o Count(t + m, n) = Count(t, m + n)
<1>1. t + m \in Nat /\ m + n \in Nat
    OBVIOUS
<1>. DEFINE first == Count(t, m)
            second == Count(t + m, n)
            both == Count(t, m + n)
<1>2. first \in Seq(Nat) /\ Len(first) = m /\ \A i \in 1 .. m : first[i] = t + i - 1
    BY Counts
<1>3. second \in Seq(Nat) /\ Len(second) = n /\ \A i \in 1 .. n : second[i] = (t + m) + i - 1
  <2>. DEFINE s == t + m
  <2>1. s \in Nat
      OBVIOUS
  <2>. HIDE DEF s
  <2>2. Count(s, n) \in Seq(Nat) /\ Len(Count(s, n)) = n /\ \A i \in 1 .. n : Count(s, n)[i] = s + i - 1
      BY <2>1, Counts
  <2>. QED
      BY <2>2 DEF s
<1>4. both \in Seq(Nat) /\ Len(both) = m + n /\ \A i \in 1 .. m + n : both[i] = t + i - 1
    BY <1>1, Counts
<1>. HIDE DEF first, second, both
<1>5. first \o second \in Seq(Nat) /\ Len(first \o second) = m + n
  <2>1. first \in Seq(Nat) /\ second \in Seq(Nat) /\ Len(first) = m /\ Len(second) = n
      BY <1>2, <1>3
  <2>. QED
      BY <2>1
<1>6. ASSUME NEW i \in 1 .. m + n PROVE (first \o second)[i] = both[i]
  <2>1. first \in Seq(Nat) /\ second \in Seq(Nat) /\ Len(first) = m /\ Len(second) = n
      BY <1>2, <1>3
  <2>2. both[i] = t + i - 1
      BY <1>4
  <2>3. CASE i <= m
    <3>1. (first \o second)[i] = first[i]
        BY <2>1, <2>3
    <3>2. first[i] = t + i - 1
        BY <1>2, <2>3
    <3>. QED
        BY <2>2, <3>1, <3>2
  <2>4. CASE ~(i <= m)
    <3>1. (first \o second)[i] = second[i - m]
        BY <2>1, <2>4
    <3>2. PICK k \in 1 .. n : i = m + k
        BY <2>4
    <3>3. (first \o second)[i] = second[k]
        BY <3>1, <3>2
    <3>4. second[k] = t + i - 1
        BY <1>3, <3>2
    <3>. QED
        BY <2>2, <3>3, <3>4
  <2>. QED
      BY <2>3, <2>4
<1>7. first \o second = both
    BY <1>4, <1>5, <1>6, SeqEqual
<1>. QED
    BY <1>7 DEF first, second, both

\* The first of them, and the rest.
LEMMA CountParts ==
    ASSUME NEW t \in Nat, NEW m \in Nat, NEW n \in 1 .. m
    PROVE  /\ SubSeq(Count(t, m), 1, n) = Count(t, n)
           /\ SubSeq(Count(t, m), n + 1, Len(Count(t, m))) = Count(t + n, m - n)
<1>1. Count(t, m) \in Seq(Nat) /\ Len(Count(t, m)) = m
    BY DEF Count
<1>2. SubSeq(Count(t, m), 1, n) = [i \in 1 .. n |-> Count(t, m)[1 + i - 1]]
    BY <1>1, SubSeqProperties
<1>3. SubSeq(Count(t, m), n + 1, m) = [i \in 1 .. m - n |-> Count(t, m)[n + 1 + i - 1]]
    BY <1>1
<1>4. \A i \in 1 .. n : Count(t, m)[1 + i - 1] = t + i - 1
    BY DEF Count
<1>5. \A i \in 1 .. m - n : Count(t, m)[n + 1 + i - 1] = (t + n) + i - 1
    BY DEF Count
<1>. QED
    BY <1>1, <1>2, <1>3, <1>4, <1>5 DEF Count

\* As long as the promise holds, the numbers wait in their order.
LEMMA WaitingCounts ==
    RingInv => (~spilled /\ ~overrun => Waiting = Count(Read, Unread))
<1>. SUFFICES ASSUME RingInv, ~spilled, ~overrun PROVE Waiting = Count(Read, Unread)
    OBVIOUS
<1>. DEFINE f == Len(flight)
<1>1. /\ Backlog \in Nat /\ taken \in Nat /\ f \in Nat
      /\ DOMAIN flight = 1 .. f /\ Read = taken - f
    BY UsedIsPending, RingConstants DEF RingInv, RingTypeOK, Read
<1>. HIDE DEF f
<1>2. \A i \in 1 .. f + Backlog : i <= f => ring[flight[i]] = Read + i - 1
    BY <1>1 DEF RingInv, Flying
<1>3. \A i \in 1 .. f + Backlog :
        ~(i <= f) => ring[Advance(tail, i - f - 1)] = Read + i - 1
  <2>1. \A i \in 1 .. f + Backlog : ~(i <= f) => i - f - 1 \in 0 .. Backlog - 1
      BY <1>1
  <2>2. \A i \in 1 .. f + Backlog :
          ~(i <= f) => ring[Advance(tail, i - f - 1)] = taken + (i - f - 1)
      BY <2>1 DEF RingInv, Content
  <2>3. \A i \in 1 .. f + Backlog : taken + (i - f - 1) = Read + i - 1
      BY <1>1
  <2>. QED
      BY <2>2, <2>3
<1>4. Waiting = [i \in 1 .. f + Backlog |->
                   IF i <= f THEN ring[flight[i]] ELSE ring[Advance(tail, i - f - 1)]]
    BY DEF Waiting, Unread, f
<1>5. Waiting = [i \in 1 .. f + Backlog |-> Read + i - 1]
    BY <1>2, <1>3, <1>4
<1>. QED
    BY <1>5 DEF Count, Unread, f

\* The same after a step.
LEMMA WaitingStillCounts ==
    RingInv' => (~spilled' /\ ~overrun' => Waiting' = Count(Read', Unread'))
<1>1. RingInv' => (~spilled /\ ~overrun => Waiting = Count(Read, Unread))'
    BY WaitingCounts, PTL
<1>. QED
    BY <1>1 DEF Count

\* What is counted is in the ring.
LEMMA UnreadIsCounted ==
    ASSUME RingInv
    PROVE  /\ Backlog \in Nat /\ Read \in Nat /\ accepted \in Nat /\ taken \in Nat
           /\ Len(flight) \in Nat /\ DOMAIN flight = 1 .. Len(flight)
           /\ Unread \in Nat /\ accepted = Read + Unread
<1>1. /\ Backlog \in Nat /\ taken \in Nat /\ accepted \in Nat /\ Len(flight) \in Nat
      /\ DOMAIN flight = 1 .. Len(flight)
    BY UsedIsPending, RingConstants DEF RingInv, RingTypeOK
<1>2. Len(flight) <= taken
    BY DEF RingInv, Flying
<1>3. Read \in Nat /\ Unread \in Nat
    BY <1>1, <1>2 DEF Read, Unread
<1>4. accepted = Read + Unread
    BY <1>1 DEF Read, Unread, Backlog
<1>. QED
    BY <1>1, <1>3, <1>4

\* A revolution goes to the end of the queue.
LEMMA SendingAccepts ==
    ASSUME RingInv, RingInv', ~spilled', ~overrun', NEW n \in Sizes, UsbSendFlux(n)
    PROVE  Channel!Works
<1>1. n \in Nat
    BY RingConstants
<1>2. /\ ~spilled /\ ~overrun
      /\ flight' = flight /\ taken' = taken /\ packet' = packet
      /\ accepted' = accepted + n
    BY DEF UsbSendFlux, RingInv, RingTypeOK, endpointVars
<1>3. Read' = Read /\ Unread' = Unread + n
  <2>1. /\ Read' = taken' - Len(flight') /\ Read = taken - Len(flight)
        /\ Unread' = Len(flight') + (accepted' - taken')
        /\ Unread = Len(flight) + (accepted - taken)
      BY DEF Read, Unread, Backlog
  <2>2. /\ Read' = taken - Len(flight)
        /\ Unread' = Len(flight) + ((accepted + n) - taken)
      BY <1>2, <2>1
  <2>3. taken \in Nat /\ accepted \in Nat /\ Len(flight) \in Nat
      BY UnreadIsCounted
  <2>. QED
      BY <1>1, <2>1, <2>2, <2>3
<1>4. Waiting = Count(Read, Unread) /\ Waiting' = Count(Read, Unread + n)
    BY <1>2, <1>3, WaitingCounts, WaitingStillCounts
<1>7. Read \in Nat /\ Unread \in Nat /\ accepted = Read + Unread
    BY UnreadIsCounted
<1>8. Count(Read, Unread) \o Count(Read + Unread, n) = Count(Read, Unread + n)
    BY <1>1, <1>7, CountGoesOn
<1>5. Waiting' = Waiting \o Count(accepted, n)
    BY <1>4, <1>7, <1>8
<1>6. Channel!Accept(n)
    BY <1>2, <1>5 DEF Channel!Accept, Count
<1>. QED
    BY <1>2, <1>6 DEF Channel!Works

\* A packet moves from the waiting bytes to the endpoint, which the host does not see.
LEMMA FlushingMoves ==
    ASSUME RingInv, RingInv', ~spilled, ~overrun, Flush
    PROVE  UNCHANGED Channel!vars
<1>. DEFINE len == PacketLength
<1>1. len \in 1 .. Backlog
    BY PacketFits DEF RingInv, Filled, Flush
<1>2. /\ flight' = [i \in 1 .. len |-> tail + i - 1] /\ taken' = taken + len
      /\ UNCHANGED <<accepted, packet, spilled, overrun>>
    BY DEF Flush
<1>3. flight = <<>>
    BY DEF Flush, RingInv, Flying
<1>. HIDE DEF len
<1>4. Len(flight') = len /\ Len(flight) = 0
    BY <1>1, <1>2, <1>3, UnreadIsCounted
<1>5. Read' = Read /\ Unread' = Unread
    BY <1>1, <1>2, <1>4, UnreadIsCounted DEF Read, Unread, Backlog
<1>6. Waiting' = Waiting
    BY <1>2, <1>5, WaitingCounts, WaitingStillCounts
<1>. QED
    BY <1>2, <1>6 DEF Channel!vars

\* The host takes a packet off the front of the queue, or an answer.
LEMMA ReadingSends ==
    ASSUME RingInv, RingInv', ~spilled, ~overrun, HostReads
    PROVE  Channel!Works \/ UNCHANGED Channel!vars
<1>. DEFINE len == Len(flight)
<1>1. len \in Nat /\ DOMAIN flight = 1 .. len /\ len <= PacketSize /\ len <= Unread
    BY UnreadIsCounted DEF RingInv, Flying, Unread
<1>2. /\ flight' = <<>> /\ Len(flight') = 0
      /\ packet' = IF flight = <<>> THEN packet
                   ELSE [i \in 1 .. len |-> ring[flight[i]]]
      /\ UNCHANGED <<accepted, taken, spilled, overrun>>
    BY <1>1 DEF HostReads
<1>3. Read' = Read + len /\ Unread' = Unread - len
  <2>1. /\ Read' = taken' - Len(flight') /\ Read = taken - len
        /\ Unread' = Len(flight') + (accepted' - taken')
        /\ Unread = len + (accepted - taken)
      BY DEF Read, Unread, Backlog
  <2>2. /\ Read' = taken - 0 /\ Unread' = 0 + (accepted - taken)
        /\ taken \in Nat /\ accepted \in Nat
      BY <1>2, <2>1, UnreadIsCounted
  <2>. QED
      BY <1>1, <2>1, <2>2
<1>4. Waiting = Count(Read, Unread) /\ Waiting' = Count(Read + len, Unread - len)
    BY <1>2, <1>3, WaitingCounts, WaitingStillCounts
<1>5. CASE flight = <<>>
  <2>1. len = 0
      BY <1>5
  <2>2. Read' = Read /\ Unread' = Unread
      BY <1>3, <2>1, UnreadIsCounted
  <2>3. Waiting' = Waiting
      BY <1>2, <2>2, WaitingCounts, WaitingStillCounts
  <2>. QED
      BY <1>2, <1>5, <2>3 DEF Channel!vars
<1>6. CASE flight # <<>>
  <2>1. len > 0
      BY <1>1, <1>6 DEF RingInv, RingTypeOK
  <2>. HIDE DEF len
  <2>2. packet' = Count(Read, len)
    <3>1. \A i \in 1 .. len : ring[flight[i]] = Read + i - 1
        BY <1>1 DEF RingInv, Flying
    <3>. QED
        BY <1>2, <1>6, <3>1 DEF Count
  <2>3. len \in 1 .. Unread
      BY <1>1, <2>1, UnreadIsCounted
  <2>4. Channel!Send(len)
    <3>1. Read \in Nat /\ Unread \in Nat
        BY UnreadIsCounted
    <3>2. /\ SubSeq(Waiting, 1, len) = Count(Read, len)
          /\ SubSeq(Waiting, len + 1, Len(Waiting)) = Count(Read + len, Unread - len)
        BY <1>4, <2>3, <3>1, CountParts
    <3>. QED
        BY <1>2, <1>4, <2>2, <3>2 DEF Channel!Send
  <2>5. Len(Waiting) = Unread
      BY UnreadIsCounted DEF Waiting
  <2>. QED
      BY <1>1, <1>2, <2>3, <2>4, <2>5 DEF Channel!Works
<1>. QED
    BY <1>5, <1>6

\* The ring is a queue of bytes: a packet is the front of what was accepted and not yet
\* read, and nothing else enters or leaves it, until the first copy that passes the end of
\* the buffer or goes over the packet in the endpoint (ufi_usb.c, lines 124 to 179;
\* ufi_fixes.h, lines 61 to 64).
THEOREM RingIsChannel == RingSpec => Channel!Spec
<1>1. RingInit => Channel!Init
  <2>. SUFFICES ASSUME RingInit PROVE Channel!Init
      OBVIOUS
  <2>1. Unread = 0
      BY DEF RingInit, Unread, Backlog
  <2>2. Waiting = <<>>
      BY <2>1 DEF Waiting
  <2>. QED
      BY <2>2 DEF RingInit, Channel!Init
<1>2. RingInv /\ RingInv' /\ [RingNext]_ringVars => [Channel!Next]_Channel!vars
  <2>. SUFFICES ASSUME RingInv, RingInv', [RingNext]_ringVars, ~spilled', ~overrun'
                PROVE  Channel!Works \/ UNCHANGED Channel!vars
      BY DEF Channel!Next, Channel!Breaks
  <2>1. ASSUME NEW n \in Sizes, UsbSendFlux(n) PROVE Channel!Works
      BY <2>1, SendingAccepts
  <2>2. CASE Flush
    <3>1. ~spilled /\ ~overrun
        BY <2>2 DEF Flush
    <3>. QED
        BY <2>2, <3>1, FlushingMoves
  <2>3. CASE HostReads
    <3>1. ~spilled /\ ~overrun
        BY <2>3 DEF HostReads
    <3>. QED
        BY <2>3, <3>1, ReadingSends
  <2>4. CASE FlushTimeout \/ Respond \/ UNCHANGED ringVars
    <3>1. UNCHANGED <<indices, ring, flight, history>>
        BY <2>4 DEF FlushTimeout, Respond, ringVars, endpointVars
    <3>. QED
        BY <3>1
        DEF Channel!vars, Waiting, Unread, Backlog, Advance, indices, history
  <2>. QED
      BY <2>1, <2>2, <2>3, <2>4 DEF RingNext
<1>. QED
    BY <1>1, <1>2, RingInvariance, PTL DEF RingSpec, Channel!Spec

===============================================================================
