-------------------------------- MODULE IecBus --------------------------------
(***************************************************************************)
(* The IEC bus of the Commodore drives, firmware/src/ufi_iec.c: the        *)
(* functions that move one byte over the lines ATN, CLK and DATA, the      *)
(* dialogs made of them, and a drive at the other end.                     *)
(*                                                                         *)
(* A line is low when anybody pulls it.  The controller waits in two ways. *)
(* A delay is long enough for the drive to react: the step after it needs  *)
(* Settled.  A loop polls a line until it changes or a counter runs out;   *)
(* the counters are unsigned and decremented once more when they are 0, as *)
(* while (line && timeout--) does.                                         *)
(*                                                                         *)
(* The drive is not part of the repository.  It is the counterpart that    *)
(* the comments of ufi_iec.c describe; it may be missing, stop at any      *)
(* point, or answer later than the controller polls.                       *)
(***************************************************************************)
EXTENDS Integers, Sequences

CONSTANTS
    Bits,                            \* 8 bits of a byte
    Polls,                           \* rounds of a polling loop
    Wide,                            \* values of a counter, 2^32
    LISTEN, TALK, UNLISTEN, UNTALK, SECOND,  \* the bytes sent under ATN
    Dollar,                          \* the name of the directory
    Commands,                        \* the strings of bytes sent to a drive
    Message,                         \* what the drive says when it talks
    Rooms                            \* sizes of the buffers for it

Byte == [1 .. Bits -> BOOLEAN]

ASSUME IecAssumption ==
    /\ Bits \in Nat \ {0}
    /\ Polls \in Nat \ {0}
    /\ Wide \in Nat /\ Wide > Polls + 1
    /\ {LISTEN, TALK, UNLISTEN, UNTALK, SECOND, Dollar} \subseteq Byte
    /\ LISTEN # TALK /\ {LISTEN, TALK} \cap {UNLISTEN, UNTALK} = {}  \* 0x20, 0x40, 0x3F, 0x5F
    /\ SECOND \notin {LISTEN, TALK, UNLISTEN, UNTALK}                \* 0x60
    /\ Commands \subseteq Seq(Byte) \ {<<>>}
    /\ Message \in Seq(Byte) \ {<<>>}
    /\ Rooms \subseteq Nat \ {0}

VARIABLES
    atn, clk, data,  \* lines the controller pulls
    script,          \* what is left of the dialog
    pc,              \* place in the function that moves a byte
    timeout,         \* its counter
    bit,             \* bits done
    inbox,           \* bytes received in this dialog, the last one in the making
    eoi,             \* the last byte was received with EOI
    ret,             \* result of the last function
    dev,             \* the drive
    alive,           \* it is connected and reacts
    late,            \* history: it was slower than a polling loop
    sent             \* history: the data bytes that send_byte called sent

lines == <<atn, clk, data>>
vars == <<lines, script, pc, timeout, bit, inbox, eoi, ret, dev, alive,
          late, sent>>

ClkLow == clk \/ dev.clk
DataLow == data \/ dev.data

------------------------------------------------------------------------------
(* The drive.                                                              *)

When(condition, state) == IF condition THEN {state} ELSE {}

Asleep == [att |-> FALSE, role |-> "none", phase |-> "hold", clk |-> FALSE,
           data |-> FALSE, shift |-> <<>>, eoi |-> FALSE, out |-> <<>>, heard |-> <<>>]

\* ATN makes every drive listen, and its end lets the addressed one do its part.
Attention ==
    LET listens == atn \/ dev.role = "listener"
    IN  [dev EXCEPT !.att = atn, !.clk = FALSE, !.data = listens, !.shift = <<>>,
                    !.eoi = FALSE, !.phase = IF listens THEN "wait" ELSE "turn"]

\* A byte is complete: a command under ATN, or data.
Hear(byte) ==
    LET d == [dev EXCEPT !.phase = "hold", !.data = TRUE, !.shift = <<>>, !.eoi = FALSE]
    IN  CASE ~dev.att -> [d EXCEPT !.heard = Append(@, [byte |-> byte, eoi |-> dev.eoi])]
          [] dev.att /\ byte = LISTEN -> [d EXCEPT !.role = "listener"]
          [] dev.att /\ byte = TALK -> [d EXCEPT !.role = "talker", !.out = Message]
          [] dev.att /\ byte \in {UNLISTEN, UNTALK} -> [d EXCEPT !.role = "none"]
          [] OTHER -> d

\* Listening: DATA is held until CLK, once it is low, is released; bits are taken when
\* CLK rises, and the byte is acknowledged by holding DATA again.
Listens ==
    When(dev.phase = "wait" /\ ClkLow, [dev EXCEPT !.phase = "hold"])
    \cup When(dev.phase = "hold" /\ ~ClkLow, [dev EXCEPT !.phase = "open", !.data = FALSE])
    \cup When(dev.phase = "open" /\ ClkLow, [dev EXCEPT !.phase = "low"])
    \cup When(dev.phase = "eoi", [dev EXCEPT !.phase = "open", !.data = FALSE])
    \cup When(dev.phase = "low" /\ ~ClkLow,
              [dev EXCEPT !.phase = "high", !.shift = Append(@, ~DataLow)])
    \cup When(dev.phase = "high" /\ ClkLow,
              IF Len(dev.shift) = Bits THEN Hear(dev.shift) ELSE [dev EXCEPT !.phase = "low"])

\* Pulling CLK for the next bit of a byte, or after the last.
NextBit(d) ==
    LET n == Len(d.shift) + 1
    IN  IF n > Bits THEN [d EXCEPT !.phase = "ack", !.clk = TRUE, !.data = FALSE]
        ELSE [d EXCEPT !.phase = "low", !.clk = TRUE, !.data = ~Head(d.out)[n],
                       !.shift = Append(@, Head(d.out)[n])]

\* Talking: CLK is held until a byte is there, released for "ready", and pulled for
\* every bit. The controller polls faster than bits follow each other, so an edge
\* of a bit comes when it waits for that edge. Before the last byte it lingers
\* with CLK released, which is EOI, until that is answered on DATA.
Last == Len(dev.out) = 1
Talks ==
    When(dev.phase = "turn" /\ ~clk, [dev EXCEPT !.phase = "busy", !.clk = TRUE])
    \cup When(dev.phase = "ready" /\ ~DataLow,
              IF Last THEN [dev EXCEPT !.phase = "linger"] ELSE NextBit(dev))
    \cup When(dev.phase = "linger" /\ DataLow, [dev EXCEPT !.phase = "answered"])
    \cup When(dev.phase = "answered" /\ ~DataLow, NextBit(dev))
    \cup When(dev.phase = "low" /\ pc = "r_high", [dev EXCEPT !.phase = "high", !.clk = FALSE])
    \cup When(dev.phase = "high" /\ pc # "r_high" /\ (pc = "r_low" \/ Len(dev.shift) = Bits), NextBit(dev))
    \cup When(dev.phase = "ack" /\ DataLow,
              [dev EXCEPT !.phase = "busy", !.shift = <<>>, !.out = Tail(@)])

\* What the drive does at once, and what takes it a while: to notice an EOI, that is
\* CLK released for longer than usual, and to have the next byte.
AtOnce ==
    IF ~alive THEN {}
    ELSE IF atn # dev.att THEN {Attention}
    ELSE IF dev.att \/ dev.role = "listener" THEN Listens
    ELSE IF dev.role = "talker" THEN Talks ELSE {}
AfterAWhile ==
    IF ~alive \/ atn # dev.att THEN {}
    ELSE IF dev.att \/ dev.role = "listener"
      THEN When(/\ dev.phase = "open" /\ ~dev.eoi /\ ~ClkLow
                /\ pc \in {"s_eoi_high", "s_eoi_low"},
                [dev EXCEPT !.phase = "eoi", !.data = TRUE, !.eoi = TRUE])
    ELSE When(/\ dev.role = "talker" /\ dev.phase = "busy" /\ dev.out # <<>>,
              [dev EXCEPT !.phase = "ready", !.clk = FALSE])

Settled == AtOnce = {}

Drive ==
    /\ dev' \in AtOnce \cup AfterAWhile
    /\ UNCHANGED <<lines, script, pc, timeout, bit, inbox, eoi, ret, alive, late, sent>>

Hang ==
    /\ alive
    /\ alive' = FALSE
    /\ UNCHANGED <<lines, script, pc, timeout, bit, inbox, eoi, ret, dev, late, sent>>

------------------------------------------------------------------------------
(* The dialogs, each a script of the steps it makes. Check returns from the *)
(* dialog when the step before it failed.                                  *)

Atn(on) == [op |-> "atn", on |-> on]
Send(byte, last) == [op |-> "send", byte |-> byte, eoi |-> last]
Check == [op |-> "check"]
Turn == [op |-> "turn"]
Receive(room) == [op |-> "receive", room |-> room]
Result(least) == [op |-> "result", least |-> least]

Listen == <<Atn(TRUE), Send(LISTEN, FALSE)>>
Talk == <<Atn(TRUE), Send(TALK, FALSE)>>
Secondary == <<Send(SECOND, FALSE)>>
Unlisten == <<Atn(TRUE), Send(UNLISTEN, FALSE), Atn(FALSE)>>
\* Slip: ATN stays low.
UntalkHoldsAtn == <<Atn(TRUE), Send(UNTALK, FALSE)>>
Untalk == <<Atn(TRUE), Send(UNTALK, FALSE), Atn(FALSE)>>

\* ret = f(); if (ret != 0) return ret;
Must(f) == Append(f, Check)

Bytes(text) ==
    [i \in 1 .. 2 * Len(text) |-> IF i % 2 = 0 THEN Check
                                  ELSE Send(text[(i + 1) \div 2], i = 2 * Len(text) - 1)]

Command(text) ==
    Must(Listen) \o Must(Secondary) \o <<Atn(FALSE)>> \o Bytes(text) \o Unlisten

Reading(room) ==
    Must(Talk) \o Must(Secondary) \o <<Atn(FALSE), Turn, Receive(room)>> \o Untalk

\* The number of bytes read is never negative.
ReadStatus(room) == Reading(room) \o <<Result(0)>>

\* A block is read when the buffer is full: (*len == 256) ? 0 : -1.
ReadBlock(pointer, block, room) ==
    Must(Command(pointer)) \o Must(Command(block)) \o Reading(room) \o <<Result(room)>>

ReadDirectory(room) ==
    Must(Listen) \o Must(Secondary) \o <<Atn(FALSE)>> \o Must(<<Send(Dollar, TRUE)>>)
    \o Must(Unlisten) \o Reading(room) \o Listen \o Secondary \o <<Atn(FALSE)>> \o Unlisten
    \o <<Result(0)>>

Dialogs ==
    {Command(c) : c \in Commands} \cup {ReadStatus(n) : n \in Rooms}
    \cup {ReadBlock(c, d, n) : c \in Commands, d \in Commands, n \in Rooms}
    \cup {ReadDirectory(n) : n \in Rooms}

------------------------------------------------------------------------------
(* The polling loops.                                                      *)

\* What the loop at this place waits for.
Seen ==
    \/ pc \in {"s_ready", "s_eoi_low", "s_ack"} /\ DataLow
    \/ pc = "s_eoi_high" /\ ~DataLow
    \/ pc = "r_low" /\ ClkLow
    \/ pc \in {"r_clk", "r_high"} /\ ~ClkLow

Reacting == AtOnce \cup AfterAWhile # {}

\* Slip: the rounds are not counted.
PollForever ==
    /\ pc \in {"s_ready", "s_eoi_high", "s_eoi_low", "s_ack", "r_clk", "r_low", "r_high"}
    /\ ~Seen
    /\ UNCHANGED vars

\* timeout-- of a round that goes on, and of the test that ends the loop.
Poll ==
    /\ pc \in {"s_ready", "s_eoi_high", "s_eoi_low", "s_ack", "r_clk", "r_low", "r_high"}
    /\ ~Seen /\ timeout # 0
    /\ timeout' = timeout - 1
    /\ late' = (late \/ (timeout = 1 /\ Reacting))
    /\ UNCHANGED <<lines, script, pc, bit, inbox, eoi, ret, dev, alive, sent>>

AfterPoll == IF Seen THEN timeout ELSE Wide - 1

Leaves(place) ==
    /\ pc = place
    /\ Seen \/ timeout = 0
    /\ late' = (late \/ (~Seen /\ Reacting))

------------------------------------------------------------------------------
(* Sending a byte.  The step of the script stays at the head of it until    *)
(* the function returns.                                                   *)

Op == Head(script)
\* Slip: no delay before the step.
At(op) == pc = "idle" /\ script # <<>> /\ Op.op = op /\ Settled

Return(result) ==
    /\ pc' = "idle"
    /\ ret' = result
    /\ script' = Tail(script)

SendByte ==
    /\ At("send")
    /\ clk' = TRUE
    /\ data' = FALSE
    /\ timeout' = Polls
    /\ pc' = "s_ready"
    /\ UNCHANGED <<atn, script, bit, inbox, eoi, ret, dev, alive, late, sent>>

\* After the loop for "listener ready": failure if the counter is 0 now. A drive that
\* holds DATA already has CLK low only for the moment between the two lines of code:
\* it is assumed to latch that.
SendReady ==
    /\ Leaves("s_ready") /\ (Seen => Settled)
    /\ bit' = 0
    /\ IF AfterPoll = 0
         THEN Return(-1) /\ timeout' = 0 /\ UNCHANGED clk
         ELSE /\ clk' = FALSE
              /\ timeout' = Polls
              /\ pc' = IF Op.eoi THEN "s_eoi_high" ELSE "s_low"
              /\ UNCHANGED <<script, ret>>
    /\ UNCHANGED <<atn, data, inbox, eoi, dev, alive, sent>>

\* Slip: the loops after EOI go on with what is left of the counter.
SendEoiNoReset ==
    /\ \/ Leaves("s_eoi_high") /\ Settled /\ pc' = "s_eoi_low"
       \/ Leaves("s_eoi_low") /\ pc' = "s_low"
    /\ timeout' = AfterPoll
    /\ clk' = FALSE
    /\ UNCHANGED <<atn, data, script, bit, inbox, eoi, ret, dev, alive, sent>>

\* The drive's answer to EOI; the first loop begins after a delay.
SendEoi ==
    /\ \/ Leaves("s_eoi_high") /\ Settled /\ pc' = "s_eoi_low"
       \/ Leaves("s_eoi_low") /\ pc' = "s_low"
    /\ timeout' = Polls
    /\ clk' = FALSE
    /\ UNCHANGED <<atn, data, script, bit, inbox, eoi, ret, dev, alive, sent>>

\* A bit on DATA while CLK is low; CLK released shows that it is valid.
SendBit ==
    /\ pc = "s_low" /\ Settled /\ bit < Bits
    /\ clk' = TRUE
    /\ data' = ~Op.byte[bit + 1]
    /\ pc' = "s_high"
    /\ UNCHANGED <<atn, script, timeout, bit, inbox, eoi, ret, dev, alive, late, sent>>

BitValid ==
    /\ pc = "s_high" /\ Settled
    /\ clk' = FALSE
    /\ bit' = bit + 1
    /\ pc' = "s_low"
    /\ UNCHANGED <<atn, data, script, timeout, inbox, eoi, ret, dev, alive, late, sent>>

SendFrame ==
    /\ pc = "s_low" /\ Settled /\ bit = Bits
    /\ clk' = TRUE
    /\ data' = FALSE
    /\ timeout' = Polls
    /\ pc' = "s_ack"
    /\ UNCHANGED <<atn, script, bit, inbox, eoi, ret, dev, alive, late, sent>>

\* Acknowledged or not, the byte counts as sent.  The loop begins after a delay.
SendAck ==
    /\ Leaves("s_ack") /\ Settled
    /\ sent' = IF atn THEN sent ELSE Append(sent, [byte |-> Op.byte, eoi |-> Op.eoi])
    /\ timeout' = 0
    /\ Return(0)
    /\ UNCHANGED <<lines, bit, inbox, eoi, dev, alive>>

------------------------------------------------------------------------------
(* Receiving: the loop over the bytes of an answer, until one fails, comes   *)
(* with EOI, or the buffer is full.                                        *)

ReceiveByte ==
    /\ At("receive")
    /\ ~eoi /\ Len(inbox) < Op.room
    /\ data' = FALSE
    /\ timeout' = Polls
    /\ pc' = "r_clk"
    /\ UNCHANGED <<atn, clk, script, bit, inbox, eoi, ret, dev, alive, late, sent>>

EndReceiving ==
    /\ At("receive")
    /\ eoi \/ Len(inbox) >= Op.room
    /\ script' = Tail(script)
    /\ UNCHANGED <<lines, pc, timeout, bit, inbox, eoi, ret, dev, alive, late, sent>>

\* The talker has released CLK.
ReceiveReady ==
    /\ Leaves("r_clk")
    /\ bit' = 0
    /\ timeout' = 0
    /\ IF AfterPoll = 0
         THEN Return(-1) /\ UNCHANGED inbox
         ELSE /\ inbox' = Append(inbox, <<>>)
              /\ pc' = "r_eoi"
              /\ UNCHANGED <<script, ret>>
    /\ UNCHANGED <<lines, eoi, dev, alive, sent>>

\* CLK still high after a while is EOI: it is answered with a pulse on DATA.
ReceiveEoi ==
    /\ pc = "r_eoi" /\ Settled
    /\ timeout' = Polls
    /\ IF ClkLow THEN pc' = "r_low" /\ UNCHANGED <<data, eoi>>
                 ELSE pc' = "r_answer" /\ data' = TRUE /\ eoi' = TRUE
    /\ UNCHANGED <<atn, clk, script, bit, inbox, ret, dev, alive, late, sent>>

\* Slip: DATA is not released after the answer.
EoiAnsweredHeld ==
    /\ pc = "r_answer" /\ Settled
    /\ pc' = "r_low"
    /\ UNCHANGED <<lines, script, timeout, bit, inbox, eoi, ret, dev, alive, late, sent>>

EoiAnswered ==
    /\ pc = "r_answer" /\ Settled
    /\ data' = FALSE
    /\ pc' = "r_low"
    /\ UNCHANGED <<atn, clk, script, timeout, bit, inbox, eoi, ret, dev, alive, late, sent>>

ReceiveBitStart ==
    /\ Leaves("r_low") /\ bit < Bits
    /\ timeout' = Polls
    /\ pc' = "r_high"
    /\ UNCHANGED <<lines, script, bit, inbox, eoi, ret, dev, alive, sent>>

\* The bit is on DATA, inverted.
ReceiveBit ==
    /\ Leaves("r_high")
    /\ inbox' = [inbox EXCEPT ![Len(inbox)] = Append(@, ~DataLow)]
    /\ bit' = bit + 1
    /\ timeout' = Polls
    /\ pc' = IF bit + 1 = Bits THEN "r_done" ELSE "r_low"
    /\ UNCHANGED <<lines, script, eoi, ret, dev, alive, sent>>

ReceiveAck ==
    /\ pc = "r_done"
    /\ data' = TRUE
    /\ pc' = "idle"
    /\ ret' = 0
    /\ UNCHANGED <<atn, clk, script, timeout, bit, inbox, eoi, dev, alive, late, sent>>

------------------------------------------------------------------------------
(* The other steps of a script.                                            *)

AtnStep ==
    /\ At("atn")
    /\ atn' = Op.on
    /\ script' = Tail(script)
    /\ UNCHANGED <<clk, data, pc, timeout, bit, inbox, eoi, ret, dev, alive, late, sent>>

CheckStep ==
    /\ At("check")
    /\ script' = IF ret # 0 THEN <<>> ELSE Tail(script)
    /\ UNCHANGED <<lines, pc, timeout, bit, inbox, eoi, ret, dev, alive, late, sent>>

TurnStep ==
    /\ At("turn")
    /\ clk' = FALSE
    /\ script' = Tail(script)
    /\ UNCHANGED <<atn, data, pc, timeout, bit, inbox, eoi, ret, dev, alive, late, sent>>

\* What a function returns that looks at the number of bytes and not at its last step.
ResultStep ==
    /\ At("result")
    /\ ret' = IF Len(inbox) >= Op.least THEN 0 ELSE -1
    /\ script' = Tail(script)
    /\ UNCHANGED <<lines, pc, timeout, bit, inbox, eoi, dev, alive, late, sent>>

\* A caller begins a dialog with empty buffers.
Begin ==
    /\ pc = "idle" /\ script = <<>> /\ Settled
    /\ script' \in Dialogs
    /\ inbox' = <<>>
    /\ sent' = <<>>
    /\ eoi' = FALSE
    /\ ret' = 0
    /\ dev' = [dev EXCEPT !.heard = <<>>]
    /\ UNCHANGED <<lines, pc, timeout, bit, alive, late>>

\* ufi_iec_reset: the reset line, then all lines released.  A drive that hung starts
\* again, and one may have been connected.
Reset ==
    /\ pc = "idle" /\ script = <<>>
    /\ atn' = FALSE /\ clk' = FALSE /\ data' = FALSE
    /\ dev' = Asleep
    /\ alive' \in {alive, TRUE}
    /\ inbox' = <<>> /\ eoi' = FALSE
    /\ sent' = <<>>
    /\ late' = FALSE
    /\ ret' = 0
    /\ UNCHANGED <<script, pc, timeout, bit>>

Controller ==
    \/ Poll \/ SendByte \/ SendReady \/ SendEoi \/ SendBit \/ BitValid \/ SendFrame \/ SendAck
    \/ ReceiveByte \/ EndReceiving \/ ReceiveReady \/ ReceiveEoi \/ EoiAnswered
    \/ ReceiveBitStart \/ ReceiveBit \/ ReceiveAck
    \/ AtnStep \/ CheckStep \/ TurnStep \/ ResultStep

\* ufi_iec_init releases the lines.
Init ==
    /\ atn = FALSE /\ clk = FALSE /\ data = FALSE
    /\ script = <<>>
    /\ pc = "idle"
    /\ timeout = 0 /\ bit = 0
    /\ inbox = <<>> /\ eoi = FALSE /\ ret = 0
    /\ dev = Asleep
    /\ alive \in BOOLEAN
    /\ late = FALSE
    /\ sent = <<>>

Next == Controller \/ Begin \/ Reset \/ Drive \/ Hang

Spec == Init /\ [][Next]_vars
FairSpec == Spec /\ WF_vars(Controller) /\ WF_vars(Drive)

------------------------------------------------------------------------------

TypeOK ==
    /\ {atn, clk, data, eoi, alive, late} \subseteq BOOLEAN
    /\ pc \in {"idle", "s_ready", "s_eoi_high", "s_eoi_low", "s_low", "s_high", "s_ack",
               "r_clk", "r_eoi", "r_answer", "r_low", "r_high", "r_done"}
    /\ pc # "idle" => script # <<>>
    /\ timeout \in 0 .. Polls
    /\ bit \in 0 .. Bits
    /\ \A i \in DOMAIN inbox : Len(inbox[i]) <= Bits
    /\ ret \in {0, -1}
    /\ dev.role \in {"none", "listener", "talker"}
    /\ Len(dev.shift) <= Bits + 1

Faultless == alive /\ ~late

\* Every byte arrives: what the drive has heard is what was sent, with EOI on the last
\* byte of a command, and what the controller has received is what the drive said, up
\* to the size of the buffer, with EOI on the drive's last byte (lines 152 to 280). It
\* takes both ends through eight edges for a bit, two handshakes and a turnaround.
BytesIntact ==
    Faultless /\ pc = "idle" =>
        /\ dev.heard = sent
        /\ inbox = SubSeq(Message, 1, Len(inbox))
        /\ eoi <=> inbox = Message

\* Controller and drive never pull the clock line at the same time: a talker has
\* released it before ATN is answered, and the controller before it listens
\* (lines 138 to 146 and 369 to 371).
OneTalker == Faultless => ~(clk /\ dev.clk)

\* The drive has said all it had to say, and a buffer was larger.
Short == eoi /\ inbox = Message /\ \E n \in Rooms : Len(inbox) < n

\* A dialog with a drive that answers fails only if a block was shorter than its buffer
\* (line 431); it leaves no drive addressed and ATN, DATA and the drive's lines
\* released, also when the buffer was full before the drive's last byte (lines 349 to
\* 352, 384 to 387 and 476 to 482).
BusLeftFree ==
    Faultless /\ pc = "idle" /\ script = <<>> /\ Settled =>
        /\ ret = 0 \/ Short
        /\ dev.role = "none"
        /\ {atn, data, dev.clk, dev.data} = {FALSE}

\* The lines and the addresses of a dialog, from its first byte to its last.
BusInOrder == OneTalker /\ BusLeftFree

\* Every dialog comes to its end, whatever the drive does: the polling loops are
\* counted (lines 161, 176, 180, 215, 238, 259 and 265).
DialogsEnd == script # <<>> ~> script = <<>>

\* As the comment of line 165 says, "Kein Listener": a byte is not called sent when no
\* drive has ever pulled a line.
AbsentIsReported == ~alive /\ dev = Asleep => sent = <<>>
==============================================================================
