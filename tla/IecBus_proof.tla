---------------------------- MODULE IecBus_proof -----------------------------
(***************************************************************************)
(* Proofs about IecBus, for bytes of any length, polling loops of any      *)
(* number of rounds, and any commands, message and buffers.                *)
(*                                                                         *)
(* The inductive invariant pairs every place of the controller with the    *)
(* phases the drive may be in, and every point of a script with what the   *)
(* dialog has done so far.                                                 *)
(***************************************************************************)
EXTENDS IecBus, SequenceTheorems, TLAPS

------------------------------------------------------------------------------
(* The types.                                                              *)

\* A step of a dialog, and one that is the last.
Moves == [op : {"atn"}, on : BOOLEAN] \cup [op : {"send"}, byte : Byte, eoi : BOOLEAN]
         \cup [op : {"check"}] \cup [op : {"turn"}] \cup [op : {"receive"}, room : Nat \ {0}]
Ops == Moves \cup [op : {"result"}, least : Nat]

Sending == {"s_ready", "s_eoi_high", "s_eoi_low", "s_low", "s_high", "s_ack"}
Receiving == {"r_clk", "r_eoi", "r_answer", "r_low", "r_high", "r_done"}
Roles == {"none", "listener", "talker"}
Phases == {"hold", "wait", "open", "eoi", "low", "high", "turn", "busy", "ready", "linger",
           "answered", "ack"}
Spoken == [byte : Byte, eoi : BOOLEAN]
Device == [att : BOOLEAN, role : Roles, phase : Phases, clk : BOOLEAN, data : BOOLEAN,
           shift : Seq(BOOLEAN), eoi : BOOLEAN, out : Seq(Byte), heard : Seq(Spoken)]

\* The drive takes bytes, or has been told to talk.
Hearing == dev.att \/ dev.role = "listener"
Telling == ~dev.att /\ dev.role = "talker"

\* The registers of the controller.
LineTypes ==
    /\ atn \in BOOLEAN /\ clk \in BOOLEAN /\ data \in BOOLEAN
    /\ eoi \in BOOLEAN /\ alive \in BOOLEAN /\ late \in BOOLEAN
PlaceTypes ==
    /\ script \in Seq(Ops)
    /\ pc \in {"idle"} \cup Sending \cup Receiving
    /\ pc \in Sending => script # <<>> /\ Op.op = "send"
    /\ pc \in Receiving => script # <<>> /\ Op.op = "receive"
CountTypes ==
    /\ timeout \in 0 .. Polls
    /\ bit \in 0 .. Bits
    /\ pc \in {"s_high", "r_high"} => bit < Bits
    /\ ret \in {0, -1}
    /\ sent \in Seq(Spoken)
ControllerTypes == LineTypes /\ PlaceTypes /\ CountTypes

\* The byte in the making is as long as the bits counted.
InboxTypes ==
    /\ inbox \in Seq(Seq(BOOLEAN))
    /\ \A i \in 1 .. Len(inbox) : Len(inbox[i]) <= Bits
    /\ pc \in Receiving \ {"r_clk"} => inbox # <<>>
    /\ pc \in {"r_eoi", "r_answer", "r_low", "r_high"} => Len(inbox[Len(inbox)]) = bit

\* The drive pulls CLK only as a talker, has a byte when it gives bits, and never
\* shifts more than a byte.
DriveTypes ==
    /\ dev \in Device
    /\ dev.clk => Telling
    /\ ~dev.att /\ dev.role = "none" => ~dev.data
    /\ Len(dev.shift) <= Bits
    /\ Hearing =>
           /\ dev.phase \in {"wait", "hold", "open", "eoi", "low", "high"}
           /\ dev.phase \in {"wait", "hold", "open", "eoi"} => dev.shift = <<>>
           /\ dev.phase = "low" => Len(dev.shift) < Bits
    /\ Telling /\ dev.phase \in {"ready", "linger", "answered", "low", "high", "ack"} =>
           dev.out # <<>>

Types == ControllerTypes /\ InboxTypes /\ DriveTypes

------------------------------------------------------------------------------
(* Where a dialog stands: whether ATN is low, who was addressed, whether nothing has  *)
(* been received yet, and whether the clock line was given to the talker.    *)

Contexts == [atn : BOOLEAN, role : Roles, fresh : BOOLEAN, turned : BOOLEAN]
Start == [atn |-> FALSE, role |-> "none", fresh |-> TRUE, turned |-> FALSE]
Ended(c) == ~c.atn /\ c.role = "none"

Addressed(byte, role) ==
    IF byte = LISTEN THEN "listener" ELSE IF byte = TALK THEN "talker"
    ELSE IF byte \in {UNLISTEN, UNTALK} THEN "none" ELSE role

\* What may be done there, and what it leads to.
Allowed(c, op) ==
    CASE op.op = "atn" -> op.on # c.atn /\ (c.role = "talker" => op.on = ~c.fresh)
      [] op.op = "send" -> IF c.atn THEN op.byte = TALK => c.fresh ELSE c.role = "listener"
      [] op.op = "turn" -> ~c.atn /\ c.role = "talker" /\ ~c.turned
      [] op.op = "receive" -> c.turned /\ c.fresh
      [] OTHER -> TRUE
After(c, op) ==
    CASE op.op = "atn" -> [c EXCEPT !.atn = op.on, !.turned = FALSE]
      [] op.op = "send" -> [c EXCEPT !.role = IF c.atn THEN Addressed(op.byte, @) ELSE @]
      [] op.op = "turn" -> [c EXCEPT !.turned = TRUE]
      [] op.op = "receive" -> [c EXCEPT !.fresh = FALSE]
      [] OTHER -> c


\* The steps s lead from c to d, through the contexts f; and to the end of a dialog.
Path(s, c, d) ==
    \E f \in [1 .. Len(s) + 1 -> Contexts] :
        /\ f[1] = c /\ f[Len(s) + 1] = d
        /\ \A i \in 1 .. Len(s) : Allowed(f[i], s[i]) /\ f[i + 1] = After(f[i], s[i])
Leads(s, c) == \E d \in Contexts : Ended(d) /\ Path(s, c, d)

------------------------------------------------------------------------------
(* A faultless bus.                                                        *)

Synced == dev.att = atn

\* The drive has taken the byte of which the controller awaits the acknowledgement.
Acked == pc = "s_ack" /\ dev.phase = "hold"
Now(c) == IF Acked THEN After(c, Op) ELSE c

\* The dialog goes on where it stands.
Standing(c) ==
    /\ ret = 0 \/ (script = <<>> /\ Short)
    /\ c.atn = atn
    /\ Leads(script, c)
    /\ pc # "idle" => Synced
    /\ c.turned => Synced /\ ~atn /\ c.role = "talker" /\ ~clk
    /\ c.role = "talker" /\ ~atn /\ ~c.turned => c.fresh
    /\ pc = "idle" /\ data => c.role = "talker"
    /\ pc = "idle" /\ c.role = "talker" /\ c.fresh /\ ~c.turned => clk
    /\ ~(clk /\ dev.clk)

\* The drive is addressed as the controller thinks, has heard what was sent, and has
\* everything left to say until it is given the clock line.
Agreed(c) ==
    /\ dev.role = Now(c).role
    /\ dev.heard = IF Acked /\ ~atn THEN Append(sent, [byte |-> Op.byte, eoi |-> Op.eoi])
                   ELSE sent
    /\ Now(c).role = "talker" /\ Now(c).fresh /\ ~Now(c).turned => dev.out = Message

\* What was received is the beginning of the message; a byte in the making is a part.
Complete == IF pc \in {"r_eoi", "r_answer", "r_low", "r_high"} THEN Len(inbox) - 1 ELSE Len(inbox)
Received(c) ==
    /\ c.fresh /\ ~c.turned => inbox = <<>>
    /\ Len(inbox) <= Len(Message)
    /\ \A j \in 1 .. Complete : inbox[j] = Message[j]
    /\ pc \in {"r_eoi", "r_answer", "r_low", "r_high"} =>
           \A i \in 1 .. bit : inbox[Len(inbox)][i] = Message[Len(inbox)][i]
    /\ eoi <=> pc # "r_eoi" /\ Len(inbox) = Len(Message)

\* The bits the drive has shifted in are those of the byte being sent.
Shifted == \A i \in 1 .. Len(dev.shift) : dev.shift[i] = Op.byte[i]

\* The edges of a byte that is sent.
Held == dev.phase \in {"wait", "hold"} /\ dev.data /\ ~dev.eoi
HearingIdle == pc = "idle" => Held /\ (dev.phase = "hold" => clk)
HearingReady == pc = "s_ready" => Held /\ clk /\ ~data /\ timeout = Polls
HearingEoi ==
    /\ pc \in {"s_eoi_high", "s_eoi_low"} => ~clk /\ ~data /\ Op.eoi /\ bit = 0
    /\ pc = "s_eoi_high" =>
           \/ dev.phase = "hold" /\ dev.data /\ ~dev.eoi
           \/ dev.phase = "open" /\ ~dev.data
           \/ dev.phase = "eoi" /\ dev.data /\ dev.eoi
    /\ pc = "s_eoi_low" =>
           \/ dev.phase = "open" /\ ~dev.data
           \/ dev.phase = "eoi" /\ dev.data /\ dev.eoi
HearingLow ==
    pc = "s_low" =>
        /\ ~clk
        /\ IF bit = 0
             THEN /\ ~data
                  /\ \/ dev.phase = "hold" /\ dev.data /\ ~dev.eoi /\ ~Op.eoi
                     \/ dev.phase = "open" /\ ~dev.data /\ dev.eoi = Op.eoi
                     \/ dev.phase = "eoi" /\ dev.data /\ dev.eoi /\ Op.eoi
             ELSE /\ data = ~Op.byte[bit]
                  /\ ~dev.data /\ dev.eoi = Op.eoi
                  /\ Shifted
                  /\ \/ dev.phase = "low" /\ Len(dev.shift) = bit - 1
                     \/ dev.phase = "high" /\ Len(dev.shift) = bit
HearingHigh ==
    pc = "s_high" =>
        /\ clk
        /\ data = ~Op.byte[bit + 1]
        /\ ~dev.data /\ dev.eoi = Op.eoi
        /\ Shifted
        /\ Len(dev.shift) = bit
        /\ dev.phase \in {IF bit = 0 THEN "open" ELSE "high", "low"}
HearingAck ==
    pc = "s_ack" =>
        /\ clk /\ ~data
        /\ \/ Held /\ dev.phase = "hold"
           \/ /\ dev.phase = "high" /\ Len(dev.shift) = Bits /\ Shifted
              /\ ~dev.data /\ dev.eoi = Op.eoi
HearingInStep ==
    Synced /\ Hearing =>
        /\ HearingIdle /\ HearingReady /\ HearingEoi /\ HearingLow /\ HearingHigh /\ HearingAck
        /\ pc \notin Receiving

\* The edges of a byte that is received; n bytes of the message are gone.
Left(n) == dev.out = SubSeq(Message, n + 1, Len(Message))
Quiet == ~dev.clk /\ ~dev.data /\ dev.shift = <<>>
Bit(n) == dev.phase = "low" /\ dev.clk /\ Len(dev.shift) = n /\ dev.data = ~dev.out[1][n]
Begun == Bit(1) /\ ~Last
Lingers == dev.phase = "linger" /\ Quiet /\ Last /\ ~data
Waits ==
    /\ ~dev.data /\ dev.shift = <<>>
    /\ \/ dev.phase = "busy" /\ dev.clk
       \/ dev.phase = "ready" /\ ~dev.clk
\* The last bit was taken, and the byte is acknowledged when DATA is low.
Finished ==
    /\ Len(dev.shift) = Bits
    /\ \/ dev.phase = "high" /\ ~dev.clk
       \/ dev.phase = "ack" /\ dev.clk /\ ~dev.data

TellingIdle ==
    pc = "idle" =>
        \/ Left(Len(inbox)) /\ dev.phase = "turn" /\ Quiet
        \/ Left(Len(inbox)) /\ (Waits \/ Lingers \/ Begun)
        \/ Len(inbox) > 0 /\ Left(Len(inbox) - 1) /\ data /\ Finished
TellingClk ==
    pc = "r_clk" =>
        /\ ~data /\ ~eoi
        /\ Left(Len(inbox))
        /\ Waits \/ Lingers \/ Begun
        /\ timeout = 0 => Begun
TellingEoi ==
    pc = "r_eoi" => /\ ~data
                    /\ bit = 0
                    /\ (dev.phase = "ready" /\ Quiet) \/ Lingers \/ Begun
TellingAnswer ==
    pc = "r_answer" => /\ data /\ eoi
                       /\ bit = 0
                       /\ Last
                       /\ Quiet /\ dev.phase \in {"linger", "answered"}
TellingLow ==
    pc = "r_low" =>
        /\ ~data
        /\ bit < Bits
        /\ \/ bit = 0 /\ Quiet /\ dev.phase = "answered"
           \/ bit > 0 /\ dev.phase = "high" /\ ~dev.clk /\ Len(dev.shift) = bit
           \/ Bit(bit + 1)
TellingHigh ==
    pc = "r_high" =>
        /\ ~data
        /\ Len(dev.shift) = bit + 1 /\ dev.data = ~dev.out[1][bit + 1]
        /\ \/ dev.phase = "low" /\ dev.clk
           \/ dev.phase = "high" /\ ~dev.clk
TellingDone == pc = "r_done" => ~data /\ bit = Bits /\ Finished

TellingInStep(c) ==
    Synced /\ Telling =>
        /\ pc \notin Sending
        /\ ~c.turned => pc = "idle" /\ clk /\ dev.phase = "turn" /\ Quiet
        /\ c.turned /\ c.fresh =>
               /\ pc \in Receiving \ {"r_clk"} => Left(Len(inbox) - 1)
               /\ TellingIdle /\ TellingClk /\ TellingEoi /\ TellingAnswer
               /\ TellingLow /\ TellingHigh /\ TellingDone

InStep(c) == Standing(c) /\ Agreed(c) /\ Received(c) /\ HearingInStep /\ TellingInStep(c)

\* A result is the last step, and before it the loop that it asks about ends with EOI
\* or a full buffer.
Announced(s, n) == \E j \in 1 .. Len(s) - 1 : s[j].op = "receive" /\ s[j].room = n
Enough(n, ended, bytes) == n = 0 \/ ended \/ Len(bytes) >= n
Owed ==
    \A i \in 1 .. Len(script) :
        script[i].op = "result" =>
            /\ i = Len(script)
            /\ script[i].least \in {0} \cup Rooms
            /\ Enough(script[i].least, eoi, inbox) \/ Announced(script, script[i].least)

IInv == Types /\ (Faultless => Owed /\ \E c \in Contexts : InStep(c))

------------------------------------------------------------------------------
(* Scripts.                                                                *)

\* The constants.
LEMMA Bounds ==
    /\ Bits \in Nat \ {0} /\ Polls \in Nat \ {0}
    /\ Wide \in Nat /\ Wide > Polls + 1
    /\ {LISTEN, TALK, UNLISTEN, UNTALK, SECOND, Dollar} \subseteq Byte
    /\ LISTEN # TALK /\ {LISTEN, TALK} \cap {UNLISTEN, UNTALK} = {}
    /\ SECOND \notin {LISTEN, TALK, UNLISTEN, UNTALK}
    /\ Commands \subseteq Seq(Byte) \ {<<>>}
    /\ Message \in Seq(Byte) /\ Message # <<>>
    /\ Rooms \subseteq Nat \ {0}
BY IecAssumption

\* A context leads to a context.
LEMMA AfterIsContext ==
    ASSUME NEW c \in Contexts, NEW op \in Ops
    PROVE  After(c, op) \in Contexts
<1>1. CASE op.op = "atn"
    BY <1>1 DEF After, Ops, Moves, Contexts, Roles
<1>2. CASE op.op = "send"
    BY <1>2 DEF After, Ops, Moves, Contexts, Roles, Addressed
<1>3. CASE op.op \in {"check", "turn", "receive", "result"}
    BY <1>3 DEF After, Ops, Moves, Contexts, Roles
<1>. QED
    BY <1>1, <1>2, <1>3 DEF Ops, Moves

\* The empty script goes nowhere.
LEMMA PathEmpty ==
    ASSUME NEW c \in Contexts, NEW d \in Contexts
    PROVE  Path(<<>>, c, d) <=> c = d
<1>1. ASSUME Path(<<>>, c, d) PROVE c = d
    BY <1>1 DEF Path
<1>2. ASSUME c = d PROVE Path(<<>>, c, d)
    <2>. DEFINE f == [i \in 1 .. 1 |-> c]
    <2>1. f \in [1 .. Len(<<>>) + 1 -> Contexts] /\ f[1] = c /\ f[Len(<<>>) + 1] = d
        BY <1>2
    <2>. HIDE DEF f
    <2>. QED
        BY <2>1 DEF Path
<1>. QED
    BY <1>1, <1>2

\* The first step of a script is allowed, and the rest leads on from there.
LEMMA PathTail ==
    ASSUME NEW s \in Seq(Ops), s # <<>>, NEW c \in Contexts, NEW d \in Contexts,
           Path(s, c, d)
    PROVE  /\ Allowed(c, Head(s))
           /\ After(c, Head(s)) \in Contexts
           /\ Path(Tail(s), After(c, Head(s)), d)
<1>1. PICK f \in [1 .. Len(s) + 1 -> Contexts] :
          /\ f[1] = c /\ f[Len(s) + 1] = d
          /\ \A i \in 1 .. Len(s) : Allowed(f[i], s[i]) /\ f[i + 1] = After(f[i], s[i])
    BY DEF Path
<1>2. /\ Len(s) \in Nat \ {0} /\ Head(s) = s[1] /\ Head(s) \in Ops
      /\ Len(Tail(s)) = Len(s) - 1
      /\ \A i \in 1 .. Len(s) - 1 : Tail(s)[i] = s[i + 1]
    BY HeadTailProperties, EmptySeq, LenProperties
<1>. DEFINE g == [i \in 1 .. Len(s) |-> f[i + 1]]
<1>3. g \in [1 .. Len(Tail(s)) + 1 -> Contexts]
    BY <1>2
<1>4. g[1] = After(c, Head(s)) /\ g[Len(Tail(s)) + 1] = d /\ Allowed(c, Head(s))
    BY <1>1, <1>2
<1>5. \A i \in 1 .. Len(Tail(s)) : Allowed(g[i], Tail(s)[i]) /\ g[i + 1] = After(g[i], Tail(s)[i])
    BY <1>1, <1>2
<1>. HIDE DEF g
<1>. QED
    BY <1>2, <1>3, <1>4, <1>5, AfterIsContext DEF Path

\* Scripts one after the other lead where the second leads from the first.
LEMMA PathJoin ==
    ASSUME NEW s \in Seq(Ops), NEW t \in Seq(Ops),
           NEW c \in Contexts, NEW d \in Contexts, NEW e \in Contexts,
           Path(s, c, d), Path(t, d, e)
    PROVE  Path(s \o t, c, e)
<1>1. PICK f \in [1 .. Len(s) + 1 -> Contexts] :
          /\ f[1] = c /\ f[Len(s) + 1] = d
          /\ \A i \in 1 .. Len(s) : Allowed(f[i], s[i]) /\ f[i + 1] = After(f[i], s[i])
    BY DEF Path
<1>2. PICK g \in [1 .. Len(t) + 1 -> Contexts] :
          /\ g[1] = d /\ g[Len(t) + 1] = e
          /\ \A i \in 1 .. Len(t) : Allowed(g[i], t[i]) /\ g[i + 1] = After(g[i], t[i])
    BY DEF Path
<1>. DEFINE m == Len(s)
            n == Len(t)
            h == [i \in 1 .. m + n + 1 |-> IF i <= m THEN f[i] ELSE g[i - m]]
<1>3. /\ m \in Nat /\ n \in Nat /\ Len(s \o t) = m + n
      /\ \A i \in 1 .. m + n : (s \o t)[i] = IF i <= m THEN s[i] ELSE t[i - m]
    BY LenProperties, ConcatProperties
<1>. f \in [1 .. m + 1 -> Contexts] /\ g \in [1 .. n + 1 -> Contexts] /\ m \in Nat /\ n \in Nat
    BY <1>3
<1>. HIDE DEF m, n
<1>4. h \in [1 .. m + n + 1 -> Contexts]
    <2>1. ASSUME NEW i \in 1 .. m + n + 1 PROVE (IF i <= m THEN f[i] ELSE g[i - m]) \in Contexts
        <3>1. CASE i <= m
            BY <3>1
        <3>2. CASE ~(i <= m)
            <4>1. i - m \in 1 .. n + 1
                BY <3>2
            <4>. QED
                BY <4>1, <3>2
        <3>. QED
            BY <3>1, <3>2
    <2>. QED
        BY <2>1
<1>5. h[1] = c /\ h[m + n + 1] = e
    BY <1>1, <1>2, <1>3 DEF m, n
<1>6. ASSUME NEW i \in 1 .. m + n
      PROVE  Allowed(h[i], (s \o t)[i]) /\ h[i + 1] = After(h[i], (s \o t)[i])
    <2>1. CASE i < m
        <3>1. h[i] = f[i] /\ h[i + 1] = f[i + 1] /\ (s \o t)[i] = s[i]
            BY <1>3, <2>1
        <3>. QED
            BY <1>1, <2>1, <3>1 DEF m
    <2>2. CASE i = m
        <3>1. h[i] = f[i] /\ h[i + 1] = f[i + 1] /\ (s \o t)[i] = s[i]
            BY <1>1, <1>2, <1>3, <2>2 DEF m
        <3>. QED
            BY <1>1, <1>3, <2>2, <3>1 DEF m
    <2>3. CASE i > m
        <3>1. i - m \in 1 .. n /\ (i + 1) - m = (i - m) + 1
            BY <1>3, <2>3
        <3>2. h[i] = g[i - m] /\ h[i + 1] = g[(i - m) + 1] /\ (s \o t)[i] = t[i - m]
            BY <1>3, <2>3, <3>1
        <3>. QED
            BY <1>2, <3>1, <3>2 DEF n
    <2>. QED
        BY <1>3, <2>1, <2>2, <2>3
<1>. HIDE DEF h
<1>. QED
    BY <1>3, <1>4, <1>5, <1>6 DEF Path

\* Scripts without a result.
LEMMA MovesAreOps == Moves \subseteq Ops /\ Seq(Moves) \subseteq Seq(Ops)
<1>1. Moves \subseteq Ops
    BY DEF Ops
<1>. QED
    BY <1>1, SeqMonotonic

LEMMA MovesJoin ==
    ASSUME NEW s \in Seq(Moves), NEW t \in Seq(Moves),
           NEW c \in Contexts, NEW d \in Contexts, NEW e \in Contexts,
           Path(s, c, d), Path(t, d, e)
    PROVE  s \o t \in Seq(Moves) /\ Path(s \o t, c, e)
BY MovesAreOps, PathJoin, ConcatProperties

\* A script in which a message is received with room for n bytes,
Holds(s, n) == \E i \in 1 .. Len(s) : s[i].op = "receive" /\ s[i].room = n

\* and one of which it is a part.
LEMMA HoldsJoin ==
    ASSUME NEW s \in Seq(Moves), NEW t \in Seq(Moves), NEW n, Holds(s, n) \/ Holds(t, n)
    PROVE  Holds(s \o t, n)
<1>1. /\ Len(s) \in Nat /\ Len(t) \in Nat /\ Len(s \o t) = Len(s) + Len(t)
      /\ \A i \in 1 .. Len(s) + Len(t) :
             (s \o t)[i] = IF i <= Len(s) THEN s[i] ELSE t[i - Len(s)]
    BY LenProperties, ConcatProperties
<1>2. ASSUME NEW i \in 1 .. Len(s), s[i].op = "receive" /\ s[i].room = n
      PROVE  Holds(s \o t, n)
    <2>1. i \in 1 .. Len(s \o t) /\ (s \o t)[i] = s[i]
        BY <1>1
    <2>. QED
        BY <1>2, <2>1 DEF Holds
<1>3. ASSUME NEW i \in 1 .. Len(t), t[i].op = "receive" /\ t[i].room = n
      PROVE  Holds(s \o t, n)
    <2>. DEFINE k == Len(s) + i
    <2>1. k \in 1 .. Len(s) + Len(t) /\ ~(k <= Len(s)) /\ k - Len(s) = i
        BY <1>1
    <2>2. k \in 1 .. Len(s \o t) /\ (s \o t)[k] = t[i]
        BY <1>1, <2>1
    <2>. HIDE DEF k
    <2>. QED
        BY <1>3, <2>2 DEF Holds
<1>. QED
    BY <1>2, <1>3 DEF Holds

\* The dialogs that end with a result, without it.
Block(p, b, room) == Must(Command(p)) \o Must(Command(b)) \o Reading(room)
Directory(room) ==
    Must(Listen) \o Must(Secondary) \o <<Atn(FALSE)>> \o Must(<<Send(Dollar, TRUE)>>)
    \o Must(Unlisten) \o Reading(room) \o Listen \o Secondary \o <<Atn(FALSE)>> \o Unlisten

\* A script of one step.
LEMMA PathOne ==
    ASSUME NEW op \in Moves, NEW c \in Contexts, Allowed(c, op)
    PROVE  <<op>> \in Seq(Moves) /\ Path(<<op>>, c, After(c, op))
<1>. DEFINE f == [i \in 1 .. 2 |-> IF i = 1 THEN c ELSE After(c, op)]
            s == <<op>>
<1>1. s \in Seq(Moves) /\ Len(s) = 1 /\ s[1] = op
    OBVIOUS
<1>2. f \in [1 .. 2 -> Contexts] /\ f[1] = c /\ f[2] = After(c, op)
    BY AfterIsContext, MovesAreOps
<1>. HIDE DEF f, s
<1>3. Path(s, c, After(c, op))
    BY <1>1, <1>2 DEF Path
<1>. QED
    BY <1>1, <1>3 DEF s

\* A script of two steps,
LEMMA PathTwo ==
    ASSUME NEW a \in Moves, NEW b \in Moves, NEW c \in Contexts,
           Allowed(c, a), Allowed(After(c, a), b)
    PROVE  <<a, b>> \in Seq(Moves) /\ Path(<<a, b>>, c, After(After(c, a), b))
<1>. DEFINE d == After(c, a)
            e == After(d, b)
            f == [i \in 1 .. 3 |-> IF i = 1 THEN c ELSE IF i = 2 THEN d ELSE e]
            s == <<a, b>>
<1>1. s \in Seq(Moves) /\ Len(s) = 2 /\ s[1] = a /\ s[2] = b
    OBVIOUS
<1>2. d \in Contexts /\ e \in Contexts
    BY AfterIsContext, MovesAreOps
<1>3. f \in [1 .. 3 -> Contexts] /\ f[1] = c /\ f[2] = d /\ f[3] = e
    BY <1>2
<1>4. Allowed(d, b) /\ d = After(c, a) /\ e = After(d, b)
    OBVIOUS
<1>. HIDE DEF d, e, f, s
<1>5. Path(s, c, e)
    BY <1>1, <1>3, <1>4 DEF Path
<1>. QED
    BY <1>1, <1>5 DEF d, e, s

\* and one of three.
LEMMA PathThree ==
    ASSUME NEW a1 \in Moves, NEW a2 \in Moves, NEW a3 \in Moves, NEW c \in Contexts,
           Allowed(c, a1), Allowed(After(c, a1), a2), Allowed(After(After(c, a1), a2), a3)
    PROVE  /\ <<a1, a2, a3>> \in Seq(Moves)
           /\ Path(<<a1, a2, a3>>, c, After(After(After(c, a1), a2), a3))
<1>. DEFINE c2 == After(c, a1)
            c3 == After(c2, a2)
            c4 == After(c3, a3)
            f == [i \in 1 .. 4 |-> IF i = 1 THEN c ELSE IF i = 2 THEN c2
                                   ELSE IF i = 3 THEN c3 ELSE c4]
            s == <<a1, a2, a3>>
<1>1. s \in Seq(Moves) /\ Len(s) = 3 /\ s[1] = a1 /\ s[2] = a2 /\ s[3] = a3
    OBVIOUS
<1>2. c2 \in Contexts /\ c3 \in Contexts /\ c4 \in Contexts
    BY AfterIsContext, MovesAreOps
<1>3. f \in [1 .. 4 -> Contexts] /\ f[1] = c /\ f[2] = c2 /\ f[3] = c3 /\ f[4] = c4
    BY <1>2
<1>4. /\ Allowed(c2, a2) /\ Allowed(c3, a3)
      /\ c2 = After(c, a1) /\ c3 = After(c2, a2) /\ c4 = After(c3, a3)
    OBVIOUS
<1>. HIDE DEF c2, c3, c4, f, s
<1>5. Path(s, c, c4)
    BY <1>1, <1>3, <1>4 DEF Path
<1>. QED
    BY <1>1, <1>5 DEF c2, c3, c4, s

\* The context with these parts.
Place(a, r, f, t) == [atn |-> a, role |-> r, fresh |-> f, turned |-> t]

\* It is a context.
LEMMA PlaceIsContext ==
    ASSUME NEW a \in BOOLEAN, NEW r \in Roles, NEW f \in BOOLEAN, NEW t \in BOOLEAN
    PROVE  Place(a, r, f, t) \in Contexts
BY DEF Place, Contexts

\* The steps of the dialogs, and what each does to a context: ATN pulled or released,
LEMMA AtnSteps ==
    ASSUME NEW a \in BOOLEAN, NEW r \in Roles, NEW f \in BOOLEAN, NEW t \in BOOLEAN,
           NEW on \in BOOLEAN
    PROVE  /\ Atn(on) \in Moves
           /\ Allowed(Place(a, r, f, t), Atn(on)) <=> on # a /\ (r = "talker" => on = ~f)
           /\ After(Place(a, r, f, t), Atn(on)) = Place(on, r, f, FALSE)
BY DEF Place, Allowed, After, Atn, Moves

\* a byte for a listener,
LEMMA DataSteps ==
    ASSUME NEW f \in BOOLEAN, NEW t \in BOOLEAN, NEW byte \in Byte, NEW last \in BOOLEAN
    PROVE  /\ Send(byte, last) \in Moves
           /\ Allowed(Place(FALSE, "listener", f, t), Send(byte, last))
           /\ After(Place(FALSE, "listener", f, t), Send(byte, last)) = Place(FALSE, "listener", f, t)
BY DEF Place, Allowed, After, Send, Moves

\* the clock line given to a talker,
LEMMA TurnSteps ==
    ASSUME NEW a \in BOOLEAN, NEW r \in Roles, NEW f \in BOOLEAN, NEW t \in BOOLEAN
    PROVE  /\ Turn \in Moves
           /\ Allowed(Place(a, r, f, t), Turn) <=> ~a /\ r = "talker" /\ ~t
           /\ After(Place(a, r, f, t), Turn) = Place(a, r, f, TRUE)
BY DEF Place, Allowed, After, Turn, Moves

\* its bytes received,
LEMMA ReceiveSteps ==
    ASSUME NEW a \in BOOLEAN, NEW r \in Roles, NEW f \in BOOLEAN, NEW t \in BOOLEAN,
           NEW room \in Nat \ {0}
    PROVE  /\ Receive(room) \in Moves
           /\ Allowed(Place(a, r, f, t), Receive(room)) <=> t /\ f
           /\ After(Place(a, r, f, t), Receive(room)) = Place(a, r, FALSE, t)
BY DEF Place, Allowed, After, Receive, Moves

\* and a check, which is always allowed and leads nowhere.
LEMMA CheckSteps ==
    ASSUME NEW c \in Contexts
    PROVE  Check \in Moves /\ Allowed(c, Check) /\ After(c, Check) = c
BY DEF Allowed, After, Check, Moves

\* A check at the end of a script does not change where it leads.
LEMMA MustPath ==
    ASSUME NEW s \in Seq(Moves), NEW c \in Contexts, NEW d \in Contexts, Path(s, c, d)
    PROVE  Must(s) \in Seq(Moves) /\ Path(Must(s), c, d)
<1>1. Check \in Moves
    BY CheckSteps
<1>2. Must(s) = s \o <<Check>> /\ Must(s) \in Seq(Moves)
    BY <1>1, AppendIsConcat, AppendProperties DEF Must
<1>3. <<Check>> \in Seq(Moves) /\ Path(<<Check>>, d, d)
    BY CheckSteps, PathOne
<1>. HIDE DEF Check
<1>4. s \o <<Check>> \in Seq(Moves) /\ Path(s \o <<Check>>, c, d)
    BY <1>3, MovesJoin
<1>. QED
    BY <1>2, <1>4

\* The beginning of a dialog tells the drive to listen
LEMMA ListenPath ==
    ASSUME NEW f \in BOOLEAN
    PROVE  /\ Listen \in Seq(Moves)
           /\ Path(Listen, Place(FALSE, "none", f, FALSE), Place(TRUE, "listener", f, FALSE))
<1>. DEFINE c == Place(FALSE, "none", f, FALSE)
            d == Place(TRUE, "none", f, FALSE)
<1>. "none" \in Roles
    BY DEF Roles
<1>1. Addressed(LISTEN, "none") = "listener" /\ LISTEN \in Byte /\ LISTEN # TALK
    BY Bounds DEF Addressed
<1>2. c \in Contexts
    BY PlaceIsContext
<1>3. Atn(TRUE) \in Moves /\ Allowed(c, Atn(TRUE)) /\ After(c, Atn(TRUE)) = d
    BY AtnSteps
<1>4. /\ Send(LISTEN, FALSE) \in Moves /\ Allowed(d, Send(LISTEN, FALSE))
      /\ After(d, Send(LISTEN, FALSE)) = Place(TRUE, "listener", f, FALSE)
    BY <1>1 DEF Place, Allowed, After, Send, Moves
<1>. HIDE DEF c, d
<1>5. /\ Listen \in Seq(Moves)
      /\ Path(Listen, c, After(After(c, Atn(TRUE)), Send(LISTEN, FALSE)))
    BY <1>2, <1>3, <1>4, PathTwo DEF Listen
<1>. QED
    BY <1>3, <1>4, <1>5 DEF c

\* or to talk,
LEMMA TalkPath ==
    /\ Talk \in Seq(Moves)
    /\ Path(Talk, Place(FALSE, "none", TRUE, FALSE), Place(TRUE, "talker", TRUE, FALSE))
<1>. DEFINE c == Place(FALSE, "none", TRUE, FALSE)
            d == Place(TRUE, "none", TRUE, FALSE)
<1>. "none" \in Roles
    BY DEF Roles
<1>1. Addressed(TALK, "none") = "talker" /\ TALK \in Byte
    BY Bounds DEF Addressed
<1>2. c \in Contexts
    BY PlaceIsContext
<1>3. Atn(TRUE) \in Moves /\ Allowed(c, Atn(TRUE)) /\ After(c, Atn(TRUE)) = d
    BY AtnSteps
<1>4. /\ Send(TALK, FALSE) \in Moves /\ Allowed(d, Send(TALK, FALSE))
      /\ After(d, Send(TALK, FALSE)) = Place(TRUE, "talker", TRUE, FALSE)
    BY <1>1 DEF Place, Allowed, After, Send, Moves
<1>. HIDE DEF c, d
<1>5. /\ Talk \in Seq(Moves)
      /\ Path(Talk, c, After(After(c, Atn(TRUE)), Send(TALK, FALSE)))
    BY <1>2, <1>3, <1>4, PathTwo DEF Talk
<1>. QED
    BY <1>3, <1>4, <1>5 DEF c

\* the secondary address changes nothing,
LEMMA SecondaryPath ==
    ASSUME NEW r \in Roles, NEW f \in BOOLEAN
    PROVE  /\ Secondary \in Seq(Moves)
           /\ Path(Secondary, Place(TRUE, r, f, FALSE), Place(TRUE, r, f, FALSE))
<1>. DEFINE c == Place(TRUE, r, f, FALSE)
<1>1. Addressed(SECOND, r) = r /\ SECOND \in Byte /\ SECOND # TALK
    BY Bounds DEF Addressed
<1>2. c \in Contexts
    BY PlaceIsContext
<1>3. Send(SECOND, FALSE) \in Moves /\ Allowed(c, Send(SECOND, FALSE)) /\ After(c, Send(SECOND, FALSE)) = c
    BY <1>1 DEF Place, Allowed, After, Send, Moves
<1>. HIDE DEF c
<1>4. Secondary \in Seq(Moves) /\ Path(Secondary, c, c)
    BY <1>2, <1>3, PathOne DEF Secondary
<1>. QED
    BY <1>4 DEF c

\* and its end releases the drive from listening
LEMMA UnlistenPath ==
    ASSUME NEW f \in BOOLEAN
    PROVE  /\ Unlisten \in Seq(Moves)
           /\ Path(Unlisten, Place(FALSE, "listener", f, FALSE), Place(FALSE, "none", f, FALSE))
<1>. DEFINE c == Place(FALSE, "listener", f, FALSE)
            d == Place(TRUE, "listener", f, FALSE)
            e == Place(TRUE, "none", f, FALSE)
<1>. "none" \in Roles /\ "listener" \in Roles
    BY DEF Roles
<1>1. Addressed(UNLISTEN, "listener") = "none" /\ UNLISTEN \in Byte /\ UNLISTEN # TALK
    BY Bounds DEF Addressed
<1>2. c \in Contexts
    BY PlaceIsContext
<1>3. Atn(TRUE) \in Moves /\ Allowed(c, Atn(TRUE)) /\ After(c, Atn(TRUE)) = d
    BY DEF Place, Allowed, After, Atn, Moves
<1>4. /\ Send(UNLISTEN, FALSE) \in Moves /\ Allowed(d, Send(UNLISTEN, FALSE))
      /\ After(d, Send(UNLISTEN, FALSE)) = e
    BY <1>1 DEF Place, Allowed, After, Send, Moves
<1>5. /\ Atn(FALSE) \in Moves /\ Allowed(e, Atn(FALSE))
      /\ After(e, Atn(FALSE)) = Place(FALSE, "none", f, FALSE)
    BY DEF Place, Allowed, After, Atn, Moves
<1>. HIDE DEF c, d, e
<1>6. /\ Unlisten \in Seq(Moves)
      /\ Path(Unlisten, c, After(After(After(c, Atn(TRUE)), Send(UNLISTEN, FALSE)), Atn(FALSE)))
    BY <1>2, <1>3, <1>4, <1>5, PathThree DEF Unlisten
<1>. QED
    BY <1>3, <1>4, <1>5, <1>6 DEF c

\* or from talking.
LEMMA UntalkPath ==
    /\ Untalk \in Seq(Moves)
    /\ Path(Untalk, Place(FALSE, "talker", FALSE, TRUE), Place(FALSE, "none", FALSE, FALSE))
<1>. DEFINE c == Place(FALSE, "talker", FALSE, TRUE)
            d == Place(TRUE, "talker", FALSE, FALSE)
            e == Place(TRUE, "none", FALSE, FALSE)
<1>. "none" \in Roles /\ "talker" \in Roles
    BY DEF Roles
<1>1. Addressed(UNTALK, "talker") = "none" /\ UNTALK \in Byte /\ UNTALK # TALK
    BY Bounds DEF Addressed
<1>2. c \in Contexts
    BY PlaceIsContext
<1>3. Atn(TRUE) \in Moves /\ Allowed(c, Atn(TRUE)) /\ After(c, Atn(TRUE)) = d
    BY AtnSteps
<1>4. /\ Send(UNTALK, FALSE) \in Moves /\ Allowed(d, Send(UNTALK, FALSE))
      /\ After(d, Send(UNTALK, FALSE)) = e
    BY <1>1 DEF Place, Allowed, After, Send, Moves
<1>5. /\ Atn(FALSE) \in Moves /\ Allowed(e, Atn(FALSE))
      /\ After(e, Atn(FALSE)) = Place(FALSE, "none", FALSE, FALSE)
    BY AtnSteps
<1>. HIDE DEF c, d, e
<1>6. /\ Untalk \in Seq(Moves)
      /\ Path(Untalk, c, After(After(After(c, Atn(TRUE)), Send(UNTALK, FALSE)), Atn(FALSE)))
    BY <1>2, <1>3, <1>4, <1>5, PathThree DEF Untalk
<1>. QED
    BY <1>3, <1>4, <1>5, <1>6 DEF c

\* A script whose steps all leave a context as it is.
LEMMA PathStays ==
    ASSUME NEW s \in Seq(Ops), NEW c \in Contexts,
           \A i \in 1 .. Len(s) : Allowed(c, s[i]) /\ After(c, s[i]) = c
    PROVE  Path(s, c, c)
<1>. DEFINE f == [i \in 1 .. Len(s) + 1 |-> c]
<1>1. f \in [1 .. Len(s) + 1 -> Contexts] /\ \A i \in 1 .. Len(s) + 1 : f[i] = c
    OBVIOUS
<1>2. Len(s) \in Nat
    BY LenProperties
<1>. HIDE DEF f
<1>. QED
    BY <1>1, <1>2 DEF Path

\* The bytes of a command are sent to a listener.
LEMMA BytesPath ==
    ASSUME NEW text \in Seq(Byte), NEW f \in BOOLEAN
    PROVE  /\ Bytes(text) \in Seq(Moves)
           /\ Path(Bytes(text), Place(FALSE, "listener", f, FALSE),
                                Place(FALSE, "listener", f, FALSE))
<1>. DEFINE c == Place(FALSE, "listener", f, FALSE)
            n == Len(text)
            s == Bytes(text)
<1>. n \in Nat
    BY LenProperties
<1>1. c \in Contexts
    BY PlaceIsContext DEF Roles
<1>2. ASSUME NEW i \in 1 .. 2 * n
      PROVE  s[i] \in Moves /\ Allowed(c, s[i]) /\ After(c, s[i]) = c
    <2>1. CASE i % 2 = 0
        <3>1. s[i] = Check
            BY <2>1 DEF Bytes
        <3>. QED
            BY <1>1, <3>1, CheckSteps
    <2>2. CASE i % 2 # 0
        <3>1. (i + 1) \div 2 \in 1 .. n
            BY <2>2
        <3>2. text[(i + 1) \div 2] \in Byte
            BY <3>1, ElementOfSeq
        <3>3. s[i] = Send(text[(i + 1) \div 2], i = 2 * n - 1)
            BY <2>2 DEF Bytes
        <3>. QED
            BY <3>2, <3>3, DataSteps
    <2>. QED
        BY <2>1, <2>2
<1>3. s \in Seq(Moves) /\ Len(s) = 2 * n
    <2>. DEFINE e(i) == IF i % 2 = 0 THEN Check ELSE Send(text[(i + 1) \div 2], i = 2 * n - 1)
    <2>1. s = [i \in 1 .. 2 * n |-> e(i)]
        BY DEF Bytes
    <2>2. \A i \in 1 .. 2 * n : s[i] = e(i)
        BY <2>1
    <2>3. \A i \in 1 .. 2 * n : e(i) \in Moves
        BY <1>2, <2>2
    <2>. HIDE DEF e, s
    <2>. QED
        BY <2>1, <2>3
<1>. HIDE DEF c, s
<1>4. Path(s, c, c)
    BY <1>1, <1>2, <1>3, MovesAreOps, PathStays
<1>. QED
    BY <1>3, <1>4 DEF c, s

\* ATN is released to let the listener take data, or the talker who has not talked.
LEMMA ReleasePath ==
    ASSUME NEW r \in Roles, NEW f \in BOOLEAN, r # "talker" \/ f
    PROVE  /\ <<Atn(FALSE)>> \in Seq(Moves)
           /\ Path(<<Atn(FALSE)>>, Place(TRUE, r, f, FALSE), Place(FALSE, r, f, FALSE))
<1>1. /\ Atn(FALSE) \in Moves /\ Allowed(Place(TRUE, r, f, FALSE), Atn(FALSE))
      /\ After(Place(TRUE, r, f, FALSE), Atn(FALSE)) = Place(FALSE, r, f, FALSE)
    BY AtnSteps
<1>2. Place(TRUE, r, f, FALSE) \in Contexts
    BY PlaceIsContext
<1>3. /\ <<Atn(FALSE)>> \in Seq(Moves)
      /\ Path(<<Atn(FALSE)>>, Place(TRUE, r, f, FALSE), After(Place(TRUE, r, f, FALSE), Atn(FALSE)))
    BY <1>1, <1>2, PathOne
<1>. QED
    BY <1>1, <1>3

\* The clock line is given to the talker, and its message is received.
LEMMA ReceivePath ==
    ASSUME NEW room \in Nat \ {0}
    PROVE  /\ <<Atn(FALSE), Turn, Receive(room)>> \in Seq(Moves)
           /\ Path(<<Atn(FALSE), Turn, Receive(room)>>, Place(TRUE, "talker", TRUE, FALSE),
                   Place(FALSE, "talker", FALSE, TRUE))
<1>. DEFINE c == Place(TRUE, "talker", TRUE, FALSE)
            d == Place(FALSE, "talker", TRUE, FALSE)
            e == Place(FALSE, "talker", TRUE, TRUE)
<1>. "talker" \in Roles
    BY DEF Roles
<1>1. c \in Contexts
    BY PlaceIsContext
<1>2. Atn(FALSE) \in Moves /\ Allowed(c, Atn(FALSE)) /\ After(c, Atn(FALSE)) = d
    BY AtnSteps
<1>3. Turn \in Moves /\ Allowed(d, Turn) /\ After(d, Turn) = e
    BY TurnSteps
<1>4. /\ Receive(room) \in Moves /\ Allowed(e, Receive(room))
      /\ After(e, Receive(room)) = Place(FALSE, "talker", FALSE, TRUE)
    BY ReceiveSteps
<1>. HIDE DEF c, d, e
<1>5. /\ <<Atn(FALSE), Turn, Receive(room)>> \in Seq(Moves)
      /\ Path(<<Atn(FALSE), Turn, Receive(room)>>, c,
              After(After(After(c, Atn(FALSE)), Turn), Receive(room)))
    BY <1>1, <1>2, <1>3, <1>4, PathThree
<1>. QED
    BY <1>2, <1>3, <1>4, <1>5 DEF c

\* A command leaves the drive as it was addressed before: not at all.
LEMMA CommandPath ==
    ASSUME NEW text \in Seq(Byte), NEW f \in BOOLEAN
    PROVE  /\ Command(text) \in Seq(Moves)
           /\ Path(Command(text), Place(FALSE, "none", f, FALSE), Place(FALSE, "none", f, FALSE))
<1>. DEFINE c == Place(FALSE, "none", f, FALSE)
            d == Place(TRUE, "listener", f, FALSE)
            e == Place(FALSE, "listener", f, FALSE)
            s1 == Must(Listen)
            s2 == Must(Secondary)
            s3 == <<Atn(FALSE)>>
            s4 == Bytes(text)
<1>. "none" \in Roles /\ "listener" \in Roles
    BY DEF Roles
<1>1. c \in Contexts /\ d \in Contexts /\ e \in Contexts
    BY PlaceIsContext
<1>2. s1 \in Seq(Moves) /\ Path(s1, c, d)
    BY <1>1, ListenPath, MustPath
<1>3. s2 \in Seq(Moves) /\ Path(s2, d, d)
    BY <1>1, SecondaryPath, MustPath
<1>4. s3 \in Seq(Moves) /\ Path(s3, d, e)
    BY ReleasePath
<1>5. s4 \in Seq(Moves) /\ Path(s4, e, e)
    BY BytesPath
<1>6. Unlisten \in Seq(Moves) /\ Path(Unlisten, e, c)
    BY UnlistenPath
<1>7. Command(text) = s1 \o s2 \o s3 \o s4 \o Unlisten
    BY DEF Command
<1>. HIDE DEF c, d, e, s1, s2, s3, s4
<1>8. s1 \o s2 \in Seq(Moves) /\ Path(s1 \o s2, c, d)
    BY <1>1, <1>2, <1>3, MovesJoin
<1>9. s1 \o s2 \o s3 \in Seq(Moves) /\ Path(s1 \o s2 \o s3, c, e)
    BY <1>1, <1>4, <1>8, MovesJoin
<1>10. s1 \o s2 \o s3 \o s4 \in Seq(Moves) /\ Path(s1 \o s2 \o s3 \o s4, c, e)
    BY <1>1, <1>5, <1>9, MovesJoin
<1>11. Command(text) \in Seq(Moves) /\ Path(Command(text), c, c)
    BY <1>1, <1>6, <1>7, <1>10, MovesJoin
<1>. QED
    BY <1>11 DEF c

\* Reading what the drive has to say does too.
LEMMA ReadingPath ==
    ASSUME NEW room \in Nat \ {0}
    PROVE  /\ Reading(room) \in Seq(Moves) /\ Holds(Reading(room), room)
           /\ Path(Reading(room), Place(FALSE, "none", TRUE, FALSE), Place(FALSE, "none", FALSE, FALSE))
<1>. DEFINE c == Place(FALSE, "none", TRUE, FALSE)
            d == Place(TRUE, "talker", TRUE, FALSE)
            e == Place(FALSE, "talker", FALSE, TRUE)
            g == Place(FALSE, "none", FALSE, FALSE)
            s1 == Must(Talk)
            s2 == Must(Secondary)
            s3 == <<Atn(FALSE), Turn, Receive(room)>>
<1>. "none" \in Roles /\ "talker" \in Roles
    BY DEF Roles
<1>1. c \in Contexts /\ d \in Contexts /\ e \in Contexts /\ g \in Contexts
    BY PlaceIsContext
<1>2. s1 \in Seq(Moves) /\ Path(s1, c, d)
    BY <1>1, TalkPath, MustPath
<1>3. s2 \in Seq(Moves) /\ Path(s2, d, d)
    BY <1>1, SecondaryPath, MustPath
<1>4. s3 \in Seq(Moves) /\ Path(s3, d, e) /\ Holds(s3, room)
    <2>1. Len(s3) = 3 /\ s3[3].op = "receive" /\ s3[3].room = room
        BY DEF Receive
    <2>2. Holds(s3, room)
        BY <2>1 DEF Holds
    <2>. QED
        BY <2>2, ReceivePath
<1>5. Untalk \in Seq(Moves) /\ Path(Untalk, e, g)
    BY UntalkPath
<1>6. Reading(room) = s1 \o s2 \o s3 \o Untalk
    BY DEF Reading
<1>. HIDE DEF c, d, e, g, s1, s2, s3
<1>7. s1 \o s2 \in Seq(Moves) /\ Path(s1 \o s2, c, d)
    BY <1>1, <1>2, <1>3, MovesJoin
<1>. DEFINE t2 == s1 \o s2
            t3 == t2 \o s3
            t4 == t3 \o Untalk
<1>. HIDE DEF t2
<1>8. t3 \in Seq(Moves) /\ Path(t3, c, e)
    BY <1>1, <1>4, <1>7, MovesJoin DEF t2
<1>9. Holds(t3, room)
    BY <1>4, <1>7, HoldsJoin DEF t2
<1>. HIDE DEF t3
<1>10. t4 \in Seq(Moves) /\ Path(t4, c, g)
    BY <1>1, <1>5, <1>8, MovesJoin
<1>11. Holds(t4, room)
    BY <1>5, <1>8, <1>9, HoldsJoin
<1>. QED
    BY <1>6, <1>10, <1>11 DEF c, g, t2, t3

\* So do two commands and reading,
LEMMA BlockPath ==
    ASSUME NEW p \in Seq(Byte), NEW b \in Seq(Byte), NEW room \in Nat \ {0}
    PROVE  /\ Block(p, b, room) \in Seq(Moves) /\ Holds(Block(p, b, room), room)
           /\ Path(Block(p, b, room), Place(FALSE, "none", TRUE, FALSE),
                   Place(FALSE, "none", FALSE, FALSE))
<1>. DEFINE c == Place(FALSE, "none", TRUE, FALSE)
            g == Place(FALSE, "none", FALSE, FALSE)
            s1 == Must(Command(p))
            s2 == Must(Command(b))
            s3 == Reading(room)
<1>1. c \in Contexts /\ g \in Contexts
    BY PlaceIsContext DEF Roles
<1>2. s1 \in Seq(Moves) /\ Path(s1, c, c)
    BY <1>1, CommandPath, MustPath
<1>3. s2 \in Seq(Moves) /\ Path(s2, c, c)
    BY <1>1, CommandPath, MustPath
<1>4. s3 \in Seq(Moves) /\ Path(s3, c, g) /\ Holds(s3, room)
    BY ReadingPath
<1>5. Block(p, b, room) = s1 \o s2 \o s3
    BY DEF Block
<1>. HIDE DEF c, g, s1, s2, s3
<1>6. s1 \o s2 \in Seq(Moves) /\ Path(s1 \o s2, c, c)
    BY <1>1, <1>2, <1>3, MovesJoin
<1>. DEFINE t == s1 \o s2
<1>. HIDE DEF t
<1>7. t \o s3 \in Seq(Moves) /\ Path(t \o s3, c, g)
    BY <1>1, <1>4, <1>6, MovesJoin DEF t
<1>8. Holds(t \o s3, room)
    BY <1>4, <1>6, HoldsJoin DEF t
<1>. QED
    BY <1>5, <1>7, <1>8 DEF c, g, t

\* and the name of the directory, reading and closing it.
LEMMA DirectoryPath ==
    ASSUME NEW room \in Nat \ {0}
    PROVE  /\ Directory(room) \in Seq(Moves)
           /\ Path(Directory(room), Place(FALSE, "none", TRUE, FALSE),
                   Place(FALSE, "none", FALSE, FALSE))
<1>. DEFINE c == Place(FALSE, "none", TRUE, FALSE)
            d == Place(TRUE, "listener", TRUE, FALSE)
            e == Place(FALSE, "listener", TRUE, FALSE)
            g == Place(FALSE, "none", FALSE, FALSE)
            h == Place(TRUE, "listener", FALSE, FALSE)
            k == Place(FALSE, "listener", FALSE, FALSE)
            s1 == Must(Listen)
            s2 == Must(Secondary)
            s3 == <<Atn(FALSE)>>
            one == <<Send(Dollar, TRUE)>>
            s4 == Must(one)
            s5 == Must(Unlisten)
            s6 == Reading(room)
<1>. "none" \in Roles /\ "listener" \in Roles
    BY DEF Roles
<1>1. /\ c \in Contexts /\ d \in Contexts /\ e \in Contexts
      /\ g \in Contexts /\ h \in Contexts /\ k \in Contexts
    BY PlaceIsContext
<1>2. s1 \in Seq(Moves) /\ Path(s1, c, d)
    BY <1>1, ListenPath, MustPath
<1>3. s2 \in Seq(Moves) /\ Path(s2, d, d)
    BY <1>1, SecondaryPath, MustPath
<1>4. s3 \in Seq(Moves) /\ Path(s3, d, e) /\ Path(s3, h, k)
    BY ReleasePath
<1>5. one \in Seq(Moves) /\ Path(one, e, e)
    <2>1. Dollar \in Byte
        BY Bounds
    <2>2. Send(Dollar, TRUE) \in Moves /\ Allowed(e, Send(Dollar, TRUE)) /\ After(e, Send(Dollar, TRUE)) = e
        BY <2>1, DataSteps
    <2>. HIDE DEF e
    <2>3. one \in Seq(Moves) /\ Path(one, e, After(e, Send(Dollar, TRUE)))
        BY <1>1, <2>2, PathOne
    <2>. QED
        BY <2>2, <2>3
<1>6. s4 \in Seq(Moves) /\ Path(s4, e, e)
    <2>. HIDE DEF one, e
    <2>. QED
        BY <1>1, <1>5, MustPath
<1>7. s5 \in Seq(Moves) /\ Path(s5, e, c)
    BY <1>1, UnlistenPath, MustPath
<1>8. s6 \in Seq(Moves) /\ Path(s6, c, g)
    BY ReadingPath
<1>9. Listen \in Seq(Moves) /\ Path(Listen, g, h)
    BY ListenPath
<1>10. Secondary \in Seq(Moves) /\ Path(Secondary, h, h)
    BY SecondaryPath
<1>11. Unlisten \in Seq(Moves) /\ Path(Unlisten, k, g)
    BY UnlistenPath
<1>12. Directory(room)
           = s1 \o s2 \o s3 \o s4 \o s5 \o s6 \o Listen \o Secondary \o s3 \o Unlisten
    BY DEF Directory
<1>. HIDE DEF c, d, e, g, h, k, one, s1, s2, s3, s4, s5, s6
<1>13. s1 \o s2 \in Seq(Moves) /\ Path(s1 \o s2, c, d)
    BY <1>1, <1>2, <1>3, MovesJoin
<1>. DEFINE t3 == s1 \o s2 \o s3
            t4 == t3 \o s4
            t5 == t4 \o s5
            t6 == t5 \o s6
            t7 == t6 \o Listen
            t8 == t7 \o Secondary
            t9 == t8 \o s3
<1>14. t3 \in Seq(Moves) /\ Path(t3, c, e)
    BY <1>1, <1>4, <1>13, MovesJoin
<1>. HIDE DEF t3
<1>15. t4 \in Seq(Moves) /\ Path(t4, c, e)
    BY <1>1, <1>6, <1>14, MovesJoin
<1>. HIDE DEF t4
<1>16. t5 \in Seq(Moves) /\ Path(t5, c, c)
    BY <1>1, <1>7, <1>15, MovesJoin
<1>. HIDE DEF t5
<1>17. t6 \in Seq(Moves) /\ Path(t6, c, g)
    BY <1>1, <1>8, <1>16, MovesJoin
<1>. HIDE DEF t6
<1>18. t7 \in Seq(Moves) /\ Path(t7, c, h)
    BY <1>1, <1>9, <1>17, MovesJoin
<1>. HIDE DEF t7
<1>19. t8 \in Seq(Moves) /\ Path(t8, c, h)
    BY <1>1, <1>10, <1>18, MovesJoin
<1>. HIDE DEF t8
<1>20. t9 \in Seq(Moves) /\ Path(t9, c, k)
    BY <1>1, <1>4, <1>19, MovesJoin
<1>21. Directory(room) = t9 \o Unlisten
    BY <1>12 DEF t3, t4, t5, t6, t7, t8
<1>. HIDE DEF t9
<1>22. Directory(room) \in Seq(Moves) /\ Path(Directory(room), c, g)
    BY <1>1, <1>11, <1>20, <1>21, MovesJoin
<1>. QED
    BY <1>22 DEF c, g

\* A result at the end of a script does not change where it leads, and it is owed there.
IsOwed(s) ==
    \A i \in 1 .. Len(s) :
        s[i].op = "result" =>
            /\ i = Len(s)
            /\ s[i].least \in {0} \cup Rooms
            /\ s[i].least = 0 \/ Announced(s, s[i].least)
LEMMA ResultPath ==
    ASSUME NEW s \in Seq(Moves), NEW n \in {0} \cup Rooms, n = 0 \/ Holds(s, n),
           NEW c \in Contexts, NEW d \in Contexts, Path(s, c, d)
    PROVE  /\ s \o <<Result(n)>> \in Seq(Ops)
           /\ Path(s \o <<Result(n)>>, c, d)
           /\ IsOwed(s \o <<Result(n)>>)
<1>. DEFINE last == <<Result(n)>>
            t == s \o last
<1>1. Result(n) \in Ops /\ Allowed(d, Result(n)) /\ After(d, Result(n)) = d
    <2>1. n \in Nat
        BY Bounds
    <2>. QED
        BY <2>1 DEF Result, Ops, Allowed, After
<1>2. last \in Seq(Ops) /\ Len(last) = 1 /\ last[1] = Result(n)
    BY <1>1
<1>3. s \in Seq(Ops) /\ Len(s) \in Nat
    BY MovesAreOps, LenProperties
<1>. HIDE DEF last
<1>4. Path(last, d, d)
    BY <1>1, <1>2, PathStays
<1>5. Path(t, c, d) /\ t \in Seq(Ops)
    BY <1>2, <1>3, <1>4, PathJoin, ConcatProperties
<1>6. /\ Len(t) = Len(s) + 1
      /\ \A i \in 1 .. Len(s) : t[i] = s[i]
      /\ t[Len(s) + 1] = Result(n)
    <2>1. /\ Len(t) = Len(s) + 1
          /\ \A i \in 1 .. Len(s) + 1 :
                 t[i] = IF i <= Len(s) THEN s[i] ELSE last[i - Len(s)]
        <3>1. /\ Len(s \o last) = Len(s) + Len(last)
              /\ \A i \in 1 .. Len(s) + Len(last) :
                     (s \o last)[i] = IF i <= Len(s) THEN s[i] ELSE last[i - Len(s)]
            BY <1>2, <1>3, ConcatProperties
        <3>2. Len(last) = 1
            BY <1>2
        <3>. QED
            BY <3>1, <3>2 DEF t
    <2>2. Len(s) + 1 \in 1 .. Len(s) + 1 /\ ~(Len(s) + 1 <= Len(s))
          /\ (Len(s) + 1) - Len(s) = 1
        BY <1>3
    <2>. HIDE DEF t
    <2>3. t[Len(s) + 1] = last[1]
        BY <2>1, <2>2
    <2>4. \A i \in 1 .. Len(s) : i \in 1 .. Len(s) + 1 /\ i <= Len(s)
        BY <1>3
    <2>. QED
        BY <1>2, <2>1, <2>3, <2>4
<1>7. \A i \in 1 .. Len(s) : s[i].op # "result"
    <2>1. \A i \in 1 .. Len(s) : s[i] \in Moves
        BY ElementOfSeq
    <2>. QED
        BY <2>1 DEF Moves
<1>. HIDE DEF t
<1>8. IsOwed(t)
    <2>. SUFFICES ASSUME NEW i \in 1 .. Len(t), t[i].op = "result"
                  PROVE  /\ i = Len(t) /\ t[i].least \in {0} \cup Rooms
                         /\ t[i].least = 0 \/ Announced(t, t[i].least)
        BY DEF IsOwed
    <2>1. i = Len(s) + 1
        BY <1>3, <1>6, <1>7
    <2>2. t[i].least = n
        BY <1>6, <2>1 DEF Result
    <2>3. ASSUME Holds(s, n) PROVE Announced(t, n)
        <3>1. Len(t) - 1 = Len(s)
            BY <1>3, <1>6
        <3>. QED
            BY <1>6, <2>3, <3>1 DEF Holds, Announced
    <2>. QED
        BY <1>6, <2>1, <2>2, <2>3
<1>. QED
    BY <1>5, <1>8 DEF t, last

\* Every dialog is a script that ends with the bus left to others.
LEMMA DialogsLead ==
    ASSUME NEW s \in Dialogs
    PROVE  s \in Seq(Ops) /\ Start \in Contexts /\ Leads(s, Start) /\ IsOwed(s)
<1>. DEFINE g(f) == Place(FALSE, "none", f, FALSE)
            Good == s \in Seq(Ops) /\ IsOwed(s) /\ \E f \in BOOLEAN : Path(s, g(TRUE), g(f))
<1>1. Start = g(TRUE) /\ \A f \in BOOLEAN : g(f) \in Contexts /\ Ended(g(f))
    <2>1. \A f \in BOOLEAN : g(f) \in Contexts
        BY PlaceIsContext DEF Roles
    <2>. QED
        BY <2>1 DEF Start, Place, Ended
<1>2. /\ Commands \subseteq Seq(Byte)
      /\ Rooms \subseteq Nat \ {0}
    BY Bounds
<1>3. ASSUME NEW c \in Commands, s = Command(c) PROVE Good
    <2>1. s \in Seq(Moves) /\ Path(s, g(TRUE), g(TRUE))
        BY <1>2, <1>3, CommandPath
    <2>2. \A i \in 1 .. Len(s) : s[i].op # "result"
        <3>1. \A i \in 1 .. Len(s) : s[i] \in Moves
            BY <2>1, ElementOfSeq
        <3>. QED
            BY <3>1 DEF Moves
    <2>. HIDE DEF g
    <2>. QED
        BY <2>1, <2>2, MovesAreOps DEF IsOwed
<1>4. ASSUME NEW m \in Seq(Moves), NEW n \in {0} \cup Rooms, n = 0 \/ Holds(m, n),
             Path(m, g(TRUE), g(FALSE)), s = m \o <<Result(n)>>
      PROVE  Good
    <2>. HIDE DEF g
    <2>. QED
        BY <1>1, <1>4, ResultPath
<1>5. ASSUME NEW n \in Rooms, s = ReadStatus(n) PROVE Good
    <2>1. Reading(n) \in Seq(Moves) /\ Path(Reading(n), g(TRUE), g(FALSE))
        BY <1>2, ReadingPath
    <2>. HIDE DEF g, Good
    <2>. QED
        BY <1>4, <1>5, <2>1 DEF ReadStatus
<1>6. ASSUME NEW c \in Commands, NEW d \in Commands, NEW n \in Rooms, s = ReadBlock(c, d, n)
      PROVE  Good
    <2>. DEFINE m == Block(c, d, n)
    <2>1. m \in Seq(Moves) /\ Path(m, g(TRUE), g(FALSE)) /\ Holds(m, n)
        BY <1>2, BlockPath
    <2>2. s = m \o <<Result(n)>>
        BY <1>6 DEF ReadBlock, Block
    <2>. HIDE DEF g, Good, m
    <2>. QED
        BY <1>4, <2>1, <2>2
<1>7. ASSUME NEW n \in Rooms, s = ReadDirectory(n) PROVE Good
    <2>. DEFINE m == Directory(n)
    <2>1. m \in Seq(Moves) /\ Path(m, g(TRUE), g(FALSE))
        BY <1>2, DirectoryPath
    <2>2. s = m \o <<Result(0)>>
        BY <1>7 DEF ReadDirectory, Directory
    <2>. HIDE DEF g, Good, m
    <2>. QED
        BY <1>4, <2>1, <2>2
<1>8. \/ \E c \in Commands : s = Command(c)
      \/ \E n \in Rooms : s = ReadStatus(n)
      \/ \E c \in Commands : \E d \in Commands : \E n \in Rooms : s = ReadBlock(c, d, n)
      \/ \E n \in Rooms : s = ReadDirectory(n)
    BY DEF Dialogs
<1>9. Good
    <2>. HIDE DEF Good
    <2>. QED
        BY <1>3, <1>5, <1>6, <1>7, <1>8
<1>. HIDE DEF g
<1>. QED
    BY <1>1, <1>9 DEF Leads

\* The first step of a script that leads to its end.
LEMMA LeadsTail ==
    ASSUME NEW s \in Seq(Ops), s # <<>>, NEW c \in Contexts, Leads(s, c)
    PROVE  /\ Allowed(c, Head(s))
           /\ After(c, Head(s)) \in Contexts
           /\ Leads(Tail(s), After(c, Head(s)))
BY PathTail DEF Leads

\* No step is left at the end of a dialog.
LEMMA LeadsEmpty ==
    ASSUME NEW c \in Contexts
    PROVE  Leads(<<>>, c) <=> Ended(c)
BY PathEmpty DEF Leads

------------------------------------------------------------------------------
(* The steps of the drive, each with what it changes.                      *)

\* A step that neither addresses the drive nor completes a byte.
Keeps ==
    dev'.att = dev.att /\ dev'.role = dev.role /\ dev'.heard = dev.heard
Stays == Keeps /\ dev'.out = dev.out /\ dev'.eoi = dev.eoi
Same == Stays /\ dev'.clk = dev.clk /\ dev'.data = dev.data
To(phase) == dev'.phase = phase

Attends ==
    /\ ~Synced
    /\ dev'.att = atn /\ dev'.role = dev.role /\ dev'.heard = dev.heard /\ dev'.out = dev.out
    /\ ~dev'.clk /\ dev'.data = (atn \/ dev.role = "listener")
    /\ dev'.shift = <<>> /\ ~dev'.eoi
    /\ To(IF atn \/ dev.role = "listener" THEN "wait" ELSE "turn")

HearsClk == dev.phase = "wait" /\ ClkLow /\ Same /\ dev'.shift = dev.shift /\ To("hold")
HearsReady ==
    /\ dev.phase = "hold" /\ ~ClkLow
    /\ Stays /\ dev'.clk = dev.clk /\ ~dev'.data /\ dev'.shift = dev.shift /\ To("open")
HearsLow == dev.phase = "open" /\ ClkLow /\ Same /\ dev'.shift = dev.shift /\ To("low")
HearsEoi ==
    /\ dev.phase = "open" /\ ~dev.eoi /\ pc \in {"s_eoi_high", "s_eoi_low"}
    /\ Keeps /\ dev'.out = dev.out /\ dev'.clk = dev.clk /\ dev'.shift = dev.shift
    /\ dev'.data /\ dev'.eoi /\ To("eoi")
HearsOn ==
    /\ dev.phase = "eoi"
    /\ Stays /\ dev'.clk = dev.clk /\ ~dev'.data /\ dev'.shift = dev.shift /\ To("open")
HearsBit ==
    dev.phase = "low" /\ ~ClkLow /\ Same /\ dev'.shift = Append(dev.shift, ~DataLow) /\ To("high")
HearsNext ==
    /\ dev.phase = "high" /\ ClkLow /\ Len(dev.shift) # Bits
    /\ Same /\ dev'.shift = dev.shift /\ To("low")
HearsByte ==
    /\ dev.phase = "high" /\ ClkLow /\ Len(dev.shift) = Bits
    /\ dev'.att = dev.att /\ dev'.clk = dev.clk
    /\ dev'.data /\ dev'.shift = <<>> /\ ~dev'.eoi /\ To("hold")
    /\ dev'.role = IF dev.att THEN Addressed(dev.shift, dev.role) ELSE dev.role
    /\ dev'.out = IF dev.att /\ dev.shift = TALK THEN Message ELSE dev.out
    /\ dev'.heard = IF dev.att THEN dev.heard
                    ELSE Append(dev.heard, [byte |-> dev.shift, eoi |-> dev.eoi])
Hears ==
    Synced /\ Hearing /\ (\/ HearsClk \/ HearsReady \/ HearsLow \/ HearsEoi \/ HearsOn
                          \/ HearsBit \/ HearsNext \/ HearsByte)

TellsTurn ==
    /\ dev.phase = "turn" /\ ~clk
    /\ Stays /\ dev'.clk /\ dev'.data = dev.data /\ dev'.shift = dev.shift /\ To("busy")
TellsReady ==
    /\ dev.phase = "busy" /\ dev.out # <<>>
    /\ Stays /\ ~dev'.clk /\ dev'.data = dev.data /\ dev'.shift = dev.shift /\ To("ready")
TellsLinger ==
    dev.phase = "ready" /\ ~DataLow /\ Last /\ Same /\ dev'.shift = dev.shift /\ To("linger")
TellsAnswered ==
    dev.phase = "linger" /\ DataLow /\ Same /\ dev'.shift = dev.shift /\ To("answered")
TellsHigh ==
    /\ dev.phase = "low" /\ pc = "r_high"
    /\ Stays /\ ~dev'.clk /\ dev'.data = dev.data /\ dev'.shift = dev.shift /\ To("high")
\* The next bit follows the release for "ready", the answer to EOI, or a bit that was taken.
Follows ==
    \/ dev.phase = "ready" /\ ~DataLow /\ ~Last
    \/ dev.phase = "answered" /\ ~DataLow
    \/ dev.phase = "high" /\ pc # "r_high" /\ (pc = "r_low" \/ Len(dev.shift) = Bits)
TellsBit ==
    /\ Follows /\ Len(dev.shift) < Bits
    /\ Stays /\ dev'.clk /\ To("low")
    /\ dev'.data = ~dev.out[1][Len(dev.shift) + 1]
    /\ dev'.shift = Append(dev.shift, dev.out[1][Len(dev.shift) + 1])
TellsEnd ==
    /\ Follows /\ Len(dev.shift) = Bits
    /\ Stays /\ dev'.clk /\ ~dev'.data /\ dev'.shift = dev.shift /\ To("ack")
TellsByte ==
    /\ dev.phase = "ack" /\ DataLow
    /\ Keeps /\ dev'.eoi = dev.eoi /\ dev'.clk = dev.clk /\ dev'.data = dev.data
    /\ dev'.out = Tail(dev.out) /\ dev'.shift = <<>> /\ To("busy")
Tells ==
    Synced /\ Telling /\ (\/ TellsTurn \/ TellsReady \/ TellsLinger \/ TellsAnswered
                          \/ TellsHigh \/ TellsBit \/ TellsEnd \/ TellsByte)

\* Listening is the steps of a hearing drive,
LEMMA ListensHears ==
    ASSUME DriveTypes, Synced, Hearing, dev' \in Listens
    PROVE  Hears /\ dev' \in Device
<1>. dev \in Device /\ <<>> \in Seq(BOOLEAN)
    BY DEF DriveTypes
<1>. USE DEF Device, Keeps, Stays, Same, To
<1>1. ASSUME dev.phase = "wait", ClkLow, dev' = [dev EXCEPT !.phase = "hold"]
      PROVE  HearsClk /\ dev' \in Device
    BY <1>1 DEF HearsClk, Phases
<1>2. ASSUME dev.phase = "hold", ~ClkLow, dev' = [dev EXCEPT !.phase = "open", !.data = FALSE]
      PROVE  HearsReady /\ dev' \in Device
    BY <1>2 DEF HearsReady, Phases
<1>3. ASSUME dev.phase = "open", ClkLow, dev' = [dev EXCEPT !.phase = "low"]
      PROVE  HearsLow /\ dev' \in Device
    BY <1>3 DEF HearsLow, Phases
<1>4. ASSUME dev.phase = "eoi", dev' = [dev EXCEPT !.phase = "open", !.data = FALSE]
      PROVE  HearsOn /\ dev' \in Device
    BY <1>4 DEF HearsOn, Phases
<1>5. ASSUME dev.phase = "low", ~ClkLow,
             dev' = [dev EXCEPT !.phase = "high", !.shift = Append(@, ~DataLow)]
      PROVE  HearsBit /\ dev' \in Device
    <2>1. Append(dev.shift, ~DataLow) \in Seq(BOOLEAN)
        OBVIOUS
    <2>. QED
        BY <1>5, <2>1 DEF HearsBit, Phases
<1>6. ASSUME dev.phase = "high", ClkLow, Len(dev.shift) # Bits, dev' = [dev EXCEPT !.phase = "low"]
      PROVE  HearsNext /\ dev' \in Device
    BY <1>6 DEF HearsNext, Phases
<1>7. ASSUME dev.phase = "high", ClkLow, Len(dev.shift) = Bits, dev' = Hear(dev.shift)
      PROVE  HearsByte /\ dev' \in Device
    <2>. DEFINE d == [dev EXCEPT !.phase = "hold", !.data = TRUE, !.shift = <<>>, !.eoi = FALSE]
    <2>1. dev.shift \in Byte
        BY <1>7 DEF Byte
    <2>2. d \in Device
        <3>1. [dev EXCEPT !.phase = "hold"] \in Device
            BY DEF Phases
        <3>2. \A r \in Device : [r EXCEPT !.data = TRUE] \in Device
            OBVIOUS
        <3>3. \A r \in Device : [r EXCEPT !.shift = <<>>] \in Device
            OBVIOUS
        <3>4. \A r \in Device : [r EXCEPT !.eoi = FALSE] \in Device
            OBVIOUS
        <3>. QED
            BY <3>1, <3>2, <3>3, <3>4 DEF d
    <2>3. /\ d.att = dev.att /\ d.role = dev.role /\ d.phase = "hold" /\ d.clk = dev.clk /\ d.data
          /\ d.shift = <<>> /\ ~d.eoi /\ d.out = dev.out /\ d.heard = dev.heard
        OBVIOUS
    <2>. HIDE DEF d
    <2>4. CASE ~dev.att
        <3>1. dev' = [d EXCEPT !.heard = Append(@, [byte |-> dev.shift, eoi |-> dev.eoi])]
            BY <1>7, <2>4 DEF Hear, d
        <3>2. Append(dev.heard, [byte |-> dev.shift, eoi |-> dev.eoi]) \in Seq(Spoken)
            BY <2>1, AppendProperties DEF Spoken
        <3>. QED
            <4>1. dev' \in Device /\ dev'.heard = Append(dev.heard, [byte |-> dev.shift, eoi |-> dev.eoi])
                BY <2>2, <2>3, <3>1, <3>2
            <4>2. /\ dev'.att = d.att /\ dev'.role = d.role /\ dev'.phase = d.phase /\ dev'.clk = d.clk
                  /\ dev'.data = d.data /\ dev'.shift = d.shift /\ dev'.eoi = d.eoi /\ dev'.out = d.out
                BY <2>2, <3>1
            <4>. QED
                BY <1>7, <2>3, <2>4, <4>1, <4>2 DEF HearsByte
    <2>5. CASE dev.att /\ dev.shift = LISTEN
        <3>1. dev' = [d EXCEPT !.role = "listener"]
            BY <1>7, <2>5, Bounds DEF Hear, d
        <3>2. dev.shift # TALK /\ Addressed(dev.shift, dev.role) = "listener"
            BY <2>5, Bounds DEF Addressed
        <3>. QED
            <4>1. /\ dev' \in Device /\ dev'.role = "listener" /\ dev'.out = dev.out
                  /\ dev'.heard = dev.heard
                BY <2>2, <2>3, <3>1 DEF Roles
            <4>2. /\ dev'.att = dev.att /\ dev'.phase = "hold" /\ dev'.clk = dev.clk /\ dev'.data
                  /\ dev'.shift = <<>> /\ ~dev'.eoi
                BY <2>2, <2>3, <3>1
            <4>. QED
                BY <1>7, <2>5, <3>2, <4>1, <4>2 DEF HearsByte
    <2>6. CASE dev.att /\ dev.shift = TALK
        <3>1. dev' = [d EXCEPT !.role = "talker", !.out = Message]
            BY <1>7, <2>6, Bounds DEF Hear, d
        <3>2. dev.shift # LISTEN /\ Addressed(dev.shift, dev.role) = "talker" /\ Message \in Seq(Byte)
            BY <2>6, Bounds DEF Addressed
        <3>. QED
            <4>1. /\ dev' \in Device /\ dev'.role = "talker" /\ dev'.out = Message
                  /\ dev'.heard = dev.heard
                BY <2>2, <2>3, <3>1, <3>2 DEF Roles
            <4>2. /\ dev'.att = dev.att /\ dev'.phase = "hold" /\ dev'.clk = dev.clk /\ dev'.data
                  /\ dev'.shift = <<>> /\ ~dev'.eoi
                BY <2>2, <2>3, <3>1
            <4>. QED
                BY <1>7, <2>6, <3>2, <4>1, <4>2 DEF HearsByte
    <2>7. CASE dev.att /\ dev.shift \in {UNLISTEN, UNTALK}
        <3>1. dev.shift # TALK /\ dev.shift # LISTEN /\ Addressed(dev.shift, dev.role) = "none"
            BY <2>7, Bounds DEF Addressed
        <3>2. dev' = [d EXCEPT !.role = "none"]
            BY <1>7, <2>7, <3>1 DEF Hear, d
        <3>. QED
            BY <1>7, <2>2, <2>3, <2>7, <3>1, <3>2 DEF HearsByte, Roles
    <2>8. CASE dev.att /\ dev.shift \notin {LISTEN, TALK, UNLISTEN, UNTALK}
        <3>1. dev.shift # TALK /\ Addressed(dev.shift, dev.role) = dev.role
            BY <2>8 DEF Addressed
        <3>2. dev' = d
            BY <1>7, <2>8 DEF Hear, d
        <3>. QED
            BY <1>7, <2>2, <2>3, <2>8, <3>1, <3>2 DEF HearsByte
    <2>. QED
        BY <2>4, <2>5, <2>6, <2>7, <2>8
<1>. QED
    BY <1>1, <1>2, <1>3, <1>4, <1>5, <1>6, <1>7 DEF Listens, When, Hears

\* talking is those of a telling one,
LEMMA TalksTells ==
    ASSUME DriveTypes, Synced, Telling, dev' \in Talks
    PROVE  Tells /\ dev' \in Device
<1>. /\ dev \in Device /\ <<>> \in Seq(BOOLEAN)
     /\ dev.phase \in {"ready", "linger", "answered", "low", "high", "ack"} => dev.out # <<>>
    BY DEF DriveTypes
<1>. USE DEF Device, Keeps, Stays, Same, To
<1>1. ASSUME dev.phase = "turn", ~clk, dev' = [dev EXCEPT !.phase = "busy", !.clk = TRUE]
      PROVE  TellsTurn /\ dev' \in Device
    BY <1>1 DEF TellsTurn, Phases
<1>2. ASSUME dev.phase = "ready", ~DataLow, Last, dev' = [dev EXCEPT !.phase = "linger"]
      PROVE  TellsLinger /\ dev' \in Device
    BY <1>2 DEF TellsLinger, Phases
<1>3. ASSUME dev.phase = "linger", DataLow, dev' = [dev EXCEPT !.phase = "answered"]
      PROVE  TellsAnswered /\ dev' \in Device
    BY <1>3 DEF TellsAnswered, Phases
<1>4. ASSUME dev.phase = "low", pc = "r_high", dev' = [dev EXCEPT !.phase = "high", !.clk = FALSE]
      PROVE  TellsHigh /\ dev' \in Device
    BY <1>4 DEF TellsHigh, Phases
<1>5. ASSUME dev.phase = "ack", DataLow,
             dev' = [dev EXCEPT !.phase = "busy", !.shift = <<>>, !.out = Tail(@)]
      PROVE  TellsByte /\ dev' \in Device
    <2>1. Tail(dev.out) \in Seq(Byte)
        BY <1>5, HeadTailProperties
    <2>. QED
        <3>1. /\ dev'.att = dev.att /\ dev'.role = dev.role /\ dev'.phase = "busy" /\ dev'.clk = dev.clk
              /\ dev'.data = dev.data /\ dev'.shift = <<>> /\ dev'.eoi = dev.eoi
              /\ dev'.out = Tail(dev.out) /\ dev'.heard = dev.heard
            BY <1>5
        <3>2. dev' \in Device
            <4>1. [dev EXCEPT !.phase = "busy"] \in Device
                BY DEF Phases
            <4>2. \A r \in Device : [r EXCEPT !.shift = <<>>] \in Device
                OBVIOUS
            <4>3. \A r \in Device : [r EXCEPT !.out = Tail(dev.out)] \in Device
                BY <2>1
            <4>. QED
                BY <1>5, <4>1, <4>2, <4>3
        <3>. QED
            BY <1>5, <3>1, <3>2 DEF TellsByte
<1>6. ASSUME Follows, dev' = NextBit(dev)
      PROVE  (TellsBit \/ TellsEnd) /\ dev' \in Device
    <2>1. dev.out # <<>> /\ Len(dev.shift) \in 0 .. Bits /\ Bits \in Nat
        BY <1>6, Bounds DEF Follows, DriveTypes
    <2>2. dev.out[1] \in Byte /\ Head(dev.out) = dev.out[1]
        BY <2>1
    <2>3. CASE Len(dev.shift) = Bits
        <3>1. dev' = [dev EXCEPT !.phase = "ack", !.clk = TRUE, !.data = FALSE]
            BY <1>6, <2>1, <2>3 DEF NextBit
        <3>. QED
            BY <1>6, <2>3, <3>1 DEF TellsEnd, Phases
    <2>4. CASE Len(dev.shift) < Bits
        <3>. DEFINE n == Len(dev.shift) + 1
                    b == dev.out[1][n]
        <3>1. n \in 1 .. Bits
            BY <2>1, <2>4
        <3>2. b \in BOOLEAN
            BY <2>2, <3>1 DEF Byte
        <3>3. dev' = [dev EXCEPT !.phase = "low", !.clk = TRUE, !.data = ~b, !.shift = Append(@, b)]
            <4>1. NextBit(dev) = [dev EXCEPT !.phase = "low", !.clk = TRUE, !.data = ~Head(dev.out)[n],
                                          !.shift = Append(@, Head(dev.out)[n])]
                <5>1. ~(n > Bits)
                    BY <2>1, <3>1
                <5>. QED
                    BY <5>1 DEF NextBit
            <4>. QED
                BY <1>6, <2>2, <4>1
        <3>. HIDE DEF n, b
        <3>4. Append(dev.shift, b) \in Seq(BOOLEAN)
            BY <3>2
        <3>5. /\ Stays /\ dev'.clk /\ To("low") /\ dev'.data = ~b /\ dev'.shift = Append(dev.shift, b)
              /\ dev' \in Device
            BY <3>2, <3>3, <3>4 DEF Phases
        <3>. QED
            BY <1>6, <2>4, <3>5 DEF TellsBit, n, b
    <2>. QED
        BY <2>1, <2>3, <2>4
<1>7. Follows <=> \/ dev.phase = "ready" /\ ~DataLow /\ ~Last
                  \/ dev.phase = "answered" /\ ~DataLow
                  \/ dev.phase = "high" /\ pc # "r_high" /\ (pc = "r_low" \/ Len(dev.shift) = Bits)
    BY DEF Follows
<1>. QED
    BY <1>1, <1>2, <1>3, <1>4, <1>5, <1>6, <1>7 DEF Talks, When, Tells

\* and every step of the drive is one of these, or it follows a change of ATN.
LEMMA DriveSteps ==
    ASSUME DriveTypes, atn \in BOOLEAN, Drive
    PROVE  dev' \in Device /\ (Attends \/ Hears \/ Tells)
<1>. dev \in Device
    BY DEF DriveTypes
<1>. dev' \in AtOnce \cup AfterAWhile
    BY DEF Drive
<1>1. ASSUME atn # dev.att, dev' = Attention
      PROVE  Attends /\ dev' \in Device
    <2>. DEFINE l == atn \/ dev.role = "listener"
    <2>1. dev' = [dev EXCEPT !.att = atn, !.clk = FALSE, !.data = l, !.shift = <<>>,
                             !.eoi = FALSE, !.phase = IF l THEN "wait" ELSE "turn"]
        BY <1>1 DEF Attention
    <2>2. l \in BOOLEAN /\ (IF l THEN "wait" ELSE "turn") \in Phases
        BY DEF Phases
    <2>. HIDE DEF l
    <2>3. /\ dev'.att = atn /\ dev'.clk = FALSE /\ dev'.data = l /\ dev'.shift = <<>> /\ dev'.eoi = FALSE
          /\ dev'.phase = (IF l THEN "wait" ELSE "turn") /\ dev'.role = dev.role
          /\ dev'.heard = dev.heard /\ dev'.out = dev.out
        BY <2>1 DEF Device
    <2>4. dev' \in Device
        <3>. <<>> \in Seq(BOOLEAN)
            OBVIOUS
        <3>1. [dev EXCEPT !.att = atn, !.clk = FALSE, !.data = l] \in Device
            BY <2>2 DEF Device
        <3>2. \A r \in Device : [r EXCEPT !.shift = <<>>, !.eoi = FALSE] \in Device
            BY DEF Device
        <3>3. \A r \in Device, f \in Phases : [r EXCEPT !.phase = f] \in Device
            BY DEF Device
        <3>. QED
            BY <2>1, <2>2, <3>1, <3>2, <3>3
    <2>. QED
        BY <1>1, <2>3, <2>4 DEF Attends, Synced, To, l
<1>2. ASSUME Synced, Hearing, dev.phase = "open", ~dev.eoi, pc \in {"s_eoi_high", "s_eoi_low"},
             dev' = [dev EXCEPT !.phase = "eoi", !.data = TRUE, !.eoi = TRUE]
      PROVE  Hears /\ dev' \in Device
    <2>1. HearsEoi /\ dev' \in Device
        BY <1>2 DEF HearsEoi, Device, Phases, Keeps, To
    <2>. QED
        BY <1>2, <2>1 DEF Hears
<1>3. ASSUME Synced, Telling, dev.phase = "busy", dev.out # <<>>,
             dev' = [dev EXCEPT !.phase = "ready", !.clk = FALSE]
      PROVE  Tells /\ dev' \in Device
    <2>1. TellsReady /\ dev' \in Device
        BY <1>3 DEF TellsReady, Device, Phases, Keeps, Stays, To
    <2>. QED
        BY <1>3, <2>1 DEF Tells
<1>4. CASE dev' \in AtOnce
    <2>1. CASE atn # dev.att
        BY <1>1, <1>4, <2>1 DEF AtOnce
    <2>2. CASE atn = dev.att /\ Hearing
        BY <1>4, <2>2, ListensHears DEF AtOnce, Synced, Hearing
    <2>3. CASE atn = dev.att /\ ~Hearing
        BY <1>4, <2>3, TalksTells DEF AtOnce, Synced, Hearing, Telling
    <2>. QED
        BY <2>1, <2>2, <2>3
<1>5. CASE dev' \in AfterAWhile
    <2>1. CASE Hearing
        BY <1>2, <1>5, <2>1 DEF AfterAWhile, When, Synced, Hearing
    <2>2. CASE ~Hearing
        BY <1>3, <1>5, <2>2 DEF AfterAWhile, When, Synced, Hearing, Telling
    <2>. QED
        BY <2>1, <2>2
<1>. QED
    BY <1>4, <1>5

------------------------------------------------------------------------------
(* Every step keeps the types.                                             *)

\* The steps of a script have the fields that belong to them.
LEMMA OpTypes ==
    ASSUME ControllerTypes, script # <<>>
    PROVE  /\ Op \in Ops /\ Tail(script) \in Seq(Ops)
           /\ Op.op = "atn" => Op.on \in BOOLEAN
           /\ Op.op = "send" => Op.byte \in Byte /\ Op.eoi \in BOOLEAN
           /\ Op.op = "receive" => Op.room \in Nat \ {0}
           /\ Op.op = "result" => Op.least \in Nat
<1>1. Op \in Ops /\ Tail(script) \in Seq(Ops)
    BY HeadTailProperties DEF ControllerTypes, PlaceTypes, Op
<1>. QED
    BY <1>1 DEF Ops, Moves

\* The drive keeps its types at its own steps,
LEMMA DriveKeepsDriveTypes ==
    ASSUME DriveTypes, atn \in BOOLEAN, Drive
    PROVE  DriveTypes'
<1>. dev' \in Device /\ dev \in Device
    BY DriveSteps DEF DriveTypes
<1>. Bits \in Nat /\ Len(dev.shift) \in 0 .. Bits /\ dev.shift \in Seq(BOOLEAN) /\ Bits # 0 /\ Len(<<>>) = 0
    BY Bounds DEF DriveTypes, Device
<1>. USE DEF DriveTypes, Hearing, Telling, Keeps, Stays, Same, To
<1>1. CASE Attends
    BY <1>1 DEF Attends
<1>2. CASE Hears
    <2>. Hearing /\ Synced
        BY <1>2 DEF Hears
    <2>1. CASE HearsClk \/ HearsReady \/ HearsOn \/ HearsEoi
        BY <2>1 DEF HearsClk, HearsReady, HearsOn, HearsEoi
    <2>2. CASE HearsLow
        BY <2>2 DEF HearsLow
    <2>3. CASE HearsBit
        <3>1. Len(dev'.shift) = Len(dev.shift) + 1
            BY <2>3 DEF HearsBit
        <3>. QED
            BY <2>3, <3>1 DEF HearsBit
    <2>4. CASE HearsNext
        BY <2>4 DEF HearsNext
    <2>5. CASE HearsByte
        BY <2>5 DEF HearsByte
    <2>. QED
        BY <1>2, <2>1, <2>2, <2>3, <2>4, <2>5 DEF Hears
<1>3. CASE Tells
    <2>. Telling /\ Synced
        BY <1>3 DEF Tells
    <2>1. CASE TellsTurn
        BY <2>1 DEF TellsTurn
    <2>2. CASE TellsReady
        BY <2>2 DEF TellsReady
    <2>3. CASE TellsLinger
        BY <2>3 DEF TellsLinger
    <2>4. CASE TellsAnswered
        BY <2>4 DEF TellsAnswered
    <2>5. CASE TellsHigh
        BY <2>5 DEF TellsHigh
    <2>6. CASE TellsBit
        <3>1. Len(dev'.shift) = Len(dev.shift) + 1
            BY <2>6 DEF TellsBit
        <3>. QED
            BY <2>6, <3>1 DEF TellsBit, Follows
    <2>7. CASE TellsEnd
        BY <2>7 DEF TellsEnd, Follows
    <2>8. CASE TellsByte
        BY <2>8 DEF TellsByte
    <2>. QED
        BY <1>3, <2>1, <2>2, <2>3, <2>4, <2>5, <2>6, <2>7, <2>8 DEF Tells
<1>. QED
    BY <1>1, <1>2, <1>3, DriveSteps

\* and the registers of the controller keep theirs.
LEMMA DriveKeepsTypes ==
    ASSUME Types, Drive
    PROVE  Types'
<1>. USE DEF Types
<1>1. ControllerTypes'
    BY DEF ControllerTypes, LineTypes, PlaceTypes, CountTypes, Drive, lines, Op
<1>2. InboxTypes'
    BY DEF InboxTypes, Drive
<1>3. DriveTypes'
    BY DriveKeepsDriveTypes DEF ControllerTypes, LineTypes
<1>. QED
    BY <1>1, <1>2, <1>3

\* The steps that send a byte keep the types,
LEMMA SendingKeepsTypes ==
    ASSUME Types,
           SendByte \/ SendReady \/ SendEoi \/ SendBit \/ BitValid \/ SendFrame \/ SendAck
    PROVE  Types'
<1>. Bits \in Nat /\ Bits # 0 /\ Polls \in Nat /\ Polls # 0
    BY Bounds
<1>1. dev' = dev /\ inbox' = inbox /\ pc' \in {"idle"} \cup Sending
    BY DEF SendByte, SendReady, SendEoi, SendBit, BitValid, SendFrame, SendAck, Return, Sending
<1>2. DriveTypes'
    BY <1>1 DEF Types, DriveTypes, Hearing, Telling
<1>3. InboxTypes'
    BY <1>1 DEF Types, InboxTypes, Sending, Receiving
<1>4. ControllerTypes'
    <2>. USE DEF Types, ControllerTypes, LineTypes, PlaceTypes, CountTypes, lines, Sending, Receiving
    <2>0. script # <<>> /\ Op.op = "send"
        BY DEF SendByte, SendReady, SendEoi, SendBit, BitValid, SendFrame, SendAck, At, Leaves
    <2>. Tail(script) \in Seq(Ops) /\ Op.byte \in Byte /\ Op.eoi \in BOOLEAN
        BY <2>0, OpTypes
    <2>1. ASSUME script' = script PROVE Op' = Op
        BY <2>1 DEF Op
    <2>2. CASE SendByte
        <3>1. LineTypes'
            BY <2>0, <2>1, <2>2 DEF SendByte
        <3>2. PlaceTypes'
            BY <2>0, <2>1, <2>2 DEF SendByte
        <3>3. CountTypes'
            BY <2>0, <2>1, <2>2 DEF SendByte
        <3>. QED
            BY <3>1, <3>2, <3>3
    <2>3. CASE SendReady
        <3>1. LineTypes'
            BY <2>0, <2>1, <2>3 DEF SendReady, Leaves, Return
        <3>2. PlaceTypes'
            BY <2>0, <2>1, <2>3 DEF SendReady, Leaves, Return
        <3>3. CountTypes'
            BY <2>0, <2>1, <2>3 DEF SendReady, Leaves, Return
        <3>. QED
            BY <3>1, <3>2, <3>3
    <2>4. CASE SendEoi
        <3>1. LineTypes'
            BY <2>0, <2>1, <2>4 DEF SendEoi, Leaves
        <3>2. PlaceTypes'
            BY <2>0, <2>1, <2>4 DEF SendEoi, Leaves
        <3>3. CountTypes'
            BY <2>0, <2>1, <2>4 DEF SendEoi, Leaves
        <3>. QED
            BY <3>1, <3>2, <3>3
    <2>5. CASE SendBit
        <3>1. Op.byte[bit + 1] \in BOOLEAN
            <4>1. bit + 1 \in 1 .. Bits
                BY <2>5 DEF SendBit
            <4>. QED
                BY <4>1 DEF Byte
        <3>2. LineTypes'
            BY <2>5, <3>1 DEF SendBit
        <3>3. PlaceTypes'
            BY <2>0, <2>1, <2>5 DEF SendBit
        <3>4. CountTypes'
            BY <2>5 DEF SendBit
        <3>. QED
            BY <3>2, <3>3, <3>4
    <2>6. CASE BitValid
        <3>1. LineTypes'
            BY <2>0, <2>1, <2>6 DEF BitValid
        <3>2. PlaceTypes'
            BY <2>0, <2>1, <2>6 DEF BitValid
        <3>3. CountTypes'
            BY <2>0, <2>1, <2>6 DEF BitValid
        <3>. QED
            BY <3>1, <3>2, <3>3
    <2>7. CASE SendFrame
        <3>1. LineTypes'
            BY <2>0, <2>1, <2>7 DEF SendFrame
        <3>2. PlaceTypes'
            BY <2>0, <2>1, <2>7 DEF SendFrame
        <3>3. CountTypes'
            BY <2>0, <2>1, <2>7 DEF SendFrame
        <3>. QED
            BY <3>1, <3>2, <3>3
    <2>8. CASE SendAck
        <3>1. Append(sent, [byte |-> Op.byte, eoi |-> Op.eoi]) \in Seq(Spoken)
            BY AppendProperties DEF Spoken
        <3>. QED
            BY <2>0, <2>8, <3>1 DEF SendAck, Leaves, Return
    <2>. QED
        BY <2>2, <2>3, <2>4, <2>5, <2>6, <2>7, <2>8
<1>. QED
    BY <1>2, <1>3, <1>4 DEF Types

\* and so do those that receive one,
LEMMA ReceivingKeepsTypes ==
    ASSUME Types,
           \/ ReceiveByte \/ EndReceiving \/ ReceiveReady \/ ReceiveEoi \/ EoiAnswered
           \/ ReceiveBitStart \/ ReceiveBit \/ ReceiveAck
    PROVE  Types'
<1>. Bits \in Nat /\ Bits # 0 /\ Polls \in Nat /\ Polls # 0
    BY Bounds
<1>1. dev' = dev
    BY DEF ReceiveByte, EndReceiving, ReceiveReady, ReceiveEoi, EoiAnswered, ReceiveBitStart, ReceiveBit,
           ReceiveAck
<1>2. DriveTypes'
    BY <1>1 DEF Types, DriveTypes, Hearing, Telling
<1>3. ControllerTypes'
    <2>. USE DEF Types, ControllerTypes, LineTypes, PlaceTypes, CountTypes, lines, Sending, Receiving
    <2>0. script # <<>> /\ Op.op = "receive"
        BY DEF ReceiveByte, EndReceiving, ReceiveReady, ReceiveEoi, EoiAnswered, ReceiveBitStart, ReceiveBit,
               ReceiveAck, At, Leaves
    <2>. Tail(script) \in Seq(Ops)
        BY <2>0, OpTypes
    <2>1. ASSUME script' = script PROVE Op' = Op
        BY <2>1 DEF Op
    <2>2. CASE ReceiveByte
        <3>1. LineTypes'
            BY <2>0, <2>1, <2>2 DEF ReceiveByte
        <3>2. PlaceTypes'
            BY <2>0, <2>1, <2>2 DEF ReceiveByte
        <3>3. CountTypes'
            BY <2>0, <2>1, <2>2 DEF ReceiveByte
        <3>. QED
            BY <3>1, <3>2, <3>3
    <2>3. CASE EndReceiving
        BY <2>0, <2>3 DEF EndReceiving, At
    <2>4. CASE ReceiveReady
        <3>1. LineTypes'
            BY <2>0, <2>1, <2>4 DEF ReceiveReady, Leaves, Return
        <3>2. PlaceTypes'
            BY <2>0, <2>1, <2>4 DEF ReceiveReady, Leaves, Return
        <3>3. CountTypes'
            BY <2>0, <2>1, <2>4 DEF ReceiveReady, Leaves, Return
        <3>. QED
            BY <3>1, <3>2, <3>3
    <2>5. CASE ReceiveEoi
        <3>1. LineTypes'
            BY <2>0, <2>1, <2>5 DEF ReceiveEoi
        <3>2. PlaceTypes'
            BY <2>0, <2>1, <2>5 DEF ReceiveEoi
        <3>3. CountTypes'
            BY <2>0, <2>1, <2>5 DEF ReceiveEoi
        <3>. QED
            BY <3>1, <3>2, <3>3
    <2>6. CASE EoiAnswered
        <3>1. LineTypes'
            BY <2>0, <2>1, <2>6 DEF EoiAnswered
        <3>2. PlaceTypes'
            BY <2>0, <2>1, <2>6 DEF EoiAnswered
        <3>3. CountTypes'
            BY <2>0, <2>1, <2>6 DEF EoiAnswered
        <3>. QED
            BY <3>1, <3>2, <3>3
    <2>7. CASE ReceiveBitStart
        <3>1. LineTypes'
            BY <2>0, <2>1, <2>7 DEF ReceiveBitStart, Leaves
        <3>2. PlaceTypes'
            BY <2>0, <2>1, <2>7 DEF ReceiveBitStart, Leaves
        <3>3. CountTypes'
            BY <2>0, <2>1, <2>7 DEF ReceiveBitStart, Leaves
        <3>. QED
            BY <3>1, <3>2, <3>3
    <2>8. CASE ReceiveBit
        <3>1. LineTypes'
            BY <2>0, <2>1, <2>8 DEF ReceiveBit, Leaves
        <3>2. PlaceTypes'
            BY <2>0, <2>1, <2>8 DEF ReceiveBit, Leaves
        <3>3. CountTypes'
            BY <2>0, <2>1, <2>8 DEF ReceiveBit, Leaves
        <3>. QED
            BY <3>1, <3>2, <3>3
    <2>9. CASE ReceiveAck
        <3>1. LineTypes'
            BY <2>0, <2>1, <2>9 DEF ReceiveAck
        <3>2. PlaceTypes'
            BY <2>0, <2>1, <2>9 DEF ReceiveAck
        <3>3. CountTypes'
            BY <2>0, <2>1, <2>9 DEF ReceiveAck
        <3>. QED
            BY <3>1, <3>2, <3>3
    <2>. QED
        BY <2>2, <2>3, <2>4, <2>5, <2>6, <2>7, <2>8, <2>9
<1>4. InboxTypes'
    <2>. USE DEF Types, InboxTypes, Receiving
    <2>1. CASE ReceiveByte \/ EndReceiving \/ ReceiveAck
        BY <2>1 DEF ReceiveByte, EndReceiving, ReceiveAck, At
    <2>2. CASE ReceiveReady
        <3>1. CASE inbox' = inbox /\ pc' = "idle"
            BY <3>1
        <3>2. CASE inbox' = Append(inbox, <<>>) /\ pc' = "r_eoi" /\ bit' = 0
            <4>1. <<>> \in Seq(BOOLEAN) /\ Len(<<>>) = 0
                OBVIOUS
            <4>2. /\ inbox' \in Seq(Seq(BOOLEAN)) /\ inbox' # <<>> /\ Len(inbox') = Len(inbox) + 1
                  /\ \A i \in 1 .. Len(inbox) : inbox'[i] = inbox[i]
                  /\ inbox'[Len(inbox) + 1] = <<>>
                BY <3>2, <4>1, AppendProperties
            <4>. QED
                BY <3>2, <4>1, <4>2
        <3>. QED
            BY <2>2, <3>1, <3>2 DEF ReceiveReady, Return
    <2>3. CASE ReceiveEoi \/ EoiAnswered \/ ReceiveBitStart
        BY <2>3 DEF ReceiveEoi, EoiAnswered, ReceiveBitStart, Leaves
    <2>4. CASE ReceiveBit
        <3>. DEFINE n == Len(inbox)
                    b == ~DataLow
        <3>1. n \in Nat \ {0} /\ inbox[n] \in Seq(BOOLEAN) /\ Len(inbox[n]) = bit /\ bit \in 0 .. Bits - 1
            BY <2>4, EmptySeq, ElementOfSeq DEF ReceiveBit, Leaves, ControllerTypes, CountTypes
        <3>2. inbox' = [inbox EXCEPT ![n] = Append(inbox[n], b)] /\ bit' = bit + 1
            BY <2>4 DEF ReceiveBit
        <3>3. Append(inbox[n], b) \in Seq(BOOLEAN) /\ Len(Append(inbox[n], b)) = bit + 1
            BY <3>1, AppendProperties
        <3>. HIDE DEF b
        <3>4. /\ inbox' \in Seq(Seq(BOOLEAN)) /\ Len(inbox') = n
              /\ \A i \in 1 .. n : inbox'[i] = IF i = n THEN Append(inbox[n], b) ELSE inbox[i]
            BY <3>1, <3>2, <3>3, ExceptSeq
        <3>. HIDE DEF n
        <3>5. inbox' # <<>> /\ inbox'[Len(inbox')] = Append(inbox[n], b)
            BY <3>1, <3>4, EmptySeq
        <3>6. ASSUME NEW i \in 1 .. n PROVE Len(inbox'[i]) <= Bits
            <4>1. CASE i = n
                BY <3>1, <3>3, <3>4, <4>1
            <4>2. CASE i # n
                BY <3>4, <4>2 DEF n
            <4>. QED
                BY <4>1, <4>2
        <3>. QED
            BY <3>2, <3>3, <3>4, <3>5, <3>6
    <2>. QED
        BY <2>1, <2>2, <2>3, <2>4
<1>. QED
    BY <1>2, <1>3, <1>4 DEF Types

\* the polls and the other steps of a script,
LEMMA ScriptKeepsTypes ==
    ASSUME Types, Poll \/ AtnStep \/ CheckStep \/ TurnStep \/ ResultStep
    PROVE  Types'
<1>. Polls \in Nat
    BY Bounds
<1>1. dev' = dev /\ inbox' = inbox /\ pc' = pc /\ bit' = bit
    BY DEF Poll, AtnStep, CheckStep, TurnStep, ResultStep
<1>2. DriveTypes' /\ InboxTypes'
    BY <1>1 DEF Types, DriveTypes, Hearing, Telling, InboxTypes
<1>3. ControllerTypes'
    <2>. USE DEF Types, ControllerTypes, LineTypes, PlaceTypes, CountTypes, lines, Sending, Receiving
    <2>1. CASE Poll
        BY <2>1 DEF Poll, Op
    <2>2. CASE AtnStep
        BY <2>2, OpTypes DEF AtnStep, At
    <2>3. CASE CheckStep
        BY <2>3, OpTypes, EmptySeq DEF CheckStep, At
    <2>4. CASE TurnStep
        BY <2>4, OpTypes DEF TurnStep, At
    <2>5. CASE ResultStep
        BY <2>5, OpTypes DEF ResultStep, At
    <2>. QED
        BY <2>1, <2>2, <2>3, <2>4, <2>5
<1>. QED
    BY <1>2, <1>3 DEF Types

\* the beginning of a dialog, the reset and a drive that hangs.
LEMMA OthersKeepTypes ==
    ASSUME Types, Begin \/ Reset \/ Hang
    PROVE  Types'
<1>. USE DEF Types, ControllerTypes, LineTypes, PlaceTypes, CountTypes, lines, Sending, Receiving, InboxTypes
<1>0. <<>> \in Seq(BOOLEAN) /\ <<>> \in Seq(Seq(BOOLEAN)) /\ <<>> \in Seq(Spoken) /\ <<>> \in Seq(Byte)
      /\ Len(<<>>) = 0 /\ Bits \in Nat
    BY Bounds
<1>1. CASE Begin
    <2>1. script' \in Seq(Ops)
        BY <1>1, DialogsLead DEF Begin
    <2>2. ControllerTypes' /\ InboxTypes'
        <3>1. LineTypes'
            BY <1>0, <1>1, <2>1 DEF Begin
        <3>2. PlaceTypes'
            BY <1>0, <1>1, <2>1 DEF Begin
        <3>3. CountTypes'
            BY <1>0, <1>1, <2>1 DEF Begin
        <3>4. InboxTypes'
            BY <1>0, <1>1, <2>1 DEF Begin
        <3>. QED
            BY <3>1, <3>2, <3>3, <3>4
    <2>3. dev' = [dev EXCEPT !.heard = <<>>] /\ dev \in Device
        BY <1>1 DEF Begin, DriveTypes
    <2>4. /\ dev' \in Device
          /\ dev'.att = dev.att /\ dev'.role = dev.role /\ dev'.phase = dev.phase /\ dev'.clk = dev.clk
          /\ dev'.data = dev.data /\ dev'.shift = dev.shift /\ dev'.out = dev.out
        BY <1>0, <2>3 DEF Device
    <2>5. DriveTypes'
        BY <2>4 DEF DriveTypes, Hearing, Telling
    <2>. QED
        BY <2>2, <2>5
<1>2. CASE Reset
    <2>1. ControllerTypes' /\ InboxTypes'
        <3>1. LineTypes'
            BY <1>0, <1>2 DEF Reset
        <3>2. PlaceTypes'
            BY <1>2 DEF Reset, Op
        <3>3. CountTypes'
            BY <1>0, <1>2 DEF Reset
        <3>4. InboxTypes'
            <4>1. inbox' = <<>> /\ pc' = "idle"
                BY <1>2 DEF Reset
            <4>. QED
                BY <1>0, <4>1
        <3>. QED
            BY <3>1, <3>2, <3>3, <3>4
    <2>2. DriveTypes'
        BY <1>0, <1>2 DEF Reset, Asleep, DriveTypes, Device, Hearing, Telling, Roles, Phases
    <2>. QED
        BY <2>1, <2>2
<1>3. CASE Hang
    <2>1. LineTypes' /\ CountTypes' /\ InboxTypes'
        BY <1>3 DEF Hang
    <2>2. PlaceTypes' /\ DriveTypes'
        BY <1>3 DEF Hang, Op, DriveTypes, Hearing, Telling
    <2>. QED
        BY <2>1, <2>2
<1>. QED
    BY <1>1, <1>2, <1>3

\* The types hold at first,
LEMMA InitTypes == Init => Types
<1>. SUFFICES ASSUME Init PROVE Types
    OBVIOUS
<1>0. /\ <<>> \in Seq(BOOLEAN) /\ <<>> \in Seq(Seq(BOOLEAN)) /\ <<>> \in Seq(Spoken)
      /\ <<>> \in Seq(Byte) /\ <<>> \in Seq(Ops) /\ Len(<<>>) = 0 /\ Bits \in Nat /\ Polls \in Nat
    BY Bounds
<1>1. ControllerTypes /\ InboxTypes
    <2>1. LineTypes
        BY DEF Init, LineTypes
    <2>2. InboxTypes
        <3>1. inbox = <<>> /\ pc = "idle"
            BY DEF Init
        <3>. QED
            BY <1>0, <3>1 DEF InboxTypes, Receiving
    <2>3. PlaceTypes
        BY <1>0 DEF Init, PlaceTypes, Sending, Receiving
    <2>4. CountTypes
        BY <1>0 DEF Init, CountTypes
    <2>. QED
        BY <2>1, <2>2, <2>3, <2>4 DEF ControllerTypes
<1>2. DriveTypes
    BY <1>0 DEF Init, Asleep, DriveTypes, Device, Hearing, Telling, Roles, Phases
<1>. QED
    BY <1>1, <1>2 DEF Types

\* and every step keeps them.
LEMMA StepKeepsTypes ==
    ASSUME Types, [Next]_vars
    PROVE  Types'
<1>1. CASE Controller
    BY <1>1, SendingKeepsTypes, ReceivingKeepsTypes, ScriptKeepsTypes DEF Controller
<1>2. CASE Begin \/ Reset \/ Hang
    BY <1>2, OthersKeepTypes
<1>3. CASE Drive
    BY <1>3, DriveKeepsTypes
<1>4. CASE UNCHANGED vars
    BY <1>4 DEF vars, lines, Types, ControllerTypes, LineTypes, PlaceTypes, CountTypes, InboxTypes,
                DriveTypes, Hearing, Telling, Op
<1>. QED
    BY <1>1, <1>2, <1>3, <1>4 DEF Next

\* The registers of the controller, the received bytes and the drive keep their types,
\* whatever drive there is: a byte in the making is as long as the bits counted, the
\* drive pulls CLK only as a talker, and it shifts no more than a byte.
THEOREM TypesInvariant == Spec => []Types
<1>1. Types /\ [Next]_vars => Types'
    BY StepKeepsTypes
<1>. QED
    BY <1>1, InitTypes, PTL DEF Spec

\* TypeOK is what of this a run shows (ufi_iec.c, lines 152 to 280).
THEOREM TypeCorrect == Spec => []TypeOK
<1>1. Types => TypeOK
    <2>. SUFFICES ASSUME Types PROVE TypeOK
        OBVIOUS
    <2>1. /\ Bits \in Nat /\ Len(dev.shift) <= Bits /\ Len(dev.shift) \in Nat /\ dev.role \in Roles
        BY Bounds, LenProperties DEF Types, DriveTypes, Device
    <2>2. DOMAIN inbox = 1 .. Len(inbox)
        BY LenProperties DEF Types, InboxTypes
    <2>. QED
        BY <2>1, <2>2 DEF Types, ControllerTypes, LineTypes, PlaceTypes, CountTypes, InboxTypes, TypeOK,
                          Sending, Receiving, Roles
<1>. QED
    BY <1>1, TypesInvariant, PTL

------------------------------------------------------------------------------
(* What a drive that has reacted, or has nothing to react to, waits for.   *)

HearingSettled ==
    Hearing =>
        /\ dev.phase = "wait" => ~ClkLow
        /\ dev.phase \in {"hold", "low"} => ClkLow
        /\ dev.phase \in {"open", "high"} => ~ClkLow
        /\ dev.phase # "eoi"
TellingSettled ==
    Telling =>
        /\ dev.phase = "turn" => clk
        /\ dev.phase \in {"ready", "answered"} => DataLow
        /\ dev.phase \in {"linger", "ack"} => ~DataLow
        /\ dev.phase = "low" => pc # "r_high"
        /\ dev.phase = "high" => pc # "r_low" /\ (Len(dev.shift) = Bits => pc = "r_high")

\* The steps of a drive are there to be taken.
LEMMA SettledWaits ==
    ASSUME Types, alive, Settled
    PROVE  Synced /\ HearingSettled /\ TellingSettled
<1>1. Synced
    BY DEF Settled, AtOnce, Synced
<1>2. AtOnce = IF dev.att \/ dev.role = "listener" THEN Listens
               ELSE IF dev.role = "talker" THEN Talks ELSE {}
    BY <1>1 DEF AtOnce, Synced
<1>3. ASSUME Hearing PROVE HearingSettled
    <2>1. Listens = {}
        BY <1>2, <1>3 DEF Hearing, Settled
    <2>2. /\ When(dev.phase = "wait" /\ ClkLow, [dev EXCEPT !.phase = "hold"]) = {}
          /\ When(dev.phase = "hold" /\ ~ClkLow, [dev EXCEPT !.phase = "open", !.data = FALSE]) = {}
          /\ When(dev.phase = "open" /\ ClkLow, [dev EXCEPT !.phase = "low"]) = {}
          /\ When(dev.phase = "eoi", [dev EXCEPT !.phase = "open", !.data = FALSE]) = {}
          /\ When(dev.phase = "low" /\ ~ClkLow,
                  [dev EXCEPT !.phase = "high", !.shift = Append(@, ~DataLow)]) = {}
          /\ When(dev.phase = "high" /\ ClkLow, IF Len(dev.shift) = Bits THEN Hear(dev.shift)
                                               ELSE [dev EXCEPT !.phase = "low"]) = {}
        BY <2>1 DEF Listens
    <2>. QED
        BY <2>2 DEF When, HearingSettled
<1>4. ASSUME Telling PROVE TellingSettled
    <2>1. Talks = {}
        BY <1>2, <1>4 DEF Telling, Settled
    <2>2. /\ When(dev.phase = "turn" /\ ~clk, [dev EXCEPT !.phase = "busy", !.clk = TRUE]) = {}
          /\ When(dev.phase = "ready" /\ ~DataLow,
                  IF Last THEN [dev EXCEPT !.phase = "linger"] ELSE NextBit(dev)) = {}
          /\ When(dev.phase = "linger" /\ DataLow, [dev EXCEPT !.phase = "answered"]) = {}
          /\ When(dev.phase = "answered" /\ ~DataLow, NextBit(dev)) = {}
          /\ When(dev.phase = "low" /\ pc = "r_high", [dev EXCEPT !.phase = "high", !.clk = FALSE]) = {}
          /\ When(dev.phase = "high" /\ pc # "r_high" /\ (pc = "r_low" \/ Len(dev.shift) = Bits),
                  NextBit(dev)) = {}
          /\ When(dev.phase = "ack" /\ DataLow,
                  [dev EXCEPT !.phase = "busy", !.shift = <<>>, !.out = Tail(@)]) = {}
        BY <2>1 DEF Talks
    <2>. QED
        BY <2>2 DEF When, TellingSettled
<1>. QED
    BY <1>1, <1>3, <1>4 DEF HearingSettled, TellingSettled

\* A drive that is not reacting has nothing left to do for itself either.
LEMMA UnreactingWaits ==
    ASSUME Types, alive, ~Reacting
    PROVE  /\ Settled
           /\ Hearing /\ dev.phase = "open" /\ ~ClkLow /\ pc \in {"s_eoi_high", "s_eoi_low"} => dev.eoi
           /\ Telling /\ dev.phase = "busy" => dev.out = <<>>
<1>1. AtOnce = {} /\ AfterAWhile = {}
    BY DEF Reacting
<1>2. Synced
    BY <1>1, SettledWaits DEF Settled
<1>3. ASSUME Hearing, dev.phase = "open", ~ClkLow, pc \in {"s_eoi_high", "s_eoi_low"}
      PROVE  dev.eoi
    BY <1>1, <1>2, <1>3 DEF AfterAWhile, When, Synced, Hearing
<1>4. ASSUME Telling, dev.phase = "busy"
      PROVE  dev.out = <<>>
    BY <1>1, <1>2, <1>4 DEF AfterAWhile, When, Synced, Telling
<1>. QED
    BY <1>1, <1>3, <1>4 DEF Settled

\* The step of the dialog that is being made is allowed.
LEMMA Ahead ==
    ASSUME Types, NEW c \in Contexts, Standing(c), script # <<>>
    PROVE  /\ Op \in Ops /\ Allowed(c, Op)
           /\ After(c, Op) \in Contexts /\ Leads(Tail(script), After(c, Op))
<1>1. script \in Seq(Ops) /\ Op \in Ops
    BY OpTypes DEF Types, ControllerTypes, PlaceTypes
<1>. QED
    BY <1>1, LeadsTail DEF Standing, Op

\* What it leads to, part by part.
LEMMA AfterFields ==
    ASSUME NEW c \in Contexts, NEW op \in Ops
    PROVE  /\ op.op = "atn" =>
                  /\ After(c, op).atn = op.on /\ After(c, op).role = c.role
                  /\ After(c, op).fresh = c.fresh /\ ~After(c, op).turned
           /\ op.op = "send" =>
                  /\ After(c, op).atn = c.atn /\ After(c, op).fresh = c.fresh
                  /\ After(c, op).turned = c.turned
                  /\ After(c, op).role = IF c.atn THEN Addressed(op.byte, c.role) ELSE c.role
           /\ op.op = "turn" =>
                  /\ After(c, op).atn = c.atn /\ After(c, op).role = c.role
                  /\ After(c, op).fresh = c.fresh /\ After(c, op).turned
           /\ op.op = "receive" =>
                  /\ After(c, op).atn = c.atn /\ After(c, op).role = c.role
                  /\ ~After(c, op).fresh /\ After(c, op).turned = c.turned
           /\ op.op \in {"check", "result"} => After(c, op) = c
<1>1. CASE op.op = "atn"
    BY <1>1 DEF After, Contexts
<1>2. CASE op.op = "send"
    BY <1>2 DEF After, Contexts
<1>3. CASE op.op = "turn"
    BY <1>3 DEF After, Contexts
<1>4. CASE op.op = "receive"
    BY <1>4 DEF After, Contexts
<1>5. CASE op.op \in {"check", "result"}
    BY <1>5 DEF After
<1>. QED
    BY <1>1, <1>2, <1>3, <1>4, <1>5 DEF Ops, Moves

\* Bytes are sent to a drive that hears, and received from one that was told to talk.
LEMMA WhoIsThere ==
    ASSUME Types, NEW c \in Contexts, Standing(c), Agreed(c)
    PROVE  /\ pc \in Sending => Synced /\ Hearing /\ (c.atn \/ c.role = "listener")
           /\ pc \in Receiving => Synced /\ Telling /\ c.turned /\ c.fresh
<1>. c.atn \in BOOLEAN /\ c.fresh \in BOOLEAN /\ c.turned \in BOOLEAN
    BY DEF Contexts
<1>1. ASSUME pc \in Sending PROVE Synced /\ Hearing /\ (c.atn \/ c.role = "listener")
    <2>1. script # <<>> /\ Op.op = "send" /\ Synced /\ c.atn = atn
        BY <1>1 DEF Types, ControllerTypes, PlaceTypes, Sending, Standing
    <2>2. c.atn \/ c.role = "listener"
        BY <2>1, Ahead DEF Allowed
    <2>3. CASE c.atn
        BY <2>1, <2>3 DEF Hearing, Synced
    <2>4. CASE ~c.atn
        <3>1. Now(c).role = "listener"
            BY <2>1, <2>2, <2>4, Ahead, AfterFields DEF Now
        <3>. QED
            BY <2>1, <2>2, <2>4, <3>1 DEF Agreed, Hearing
    <2>. QED
        BY <2>3, <2>4
<1>2. ASSUME pc \in Receiving PROVE Synced /\ Telling /\ c.turned /\ c.fresh
    <2>1. script # <<>> /\ Op.op = "receive" /\ Synced /\ c.atn = atn /\ pc # "s_ack"
        BY <1>2 DEF Types, ControllerTypes, PlaceTypes, Receiving, Standing
    <2>2. c.turned /\ c.fresh
        BY <2>1, Ahead DEF Allowed
    <2>. QED
        BY <2>1, <2>2 DEF Standing, Agreed, Now, Acked, Telling, Synced
<1>. QED
    BY <1>1, <1>2

------------------------------------------------------------------------------
(* The drive stays in step.                                                *)

\* What its steps leave alone.
LEMMA DriveLeaves ==
    ASSUME Drive
    PROVE  /\ atn' = atn /\ clk' = clk /\ data' = data /\ script' = script /\ pc' = pc
           /\ timeout' = timeout /\ bit' = bit /\ inbox' = inbox /\ eoi' = eoi /\ ret' = ret
           /\ Short' = Short
           /\ alive' = alive /\ late' = late /\ sent' = sent /\ Op' = Op
BY DEF Drive, lines, Op, Short

\* What was received stays.
LEMMA DriveLeavesReceived ==
    ASSUME Drive, NEW c \in Contexts, Received(c)
    PROVE  Received(c)'
BY DriveLeaves DEF Received, Complete

\* ATN changes only between bytes, and every drive begins to listen or to talk anew.
LEMMA AttendsInStep ==
    ASSUME Types, NEW c \in Contexts, InStep(c), Drive, Attends
    PROVE  InStep(c)'
<1>1. pc = "idle" /\ pc' = "idle" /\ ~c.turned /\ c.atn = atn
    BY DriveLeaves DEF InStep, Standing, Attends
<1>2. Synced'
    BY DriveLeaves DEF Attends, Synced
<1>3. Standing(c)'
    BY <1>1, <1>2, DriveLeaves DEF InStep, Standing, Attends
<1>4. Agreed(c)'
    BY <1>1, DriveLeaves DEF InStep, Agreed, Attends, Acked, Now
<1>5. Received(c)'
    BY DriveLeavesReceived DEF InStep
<1>6. HearingInStep'
    <2>. SUFFICES ASSUME Hearing' PROVE HearingInStep'
        BY DEF HearingInStep
    <2>1. dev'.phase = "wait" /\ dev'.data /\ ~dev'.eoi
        BY DriveLeaves DEF Hearing, Attends, To
    <2>. QED
        BY <1>1, <2>1 DEF HearingInStep, HearingIdle, HearingReady, HearingEoi, HearingLow,
                          HearingHigh, HearingAck, Held, Receiving
<1>7. TellingInStep(c)'
    <2>. SUFFICES ASSUME Telling' PROVE TellingInStep(c)'
        BY DEF TellingInStep
    <2>1. dev'.phase = "turn" /\ Quiet' /\ ~atn /\ dev.role = "talker"
        BY DriveLeaves DEF Telling, Attends, To, Quiet
    <2>2. c.role = "talker"
        BY <1>1, <2>1 DEF InStep, Agreed, Now, Acked
    <2>3. clk'
        BY <1>1, <2>1, <2>2, DriveLeaves DEF InStep, Standing
    <2>. QED
        BY <1>1, <2>1, <2>3 DEF TellingInStep, Sending
<1>. QED
    BY <1>3, <1>4, <1>5, <1>6, <1>7 DEF InStep

\* A drive that hears follows the edges, and takes the byte when it was sent whole.
LEMMA HearsInStep ==
    ASSUME Types, NEW c \in Contexts, InStep(c), Drive, Hears
    PROVE  InStep(c)'
<1>. Synced /\ Hearing /\ ~dev.clk /\ Bits \in Nat /\ Bits # 0
    BY Bounds DEF Hears, Types, DriveTypes, Hearing, Telling
<1>. Standing(c) /\ Agreed(c) /\ pc \notin Receiving
    BY DEF InStep, HearingInStep
<1>1. dev'.att = dev.att /\ dev'.clk = dev.clk /\ (dev.att \/ dev'.role = dev.role)
    BY DEF Hears, HearsClk, HearsReady, HearsLow, HearsEoi, HearsOn, HearsBit, HearsNext, HearsByte,
           Keeps, Stays, Same
<1>2. Synced' /\ Hearing' /\ ~Telling'
    BY <1>1, DriveLeaves DEF Synced, Hearing, Telling
<1>3. Standing(c)'
    BY <1>1, <1>2, DriveLeaves DEF Standing
<1>4. TellingInStep(c)' /\ Received(c)'
    BY <1>2, DriveLeavesReceived DEF TellingInStep, InStep
<1>5. CASE pc = "s_ack"
    <2>1. /\ clk /\ ~data
          /\ \/ Held /\ dev.phase = "hold"
             \/ dev.phase = "high" /\ Len(dev.shift) = Bits /\ Shifted /\ ~dev.data /\ dev.eoi = Op.eoi
        BY <1>5 DEF InStep, HearingInStep, HearingAck
    <2>2. HearsByte /\ dev.phase = "high" /\ Shifted /\ dev.eoi = Op.eoi /\ Len(dev.shift) = Bits
        BY <2>1 DEF Hears, HearsClk, HearsReady, HearsLow, HearsEoi, HearsOn, HearsBit, HearsNext,
                    HearsByte, ClkLow
    <2>3. script # <<>> /\ Op.op = "send" /\ Op.byte \in Byte
        BY <1>5, OpTypes DEF Types, ControllerTypes, PlaceTypes, Sending
    <2>4. dev.shift = Op.byte
        <3>1. dev.shift \in [1 .. Bits -> BOOLEAN] /\ Op.byte \in [1 .. Bits -> BOOLEAN]
            BY <2>2, <2>3, LenProperties DEF Types, DriveTypes, Device, Byte
        <3>. QED
            BY <2>2, <3>1 DEF Shifted
    <2>5. HearingInStep'
        <3>1. Held' /\ dev'.phase = "hold"
            BY <2>2 DEF HearsByte, Held, To
        <3>. QED
            BY <1>5, <2>1, <3>1, DriveLeaves
               DEF HearingInStep, HearingIdle, HearingReady, HearingEoi, HearingLow, HearingHigh,
                   HearingAck, Receiving
    <2>6. Agreed(c)'
        <3>1. ~Acked /\ Acked'
            BY <1>5, <2>2, DriveLeaves DEF Acked, HearsByte, To
        <3>2. /\ dev.role = c.role /\ dev.heard = sent
              /\ (c.role = "talker" /\ c.fresh /\ ~c.turned => dev.out = Message)
            BY <3>1 DEF Agreed, Now
        <3>. DEFINE d == After(c, Op)
        <3>3. /\ d.role = IF c.atn THEN Addressed(Op.byte, c.role) ELSE c.role
              /\ d.fresh = c.fresh /\ d.turned = c.turned /\ c.atn = atn /\ dev.att = atn
            BY <2>3, Ahead, AfterFields DEF Standing, Synced
        <3>4. Now(c)' = d
            BY <3>1, DriveLeaves DEF Now
        <3>. HIDE DEF d
        <3>5. dev'.role = d.role
            BY <2>2, <2>4, <3>2, <3>3 DEF HearsByte
        <3>6. dev'.heard = IF ~atn THEN Append(sent, [byte |-> Op.byte, eoi |-> Op.eoi]) ELSE sent
            BY <2>2, <2>4, <3>2, <3>3 DEF HearsByte
        <3>7. d.role = "talker" /\ d.fresh /\ ~d.turned => dev'.out = Message
            <4>1. CASE atn /\ Op.byte = TALK
                BY <2>2, <2>4, <3>3, <4>1 DEF HearsByte
            <4>2. CASE ~(atn /\ Op.byte = TALK)
                <5>1. dev'.out = dev.out
                    BY <2>2, <2>4, <3>3, <4>2 DEF HearsByte
                <5>2. d.role = "talker" => c.role = "talker"
                    BY <3>3, <4>2 DEF Addressed
                <5>. QED
                    BY <3>2, <3>3, <5>1, <5>2
            <4>. QED
                BY <4>1, <4>2
        <3>. QED
            BY <3>1, <3>4, <3>5, <3>6, <3>7, DriveLeaves DEF Agreed
    <2>. QED
        BY <1>3, <1>4, <2>5, <2>6 DEF InStep
<1>6. CASE pc # "s_ack"
    <2>0. /\ HearingIdle /\ HearingReady /\ HearingEoi /\ HearingLow /\ HearingHigh
        BY DEF InStep, HearingInStep
    <2>. USE DEF Keeps, Stays, Same, To
    <2>1. ~HearsByte
        <3>1. CASE pc \in {"idle", "s_ready", "s_eoi_high", "s_eoi_low"}
            BY <2>0, <3>1 DEF HearingIdle, HearingReady, HearingEoi, Held, HearsByte
        <3>2. CASE pc = "s_low"
            BY <2>0, <3>2 DEF HearingLow, HearsByte, ClkLow
        <3>3. CASE pc = "s_high"
            BY <2>0, <3>3 DEF HearingHigh, HearsByte, Types, ControllerTypes, CountTypes
        <3>. QED
            BY <1>6, <3>1, <3>2, <3>3
               DEF Types, ControllerTypes, PlaceTypes, Sending
    <2>2. Agreed(c)'
        <3>1. dev'.role = dev.role /\ dev'.heard = dev.heard /\ dev'.out = dev.out
            BY <2>1 DEF Hears, HearsClk, HearsReady, HearsLow, HearsEoi, HearsOn, HearsBit, HearsNext
        <3>. QED
            BY <1>6, <3>1, DriveLeaves DEF Agreed, Acked, Now
    <2>3. HearingIdle' /\ HearingReady'
        <3>1. CASE pc = "idle"
            BY <2>0, <3>1, DriveLeaves
               DEF HearingIdle, HearingReady, Held, ClkLow, Hears, HearsClk, HearsReady, HearsLow, HearsEoi,
                   HearsOn, HearsBit, HearsNext, HearsByte
        <3>2. CASE pc = "s_ready"
            BY <2>0, <3>2, DriveLeaves
               DEF HearingIdle, HearingReady, Held, ClkLow, Hears, HearsClk, HearsReady, HearsLow, HearsEoi,
                   HearsOn, HearsBit, HearsNext, HearsByte
        <3>. QED
            BY <3>1, <3>2, DriveLeaves DEF HearingIdle, HearingReady
    <2>4. HearingEoi'
        BY <2>0, <2>1, DriveLeaves
           DEF HearingEoi, ClkLow, Hears, HearsClk, HearsReady, HearsLow, HearsEoi, HearsOn, HearsBit,
               HearsNext
    <2>5. HearingLow'
        <3>. SUFFICES ASSUME pc = "s_low" PROVE HearingLow'
            BY DriveLeaves DEF HearingLow
        <3>. ~clk
            BY <2>0 DEF HearingLow
        <3>. Op.byte \in Byte /\ Op.eoi \in BOOLEAN /\ dev.eoi \in BOOLEAN /\ bit \in 0 .. Bits
            BY OpTypes DEF Types, ControllerTypes, PlaceTypes, CountTypes, Sending, DriveTypes, Device
        <3>1. CASE bit = 0
            BY <2>0, <2>1, <3>1, DriveLeaves
               DEF HearingLow, ClkLow, Hears, HearsClk, HearsReady, HearsLow, HearsEoi, HearsOn, HearsBit,
                   HearsNext
        <3>2. CASE bit # 0
            <4>1. HearsBit /\ dev.phase = "low" /\ Len(dev.shift) = bit - 1
                BY <2>0, <2>1, <3>2
                   DEF HearingLow, ClkLow, Hears, HearsClk, HearsReady, HearsLow, HearsEoi, HearsOn,
                       HearsBit, HearsNext
            <4>2. /\ Shifted /\ data = ~Op.byte[bit] /\ ~dev.data /\ dev.eoi = Op.eoi
                BY <2>0, <3>2 DEF HearingLow
            <4>3. Op.byte[bit] \in BOOLEAN /\ bit \in 1 .. Bits /\ dev.shift \in Seq(BOOLEAN)
                <5>1. bit \in 1 .. Bits /\ dev.shift \in Seq(BOOLEAN)
                    BY <3>2, Bounds DEF Types, DriveTypes, Device
                <5>. QED
                    BY <5>1 DEF Byte
            <4>4. dev'.shift = Append(dev.shift, Op.byte[bit])
                BY <4>1, <4>2, <4>3 DEF HearsBit, DataLow
            <4>5. Len(dev'.shift) = bit /\ \A i \in 1 .. bit : dev'.shift[i] = Op.byte[i]
                BY <4>1, <4>2, <4>3, <4>4 DEF Shifted
            <4>6. Shifted'
                BY <4>5, DriveLeaves DEF Shifted
            <4>. QED
                BY <3>2, <4>1, <4>2, <4>5, <4>6, DriveLeaves DEF HearingLow, HearsBit
        <3>. QED
            BY <3>1, <3>2
    <2>6. HearingHigh'
        <3>. SUFFICES ASSUME pc = "s_high" PROVE HearingHigh'
            BY DriveLeaves DEF HearingHigh
        <3>1. clk /\ bit < Bits /\ bit \in Nat
            BY <2>0 DEF HearingHigh, Types, ControllerTypes, CountTypes
        <3>2. dev'.shift = dev.shift /\ dev'.data = dev.data /\ dev'.eoi = dev.eoi /\ dev'.phase = "low"
            BY <2>0, <2>1, <3>1
               DEF HearingHigh, ClkLow, Hears, HearsClk, HearsReady, HearsLow, HearsEoi, HearsOn, HearsBit,
                   HearsNext
        <3>. QED
            BY <2>0, <3>1, <3>2, DriveLeaves DEF HearingHigh, Shifted
    <2>7. HearingInStep'
        BY <1>6, <2>3, <2>4, <2>5, <2>6, DriveLeaves DEF HearingInStep, HearingAck
    <2>. QED
        BY <1>3, <1>4, <2>2, <2>7 DEF InStep
<1>. QED
    BY <1>5, <1>6

\* What is left of the message after one more byte.
LEMMA LeftTail ==
    ASSUME NEW n \in Nat, Left(n), dev.out # <<>>
    PROVE  /\ n < Len(Message)
           /\ dev.out[1] = Message[n + 1]
           /\ Tail(dev.out) = SubSeq(Message, n + 2, Len(Message))
           /\ Last <=> n + 1 = Len(Message)
<1>1. Message \in Seq(Byte) /\ Len(Message) \in Nat
    BY Bounds, LenProperties
<1>2. n < Len(Message)
    <2>1. CASE Len(Message) < n + 1
        BY <1>1, <2>1, SubSeqEmpty DEF Left
    <2>. QED
        BY <1>1, <2>1
<1>3. Head(dev.out) = Message[n + 1] /\ Tail(dev.out) = SubSeq(Message, n + 2, Len(Message))
    <2>1. n + 1 \in 1 .. Len(Message) /\ Len(Message) \in n + 1 .. Len(Message) /\ (n + 1) + 1 = n + 2
        BY <1>1, <1>2
    <2>. QED
        BY <1>1, <2>1, HeadTailOfSubSeq DEF Left
<1>4. \A i \in n + 1 .. Len(Message) : Message[i] \in Byte
    BY <1>1, ElementOfSeq
<1>5. dev.out \in Seq(Byte) /\ Len(dev.out) = Len(Message) - n
    BY <1>1, <1>2, <1>4, SubSeqProperties DEF Left
<1>. QED
    BY <1>1, <1>2, <1>3, <1>5 DEF Last

\* A drive that talks gives one bit after the other, and the next byte when one was taken.
LEMMA TellsInStep ==
    ASSUME Types, NEW c \in Contexts, InStep(c), Drive, Tells
    PROVE  InStep(c)'
<1>. Synced /\ Telling /\ Bits \in Nat /\ Bits # 0 /\ dev \in Device /\ Len(dev.shift) \in Nat
    BY Bounds DEF Tells, Types, DriveTypes, Device
<1>. Standing(c) /\ Agreed(c) /\ pc \notin Sending
    BY DEF InStep, TellingInStep
<1>. USE DEF Keeps, Stays, Same, To
<1>1. /\ dev'.att = dev.att /\ dev'.role = dev.role /\ dev'.heard = dev.heard
      /\ TellsByte \/ dev'.out = dev.out
    BY DEF Tells, TellsTurn, TellsReady, TellsLinger, TellsAnswered, TellsHigh, TellsBit, TellsEnd, TellsByte
<1>2. Synced' /\ Telling' /\ ~Hearing'
    BY <1>1, DriveLeaves DEF Synced, Hearing, Telling
<1>3. c.turned
    <2>. SUFFICES ASSUME ~c.turned PROVE FALSE
        OBVIOUS
    <2>1. clk /\ dev.phase = "turn"
        BY DEF InStep, TellingInStep
    <2>. QED
        BY <2>1 DEF Tells, TellsTurn, TellsReady, TellsLinger, TellsAnswered, TellsHigh, TellsBit, TellsEnd,
                    TellsByte, Follows
<1>4. Standing(c)' /\ ~clk /\ ~atn
    BY <1>2, <1>3, DriveLeaves DEF Standing
<1>5. Agreed(c)'
    BY <1>1, <1>3, DriveLeaves DEF Agreed, Acked, Now, Sending
<1>6. HearingInStep' /\ Received(c)'
    BY <1>2, DriveLeavesReceived DEF HearingInStep, InStep
<1>7. TellingInStep(c)'
    <2>. SUFFICES ASSUME c.fresh PROVE TellingInStep(c)'
        BY <1>3, DriveLeaves DEF TellingInStep, Sending
    <2>0. /\ pc \in Receiving \ {"r_clk"} => Left(Len(inbox) - 1)
          /\ TellingIdle /\ TellingClk /\ TellingEoi /\ TellingAnswer
          /\ TellingLow /\ TellingHigh /\ TellingDone
        BY <1>3 DEF InStep, TellingInStep
    <2>1. ASSUME TellsBit
          PROVE  /\ dev'.phase = "low" /\ dev'.clk /\ Len(dev'.shift) = Len(dev.shift) + 1
                 /\ dev'.data = ~dev'.out[1][Len(dev.shift) + 1]
        BY <2>1 DEF TellsBit, Device
    <2>2. ASSUME TellsByte
          PROVE  pc = "idle" /\ Len(inbox) > 0 /\ Left(Len(inbox) - 1) /\ Finished
        <3>1. dev.phase = "ack" /\ DataLow
            BY <2>2 DEF TellsByte
        <3>2. pc = "idle"
            <4>1. CASE pc = "r_done"
                BY <2>0, <3>1, <4>1 DEF TellingDone, Finished, DataLow
            <4>2. CASE pc \in {"r_clk", "r_eoi", "r_answer", "r_low", "r_high"}
                BY <2>0, <3>1, <4>2 DEF TellingClk, TellingEoi, TellingAnswer, TellingLow, TellingHigh,
                                        Waits, Lingers, Begun, Bit
            <4>. QED
                BY <4>1, <4>2 DEF Types, ControllerTypes, PlaceTypes, Receiving
        <3>. QED
            BY <2>0, <3>1, <3>2 DEF TellingIdle, Waits, Lingers, Begun, Bit
    <2>3. pc \in Receiving => Left(Len(inbox) - 1)' \/ pc = "r_clk"
        BY <1>1, <2>0, <2>2, DriveLeaves DEF Left, Receiving
    <2>. USE DEF TellsTurn, TellsReady, TellsLinger, TellsAnswered, TellsHigh, TellsEnd
    <2>4. TellingIdle'
        <3>. SUFFICES ASSUME pc = "idle" PROVE TellingIdle'
            BY DriveLeaves DEF TellingIdle
        <3>1. CASE Left(Len(inbox)) /\ dev.phase = "turn" /\ Quiet
            <4>1. TellsTurn
                BY <3>1 DEF Tells, TellsBit, TellsByte, Follows
            <4>. QED
                BY <3>1, <4>1, DriveLeaves DEF TellingIdle, Left, Waits, Quiet
        <3>2. CASE Left(Len(inbox)) /\ Waits
            <4>1. CASE TellsReady \/ TellsLinger
                BY <3>2, <4>1, DriveLeaves DEF TellingIdle, Left, Waits, Lingers, Quiet, DataLow, Last
            <4>2. CASE TellsBit
                <5>1. Len(dev.shift) = 0 /\ ~Last /\ dev'.out = dev.out
                    BY <3>2, <4>2 DEF Waits, TellsBit, Follows
                <5>2. Begun'
                    BY <2>1, <4>2, <5>1 DEF Begun, Bit, Last
                <5>. QED
                    BY <3>2, <5>1, <5>2, DriveLeaves DEF TellingIdle, Left
            <4>. QED
                BY <3>2, <4>1, <4>2 DEF Waits, Tells, TellsByte, Follows
        <3>3. CASE Lingers \/ Begun
            BY <3>3 DEF Lingers, Begun, Bit, Quiet, DataLow, Tells, TellsBit, TellsByte, Follows
        <3>4. CASE Len(inbox) > 0 /\ Left(Len(inbox) - 1) /\ data /\ Finished
            <4>1. CASE TellsEnd
                BY <3>4, <4>1, DriveLeaves DEF TellingIdle, Left, Finished
            <4>2. CASE TellsByte
                <5>1. dev.out # <<>> /\ Len(inbox) \in Nat
                    BY <3>4, LenProperties DEF Finished, Types, DriveTypes, InboxTypes
                <5>2. Tail(dev.out) = SubSeq(Message, Len(inbox) + 1, Len(Message))
                    BY <3>4, <5>1, LeftTail
                <5>. QED
                    BY <3>4, <4>2, <5>2, DriveLeaves DEF TellingIdle, Left, Finished, Waits, TellsByte
            <4>. QED
                BY <3>4, <4>1, <4>2 DEF Finished, Tells, TellsBit, Follows
        <3>. QED
            BY <2>0, <3>1, <3>2, <3>3, <3>4 DEF TellingIdle
    <2>5. TellingClk'
        <3>. SUFFICES ASSUME pc = "r_clk" PROVE TellingClk'
            BY DriveLeaves DEF TellingClk
        <3>0. ~data /\ ~eoi /\ Left(Len(inbox)) /\ (Waits \/ Lingers \/ Begun) /\ (timeout = 0 => Begun)
            BY <2>0 DEF TellingClk
        <3>1. Waits
            BY <3>0 DEF Lingers, Begun, Bit, Quiet, DataLow, Tells, TellsBit, TellsByte, Follows
        <3>2. timeout # 0
            BY <3>0, <3>1 DEF Waits, Begun, Bit
        <3>3. CASE TellsReady \/ TellsLinger
            BY <3>0, <3>1, <3>2, <3>3, DriveLeaves DEF TellingClk, Left, Waits, Lingers, Quiet, DataLow, Last
        <3>4. CASE TellsBit
            <4>1. Len(dev.shift) = 0 /\ ~Last /\ dev'.out = dev.out
                BY <3>1, <3>4 DEF Waits, TellsBit, Follows
            <4>2. Begun'
                BY <2>1, <3>4, <4>1 DEF Begun, Bit, Last
            <4>. QED
                BY <3>0, <4>1, <4>2, DriveLeaves DEF TellingClk, Left
        <3>. QED
            BY <3>1, <3>3, <3>4 DEF Waits, Tells, TellsByte, Follows
    <2>6. TellingEoi'
        <3>. SUFFICES ASSUME pc = "r_eoi" PROVE TellingEoi'
            BY DriveLeaves DEF TellingEoi
        <3>0. ~data /\ bit = 0 /\ ((dev.phase = "ready" /\ Quiet) \/ Lingers \/ Begun)
            BY <2>0 DEF TellingEoi
        <3>1. dev.phase = "ready" /\ Quiet
            BY <3>0 DEF Lingers, Begun, Bit, Quiet, DataLow, Tells, TellsBit, TellsByte, Follows
        <3>2. CASE TellsLinger
            BY <3>0, <3>1, <3>2, DriveLeaves DEF TellingEoi, Lingers, Quiet, Last
        <3>3. CASE TellsBit
            BY <2>1, <3>0, <3>1, <3>3, DriveLeaves DEF TellingEoi, TellsBit, Follows, Quiet, Begun, Bit, Last
        <3>. QED
            BY <3>1, <3>2, <3>3 DEF Quiet, Tells, TellsByte, Follows
    <2>7. TellingAnswer'
        BY <2>0, DriveLeaves
           DEF TellingAnswer, Quiet, DataLow, Last, Tells, TellsBit, TellsByte, Follows
    <2>8. TellingLow'
        <3>. SUFFICES ASSUME pc = "r_low" PROVE TellingLow'
            BY DriveLeaves DEF TellingLow
        <3>0. /\ ~data /\ bit < Bits /\ bit \in Nat
              /\ \/ bit = 0 /\ Quiet /\ dev.phase = "answered"
                 \/ bit > 0 /\ dev.phase = "high" /\ ~dev.clk /\ Len(dev.shift) = bit
                 \/ Bit(bit + 1)
            BY <2>0 DEF TellingLow, Types, ControllerTypes, CountTypes
        <3>1. dev.phase \in {"answered", "high"} /\ Len(dev.shift) = bit
            <4>1. ~Bit(bit + 1)
                BY DEF Bit, Tells, TellsBit, TellsByte, Follows
            <4>. QED
                BY <3>0, <4>1 DEF Quiet
        <3>2. TellsBit
            BY <3>0, <3>1 DEF Tells, TellsByte, Follows
        <3>. QED
            BY <2>1, <3>0, <3>1, <3>2, DriveLeaves DEF TellingLow, Bit
    <2>9. TellingHigh'
        <3>. SUFFICES ASSUME pc = "r_high" PROVE TellingHigh'
            BY DriveLeaves DEF TellingHigh
        <3>1. TellsHigh
            BY <2>0 DEF TellingHigh, Tells, TellsBit, TellsByte, Follows
        <3>. QED
            BY <2>0, <3>1, DriveLeaves DEF TellingHigh
    <2>10. TellingDone'
        <3>. SUFFICES ASSUME pc = "r_done" PROVE TellingDone'
            BY DriveLeaves DEF TellingDone
        <3>1. TellsEnd
            BY <2>0, <2>2 DEF TellingDone, Finished, Tells, TellsBit, Follows
        <3>. QED
            BY <2>0, <3>1, DriveLeaves DEF TellingDone, Finished
    <2>. QED
        BY <1>3, <2>3, <2>4, <2>5, <2>6, <2>7, <2>8, <2>9, <2>10, DriveLeaves
           DEF TellingInStep, Sending, Receiving
<1>. QED
    BY <1>4, <1>5, <1>6, <1>7 DEF InStep

------------------------------------------------------------------------------
(* The controller stays in step when it sends.                             *)

\* The context does not change, nor what was received, until the byte is sent.
LEMMA SendingStands ==
    ASSUME Types, NEW c \in Contexts, InStep(c), Synced, Hearing, c.atn \/ c.role = "listener",
           pc \in {"idle"} \cup Sending, pc' \in Sending, ret' = ret,
           pc = "idle" => script # <<>>,
           UNCHANGED <<atn, script, inbox, eoi, dev>>
    PROVE  Standing(c)' /\ Received(c)' /\ TellingInStep(c)' /\ Synced' /\ Hearing'
<1>. Standing(c) /\ Received(c) /\ ~Telling /\ ~dev.clk
    BY DEF InStep, Hearing, Telling, Types, DriveTypes
<1>1. Synced' /\ Hearing' /\ ~Telling' /\ ~dev'.clk
    BY DEF Synced, Hearing, Telling
<1>2. ~c.turned /\ pc' # "idle" /\ (c.role = "talker" /\ ~atn => FALSE) /\ ret' = 0
    BY DEF Standing, Sending, Types, ControllerTypes, PlaceTypes
<1>3. Standing(c)'
    BY <1>1, <1>2 DEF Standing
<1>4. Received(c)'
    BY DEF Received, Complete, Sending
<1>. QED
    BY <1>1, <1>3, <1>4 DEF TellingInStep

\* A byte is taken in hand.
LEMMA SendByteInStep ==
    ASSUME Types, NEW c \in Contexts, InStep(c), Faultless, SendByte
    PROVE  InStep(c)'
<1>. USE DEF SendByte, lines
<1>1. pc = "idle" /\ script # <<>> /\ Op.op = "send" /\ Settled /\ alive
    BY DEF At, Faultless
<1>2. Synced /\ HearingSettled
    BY <1>1, SettledWaits
<1>3. c.atn \/ c.role = "listener"
    BY <1>1, Ahead DEF InStep, Allowed
<1>4. Hearing
    BY <1>1, <1>2, <1>3 DEF InStep, Standing, Agreed, Now, Acked, Hearing, Synced
<1>5. Standing(c)' /\ Received(c)' /\ TellingInStep(c)'
    BY <1>1, <1>2, <1>3, <1>4, SendingStands DEF Sending
<1>6. Agreed(c)'
    BY <1>1 DEF InStep, Agreed, Now, Acked
<1>7. HearingInStep'
    <2>1. Held
        BY <1>1, <1>2, <1>4 DEF InStep, HearingInStep, HearingIdle
    <2>. QED
        BY <2>1 DEF HearingInStep, HearingIdle, HearingReady, HearingEoi, HearingLow, HearingHigh,
                    HearingAck, Held, Receiving
<1>. QED
    BY <1>5, <1>6, <1>7 DEF InStep

\* Its edges follow each other when the drive has seen the one before.
LEMMA SendsInStep ==
    ASSUME Types, NEW c \in Contexts, InStep(c), Faultless, Faultless',
           SendReady \/ SendEoi \/ SendBit \/ BitValid \/ SendFrame
    PROVE  InStep(c)'
<1>0. pc \in Sending \ {"s_ack"} /\ alive /\ Bits \in Nat /\ Bits # 0 /\ Polls # 0
    BY Bounds DEF SendReady, SendEoi, SendBit, BitValid, SendFrame, Leaves, Sending, Faultless
<1>1. Synced /\ Hearing /\ (c.atn \/ c.role = "listener") /\ ~dev.clk
    BY <1>0, WhoIsThere DEF InStep, Hearing, Telling, Types, DriveTypes
<1>2. script # <<>> /\ Op.op = "send" /\ Op.byte \in Byte /\ Op.eoi \in BOOLEAN
    BY <1>0, OpTypes DEF Types, ControllerTypes, PlaceTypes
<1>3. HearingReady /\ HearingEoi /\ HearingLow /\ HearingHigh
    BY <1>1 DEF InStep, HearingInStep
<1>4. Settled => HearingSettled
    BY <1>0, SettledWaits
<1>5. ASSUME SendReady
      PROVE  /\ clk' = FALSE /\ pc' = (IF Op.eoi THEN "s_eoi_high" ELSE "s_low") /\ bit' = 0
             /\ UNCHANGED <<atn, data, script, ret, inbox, eoi, dev, sent>>
             /\ dev.phase = "hold" /\ dev.data /\ ~dev.eoi /\ ~data
    <2>1. pc = "s_ready" /\ Held /\ clk /\ ~data /\ timeout = Polls
        BY <1>3, <1>5 DEF SendReady, Leaves, HearingReady
    <2>2. Seen /\ AfterPoll # 0
        BY <1>0, <2>1 DEF Seen, DataLow, Held, AfterPoll
    <2>3. HearingSettled
        BY <1>4, <1>5, <2>2 DEF SendReady
    <2>4. dev.phase = "hold"
        BY <1>1, <2>1, <2>3 DEF HearingSettled, Held, ClkLow
    <2>. QED
        BY <1>5, <2>1, <2>2, <2>4 DEF SendReady, Held
<1>6. script' = script /\ Op' = Op /\ dev' = dev /\ atn' = atn /\ ret' = ret /\ inbox' = inbox
      /\ eoi' = eoi /\ pc' \in Sending /\ sent' = sent
    BY <1>5 DEF SendReady, SendEoi, SendBit, BitValid, SendFrame, Sending, Op, lines
<1>7. Standing(c)' /\ Received(c)' /\ TellingInStep(c)'
    BY <1>0, <1>1, <1>2, <1>6, SendingStands
<1>8. HearingInStep' /\ ~Acked'
    <2>. USE DEF HearingInStep, HearingIdle, HearingReady, HearingEoi, HearingLow, HearingHigh, HearingAck,
                 Receiving, Acked
    <2>1. CASE SendReady
        BY <1>5, <1>6, <2>1
    <2>2. CASE SendEoi /\ pc = "s_eoi_high"
        <3>1. Settled /\ clk' = FALSE /\ data' = data /\ bit' = bit /\ pc' = "s_eoi_low"
            BY <2>2 DEF SendEoi, Leaves
        <3>2. dev.phase = "open" /\ ~dev.data /\ ~data /\ Op.eoi /\ bit = 0
            BY <1>1, <1>3, <1>4, <2>2, <3>1 DEF HearingSettled, ClkLow
        <3>. QED
            BY <1>6, <3>1, <3>2
    <2>3. CASE SendEoi /\ pc = "s_eoi_low"
        <3>1. /\ clk' = FALSE /\ data' = data /\ bit' = bit /\ pc' = "s_low"
              /\ ~clk /\ ~data /\ Op.eoi /\ bit = 0
              /\ \/ dev.phase = "open" /\ ~dev.data
                 \/ dev.phase = "eoi" /\ dev.data /\ dev.eoi
            BY <1>3, <2>3 DEF SendEoi, Leaves
        <3>2. ASSUME dev.phase = "open", ~dev.data PROVE dev.eoi
            <4>1. ~Seen
                BY <2>3, <3>1, <3>2 DEF Seen, DataLow
            <4>2. ~Reacting
                BY <2>3, <4>1 DEF SendEoi, Leaves, Faultless
            <4>. QED
                BY <1>0, <1>1, <2>3, <3>1, <3>2, <4>2, UnreactingWaits DEF ClkLow
        <3>3. dev.eoi \in BOOLEAN
            BY DEF Types, DriveTypes, Device
        <3>. QED
            BY <1>2, <1>6, <3>1, <3>2, <3>3
    <2>4. CASE SendBit
        <3>1. pc = "s_low" /\ clk' = TRUE /\ data' = ~Op.byte[bit + 1] /\ bit' = bit /\ pc' = "s_high" /\ ~clk
              /\ HearingSettled /\ bit \in Nat
            BY <1>3, <1>4, <2>4 DEF SendBit, Types, ControllerTypes, CountTypes
        <3>2. CASE bit = 0
            <4>1. dev.phase = "open" /\ ~dev.data /\ dev.eoi = Op.eoi
                BY <1>1, <1>3, <3>1, <3>2 DEF HearingSettled, ClkLow
            <4>2. dev.shift = <<>>
                BY <1>1, <4>1 DEF Types, DriveTypes
            <4>3. Len(dev.shift) = 0 /\ Shifted'
                BY <1>6, <4>2 DEF Shifted
            <4>. QED
                BY <1>6, <3>1, <3>2, <4>1, <4>3
        <3>3. CASE bit # 0
            <4>1. /\ dev.phase = "high" /\ Len(dev.shift) = bit /\ ~dev.data /\ dev.eoi = Op.eoi /\ Shifted
                BY <1>1, <1>3, <3>1, <3>3 DEF HearingSettled, ClkLow
            <4>2. Shifted'
                BY <1>6, <4>1 DEF Shifted
            <4>. QED
                BY <1>6, <3>1, <3>3, <4>1, <4>2
        <3>. QED
            BY <3>2, <3>3
    <2>5. CASE BitValid
        <3>1. /\ pc = "s_high" /\ clk' = FALSE /\ data' = data /\ bit' = bit + 1 /\ pc' = "s_low" /\ clk
              /\ HearingSettled /\ bit \in Nat
            BY <1>3, <1>4, <2>5 DEF BitValid, Types, ControllerTypes, CountTypes
        <3>2. /\ dev.phase = "low" /\ Len(dev.shift) = bit /\ ~dev.data /\ dev.eoi = Op.eoi /\ Shifted
              /\ data = ~Op.byte[bit + 1]
            BY <1>1, <1>3, <3>1 DEF HearingSettled, ClkLow
        <3>3. Shifted'
            BY <1>6, <3>2 DEF Shifted
        <3>. QED
            BY <1>6, <3>1, <3>2, <3>3
    <2>6. CASE SendFrame
        <3>1. /\ pc = "s_low" /\ clk' = TRUE /\ data' = FALSE /\ pc' = "s_ack" /\ ~clk /\ bit = Bits
              /\ HearingSettled
            BY <1>3, <1>4, <2>6 DEF SendFrame
        <3>2. dev.phase = "high" /\ Len(dev.shift) = bit /\ ~dev.data /\ dev.eoi = Op.eoi /\ Shifted
            BY <1>0, <1>1, <1>3, <3>1 DEF HearingSettled, ClkLow
        <3>3. Shifted'
            BY <1>6, <3>2 DEF Shifted
        <3>. QED
            BY <1>6, <3>1, <3>2, <3>3
    <2>7. SendEoi => pc \in {"s_eoi_high", "s_eoi_low"}
        BY DEF SendEoi, Leaves
    <2>. QED
        BY <2>1, <2>2, <2>3, <2>4, <2>5, <2>6, <2>7
<1>9. Agreed(c)'
    BY <1>0, <1>6, <1>8 DEF InStep, Agreed, Now, Acked
<1>. QED
    BY <1>7, <1>8, <1>9 DEF InStep

\* The byte counts as sent when the drive has taken it.
LEMMA SendAckInStep ==
    ASSUME Types, NEW c \in Contexts, InStep(c), Faultless, SendAck
    PROVE  \E d \in Contexts : InStep(d)'
<1>0. /\ pc = "s_ack" /\ Settled /\ alive /\ pc' = "idle" /\ ret' = 0 /\ script' = Tail(script)
      /\ sent' = IF atn THEN sent ELSE Append(sent, [byte |-> Op.byte, eoi |-> Op.eoi])
      /\ UNCHANGED <<atn, clk, data, inbox, eoi, dev>>
    BY DEF SendAck, Leaves, Return, lines, Faultless
<1>1. script # <<>> /\ Op.op = "send"
    BY <1>0 DEF Types, ControllerTypes, PlaceTypes, Sending
<1>2. Standing(c) /\ Agreed(c) /\ Received(c)
    BY DEF InStep
<1>3. PICK d \in Contexts : d = After(c, Op) /\ Leads(script', d) /\ Op \in Ops
    BY <1>0, <1>1, <1>2, Ahead
<1>4. d.atn = atn /\ d.fresh = c.fresh /\ d.turned = c.turned
    BY <1>1, <1>2, <1>3, AfterFields DEF Standing
<1>5. Synced /\ Hearing /\ (c.atn \/ c.role = "listener") /\ HearingSettled /\ ~Telling /\ ~dev.clk
    BY <1>0, <1>2, WhoIsThere, SettledWaits DEF Sending, Hearing, Telling, Types, DriveTypes
<1>6. clk /\ ~data /\ Held /\ dev.phase = "hold" /\ Acked
    BY <1>0, <1>5 DEF InStep, HearingInStep, HearingAck, HearingSettled, ClkLow, Acked
<1>7. ~c.turned
    BY <1>2, <1>5 DEF Standing
<1>8. /\ dev.role = d.role /\ dev.heard = sent'
      /\ d.role = "talker" /\ d.fresh /\ ~d.turned => dev.out = Message
    BY <1>0, <1>2, <1>3, <1>6 DEF Agreed, Now
<1>9. ~atn => d.role = "listener"
    BY <1>1, <1>2, <1>3, <1>5, AfterFields DEF Standing
<1>10. Standing(d)'
    BY <1>0, <1>3, <1>4, <1>5, <1>6, <1>7, <1>9 DEF Standing
<1>11. Agreed(d)'
    BY <1>0, <1>8 DEF Agreed, Now, Acked
<1>12. Received(d)'
    BY <1>0, <1>2, <1>4 DEF Received, Complete
<1>13. HearingInStep'
    BY <1>0, <1>6 DEF HearingInStep, HearingIdle, HearingReady, HearingEoi, HearingLow, HearingHigh,
                      HearingAck, Held, Receiving
<1>14. TellingInStep(d)'
    BY <1>0, <1>5 DEF TellingInStep, Telling
<1>. QED
    BY <1>3, <1>10, <1>11, <1>12, <1>13, <1>14 DEF InStep

------------------------------------------------------------------------------
(* The controller stays in step when it receives.                          *)

\* The dialog stands where it is, and the drive goes on talking.
LEMMA ReceivingStands ==
    ASSUME Types, NEW c \in Contexts, InStep(c), Synced, Telling, c.turned,
           pc \in {"idle"} \cup Receiving, pc' \in {"idle"} \cup Receiving,
           pc = "idle" => script # <<>>, ret' \in {0, ret},
           UNCHANGED <<atn, clk, script, dev, sent>>
    PROVE  Standing(c)' /\ Agreed(c)' /\ HearingInStep' /\ Telling' /\ ~clk
<1>. Standing(c) /\ Agreed(c)
    BY DEF InStep
<1>1. Synced' /\ Telling' /\ ~Hearing'
    BY DEF Synced, Telling, Hearing
<1>2. Standing(c)' /\ ~clk
    <2>1. ret' = 0
        BY DEF Standing, Receiving, Types, ControllerTypes, PlaceTypes
    <2>. QED
        BY <1>1, <2>1 DEF Standing
<1>3. Agreed(c)'
    BY DEF Agreed, Now, Acked, Receiving
<1>. QED
    BY <1>1, <1>2, <1>3 DEF HearingInStep

\* A byte is waited for.
LEMMA ReceiveByteInStep ==
    ASSUME Types, NEW c \in Contexts, InStep(c), Faultless, ReceiveByte
    PROVE  InStep(c)'
<1>0. /\ pc = "idle" /\ script # <<>> /\ Op.op = "receive" /\ Settled /\ alive /\ ~eoi
      /\ ~data' /\ timeout' = Polls /\ Polls # 0 /\ pc' = "r_clk"
      /\ UNCHANGED <<atn, clk, script, inbox, eoi, ret, dev, sent>>
    BY Bounds DEF ReceiveByte, At, Faultless
<1>1. c.turned /\ c.fresh
    BY <1>0, Ahead DEF InStep, Allowed
<1>2. Synced /\ TellingSettled /\ Telling
    BY <1>0, <1>1, SettledWaits DEF InStep, Standing, Agreed, Now, Acked, Telling, Synced
<1>3. Standing(c)' /\ Agreed(c)' /\ HearingInStep' /\ ~clk
    BY <1>0, <1>1, <1>2, ReceivingStands DEF InStep, Standing, Receiving
<1>4. Received(c)'
    BY <1>0 DEF InStep, Received, Complete
<1>5. TellingIdle
    BY <1>1, <1>2 DEF InStep, TellingInStep
<1>6. Left(Len(inbox)) /\ (Waits \/ Lingers \/ Begun)
    BY <1>0, <1>2, <1>3, <1>5 DEF TellingIdle, TellingSettled, Finished, DataLow
<1>7. TellingClk'
    BY <1>0, <1>6 DEF TellingClk, Left, Waits, Lingers, Quiet, Begun, Bit, Last
<1>8. TellingInStep(c)'
    BY <1>0, <1>1, <1>7 DEF TellingInStep, TellingIdle, TellingEoi, TellingAnswer, TellingLow, TellingHigh,
                            TellingDone, Sending, Receiving
<1>. QED
    BY <1>3, <1>4, <1>8 DEF InStep

\* Its place in the message is there, and the drive is ready for it.
LEMMA ReceiveReadyInStep ==
    ASSUME Types, NEW c \in Contexts, InStep(c), Faultless, Faultless', ReceiveReady
    PROVE  InStep(c)'
<1>0. pc = "r_clk" /\ alive /\ timeout \in Nat /\ Wide \in Nat /\ Wide > 1
    BY Bounds DEF ReceiveReady, Leaves, Faultless, Types, ControllerTypes, CountTypes
<1>1. Synced /\ Telling /\ c.turned /\ c.fresh
    BY <1>0, WhoIsThere DEF InStep, Receiving
<1>2. /\ ~data /\ ~eoi /\ Left(Len(inbox)) /\ (Waits \/ Lingers \/ Begun) /\ (timeout = 0 => Begun)
      /\ ~clk
    BY <1>0, <1>1 DEF InStep, Standing, TellingInStep, TellingClk
<1>3. Seen <=> ~dev.clk
    BY <1>0, <1>2 DEF Seen, ClkLow
<1>4. AfterPoll # 0
    BY <1>0, <1>2, <1>3 DEF AfterPoll, Begun, Bit
<1>5. (dev.phase = "ready" /\ Quiet) \/ Lingers \/ Begun
    <2>1. CASE Seen
        BY <1>2, <1>3, <2>1 DEF Waits, Quiet
    <2>2. CASE ~Seen
        BY <1>2, <2>2 DEF ReceiveReady, Leaves
    <2>. QED
        BY <2>1, <2>2
<1>6. /\ inbox' = Append(inbox, <<>>) /\ pc' = "r_eoi" /\ bit' = 0
      /\ UNCHANGED <<atn, clk, data, script, eoi, ret, dev, sent>>
    BY <1>4 DEF ReceiveReady, lines
<1>7. Standing(c)' /\ Agreed(c)' /\ HearingInStep'
    BY <1>0, <1>1, <1>2, <1>6, ReceivingStands DEF Receiving
<1>8. /\ Len(inbox) \in Nat /\ Len(inbox') = Len(inbox) + 1
      /\ \A i \in 1 .. Len(inbox) : inbox'[i] = inbox[i]
    BY <1>6 DEF Types, InboxTypes
<1>9. Received(c)'
    <2>1. Received(c) /\ Len(Message) \in Nat
        BY Bounds DEF InStep
    <2>2. Len(inbox) < Len(Message)
        BY <1>0, <1>2, <1>8, <2>1 DEF Received
    <2>3. \A j \in 1 .. Len(inbox) : inbox'[j] = Message[j]
        BY <1>0, <1>8, <2>1 DEF Received, Complete
    <2>4. Complete' = Len(inbox)
        BY <1>6, <1>8 DEF Complete
    <2>. QED
        BY <1>1, <1>2, <1>6, <1>8, <2>1, <2>2, <2>3, <2>4 DEF Received
<1>10. TellingInStep(c)'
    <2>1. Left(Len(inbox) - 1)'
        BY <1>2, <1>6, <1>8 DEF Left
    <2>2. TellingEoi'
        BY <1>2, <1>5, <1>6 DEF TellingEoi, Lingers, Begun, Bit, Quiet, Last
    <2>. QED
        BY <1>1, <1>6, <2>1, <2>2
           DEF TellingInStep, TellingIdle, TellingClk, TellingAnswer, TellingLow, TellingHigh, TellingDone,
               Sending, Receiving
<1>. QED
    BY <1>7, <1>9, <1>10 DEF InStep

\* EOI is seen at the last byte of the message and no other, and the drive gets its answer.
LEMMA ReceiveEoiInStep ==
    ASSUME Types, NEW c \in Contexts, InStep(c), Faultless, ReceiveEoi \/ EoiAnswered
    PROVE  InStep(c)'
<1>0. pc \in {"r_eoi", "r_answer"} /\ alive /\ Settled /\ Bits \in Nat /\ Bits # 0
    BY Bounds DEF ReceiveEoi, EoiAnswered, Faultless
<1>1. Synced /\ Telling /\ c.turned /\ c.fresh /\ TellingSettled
    BY <1>0, WhoIsThere, SettledWaits DEF InStep, Receiving
<1>2. pc' \in {"r_low", "r_answer"} /\ UNCHANGED <<atn, clk, script, dev, sent, ret, inbox, bit>>
    BY DEF ReceiveEoi, EoiAnswered
<1>3. Standing(c)' /\ Agreed(c)' /\ HearingInStep' /\ ~clk
    BY <1>0, <1>1, <1>2, ReceivingStands DEF InStep, Standing, Receiving
<1>4. Left(Len(inbox) - 1) /\ TellingEoi /\ TellingAnswer /\ Received(c)
    BY <1>0, <1>1 DEF InStep, TellingInStep, Receiving
<1>5. Left(Len(inbox) - 1)'
    BY <1>2, <1>4 DEF Left
<1>6. Len(inbox) \in Nat \ {0}
    BY <1>0, EmptySeq DEF Types, InboxTypes, Receiving
<1>7. CASE ReceiveEoi
    <2>1. pc = "r_eoi" /\ ~data /\ bit = 0 /\ (Lingers \/ Begun)
        BY <1>1, <1>4, <1>7 DEF ReceiveEoi, TellingEoi, TellingSettled, DataLow, Quiet
    <2>2. dev.out # <<>>
        BY <1>1, <2>1 DEF Lingers, Begun, Bit, Types, DriveTypes
    <2>3. Last <=> Len(inbox) = Len(Message)
        BY <1>4, <1>6, <2>2, LeftTail
    <2>4. ~eoi
        BY <1>4, <2>1 DEF Received
    <2>5. CASE Lingers
        <3>1. pc' = "r_answer" /\ data' /\ eoi'
            BY <1>3, <1>7, <2>5 DEF ReceiveEoi, ClkLow, Lingers, Quiet
        <3>2. Received(c)'
            BY <1>1, <1>2, <1>4, <2>1, <2>3, <2>5, <3>1 DEF Received, Complete, Lingers
        <3>3. TellingAnswer'
            BY <1>2, <2>1, <2>5, <3>1 DEF TellingAnswer, Lingers, Quiet, Last
        <3>4. TellingInStep(c)'
            BY <1>1, <1>5, <3>1, <3>3
               DEF TellingInStep, TellingIdle, TellingClk, TellingEoi, TellingLow, TellingHigh, TellingDone,
                   Sending, Receiving
        <3>. QED
            BY <1>3, <3>2, <3>4 DEF InStep
    <2>6. CASE Begun
        <3>1. pc' = "r_low" /\ ~data' /\ eoi' = eoi
            BY <1>7, <2>1, <2>6 DEF ReceiveEoi, ClkLow, Begun, Bit
        <3>2. Received(c)'
            BY <1>1, <1>2, <1>4, <2>1, <2>3, <2>4, <2>6, <3>1 DEF Received, Complete, Begun
        <3>3. TellingLow'
            BY <1>0, <1>2, <2>1, <2>6, <3>1 DEF TellingLow, Begun, Bit
        <3>4. TellingInStep(c)'
            BY <1>1, <1>5, <3>1, <3>3
               DEF TellingInStep, TellingIdle, TellingClk, TellingEoi, TellingAnswer, TellingHigh, TellingDone,
                   Sending, Receiving
        <3>. QED
            BY <1>3, <3>2, <3>4 DEF InStep
    <2>. QED
        BY <2>1, <2>5, <2>6
<1>8. CASE EoiAnswered
    <2>1. /\ pc = "r_answer" /\ data /\ eoi /\ bit = 0 /\ Quiet /\ dev.phase = "answered"
          /\ pc' = "r_low" /\ ~data' /\ eoi' = eoi
        BY <1>1, <1>4, <1>8 DEF EoiAnswered, TellingAnswer, TellingSettled, DataLow
    <2>2. Received(c)'
        BY <1>1, <1>2, <1>4, <2>1 DEF Received, Complete
    <2>3. TellingLow'
        BY <1>0, <1>2, <2>1 DEF TellingLow, Quiet
    <2>4. TellingInStep(c)'
        BY <1>1, <1>5, <2>1, <2>3
           DEF TellingInStep, TellingIdle, TellingClk, TellingEoi, TellingAnswer, TellingHigh, TellingDone,
               Sending, Receiving
    <2>. QED
        BY <1>3, <2>2, <2>4 DEF InStep
<1>. QED
    BY <1>7, <1>8

\* CLK low begins a bit, and the loop for it is not left before.
LEMMA ReceiveBitStartInStep ==
    ASSUME Types, NEW c \in Contexts, InStep(c), Faultless, Faultless', ReceiveBitStart
    PROVE  InStep(c)'
<1>0. /\ pc = "r_low" /\ alive /\ pc' = "r_high"
      /\ UNCHANGED <<atn, clk, data, script, bit, inbox, eoi, ret, dev, sent>>
    BY DEF ReceiveBitStart, Leaves, Faultless, lines
<1>1. Synced /\ Telling /\ c.turned /\ c.fresh
    BY <1>0, WhoIsThere DEF InStep, Receiving
<1>2. Standing(c)' /\ Agreed(c)' /\ HearingInStep' /\ ~clk
    BY <1>0, <1>1, ReceivingStands DEF InStep, Standing, Receiving
<1>3. Left(Len(inbox) - 1) /\ TellingLow /\ Received(c)
    BY <1>0, <1>1 DEF InStep, TellingInStep, Receiving
<1>4. Bit(bit + 1)
    <2>1. CASE Seen
        BY <1>0, <1>2, <1>3, <2>1 DEF Seen, ClkLow, TellingLow, Quiet
    <2>2. CASE ~Seen
        <3>1. TellingSettled
            BY <1>0, <2>2, UnreactingWaits, SettledWaits DEF ReceiveBitStart, Leaves, Faultless
        <3>. QED
            BY <1>0, <1>1, <1>3, <3>1 DEF TellingLow, TellingSettled, DataLow, Quiet
    <2>. QED
        BY <2>1, <2>2
<1>5. Received(c)'
    BY <1>0, <1>3 DEF Received, Complete
<1>6. Left(Len(inbox) - 1)' /\ TellingHigh'
    BY <1>0, <1>3, <1>4 DEF Left, TellingHigh, TellingLow, Bit
<1>7. TellingInStep(c)'
    BY <1>0, <1>1, <1>6
       DEF TellingInStep, TellingIdle, TellingClk, TellingEoi, TellingAnswer, TellingLow, TellingDone,
           Sending, Receiving
<1>. QED
    BY <1>2, <1>5, <1>7 DEF InStep

\* CLK high ends it: what is on DATA is the next bit of the message.
LEMMA ReceiveBitInStep ==
    ASSUME Types, NEW c \in Contexts, InStep(c), Faultless, Faultless', ReceiveBit
    PROVE  InStep(c)'
<1>. DEFINE n == Len(inbox)
            b == ~DataLow
<1>0. /\ pc = "r_high" /\ alive /\ bit' = bit + 1 /\ inbox' = [inbox EXCEPT ![n] = Append(@, b)]
      /\ pc' = (IF bit + 1 = Bits THEN "r_done" ELSE "r_low")
      /\ UNCHANGED <<atn, clk, data, script, eoi, ret, dev, sent>>
    BY DEF ReceiveBit, Leaves, Faultless, lines
<1>. Bits \in Nat /\ bit \in Nat /\ bit < Bits
    BY <1>0, Bounds DEF Types, ControllerTypes, CountTypes
<1>1. Synced /\ Telling /\ c.turned /\ c.fresh
    BY <1>0, WhoIsThere DEF InStep, Receiving
<1>2. Standing(c)' /\ Agreed(c)' /\ HearingInStep' /\ ~clk
    BY <1>0, <1>1, ReceivingStands DEF InStep, Standing, Receiving
<1>3. Left(n - 1) /\ TellingHigh /\ Received(c)
    BY <1>0, <1>1 DEF InStep, TellingInStep, Receiving
<1>4. dev.phase = "high" /\ ~dev.clk /\ ~data /\ Len(dev.shift) = bit + 1 /\ dev.data = ~dev.out[1][bit + 1]
    <2>1. TellingSettled \/ ~dev.clk
        BY <1>0, <1>2, UnreactingWaits, SettledWaits DEF ReceiveBit, Leaves, Faultless, Seen, ClkLow
    <2>. QED
        BY <1>0, <1>1, <1>3, <2>1 DEF TellingHigh, TellingSettled
<1>5. n \in Nat \ {0} /\ inbox \in Seq(Seq(BOOLEAN)) /\ inbox[n] \in Seq(BOOLEAN) /\ Len(inbox[n]) = bit
    BY <1>0, EmptySeq, ElementOfSeq DEF Types, InboxTypes, Receiving
<1>6. /\ Message \in Seq(Byte) /\ Len(Message) \in Nat /\ n <= Len(Message)
      /\ Message[n] \in [1 .. Bits -> BOOLEAN]
    <2>1. Message \in Seq(Byte) /\ Len(Message) \in Nat /\ n <= Len(Message)
        BY <1>3, Bounds, LenProperties DEF Received
    <2>2. n \in 1 .. Len(Message)
        BY <1>5, <2>1
    <2>. HIDE DEF n
    <2>3. Message[n] \in Byte
        BY <2>1, <2>2, ElementOfSeq
    <2>. QED
        BY <2>1, <2>3 DEF Byte
<1>7. b = Message[n][bit + 1] /\ b \in BOOLEAN
    <2>1. dev.out # <<>>
        BY <1>1, <1>4 DEF Types, DriveTypes
    <2>2. dev.out[1] = Message[n]
        BY <1>3, <1>5, <2>1, LeftTail
    <2>3. Message[n][bit + 1] \in BOOLEAN
        BY <1>6
    <2>. QED
        BY <1>4, <2>2, <2>3 DEF DataLow
<1>. HIDE DEF b
<1>8. Append(inbox[n], b) \in Seq(BOOLEAN) /\ Len(Append(inbox[n], b)) = bit + 1
      /\ \A i \in 1 .. bit + 1 : Append(inbox[n], b)[i] = IF i = bit + 1 THEN b ELSE inbox[n][i]
    BY <1>5, <1>7
<1>9. /\ Len(inbox') = n
      /\ \A j \in 1 .. n : inbox'[j] = IF j = n THEN Append(inbox[n], b) ELSE inbox[j]
    BY <1>0, <1>5, <1>8, ExceptSeq
<1>. HIDE DEF n
<1>10. \A i \in 1 .. bit + 1 : inbox'[n][i] = Message[n][i]
    <2>1. \A i \in 1 .. bit : inbox[n][i] = Message[n][i]
        BY <1>0, <1>3 DEF Received, n
    <2>. QED
        <3>1. inbox'[n] = Append(inbox[n], b)
            BY <1>5, <1>9
        <3>. QED
            BY <1>7, <1>8, <2>1, <3>1
<1>11. \A j \in 1 .. n - 1 : inbox'[j] = Message[j]
    <2>1. \A j \in 1 .. n - 1 : inbox[j] = Message[j]
        BY <1>0, <1>3 DEF Received, Complete, n
    <2>. QED
        <3>1. ASSUME NEW j \in 1 .. n - 1 PROVE inbox'[j] = inbox[j]
            BY <1>5, <1>9, <3>1
        <3>. QED
            BY <2>1, <3>1
<1>12. eoi' = eoi /\ (eoi <=> n = Len(Message))
    BY <1>0, <1>3 DEF Received, n
<1>13. Left(Len(inbox) - 1)'
    BY <1>0, <1>3, <1>9 DEF Left
<1>14. CASE bit + 1 = Bits
    <2>1. inbox'[n] = Message[n]
        <3>1. n \in 1 .. n /\ inbox'[n] = Append(inbox[n], b)
            BY <1>5, <1>9
        <3>2. inbox'[n] \in Seq(BOOLEAN) /\ Len(inbox'[n]) = Bits
            BY <1>8, <1>14, <3>1
        <3>3. inbox'[n] \in [1 .. Bits -> BOOLEAN]
            BY <3>2, LenProperties
        <3>4. \A i \in 1 .. Bits : inbox'[n][i] = Message[n][i]
            BY <1>10, <1>14
        <3>. QED
            BY <1>6, <3>3, <3>4
    <2>2. \A j \in 1 .. n : inbox'[j] = Message[j]
        BY <1>5, <1>11, <2>1
    <2>3. Received(c)'
        BY <1>0, <1>1, <1>6, <1>9, <1>12, <1>14, <2>2 DEF Received, Complete
    <2>4. TellingDone'
        BY <1>0, <1>4, <1>14 DEF TellingDone, Finished
    <2>5. TellingInStep(c)'
        BY <1>0, <1>1, <1>13, <1>14, <2>4
           DEF TellingInStep, TellingIdle, TellingClk, TellingEoi, TellingAnswer, TellingLow, TellingHigh,
               Sending, Receiving
    <2>. QED
        BY <1>2, <2>3, <2>5 DEF InStep
<1>15. CASE bit + 1 # Bits
    <2>1. Received(c)'
        BY <1>0, <1>1, <1>6, <1>9, <1>10, <1>11, <1>12, <1>15 DEF Received, Complete
    <2>2. TellingLow'
        BY <1>0, <1>4, <1>15 DEF TellingLow
    <2>3. TellingInStep(c)'
        BY <1>0, <1>1, <1>13, <1>15, <2>2
           DEF TellingInStep, TellingIdle, TellingClk, TellingEoi, TellingAnswer, TellingHigh, TellingDone,
               Sending, Receiving
    <2>. QED
        BY <1>2, <2>1, <2>3 DEF InStep
<1>. QED
    BY <1>14, <1>15

\* The byte is acknowledged.
LEMMA ReceiveAckInStep ==
    ASSUME Types, NEW c \in Contexts, InStep(c), ReceiveAck
    PROVE  InStep(c)'
<1>0. /\ pc = "r_done" /\ pc' = "idle" /\ data' /\ ret' = 0
      /\ UNCHANGED <<atn, clk, script, inbox, eoi, dev, sent>>
    BY DEF ReceiveAck
<1>1. Synced /\ Telling /\ c.turned /\ c.fresh
    BY <1>0, WhoIsThere DEF InStep, Receiving
<1>2. Standing(c)' /\ Agreed(c)' /\ HearingInStep'
    BY <1>0, <1>1, ReceivingStands DEF Receiving
<1>3. Left(Len(inbox) - 1) /\ TellingDone /\ Received(c)
    BY <1>0, <1>1 DEF InStep, TellingInStep, Receiving
<1>4. Len(inbox) > 0
    BY <1>0, EmptySeq DEF Types, InboxTypes, Receiving
<1>5. Received(c)'
    BY <1>0, <1>3 DEF Received, Complete
<1>6. TellingIdle'
    BY <1>0, <1>3, <1>4 DEF TellingIdle, TellingDone, Finished, Left
<1>7. TellingInStep(c)'
    BY <1>0, <1>1, <1>6
       DEF TellingInStep, TellingClk, TellingEoi, TellingAnswer, TellingLow, TellingHigh, TellingDone,
           Sending, Receiving
<1>. QED
    BY <1>2, <1>5, <1>7 DEF InStep

\* A round of a polling loop: the last one is not made before the drive has reacted.
LEMMA PollInStep ==
    ASSUME Types, NEW c \in Contexts, InStep(c), Faultless, Faultless', Poll
    PROVE  InStep(c)'
<1>0. /\ ~Seen /\ timeout \in Nat \ {0} /\ timeout' = timeout - 1 /\ alive /\ Op' = Op
      /\ UNCHANGED <<atn, clk, data, script, pc, bit, inbox, eoi, ret, dev, sent>>
    BY DEF Poll, lines, Faultless, Types, ControllerTypes, CountTypes, Op
<1>1. Standing(c)'
    BY <1>0 DEF InStep, Standing, Synced, Short
<1>2. Agreed(c)'
    BY <1>0 DEF InStep, Agreed, Now, Acked
<1>3. Received(c)'
    BY <1>0 DEF InStep, Received, Complete
<1>4. HearingInStep'
    <2>. SUFFICES ASSUME Synced, Hearing PROVE HearingInStep'
        BY <1>0 DEF HearingInStep, Synced, Hearing
    <2>1. /\ HearingIdle /\ HearingReady /\ HearingEoi /\ HearingLow /\ HearingHigh /\ HearingAck
          /\ pc \notin Receiving
        BY DEF InStep, HearingInStep
    <2>2. pc # "s_ready"
        BY <1>0, <2>1 DEF HearingReady, Held, Seen, DataLow
    <2>. QED
        BY <1>0, <2>1, <2>2
           DEF HearingInStep, HearingIdle, HearingReady, HearingEoi, HearingLow, HearingHigh, HearingAck,
               Held, Shifted
<1>5. TellingInStep(c)'
    <2>. SUFFICES ASSUME Synced, Telling PROVE TellingInStep(c)'
        BY <1>0 DEF TellingInStep, Synced, Telling
    <2>1. /\ pc \notin Sending
          /\ ~c.turned => pc = "idle" /\ clk /\ dev.phase = "turn" /\ Quiet
          /\ c.turned /\ c.fresh =>
                 /\ pc \in Receiving \ {"r_clk"} => Left(Len(inbox) - 1)
                 /\ TellingIdle /\ TellingClk /\ TellingEoi /\ TellingAnswer
                 /\ TellingLow /\ TellingHigh /\ TellingDone
        BY DEF InStep, TellingInStep
    <2>. USE DEF Left, Quiet, Bit, Begun, Last, Lingers, Waits, Finished
    <2>2. ASSUME TellingClk, pc = "r_clk", c.turned, c.fresh PROVE TellingClk'
        <3>1. ~data /\ ~eoi /\ ~clk /\ Left(Len(inbox)) /\ (Waits \/ Lingers \/ Begun)
            BY <2>2 DEF TellingClk, InStep, Standing
        <3>2. CASE timeout = 1
            <4>1. Settled /\ TellingSettled /\ (dev.phase = "busy" => dev.out = <<>>)
                BY <1>0, <3>2, UnreactingWaits, SettledWaits DEF Poll, Faultless
            <4>2. dev.out # <<>>
                <5>1. Received(c) /\ Len(inbox) \in Nat /\ Len(Message) \in Nat /\ Message \in Seq(Byte)
                    BY Bounds, LenProperties DEF InStep, Types, InboxTypes
                <5>2. Len(inbox) < Len(Message)
                    BY <2>2, <3>1, <5>1 DEF Received
                <5>3. \A i \in Len(inbox) + 1 .. Len(Message) : Message[i] \in Byte
                    BY <5>1, ElementOfSeq
                <5>4. Len(dev.out) = Len(Message) - Len(inbox)
                    BY <3>1, <5>1, <5>2, <5>3, SubSeqProperties
                <5>. QED
                    BY <5>1, <5>2, <5>4
            <4>3. Begun
                BY <1>0, <2>2, <3>1, <4>1, <4>2 DEF TellingSettled, DataLow, ClkLow, Seen
            <4>. QED
                BY <1>0, <3>1, <4>3 DEF TellingClk
        <3>3. CASE timeout # 1
            <4>1. timeout' # 0
                BY <1>0, <3>3
            <4>. QED
                BY <1>0, <3>1, <4>1 DEF TellingClk
        <3>. QED
            BY <3>2, <3>3
    <2>3. ASSUME c.turned, c.fresh
          PROVE  /\ pc' \in Receiving \ {"r_clk"} => Left(Len(inbox) - 1)'
                 /\ TellingIdle' /\ TellingClk' /\ TellingEoi' /\ TellingAnswer'
                 /\ TellingLow' /\ TellingHigh' /\ TellingDone'
        <3>1. pc \in Receiving \ {"r_clk"} => Left(Len(inbox) - 1)
            BY <2>1, <2>3
        <3>2. TellingIdle' /\ TellingEoi' /\ TellingAnswer'
            BY <1>0, <2>1, <2>3 DEF TellingIdle, TellingEoi, TellingAnswer
        <3>3. TellingLow' /\ TellingHigh' /\ TellingDone'
            BY <1>0, <2>1, <2>3 DEF TellingLow, TellingHigh, TellingDone
        <3>4. TellingClk'
            BY <1>0, <2>1, <2>2, <2>3 DEF TellingClk
        <3>. QED
            BY <1>0, <3>1, <3>2, <3>3, <3>4
    <2>. QED
        BY <1>0, <2>1, <2>3 DEF TellingInStep
<1>. QED
    BY <1>1, <1>2, <1>3, <1>4, <1>5 DEF InStep

------------------------------------------------------------------------------
(* The other steps of a script.                                            *)

\* Receiving ends when there is no more to receive; the drive is left talking.
LEMMA EndReceivingInStep ==
    ASSUME Types, NEW c \in Contexts, InStep(c), Faultless, EndReceiving
    PROVE  \E d \in Contexts : InStep(d)'
<1>0. /\ pc = "idle" /\ script # <<>> /\ Op.op = "receive" /\ script' = Tail(script)
      /\ UNCHANGED <<atn, clk, data, pc, timeout, bit, inbox, eoi, ret, dev, sent>>
    BY DEF EndReceiving, At, lines
<1>1. Standing(c) /\ Agreed(c) /\ Received(c)
    BY DEF InStep
<1>2. c.turned /\ c.fresh
    BY <1>0, <1>1, Ahead DEF Allowed
<1>3. PICK d \in Contexts : d = After(c, Op) /\ Leads(script', d) /\ Op \in Ops
    BY <1>0, <1>1, Ahead
<1>4. d.atn = c.atn /\ d.role = c.role /\ ~d.fresh /\ d.turned
    BY <1>0, <1>2, <1>3, AfterFields
<1>5. Standing(d)'
    BY <1>0, <1>1, <1>2, <1>3, <1>4 DEF Standing, Synced
<1>6. Agreed(d)'
    BY <1>0, <1>1, <1>4 DEF Agreed, Now, Acked
<1>7. Received(d)'
    BY <1>0, <1>1, <1>4 DEF Received, Complete
<1>8. Synced /\ Telling
    BY <1>0, <1>1, <1>2 DEF Standing, Agreed, Now, Acked, Telling, Synced
<1>9. HearingInStep'
    BY <1>0, <1>8 DEF HearingInStep, Hearing, Telling, Synced
<1>10. TellingInStep(d)'
    BY <1>0, <1>4 DEF TellingInStep, Sending
<1>. QED
    BY <1>3, <1>5, <1>6, <1>7, <1>9, <1>10 DEF InStep

\* A message that came with EOI is there as a whole.
LEMMA MessageIsIn ==
    ASSUME Types, NEW c \in Contexts, Received(c), pc = "idle", eoi
    PROVE  inbox = Message
<1>1. Len(inbox) = Len(Message) /\ \A j \in 1 .. Len(inbox) : inbox[j] = Message[j]
    BY DEF Received, Complete
<1>2. inbox \in Seq(Seq(BOOLEAN)) /\ Message \in Seq(Byte)
    BY Bounds DEF Types, InboxTypes
<1>. QED
    BY <1>1, <1>2, SeqEqual

\* A check finds that the step before it succeeded.
LEMMA CheckStepInStep ==
    ASSUME Types, NEW c \in Contexts, InStep(c), CheckStep
    PROVE  InStep(c)'
<1>0. /\ pc = "idle" /\ script # <<>> /\ Op.op = "check" /\ ret = 0 /\ script' = Tail(script)
      /\ UNCHANGED <<atn, clk, data, pc, timeout, bit, inbox, eoi, ret, dev, sent>>
    BY DEF CheckStep, At, lines, InStep, Standing
<1>1. Standing(c) /\ Agreed(c) /\ Received(c)
    BY DEF InStep
<1>2. Leads(script', c)
    <2>1. Op \in Ops /\ Leads(Tail(script), After(c, Op))
        BY <1>0, <1>1, Ahead
    <2>2. After(c, Op) = c
        BY <1>0, <2>1, AfterFields
    <2>. QED
        BY <1>0, <2>1, <2>2
<1>3. Standing(c)'
    BY <1>0, <1>1, <1>2 DEF Standing, Synced
<1>4. Agreed(c)' /\ Received(c)'
    BY <1>0, <1>1 DEF Agreed, Now, Acked, Received, Complete
<1>5. HearingInStep'
    BY <1>0 DEF InStep, HearingInStep, Hearing, Synced, HearingIdle, HearingReady, HearingEoi, HearingLow,
                HearingHigh, HearingAck, Held
<1>6. TellingInStep(c)'
    BY <1>0 DEF InStep, TellingInStep, Telling, Synced, TellingIdle, TellingClk, TellingEoi, TellingAnswer,
                TellingLow, TellingHigh, TellingDone, Left, Quiet, Waits, Lingers, Begun, Bit, Finished,
                Last, Receiving, Sending
<1>. QED
    BY <1>3, <1>4, <1>5, <1>6 DEF InStep

\* A result finds that everything was received that a drive had to say, or a buffer filled.
LEMMA ResultStepInStep ==
    ASSUME Types, NEW c \in Contexts, InStep(c), Owed, ResultStep
    PROVE  InStep(c)'
<1>0. /\ pc = "idle" /\ script # <<>> /\ Op.op = "result" /\ script' = Tail(script)
      /\ ret' = IF Len(inbox) >= Op.least THEN 0 ELSE -1
      /\ UNCHANGED <<atn, clk, data, pc, timeout, bit, inbox, eoi, dev, sent>>
    BY DEF ResultStep, At, lines
<1>1. Standing(c) /\ Agreed(c) /\ Received(c)
    BY DEF InStep
<1>2. Leads(script', c)
    <2>1. Op \in Ops /\ Leads(Tail(script), After(c, Op))
        BY <1>0, <1>1, Ahead
    <2>2. After(c, Op) = c
        BY <1>0, <2>1, AfterFields
    <2>. QED
        BY <1>0, <2>1, <2>2
<1>3. ret' = 0 \/ (script' = <<>> /\ Short')
    <2>. SUFFICES ASSUME ~(Len(inbox) >= Op.least) PROVE script' = <<>> /\ Short'
        BY <1>0
    <2>1. /\ script \in Seq(Ops) /\ Len(script) \in Nat \ {0} /\ Op = script[1]
          /\ Len(Tail(script)) = Len(script) - 1 /\ Tail(script) \in Seq(Ops)
        BY <1>0, HeadTailProperties, LenProperties, EmptySeq DEF Types, ControllerTypes, PlaceTypes, Op
    <2>. HIDE DEF Op
    <2>2. /\ Len(script) = 1 /\ Op.least \in {0} \cup Rooms
          /\ Enough(Op.least, eoi, inbox) \/ Announced(script, Op.least)
        <3>1. 1 \in 1 .. Len(script) /\ script[1].op = "result" /\ Op.least = script[1].least
            BY <1>0, <2>1
        <3>2. /\ 1 = Len(script) /\ script[1].least \in {0} \cup Rooms
              /\ Enough(script[1].least, eoi, inbox) \/ Announced(script, script[1].least)
            BY <3>1 DEF Owed
        <3>3. Len(script) = 1 /\ Op.least \in {0} \cup Rooms
            BY <3>1, <3>2
        <3>4. Enough(Op.least, eoi, inbox) \/ Announced(script, Op.least)
            BY <3>1, <3>2 DEF Enough, Announced
        <3>. QED
            BY <3>3, <3>4
    <2>3. ~Announced(script, Op.least)
        BY <2>2 DEF Announced
    <2>4. Len(inbox) \in Nat /\ Op.least \in Nat /\ Op.least # 0
        BY <1>0, OpTypes, LenProperties DEF Types, InboxTypes
    <2>5. eoi /\ Op.least \in Rooms /\ Len(inbox) < Op.least
        BY <2>2, <2>3, <2>4 DEF Enough
    <2>6. inbox = Message
        BY <1>0, <1>1, <2>5, MessageIsIn
    <2>7. script' = <<>>
        BY <1>0, <2>1, <2>2, EmptySeq
    <2>. QED
        BY <1>0, <2>5, <2>6, <2>7 DEF Short
<1>4. Standing(c)'
    BY <1>0, <1>1, <1>2, <1>3 DEF Standing, Synced
<1>5. Agreed(c)' /\ Received(c)'
    BY <1>0, <1>1 DEF Agreed, Now, Acked, Received, Complete
<1>6. HearingInStep'
    BY <1>0 DEF InStep, HearingInStep, Hearing, Synced, HearingIdle, HearingReady, HearingEoi, HearingLow,
                HearingHigh, HearingAck, Held
<1>7. TellingInStep(c)'
    BY <1>0 DEF InStep, TellingInStep, Telling, Synced, TellingIdle, TellingClk, TellingEoi, TellingAnswer,
                TellingLow, TellingHigh, TellingDone, Left, Quiet, Waits, Lingers, Begun, Bit, Finished,
                Last, Receiving, Sending
<1>. QED
    BY <1>4, <1>5, <1>6, <1>7 DEF InStep

\* The clock line is given to a talker that waits for it, with the message before it.
LEMMA TurnStepInStep ==
    ASSUME Types, NEW c \in Contexts, InStep(c), Faultless, TurnStep
    PROVE  \E d \in Contexts : InStep(d)'
<1>0. /\ pc = "idle" /\ script # <<>> /\ Op.op = "turn" /\ Settled /\ alive
      /\ clk' = FALSE /\ script' = Tail(script)
      /\ UNCHANGED <<atn, data, pc, timeout, bit, inbox, eoi, ret, dev, sent>>
    BY DEF TurnStep, At, Faultless
<1>1. Standing(c) /\ Agreed(c) /\ Received(c)
    BY DEF InStep
<1>2. ~c.atn /\ c.role = "talker" /\ ~c.turned /\ c.fresh
    BY <1>0, <1>1, Ahead DEF Allowed, Standing
<1>3. PICK d \in Contexts : d = After(c, Op) /\ Leads(script', d) /\ Op \in Ops
    BY <1>0, <1>1, Ahead
<1>4. d.atn = c.atn /\ d.role = c.role /\ d.fresh = c.fresh /\ d.turned
    BY <1>0, <1>3, AfterFields
<1>5. Synced /\ Telling
    BY <1>0, <1>1, <1>2, SettledWaits DEF Standing, Agreed, Now, Acked, Telling, Synced
<1>6. clk /\ dev.phase = "turn" /\ Quiet
    BY <1>2, <1>5 DEF InStep, TellingInStep
<1>7. inbox = <<>> /\ dev.out = Message /\ Left(Len(inbox))
    <2>1. inbox = <<>> /\ dev.out = Message
        BY <1>0, <1>1, <1>2 DEF Received, Agreed, Now, Acked
    <2>2. Message = SubSeq(Message, 1, Len(Message))
        BY Bounds, SubSeqFull
    <2>3. Len(inbox) + 1 = 1
        BY <2>1
    <2>. QED
        BY <2>1, <2>2, <2>3 DEF Left
<1>8. Standing(d)'
    BY <1>0, <1>1, <1>2, <1>3, <1>4, <1>5 DEF Standing, Synced
<1>9. Agreed(d)'
    BY <1>0, <1>1, <1>4 DEF Agreed, Now, Acked
<1>10. Received(d)'
    BY <1>0, <1>1, <1>4 DEF Received, Complete
<1>11. HearingInStep'
    BY <1>0, <1>5 DEF HearingInStep, Hearing, Telling, Synced
<1>12. TellingInStep(d)'
    <2>1. TellingIdle'
        BY <1>0, <1>6, <1>7 DEF TellingIdle, Left, Quiet
    <2>. QED
        BY <1>0, <1>4, <2>1 DEF TellingInStep, TellingClk, TellingEoi, TellingAnswer, TellingLow,
                                TellingHigh, TellingDone, Sending, Receiving
<1>. QED
    BY <1>3, <1>8, <1>9, <1>10, <1>11, <1>12 DEF InStep

\* ATN changes when the drive has seen its last change; a talker that has said nothing is
\* let go, and one that was heard is called back.
LEMMA AtnStepInStep ==
    ASSUME Types, NEW c \in Contexts, InStep(c), Faultless, AtnStep
    PROVE  \E d \in Contexts : InStep(d)'
<1>0. /\ pc = "idle" /\ script # <<>> /\ Op.op = "atn" /\ Settled /\ alive
      /\ atn' = Op.on /\ script' = Tail(script)
      /\ UNCHANGED <<clk, data, pc, timeout, bit, inbox, eoi, ret, dev, sent>>
    BY DEF AtnStep, At, Faultless
<1>1. Standing(c) /\ Agreed(c) /\ Received(c)
    BY DEF InStep
<1>2. Op.on # c.atn /\ (c.role = "talker" => Op.on = ~c.fresh)
    BY <1>0, <1>1, Ahead DEF Allowed
<1>3. PICK d \in Contexts : d = After(c, Op) /\ Leads(script', d) /\ Op \in Ops
    BY <1>0, <1>1, Ahead
<1>4. d.atn = Op.on /\ d.role = c.role /\ d.fresh = c.fresh /\ ~d.turned
    BY <1>0, <1>3, AfterFields
<1>. c.atn \in BOOLEAN /\ c.fresh \in BOOLEAN /\ c.turned \in BOOLEAN /\ Op.on \in BOOLEAN
    BY <1>0, OpTypes DEF Contexts, Types
<1>5. ~Synced'
    <2>1. Synced /\ c.atn = atn
        BY <1>0, <1>1, SettledWaits DEF Standing
    <2>. QED
        BY <1>0, <1>2, <2>1 DEF Synced
<1>6. c.role = "talker" /\ c.fresh => ~Op.on /\ c.atn /\ ~c.turned
    BY <1>1, <1>2 DEF Standing
<1>7. c.turned => ~c.fresh
    BY <1>1, <1>6 DEF Standing
<1>8. Standing(d)'
    BY <1>0, <1>1, <1>2, <1>3, <1>4, <1>6 DEF Standing
<1>9. Agreed(d)'
    BY <1>0, <1>1, <1>4, <1>6 DEF Agreed, Now, Acked
<1>10. Received(d)'
    BY <1>0, <1>1, <1>4, <1>7 DEF Received, Complete
<1>11. HearingInStep' /\ TellingInStep(d)'
    BY <1>5 DEF HearingInStep, TellingInStep
<1>. QED
    BY <1>3, <1>8, <1>9, <1>10, <1>11 DEF InStep

------------------------------------------------------------------------------
(* Dialogs and resets.                                                     *)

\* A dialog begins on a bus that the one before left free.
LEMMA BeginInStep ==
    ASSUME Types, NEW c \in Contexts, InStep(c), Faultless, Begin
    PROVE  \E d \in Contexts : InStep(d)'
<1>0. /\ pc = "idle" /\ script = <<>> /\ Settled /\ alive /\ script' \in Dialogs
      /\ inbox' = <<>> /\ sent' = <<>> /\ eoi' = FALSE /\ ret' = 0
      /\ dev' = [dev EXCEPT !.heard = <<>>]
      /\ UNCHANGED <<atn, clk, data, pc>>
    BY DEF Begin, lines, Faultless
<1>1. Standing(c) /\ Agreed(c)
    BY DEF InStep
<1>2. atn = FALSE /\ c.role = "none"
    BY <1>0, <1>1, LeadsEmpty DEF Standing, Ended, Types, ControllerTypes, LineTypes
<1>3. dev.role = "none" /\ ~dev.att /\ ~data
    BY <1>0, <1>1, <1>2, SettledWaits DEF Standing, Agreed, Now, Acked, Synced
<1>4. dev \in Device
    BY DEF Types, DriveTypes
<1>5. dev'.role = "none" /\ ~dev'.att /\ dev'.heard = <<>> /\ dev'.clk = dev.clk
    BY <1>0, <1>3, <1>4 DEF Device
<1>6. PICK d \in Contexts :
          /\ Leads(script', d)
          /\ d.atn = FALSE /\ d.role = "none" /\ d.fresh = TRUE /\ d.turned = FALSE
    BY <1>0, DialogsLead DEF Start
<1>7. Standing(d)'
    BY <1>0, <1>1, <1>2, <1>3, <1>5, <1>6 DEF Standing
<1>8. Agreed(d)'
    BY <1>0, <1>5, <1>6 DEF Agreed, Now, Acked
<1>9. Received(d)'
    <2>1. Len(inbox') = 0 /\ Len(Message) \in Nat \ {0}
        BY <1>0, Bounds, EmptySeq
    <2>. QED
        BY <1>0, <2>1 DEF Received, Complete
<1>10. HearingInStep' /\ TellingInStep(d)'
    BY <1>5 DEF HearingInStep, TellingInStep, Hearing, Telling
<1>. QED
    BY <1>6, <1>7, <1>8, <1>9, <1>10 DEF InStep

\* On a bus on which nothing has happened, the controller and the drive are in step.
RestingBus ==
    /\ atn = FALSE /\ clk = FALSE /\ data = FALSE
    /\ script = <<>> /\ pc = "idle"
    /\ inbox = <<>> /\ eoi = FALSE /\ ret = 0
    /\ dev = Asleep
    /\ sent = <<>>

\* Nothing is owed there.
LEMMA RestingOwed == RestingBus => Owed
BY DEF RestingBus, Owed

\* So it is after the initialisation and after a reset.
LEMMA RestingInStep == RestingBus => \E c \in Contexts : InStep(c)
<1>. SUFFICES ASSUME RestingBus PROVE \E c \in Contexts : InStep(c)
    OBVIOUS
<1>1. PICK c \in Contexts : c.atn = FALSE /\ c.role = "none" /\ c.fresh = TRUE /\ c.turned = FALSE
    <2>1. Start \in Contexts
        BY DEF Start, Contexts, Roles
    <2>. QED
        BY <2>1 DEF Start
<1>2. Leads(<<>>, c)
    BY <1>1, LeadsEmpty DEF Ended
<1>3. dev.role = "none" /\ ~dev.att /\ dev.heard = <<>> /\ dev.clk = FALSE
    BY DEF RestingBus, Asleep
<1>4. Standing(c) /\ Agreed(c)
    BY <1>1, <1>2, <1>3 DEF RestingBus, Standing, Agreed, Now, Acked
<1>5. Received(c)
    <2>1. Len(inbox) = 0 /\ Len(Message) \in Nat \ {0}
        BY Bounds, EmptySeq DEF RestingBus
    <2>. QED
        BY <2>1 DEF RestingBus, Received, Complete
<1>6. HearingInStep /\ TellingInStep(c)
    BY <1>3 DEF HearingInStep, TellingInStep, Hearing, Telling
<1>. QED
    BY <1>1, <1>4, <1>5, <1>6 DEF InStep

------------------------------------------------------------------------------
(* What a result asks about stays true, or lies ahead.                     *)

\* With the script as it is, or one step shorter,
LEMMA OwedStays ==
    ASSUME Types, Owed, script' = script, eoi => eoi',
           Len(inbox') \in Nat, Len(inbox') >= Len(inbox)
    PROVE  Owed'
<1>1. Len(inbox) \in Nat /\ Rooms \subseteq Nat
    BY Bounds, LenProperties DEF Types, InboxTypes
<1>2. \A n \in {0} \cup Rooms : Enough(n, eoi, inbox) => Enough(n, eoi', inbox')
    BY <1>1 DEF Enough
<1>. QED
    BY <1>2 DEF Owed, Announced

LEMMA OwedTail ==
    ASSUME Types, Owed, script # <<>>, script' = Tail(script), eoi => eoi',
           Len(inbox') \in Nat, Len(inbox') >= Len(inbox),
           Op.op = "receive" => eoi' \/ Len(inbox') >= Op.room
    PROVE  Owed'
<1>1. Len(inbox) \in Nat /\ Rooms \subseteq Nat
    BY Bounds, LenProperties DEF Types, InboxTypes
<1>2. \A n \in {0} \cup Rooms : Enough(n, eoi, inbox) => Enough(n, eoi', inbox')
    BY <1>1 DEF Enough
<1>3. /\ script \in Seq(Ops) /\ Len(script) \in Nat \ {0} /\ Op = script[1]
      /\ Len(script') = Len(script) - 1
      /\ \A i \in 1 .. Len(script) - 1 : script'[i] = script[i + 1]
    BY HeadTailProperties, LenProperties, EmptySeq DEF Types, ControllerTypes, PlaceTypes, Op
<1>. SUFFICES ASSUME NEW i \in 1 .. Len(script'), script'[i].op = "result"
              PROVE  /\ i = Len(script')
                     /\ script'[i].least \in {0} \cup Rooms
                     /\ \/ Enough(script'[i].least, eoi', inbox')
                        \/ Announced(script', script'[i].least)
    BY DEF Owed
<1>. DEFINE n == script'[i].least
<1>4. i + 1 \in 1 .. Len(script) /\ script[i + 1] = script'[i]
    BY <1>3
<1>9. i + 1 = Len(script)
    BY <1>4 DEF Owed
<1>5. /\ n \in {0} \cup Rooms
      /\ Enough(n, eoi, inbox) \/ Announced(script, n)
    BY <1>4 DEF Owed
<1>6. ASSUME NEW j \in 1 .. Len(script) - 1, script[j].op = "receive" /\ script[j].room = n
      PROVE  Enough(n, eoi', inbox') \/ Announced(script', n)
    <2>1. CASE j = 1
        BY <1>3, <1>6, <2>1 DEF Enough
    <2>2. CASE j # 1
        <3>1. /\ j - 1 \in 1 .. Len(script') - 1
              /\ j - 1 \in 1 .. Len(script) - 1 /\ (j - 1) + 1 = j
            BY <1>3, <2>2
        <3>2. script'[j - 1] = script[j]
            BY <1>3, <3>1
        <3>. QED
            BY <1>6, <3>1, <3>2 DEF Announced
    <2>. QED
        BY <2>1, <2>2
<1>7. Enough(n, eoi', inbox') \/ Announced(script', n)
    <2>. HIDE DEF n
    <2>1. CASE Enough(n, eoi, inbox)
        BY <1>2, <1>5, <2>1
    <2>2. CASE Announced(script, n)
        <3>1. PICK j \in 1 .. Len(script) - 1 : script[j].op = "receive" /\ script[j].room = n
            BY <2>2 DEF Announced
        <3>. QED
            BY <1>6, <3>1
    <2>. QED
        BY <1>5, <2>1, <2>2
<1>8. i = Len(script')
    <2>1. Len(script') = Len(script) - 1 /\ Len(script) \in Nat
        BY <1>3
    <2>2. i \in Nat
        BY <2>1
    <2>3. i = Len(script) - 1
        BY <1>9, <2>1, <2>2
    <2>. QED
        BY <2>1, <2>3
<1>. QED
    BY <1>5, <1>7, <1>8

\* or without one.
LEMMA OwedEmpty == ASSUME script' = <<>> PROVE Owed'
BY DEF Owed

\* So it is after a step of the controller that leaves it in step,
LEMMA ControllerOwed ==
    ASSUME Types, Types', Owed, Controller, NEW d \in Contexts, InStep(d)'
    PROVE  Owed'
<1>1. /\ Len(inbox) \in Nat /\ inbox \in Seq(Seq(BOOLEAN))
      /\ Len(inbox') \in Nat
    BY LenProperties DEF Types, InboxTypes
<1>2. CASE Poll \/ SendByte \/ SendEoi \/ SendBit \/ BitValid \/ SendFrame \/ ReceiveByte
           \/ EoiAnswered \/ ReceiveBitStart \/ ReceiveAck
    <2>1. script' = script /\ inbox' = inbox /\ eoi' = eoi
        BY <1>2 DEF Poll, SendByte, SendEoi, SendBit, BitValid, SendFrame, ReceiveByte, EoiAnswered,
                    ReceiveBitStart, ReceiveAck, Leaves
    <2>. QED
        BY <1>1, <2>1, OwedStays
<1>3. CASE ReceiveEoi
    <2>1. script' = script /\ inbox' = inbox /\ (eoi => eoi')
        BY <1>3 DEF ReceiveEoi
    <2>. QED
        BY <1>1, <2>1, OwedStays
<1>4. CASE ReceiveBit
    <2>1. script' = script /\ Len(inbox') = Len(inbox) /\ eoi' = eoi
        BY <1>1, <1>4 DEF ReceiveBit
    <2>. QED
        BY <1>1, <2>1, OwedStays
<1>5. CASE SendReady \/ SendAck
    <2>1. /\ inbox' = inbox /\ eoi' = eoi /\ script # <<>> /\ Op.op = "send"
          /\ script' = script \/ script' = Tail(script)
        BY <1>5 DEF SendReady, SendAck, Return, Leaves, Types, ControllerTypes, PlaceTypes, Sending
    <2>. QED
        BY <1>1, <2>1, OwedStays, OwedTail
<1>6. CASE ReceiveReady
    <2>1. CASE AfterPoll = 0
        <3>1. ret' = -1
            BY <1>6, <2>1 DEF ReceiveReady, Return
        <3>2. script' = <<>>
            BY <3>1 DEF InStep, Standing
        <3>. QED
            BY <3>2, OwedEmpty
    <2>2. CASE AfterPoll # 0
        <3>1. script' = script /\ inbox' = Append(inbox, <<>>) /\ eoi' = eoi
            BY <1>6, <2>2 DEF ReceiveReady
        <3>2. Len(inbox') = Len(inbox) + 1
            <4>1. <<>> \in Seq(BOOLEAN)
                OBVIOUS
            <4>. QED
                BY <1>1, <3>1, <4>1, AppendProperties
        <3>. QED
            BY <1>1, <3>1, <3>2, OwedStays
    <2>. QED
        BY <2>1, <2>2
<1>7. CASE EndReceiving
    <2>1. /\ inbox' = inbox /\ eoi' = eoi /\ script # <<>> /\ script' = Tail(script)
          /\ eoi \/ Len(inbox) >= Op.room
        BY <1>7 DEF EndReceiving, At
    <2>. QED
        BY <1>1, <2>1, OwedTail
<1>8. CASE AtnStep \/ CheckStep \/ TurnStep \/ ResultStep
    <2>1. /\ inbox' = inbox /\ eoi' = eoi /\ script # <<>> /\ Op.op # "receive"
          /\ script' = <<>> \/ script' = Tail(script)
        BY <1>8 DEF AtnStep, CheckStep, TurnStep, ResultStep, At
    <2>. QED
        BY <1>1, <2>1, OwedTail, OwedEmpty
<1>. QED
    BY <1>2, <1>3, <1>4, <1>5, <1>6, <1>7, <1>8 DEF Controller

\* of the drive, and of those who begin a dialog or none.
LEMMA OthersOwed ==
    ASSUME Types, Owed, Drive \/ Begin \/ UNCHANGED vars
    PROVE  Owed'
<1>1. CASE Drive \/ UNCHANGED vars
    <2>1. script' = script /\ inbox' = inbox /\ eoi' = eoi
        BY <1>1 DEF Drive, vars
    <2>2. Len(inbox) \in Nat
        BY LenProperties DEF Types, InboxTypes
    <2>. QED
        BY <2>1, <2>2, OwedStays
<1>2. CASE Begin
    <2>1. IsOwed(script')
        BY <1>2, DialogsLead DEF Begin
    <2>. QED
        BY <2>1 DEF IsOwed, Owed, Enough
<1>. QED
    BY <1>1, <1>2

------------------------------------------------------------------------------
(* The theorems.                                                           *)

\* A fault lasts until the bus is reset.
LEMMA FaultsStay ==
    ASSUME Next, ~Reset, Faultless'
    PROVE  Faultless
<1>1. (late' <=> late) \/ (late => late')
    BY DEF Next, Controller, Begin, Drive, Hang, Poll, SendByte, SendReady, SendEoi, SendBit, BitValid,
           SendFrame, SendAck, ReceiveByte, EndReceiving, ReceiveReady, ReceiveEoi, EoiAnswered,
           ReceiveBitStart, ReceiveBit, ReceiveAck, AtnStep, CheckStep, TurnStep, ResultStep, Leaves
<1>2. alive' => alive
    BY DEF Next, Controller, Begin, Drive, Hang, Poll, SendByte, SendReady, SendEoi, SendBit, BitValid,
           SendFrame, SendAck, ReceiveByte, EndReceiving, ReceiveReady, ReceiveEoi, EoiAnswered,
           ReceiveBitStart, ReceiveBit, ReceiveAck, AtnStep, CheckStep, TurnStep, ResultStep
<1>. QED
    BY <1>1, <1>2 DEF Faultless

\* A step that changes nothing changes nothing of this.
LEMMA StutterInStep ==
    ASSUME NEW c \in Contexts, InStep(c), UNCHANGED vars
    PROVE  InStep(c)'
<1>0. /\ Op' = Op
      /\ UNCHANGED <<atn, clk, data, script, pc, timeout, bit, inbox, eoi, ret, dev, sent>>
    BY DEF vars, lines, Op
<1>1. Standing(c)'
    BY <1>0 DEF InStep, Standing, Synced, Short
<1>2. Agreed(c)' /\ Received(c)'
    BY <1>0 DEF InStep, Agreed, Now, Acked, Received, Complete
<1>3. HearingInStep'
    BY <1>0 DEF InStep, HearingInStep, Hearing, Synced, HearingIdle, HearingReady, HearingEoi, HearingLow,
                HearingHigh, HearingAck, Held, Shifted
<1>4. TellingInStep(c)'
    BY <1>0 DEF InStep, TellingInStep, Telling, Synced, TellingIdle, TellingClk, TellingEoi, TellingAnswer,
                TellingLow, TellingHigh, TellingDone, Left, Quiet, Waits, Lingers, Begun, Bit, Finished,
                Last
<1>. QED
    BY <1>1, <1>2, <1>3, <1>4 DEF InStep

\* Every step of the controller leaves it in step.
LEMMA ControllerInStep ==
    ASSUME Types, NEW c \in Contexts, InStep(c), Owed, Faultless, Faultless', Controller
    PROVE  \E d \in Contexts : InStep(d)'
BY PollInStep, SendByteInStep, SendsInStep, SendAckInStep, ReceiveByteInStep, EndReceivingInStep,
   ReceiveReadyInStep, ReceiveEoiInStep, ReceiveBitStartInStep, ReceiveBitInStep, ReceiveAckInStep,
   AtnStepInStep, CheckStepInStep, TurnStepInStep, ResultStepInStep DEF Controller

\* The inductive invariant: a faultless bus is always in step.
LEMMA InductiveInvariant == Spec => []IInv
<1>1. Init => IInv
    <2>. SUFFICES ASSUME Init PROVE IInv
        OBVIOUS
    <2>1. RestingBus
        BY DEF Init, RestingBus
    <2>. QED
        BY <2>1, InitTypes, RestingInStep, RestingOwed DEF IInv
<1>2. RestingBus' => (\E c \in Contexts : InStep(c))'
    BY RestingInStep, PTL
<1>3. IInv /\ [Next]_vars => IInv'
    <2>. SUFFICES ASSUME IInv, [Next]_vars, Faultless'
                  PROVE  Owed' /\ \E d \in Contexts : InStep(d)'
        BY StepKeepsTypes DEF IInv
    <2>. Types /\ Types'
        BY StepKeepsTypes DEF IInv
    <2>1. CASE Reset
        <3>1. RestingBus' /\ script' = <<>>
            BY <2>1 DEF Reset, RestingBus
        <3>. QED
            BY <1>2, <3>1, OwedEmpty
    <2>2. CASE ~Reset /\ Next
        <3>1. Faultless /\ ~Hang
            BY <2>2, FaultsStay DEF Faultless, Hang
        <3>2. PICK c \in Contexts : InStep(c) /\ Owed
            BY <3>1 DEF IInv
        <3>3. CASE Controller
            <4>1. PICK d \in Contexts : InStep(d)'
                BY <2>2, <3>1, <3>2, <3>3, ControllerInStep
            <4>. QED
                BY <3>2, <3>3, <4>1, ControllerOwed
        <3>4. CASE Begin
            BY <3>1, <3>2, <3>4, BeginInStep, OthersOwed
        <3>5. CASE Drive
            BY <3>2, <3>5, DriveSteps, AttendsInStep, HearsInStep, TellsInStep, OthersOwed
               DEF Types, ControllerTypes, LineTypes
        <3>. QED
            BY <2>2, <3>1, <3>3, <3>4, <3>5 DEF Next
    <2>3. CASE UNCHANGED vars
        <3>1. PICK c \in Contexts : InStep(c) /\ Owed
            BY <2>3 DEF IInv, Faultless, vars
        <3>2. InStep(c)' /\ Owed'
            BY <2>3, <3>1, StutterInStep, OthersOwed
        <3>. QED
            BY <3>1, <3>2
    <2>. QED
        BY <2>1, <2>2, <2>3
<1>. QED
    BY <1>1, <1>3, PTL DEF Spec

\* Every byte arrives: on a faultless bus the drive has heard what was sent, with EOI where
\* it was meant, and the controller has received what the drive said, up to the size of its
\* buffer, with EOI on the drive's last byte (ufi_iec.c, lines 152 to 280).
THEOREM BytesArrive == Spec => []BytesIntact
<1>1. IInv => BytesIntact
    <2>. SUFFICES ASSUME IInv, Faultless, pc = "idle"
                  PROVE  /\ dev.heard = sent
                         /\ inbox = SubSeq(Message, 1, Len(inbox))
                         /\ eoi <=> inbox = Message
        BY DEF BytesIntact
    <2>1. PICK c \in Contexts : Agreed(c) /\ Received(c)
        BY DEF IInv, InStep
    <2>2. dev.heard = sent
        BY <2>1 DEF Agreed, Acked
    <2>. DEFINE n == Len(inbox)
    <2>3. /\ n \in Nat /\ n <= Len(Message) /\ (\A j \in 1 .. n : inbox[j] = Message[j])
          /\ eoi <=> n = Len(Message)
        BY <2>1 DEF Received, Complete, IInv, Types, InboxTypes
    <2>4. Message \in Seq(Byte) /\ Len(Message) \in Nat /\ inbox \in Seq(Seq(BOOLEAN))
        BY Bounds, LenProperties DEF IInv, Types, InboxTypes
    <2>5. inbox = SubSeq(Message, 1, n)
        <3>1. \A i \in 1 .. n : Message[i] \in Byte
            BY <2>3, <2>4, ElementOfSeq
        <3>2. /\ SubSeq(Message, 1, n) \in Seq(Byte) /\ Len(SubSeq(Message, 1, n)) = n
              /\ \A i \in 1 .. n : SubSeq(Message, 1, n)[i] = Message[i]
            BY <2>3, <2>4, <3>1, SubSeqProperties
        <3>. QED
            BY <2>3, <2>4, <3>2
    <2>6. eoi <=> inbox = Message
        <3>1. SubSeq(Message, 1, Len(Message)) = Message
            BY <2>4, SubSeqFull
        <3>. QED
            BY <2>3, <2>5, <3>1
    <2>. QED
        BY <2>2, <2>5, <2>6
<1>. QED
    BY <1>1, InductiveInvariant, PTL

\* The bus stays in order: the two ends never pull the clock line together, and a dialog
\* with a faultless drive fails only if a block was shorter than its buffer, and leaves no
\* drive addressed and the lines released (ufi_iec.c, lines 138 to 146, 349 to 387, 431
\* and 476 to 482).
THEOREM BusIsOrderly == Spec => []BusInOrder
<1>1. IInv => BusInOrder
    <2>. SUFFICES ASSUME IInv, Faultless PROVE BusInOrder
        BY DEF BusInOrder, OneTalker, BusLeftFree
    <2>1. PICK c \in Contexts : Standing(c) /\ Agreed(c)
        BY DEF IInv, InStep
    <2>2. OneTalker
        BY <2>1 DEF OneTalker, Standing
    <2>3. ASSUME pc = "idle", script = <<>>, Settled
          PROVE  (ret = 0 \/ Short) /\ dev.role = "none" /\ {atn, data, dev.clk, dev.data} = {FALSE}
        <3>1. (ret = 0 \/ Short) /\ ~atn /\ c.role = "none" /\ ~data
            BY <2>1, <2>3, LeadsEmpty DEF Standing, Ended
        <3>2. dev.role = "none"
            BY <2>1, <2>3, <3>1 DEF Agreed, Now, Acked
        <3>3. ~dev.att
            BY <2>3, <3>1, SettledWaits DEF IInv, Faultless, Synced
        <3>4. ~dev.clk /\ ~dev.data
            BY <3>2, <3>3 DEF IInv, Types, DriveTypes, Telling
        <3>5. atn \in BOOLEAN /\ data \in BOOLEAN /\ dev.clk \in BOOLEAN /\ dev.data \in BOOLEAN
            BY DEF IInv, Types, ControllerTypes, LineTypes, DriveTypes, Device
        <3>. QED
            BY <3>1, <3>2, <3>4, <3>5
    <2>. QED
        BY <2>2, <2>3 DEF BusInOrder, BusLeftFree
<1>. QED
    BY <1>1, InductiveInvariant, PTL

------------------------------------------------------------------------------
(* Every dialog is finite, with any drive.                                 *)

\* Bytes of the answer that are complete, and the places left in the buffer.
Got == IF pc \in Receiving \ {"r_clk"} THEN Len(inbox) - 1 ELSE Len(inbox)
Wanted ==
    IF script # <<>> /\ Op.op = "receive" /\ Got < Op.room THEN Op.room - Got ELSE 0

\* How far the functions that move a byte are from their end.
PlacesLeft ==
    CASE pc = "idle" -> 2 * Bits + 6
      [] pc \in {"s_ready", "r_clk"} -> 2 * Bits + 5
      [] pc \in {"s_eoi_high", "r_eoi"} -> 2 * Bits + 4
      [] pc \in {"s_eoi_low", "r_answer"} -> 2 * Bits + 3
      [] pc \in {"s_low", "r_low"} -> 2 * (Bits - bit) + 2
      [] pc \in {"s_high", "r_high"} -> 2 * (Bits - bit) + 1
      [] pc = "s_ack" -> 1
      [] pc = "r_done" -> 0

\* How many steps the drive may take before it waits for the controller.
HearingLeft ==
    CASE dev.phase = "hold" -> IF ClkLow THEN 0 ELSE 4
      [] dev.phase = "open" -> IF dev.eoi THEN 1 ELSE 3
      [] dev.phase = "eoi" -> 2
      [] dev.phase = "low" -> IF ClkLow THEN 0 ELSE 1
      [] dev.phase = "high" -> IF ClkLow THEN 1 ELSE 0
      [] OTHER -> 1
TellingLeft ==
    CASE dev.phase = "turn" -> 7
      [] dev.phase = "high" -> IF pc = "r_high" THEN 0 ELSE 7
      [] dev.phase = "ack" -> 6
      [] dev.phase = "busy" -> 5
      [] dev.phase = "ready" -> 4
      [] dev.phase = "linger" -> 3
      [] dev.phase = "answered" -> 2
      [] OTHER -> 1
DriveLeft ==
    IF ~Synced THEN 8
    ELSE IF Hearing THEN HearingLeft ELSE IF Telling THEN TellingLeft ELSE 0

\* What is left of a dialog: the steps of the script, the bytes to be received, the
\* places of the byte in the making, the rounds of the polling loop, and what the
\* drive still does. The first of them that changes decreases.
Rest == <<Len(script), Wanted, PlacesLeft, timeout, DriveLeft>>
Decreases ==
    \E i \in 1 .. 5 : Rest'[i] < Rest[i] /\ \A j \in 1 .. i - 1 : Rest'[j] = Rest[j]

\* Only a byte there is room for is received; a drive has an EOI to notice only once;
\* and it shifts bits only while it gives them.
Tidy ==
    /\ pc \in Receiving => Got < Op.room
    /\ Hearing /\ dev.phase = "eoi" => dev.eoi
    /\ Telling /\ dev.phase \in {"turn", "busy", "ready", "linger", "answered"} => dev.shift = <<>>

\* The five ways to decrease.
LEMMA Decreasing ==
    ASSUME \/ Len(script') < Len(script)
           \/ /\ Len(script') = Len(script)
              /\ \/ Wanted' < Wanted
                 \/ /\ Wanted' = Wanted
                    /\ \/ PlacesLeft' < PlacesLeft
                       \/ /\ PlacesLeft' = PlacesLeft
                          /\ \/ timeout' < timeout
                             \/ timeout' = timeout /\ DriveLeft' < DriveLeft
    PROVE  Decreases
<1>1. /\ Rest[1] = Len(script) /\ Rest[2] = Wanted /\ Rest[3] = PlacesLeft /\ Rest[4] = timeout
      /\ Rest[5] = DriveLeft
      /\ Rest'[1] = Len(script') /\ Rest'[2] = Wanted' /\ Rest'[3] = PlacesLeft'
      /\ Rest'[4] = timeout' /\ Rest'[5] = DriveLeft'
    BY DEF Rest
<1>2. CASE Len(script') < Len(script)
    <2>1. Rest'[1] < Rest[1] /\ \A j \in 1 .. 1 - 1 : Rest'[j] = Rest[j]
        BY <1>1, <1>2
    <2>. QED
        BY <2>1 DEF Decreases
<1>3. CASE Len(script') = Len(script) /\ Wanted' < Wanted
    <2>1. Rest'[2] < Rest[2] /\ \A j \in 1 .. 2 - 1 : Rest'[j] = Rest[j]
        BY <1>1, <1>3
    <2>. QED
        BY <2>1 DEF Decreases
<1>4. CASE Len(script') = Len(script) /\ Wanted' = Wanted /\ PlacesLeft' < PlacesLeft
    <2>1. Rest'[3] < Rest[3] /\ \A j \in 1 .. 3 - 1 : Rest'[j] = Rest[j]
        BY <1>1, <1>4
    <2>. QED
        BY <2>1 DEF Decreases
<1>5. CASE /\ Len(script') = Len(script) /\ Wanted' = Wanted /\ PlacesLeft' = PlacesLeft
           /\ timeout' < timeout
    <2>1. Rest'[4] < Rest[4] /\ \A j \in 1 .. 4 - 1 : Rest'[j] = Rest[j]
        BY <1>1, <1>5
    <2>. QED
        BY <2>1 DEF Decreases
<1>6. CASE /\ Len(script') = Len(script) /\ Wanted' = Wanted /\ PlacesLeft' = PlacesLeft
           /\ timeout' = timeout /\ DriveLeft' < DriveLeft
    <2>1. Rest'[5] < Rest[5] /\ \A j \in 1 .. 5 - 1 : Rest'[j] = Rest[j]
        BY <1>1, <1>6
    <2>. QED
        BY <2>1 DEF Decreases
<1>. QED
    BY <1>2, <1>3, <1>4, <1>5, <1>6

\* What is left is counted by natural numbers,
LEMMA RestIsCounted ==
    ASSUME Types
    PROVE  Rest \in [1 .. 5 -> Nat]
<1>. /\ Bits \in Nat /\ Bits # 0 /\ bit \in 0 .. Bits /\ timeout \in Nat /\ Len(script) \in Nat
     /\ Len(inbox) \in Nat
    BY Bounds DEF Types, ControllerTypes, PlaceTypes, CountTypes, InboxTypes
<1>1. Wanted \in Nat
    <2>1. CASE script # <<>> /\ Op.op = "receive" /\ Got < Op.room
        <3>1. Op.room \in Nat /\ Got \in Int
            BY <2>1, OpTypes DEF Types, Got
        <3>. QED
            BY <2>1, <3>1 DEF Wanted
    <2>2. CASE ~(script # <<>> /\ Op.op = "receive" /\ Got < Op.room)
        BY <2>2 DEF Wanted
    <2>. QED
        BY <2>1, <2>2
<1>2. PlacesLeft \in Nat
    <2>1. pc \in {"idle"} \cup Sending \cup Receiving
        BY DEF Types, ControllerTypes, PlaceTypes
    <2>. DEFINE m == 2 * Bits
                n == 2 * (Bits - bit)
    <2>2. m \in Nat /\ n \in Nat
        OBVIOUS
    <2>3. PlacesLeft = IF pc = "idle" THEN m + 6
                       ELSE IF pc \in {"s_ready", "r_clk"} THEN m + 5
                       ELSE IF pc \in {"s_eoi_high", "r_eoi"} THEN m + 4
                       ELSE IF pc \in {"s_eoi_low", "r_answer"} THEN m + 3
                       ELSE IF pc \in {"s_low", "r_low"} THEN n + 2
                       ELSE IF pc \in {"s_high", "r_high"} THEN n + 1
                       ELSE IF pc = "s_ack" THEN 1 ELSE 0
        BY <2>1 DEF PlacesLeft, Sending, Receiving
    <2>. QED
        BY <2>2, <2>3
<1>3. DriveLeft \in Nat
    <2>1. HearingLeft \in Nat
        BY DEF HearingLeft
    <2>2. TellingLeft \in Nat
        BY DEF TellingLeft
    <2>. QED
        BY <2>1, <2>2 DEF DriveLeft
<1>. QED
    BY <1>1, <1>2, <1>3 DEF Rest

\* A step of the drive brings it nearer to waiting for the controller,
LEMMA DriveDecreases ==
    ASSUME Types, Tidy, Drive
    PROVE  Decreases
<1>0. /\ script' = script /\ pc' = pc /\ bit' = bit /\ inbox' = inbox /\ timeout' = timeout
      /\ atn' = atn /\ clk' = clk /\ data' = data
    BY DEF Drive, lines
<1>1. Len(script') = Len(script) /\ Wanted' = Wanted /\ PlacesLeft' = PlacesLeft /\ timeout' = timeout
    BY <1>0 DEF Wanted, Got, Op, PlacesLeft
<1>2. /\ atn \in BOOLEAN /\ dev \in Device /\ dev' \in Device
      /\ Attends \/ Hears \/ Tells
    BY DriveSteps DEF Types, ControllerTypes, LineTypes, DriveTypes
<1>. Bits \in Nat /\ Bits # 0 /\ Len(<<>>) = 0
    BY Bounds
<1>. USE DEF Keeps, Stays, Same, To
<1>3. ASSUME Attends PROVE DriveLeft' < DriveLeft
    <2>1. Synced' /\ DriveLeft = 8
        BY <1>0, <1>3 DEF Attends, Synced, DriveLeft
    <2>2. CASE Hearing'
        <3>1. dev'.phase = "wait"
            BY <1>0, <1>3, <2>2 DEF Attends, Hearing
        <3>. QED
            BY <2>1, <2>2, <3>1 DEF DriveLeft, HearingLeft
    <2>3. CASE ~Hearing'
        <3>1. dev'.phase = "turn"
            BY <1>0, <1>3, <2>3 DEF Attends, Hearing
        <3>. QED
            BY <2>1, <2>3, <3>1 DEF DriveLeft, TellingLeft
    <2>. QED
        BY <2>2, <2>3
<1>4. ASSUME Hears PROVE DriveLeft' < DriveLeft
    <2>1. Synced /\ Synced' /\ Hearing /\ Hearing'
        BY <1>0, <1>4 DEF Hears, HearsClk, HearsReady, HearsLow, HearsEoi, HearsOn, HearsBit,
                          HearsNext, HearsByte, Synced, Hearing
    <2>2. DriveLeft = HearingLeft /\ DriveLeft' = HearingLeft'
        BY <2>1 DEF DriveLeft
    <2>3. dev'.clk = dev.clk /\ ClkLow' = ClkLow
        BY <1>0, <1>4 DEF Hears, HearsClk, HearsReady, HearsLow, HearsEoi, HearsOn, HearsBit,
                          HearsNext, HearsByte, ClkLow
    <2>4. HearingLeft' < HearingLeft
        BY <1>4, <2>1, <2>3 DEF Hears, HearsClk, HearsReady, HearsLow, HearsEoi, HearsOn, HearsBit,
                               HearsNext, HearsByte, HearingLeft, Tidy
    <2>. QED
        BY <2>2, <2>4
<1>5. ASSUME Tells PROVE DriveLeft' < DriveLeft
    <2>1. Synced /\ Synced' /\ ~Hearing /\ ~Hearing' /\ Telling /\ Telling'
        BY <1>0, <1>5 DEF Tells, TellsTurn, TellsReady, TellsLinger, TellsAnswered, TellsHigh,
                          TellsBit, TellsEnd, TellsByte, Synced, Hearing, Telling
    <2>2. DriveLeft = TellingLeft /\ DriveLeft' = TellingLeft'
        BY <2>1 DEF DriveLeft
    <2>3. TellingLeft' < TellingLeft
        <3>1. dev.phase \in {"turn", "busy", "ready", "linger", "answered"} => Len(dev.shift) # Bits
            BY <2>1 DEF Tidy
        <3>. QED
            BY <1>0, <1>5, <3>1 DEF Tells, TellsTurn, TellsReady, TellsLinger, TellsAnswered,
                          TellsHigh, TellsBit, TellsEnd, TellsByte, Follows, TellingLeft
    <2>. QED
        BY <2>2, <2>3
<1>6. DriveLeft' < DriveLeft
    BY <1>2, <1>3, <1>4, <1>5
<1>. QED
    BY <1>1, <1>6, Decreasing

\* a step that sends leaves fewer places, or ends a step of the script;
LEMMA SendingDecreases ==
    ASSUME Types,
           SendByte \/ SendReady \/ SendEoi \/ SendBit \/ BitValid \/ SendFrame \/ SendAck
    PROVE  Decreases
<1>. Bits \in Nat /\ Bits # 0 /\ bit \in 0 .. Bits /\ script \in Seq(Ops)
    BY Bounds DEF Types, ControllerTypes, PlaceTypes, CountTypes
<1>1. script # <<>> /\ Op.op = "send"
    BY DEF Types, ControllerTypes, PlaceTypes, Sending, SendByte, SendReady, SendEoi, SendBit,
           BitValid, SendFrame, SendAck, At, Leaves
<1>2. ASSUME script' = Tail(script) PROVE Decreases
    <2>1. Len(script') < Len(script)
        BY <1>1, <1>2, HeadTailProperties, LenProperties
    <2>. QED
        BY <2>1, Decreasing
<1>3. ASSUME script' = script, PlacesLeft' < PlacesLeft PROVE Decreases
    <2>1. Wanted = 0 /\ Wanted' = 0
        BY <1>1, <1>3 DEF Wanted, Op
    <2>. QED
        BY <1>3, <2>1, Decreasing
<1>4. CASE SendByte
    BY <1>3, <1>4 DEF SendByte, At, PlacesLeft
<1>5. CASE SendReady
    <2>1. CASE AfterPoll = 0
        BY <1>2, <1>5, <2>1 DEF SendReady, Return
    <2>2. CASE AfterPoll # 0
        BY <1>3, <1>5, <2>2 DEF SendReady, Leaves, PlacesLeft
    <2>. QED
        BY <2>1, <2>2
<1>6. CASE SendEoi
    BY <1>3, <1>6 DEF SendEoi, Leaves, PlacesLeft
<1>7. CASE SendBit
    BY <1>3, <1>7 DEF SendBit, PlacesLeft
<1>8. CASE BitValid
    BY <1>3, <1>8 DEF BitValid, PlacesLeft
<1>9. CASE SendFrame
    BY <1>3, <1>9 DEF SendFrame, PlacesLeft
<1>10. CASE SendAck
    BY <1>2, <1>10 DEF SendAck, Return
<1>. QED
    BY <1>4, <1>5, <1>6, <1>7, <1>8, <1>9, <1>10

\* a step that receives does, or completes a byte that was wanted;
LEMMA ReceivingDecreases ==
    ASSUME Types, Tidy,
           \/ ReceiveByte \/ EndReceiving \/ ReceiveReady \/ ReceiveEoi \/ EoiAnswered
           \/ ReceiveBitStart \/ ReceiveBit \/ ReceiveAck
    PROVE  Decreases
<1>. /\ Bits \in Nat /\ Bits # 0 /\ bit \in 0 .. Bits /\ script \in Seq(Ops)
     /\ Len(inbox) \in Nat /\ inbox \in Seq(Seq(BOOLEAN))
    BY Bounds DEF Types, ControllerTypes, PlaceTypes, CountTypes, InboxTypes
<1>1. script # <<>> /\ Op.op = "receive" /\ Op.room \in Nat
    <2>1. script # <<>> /\ Op.op = "receive"
        BY DEF Types, ControllerTypes, PlaceTypes, Receiving, ReceiveByte, EndReceiving, ReceiveReady,
               ReceiveEoi, EoiAnswered, ReceiveBitStart, ReceiveBit, ReceiveAck, At, Leaves
    <2>. QED
        BY <2>1, OpTypes DEF Types
<1>2. ASSUME script' = Tail(script) PROVE Decreases
    <2>1. Len(script') < Len(script)
        BY <1>1, <1>2, HeadTailProperties, LenProperties
    <2>. QED
        BY <2>1, Decreasing
<1>3. ASSUME script' = script, Got' = Got, PlacesLeft' < PlacesLeft PROVE Decreases
    <2>1. Wanted' = Wanted
        BY <1>3 DEF Wanted, Op
    <2>. QED
        BY <1>3, <2>1, Decreasing
<1>4. CASE ReceiveByte
    <2>1. Got' = Got
        BY <1>4 DEF ReceiveByte, At, Got, Receiving
    <2>. QED
        BY <1>3, <1>4, <2>1 DEF ReceiveByte, At, PlacesLeft
<1>5. CASE EndReceiving
    BY <1>2, <1>5 DEF EndReceiving
<1>6. CASE ReceiveReady
    <2>1. CASE AfterPoll = 0
        BY <1>2, <1>6, <2>1 DEF ReceiveReady, Return
    <2>2. CASE AfterPoll # 0
        <3>1. Len(inbox') = Len(inbox) + 1
            BY <1>6, <2>2, AppendProperties DEF ReceiveReady
        <3>2. Got' = Got
            BY <1>6, <2>2, <3>1 DEF ReceiveReady, Leaves, Got, Receiving
        <3>. QED
            BY <1>3, <1>6, <2>2, <3>2 DEF ReceiveReady, Leaves, PlacesLeft
    <2>. QED
        BY <2>1, <2>2
<1>7. CASE ReceiveEoi
    <2>1. Got' = Got
        BY <1>7 DEF ReceiveEoi, Got, Receiving
    <2>. QED
        BY <1>3, <1>7, <2>1 DEF ReceiveEoi, PlacesLeft
<1>8. CASE EoiAnswered
    <2>1. Got' = Got
        BY <1>8 DEF EoiAnswered, Got, Receiving
    <2>. QED
        BY <1>3, <1>8, <2>1 DEF EoiAnswered, PlacesLeft
<1>9. CASE ReceiveBitStart
    <2>1. Got' = Got
        BY <1>9 DEF ReceiveBitStart, Leaves, Got, Receiving
    <2>. QED
        BY <1>3, <1>9, <2>1 DEF ReceiveBitStart, Leaves, PlacesLeft
<1>10. CASE ReceiveBit
    <2>1. Len(inbox') = Len(inbox)
        BY <1>10 DEF ReceiveBit
    <2>2. Got' = Got
        BY <1>10, <2>1 DEF ReceiveBit, Leaves, Got, Receiving
    <2>3. bit < Bits
        BY <1>10 DEF ReceiveBit, Leaves, Types, ControllerTypes, CountTypes
    <2>. QED
        BY <1>3, <1>10, <2>2, <2>3 DEF ReceiveBit, Leaves, PlacesLeft
<1>11. CASE ReceiveAck
    <2>1. pc = "r_done" /\ pc' = "idle" /\ script' = script /\ Len(inbox') = Len(inbox)
        BY <1>11 DEF ReceiveAck
    <2>2. Got < Op.room /\ Got = Len(inbox) - 1 /\ Got' = Len(inbox)
        BY <2>1 DEF Got, Tidy, Receiving
    <2>3. Wanted' < Wanted
        BY <1>1, <2>1, <2>2 DEF Wanted, Op
    <2>. QED
        BY <2>1, <2>3, Decreasing
<1>. QED
    BY <1>4, <1>5, <1>6, <1>7, <1>8, <1>9, <1>10, <1>11

\* a poll counts, and the other steps end.
LEMMA ScriptDecreases ==
    ASSUME Types, Poll \/ AtnStep \/ CheckStep \/ TurnStep \/ ResultStep
    PROVE  Decreases
<1>. timeout \in Nat /\ script \in Seq(Ops)
    BY DEF Types, ControllerTypes, PlaceTypes, CountTypes
<1>1. CASE Poll
    <2>1. /\ script' = script /\ pc' = pc /\ bit' = bit /\ inbox' = inbox
          /\ timeout # 0 /\ timeout' = timeout - 1
        BY <1>1 DEF Poll
    <2>2. Len(script') = Len(script) /\ Wanted' = Wanted /\ PlacesLeft' = PlacesLeft
        BY <2>1 DEF Wanted, Got, Op, PlacesLeft
    <2>. QED
        BY <2>1, <2>2, Decreasing
<1>2. CASE AtnStep \/ CheckStep \/ TurnStep \/ ResultStep
    <2>1. script # <<>> /\ script' \in {<<>>, Tail(script)}
        BY <1>2 DEF AtnStep, CheckStep, TurnStep, ResultStep, At
    <2>2. Len(script') < Len(script)
        BY <2>1, HeadTailProperties, LenProperties, EmptySeq
    <2>. QED
        BY <2>2, Decreasing
<1>. QED
    BY <1>1, <1>2

\* The drive stays tidy at its own steps,
LEMMA DriveKeepsTidy ==
    ASSUME Types, Tidy, Drive
    PROVE  Tidy'
<1>1. script' = script /\ pc' = pc /\ inbox' = inbox
    BY DEF Drive
<1>2. (pc \in Receiving => Got < Op.room)'
    BY <1>1 DEF Tidy, Got, Op
<1>3. /\ atn \in BOOLEAN /\ dev \in Device /\ dev' \in Device
      /\ Attends \/ Hears \/ Tells
    BY DriveSteps DEF Types, ControllerTypes, LineTypes, DriveTypes
<1>. USE DEF Keeps, Stays, Same, To
<1>4. ASSUME Attends
      PROVE  dev'.phase # "eoi" /\ dev'.shift = <<>>
    BY <1>4 DEF Attends
<1>5. ASSUME Hears
      PROVE  (Hearing /\ dev.phase = "eoi" => dev.eoi)' /\ ~Telling'
    BY <1>5 DEF Hears, HearsClk, HearsReady, HearsLow, HearsEoi, HearsOn, HearsBit,
                HearsNext, HearsByte, Hearing, Telling
<1>6. ASSUME Tells
      PROVE  /\ ~Hearing'
             /\ dev'.phase \in {"turn", "busy", "ready", "linger", "answered"} => dev'.shift = <<>>
    BY <1>6 DEF Tells, TellsTurn, TellsReady, TellsLinger, TellsAnswered, TellsHigh,
                TellsBit, TellsEnd, TellsByte, Hearing, Telling, Tidy
<1>. QED
    BY <1>2, <1>3, <1>4, <1>5, <1>6 DEF Tidy

\* and every step of the others leaves it so.
LEMMA StepKeepsTidy ==
    ASSUME Types, Tidy, [Next]_vars
    PROVE  Tidy'
<1>. Len(inbox) \in Nat /\ inbox \in Seq(Seq(BOOLEAN))
    BY DEF Types, InboxTypes
<1>1. ASSUME \/ dev' = dev
             \/ dev'.att = dev.att /\ dev'.role = dev.role /\ dev'.phase = dev.phase
                /\ dev'.eoi = dev.eoi /\ dev'.shift = dev.shift
             \/ ~dev'.att /\ dev'.role = "none",
             pc' \in Receiving => (Got < Op.room)'
      PROVE  Tidy'
    BY <1>1 DEF Tidy, Hearing, Telling
<1>2. CASE SendByte \/ SendReady \/ SendEoi \/ SendBit \/ BitValid \/ SendFrame \/ SendAck
    <2>1. dev' = dev /\ pc' \in {"idle"} \cup Sending
        BY <1>2 DEF SendByte, SendReady, SendEoi, SendBit, BitValid, SendFrame, SendAck, Return, Sending
    <2>. QED
        BY <1>1, <2>1 DEF Sending, Receiving
<1>3. CASE ReceiveByte
    BY <1>1, <1>3 DEF ReceiveByte, Got, Op, Receiving
<1>4. CASE EndReceiving \/ ReceiveAck
    BY <1>1, <1>4 DEF EndReceiving, At, ReceiveAck, Receiving
<1>5. CASE ReceiveReady
    <2>1. CASE AfterPoll = 0
        BY <1>1, <1>5, <2>1 DEF ReceiveReady, Return, Receiving
    <2>2. CASE AfterPoll # 0
        <3>1. Len(inbox') = Len(inbox) + 1
            BY <1>5, <2>2, AppendProperties DEF ReceiveReady
        <3>. QED
            BY <1>1, <1>5, <2>2, <3>1 DEF ReceiveReady, Leaves, Got, Op, Receiving, Tidy
    <2>. QED
        BY <2>1, <2>2
<1>6. CASE ReceiveEoi \/ EoiAnswered \/ ReceiveBitStart
    BY <1>1, <1>6 DEF ReceiveEoi, EoiAnswered, ReceiveBitStart, Leaves, Got, Op, Receiving, Tidy
<1>7. CASE ReceiveBit
    <2>1. Len(inbox') = Len(inbox)
        BY <1>7 DEF ReceiveBit
    <2>. QED
        BY <1>1, <1>7, <2>1 DEF ReceiveBit, Leaves, Got, Op, Receiving, Tidy
<1>8. CASE Poll \/ Hang
    <2>1. dev' = dev /\ pc' = pc /\ inbox' = inbox /\ script' = script
        BY <1>8 DEF Poll, Hang
    <2>. QED
        BY <1>1, <2>1 DEF Got, Op, Tidy
<1>9. CASE AtnStep \/ CheckStep \/ TurnStep \/ ResultStep
    BY <1>1, <1>9 DEF AtnStep, CheckStep, TurnStep, ResultStep, At, Receiving
<1>10. CASE Begin
    <2>1. dev \in Device
        BY DEF Types, DriveTypes
    <2>2. /\ dev'.att = dev.att /\ dev'.role = dev.role /\ dev'.phase = dev.phase
          /\ dev'.eoi = dev.eoi /\ dev'.shift = dev.shift
        BY <1>10, <2>1 DEF Begin, Device
    <2>. QED
        BY <1>1, <1>10, <2>2 DEF Begin, Receiving
<1>11. CASE Reset
    BY <1>1, <1>11 DEF Reset, Asleep, Receiving
<1>12. CASE UNCHANGED vars
    BY <1>12 DEF vars, lines, Tidy, Got, Op, Hearing, Telling
<1>. QED
    BY <1>2, <1>3, <1>4, <1>5, <1>6, <1>7, <1>8, <1>9, <1>10, <1>11, <1>12, DriveKeepsTidy
    DEF Next, Controller

\* Every step of the controller and of the drive brings the dialog nearer to its end,
\* however the drive answers, if it does: a polling loop loses a round, a byte a place, a
\* script a step (the loops of lines 161 to 265). What is left is counted
\* by natural numbers, so no dialog goes on for ever.
THEOREM DialogsAreFinite ==
    Spec => /\ [](Rest \in [1 .. 5 -> Nat])
            /\ [][Controller \/ Drive => Decreases]_vars
<1>1. Init => Tidy
    <2>. SUFFICES ASSUME Init PROVE Tidy
        OBVIOUS
    <2>. QED
        BY DEF Init, Asleep, Tidy, Hearing, Telling, Receiving
<1>2. Types /\ Tidy /\ [Next]_vars => Tidy'
    BY StepKeepsTidy
<1>3. Types => Rest \in [1 .. 5 -> Nat]
    BY RestIsCounted
<1>4. Types /\ Tidy /\ [Next]_vars => [Controller \/ Drive => Decreases]_vars
    BY SendingDecreases, ReceivingDecreases, ScriptDecreases, DriveDecreases DEF Controller
<1>. QED
    BY <1>1, <1>2, <1>3, <1>4, TypesInvariant, PTL DEF Spec

=============================================================================
