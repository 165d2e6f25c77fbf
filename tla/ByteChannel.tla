------------------------------ MODULE ByteChannel ------------------------------
(***************************************************************************)
(* What the device promises of the flux it sends: the bytes it has         *)
(* accepted wait in a queue, and packets take them off its front.          *)
(*                                                                         *)
(* The promise ends where `broken` is raised; everything may happen then.  *)
(* TransmitRing is shown to implement this module, with the first copy     *)
(* past the end of its buffer, or over the packet being sent, as that end. *)
(***************************************************************************)
EXTENDS Integers, Sequences

CONSTANTS
    Sizes,        \* what is accepted at once
    PacketSize    \* the longest packet

VARIABLES
    queue,        \* bytes accepted and not yet read, by their numbers
    accepted,     \* how many were accepted altogether
    packet,       \* the last packet
    broken        \* the promise has ended

vars == <<queue, accepted, packet, broken>>

Init ==
    /\ queue = <<>>
    /\ accepted = 0
    /\ packet = <<>>
    /\ broken = FALSE

Accept(n) ==
    /\ queue' = queue \o [i \in 1 .. n |-> accepted + i - 1]
    /\ accepted' = accepted + n
    /\ UNCHANGED packet

Send(n) ==
    /\ packet' = SubSeq(queue, 1, n)
    /\ queue' = SubSeq(queue, n + 1, Len(queue))
    /\ UNCHANGED accepted

Works ==
    /\ ~broken /\ ~broken'
    /\ \/ \E n \in Sizes : Accept(n)
       \/ \E n \in 1 .. Len(queue) : n <= PacketSize /\ Send(n)

Breaks == broken'

Next == Works \/ Breaks

Spec == Init /\ [][Next]_vars

================================================================================
