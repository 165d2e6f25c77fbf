----------------------------- MODULE TransmitRing -----------------------------
(***************************************************************************)
(* Sending flux: the ring buffer of firmware/src/ufi_usb.c and the IN      *)
(* endpoint it shares with the answers to commands.                        *)
(*                                                                         *)
(* Only the main loop touches the ring. It copies a revolution into it and *)
(* then hands the endpoint the place of one packet, which counts as free   *)
(* from then on although its bytes are still in the ring; the endpoint is  *)
(* free again when the host has read them, which is up to the host.        *)
(*                                                                         *)
(* A byte is the number it was accepted under. A revolution that does not  *)
(* fit is refused without any effect, and the main loop ignores that; such *)
(* a call is no step here. usb_tx_head = usb_tx_tail does not occur in     *)
(* ufi_usb_flush, whose only caller has just put a revolution in.          *)
(***************************************************************************)
EXTENDS Integers, Sequences

CONSTANTS
    RingSize,     \* USB_HS_BUFFER_SIZE
    PacketSize,   \* the 512 bytes of a transfer
    Slack,        \* the 4 bytes ufi_usb_send_flux keeps free
    Sizes,        \* header and samples of a revolution, in bytes
    MaxBytes      \* bound: bytes accepted altogether

ASSUME RingAssumption ==
    /\ RingSize \in Nat \ {0}
    /\ PacketSize \in Nat \ {0}
    /\ Slack \in Nat
    /\ Sizes \subseteq Nat \ {0}
    /\ MaxBytes \in Nat

VARIABLES
    head,         \* usb_tx_head
    tail,         \* usb_tx_tail
    ring,         \* usb_tx_buffer
    busy,         \* USBD_CDC_GetTxState
    flight,       \* the slots of the packet of flux in the endpoint, if any
    flushing,     \* ufi_usb_flush is about to run
    accepted,     \* history: bytes put into the ring
    taken,        \* history: bytes handed to the endpoint
    packet,       \* history: the last packet of flux the host has read
    spilled,      \* history: a copy went past the end of the buffer
    overrun       \* history: a copy went over the packet in the endpoint

indices == <<head, tail>>
endpointVars == <<busy, flight>>
history == <<accepted, taken, packet, spilled, overrun>>
ringVars == <<indices, ring, endpointVars, flushing, history>>

Slots == 0 .. RingSize - 1

RingInit ==
    /\ head = 0
    /\ tail = 0
    /\ ring = [i \in Slots |-> 0]
    /\ busy = FALSE
    /\ flight = <<>>
    /\ flushing = FALSE
    /\ accepted = 0
    /\ taken = 0
    /\ packet = <<>>
    /\ spilled = FALSE
    /\ overrun = FALSE

-------------------------------------------------------------------------------
\* Slip: the index is not taken modulo the size.
AdvanceStraight(index, n) == index + n

\* (index + n) % RingSize. No step goes further than once around.
Advance(index, n) ==
    IF index + n >= RingSize THEN index + n - RingSize ELSE index + n

\* Slip: the distance of the indices, whichever is ahead.
UsedEitherWay == IF head >= tail THEN head - tail ELSE tail - head

\* ring_buffer_free.
Used == IF head >= tail THEN head - tail ELSE RingSize - tail + head
Free == RingSize - Used - 1

\* ufi_usb_send_flux. The copy runs straight on from head: what passes the end
\* of the buffer is lost to the ring, whose beginning keeps its old bytes.
UsbSendFlux(n) ==
    /\ ~flushing
    /\ accepted + n <= MaxBytes
    /\ Free >= n + Slack
    /\ ring' = [i \in Slots |->
                   IF i \in head .. head + n - 1 THEN accepted + (i - head)
                                                 ELSE ring[i]]
    /\ spilled' = (spilled \/ head + n > RingSize)
    /\ overrun' = (overrun \/ \E i \in DOMAIN flight :
                                flight[i] \in head .. head + n - 1)
    /\ head' = Advance(head, n)
    /\ accepted' = accepted + n
    /\ flushing' = TRUE
    /\ UNCHANGED <<tail, endpointVars, taken, packet>>

\* What lies in one piece from tail on, and no more than a packet.
Contiguous == IF head > tail THEN head - tail ELSE RingSize - tail
PacketLength == IF Contiguous > PacketSize THEN PacketSize ELSE Contiguous

\* Slip: the packet is not taken off the ring.
FlushAgain ==
    /\ flushing
    /\ ~busy
    /\ flight' = [i \in 1 .. PacketLength |-> tail + i - 1]
    /\ busy' = TRUE
    /\ taken' = taken + PacketLength
    /\ flushing' = FALSE
    /\ UNCHANGED <<indices, ring, accepted, packet, spilled, overrun>>

\* ufi_usb_flush: the endpoint, once it is free, is told where one packet lies, and
\* tail passes it at once ...
Flush ==
    /\ flushing
    /\ ~busy
    /\ flight' = [i \in 1 .. PacketLength |-> tail + i - 1]
    /\ busy' = TRUE
    /\ tail' = Advance(tail, PacketLength)
    /\ taken' = taken + PacketLength
    /\ flushing' = FALSE
    /\ UNCHANGED <<head, ring, accepted, packet, spilled, overrun>>

\* ... or none, if the host has not read the previous one after 100 ms.
FlushTimeout ==
    /\ flushing
    /\ busy
    /\ flushing' = FALSE
    /\ UNCHANGED <<indices, ring, endpointVars, history>>

\* An answer to a command goes to the endpoint directly.
Respond ==
    /\ ~flushing
    /\ busy' = TRUE
    /\ UNCHANGED <<indices, ring, flight, flushing, history>>

\* The bytes of a packet of flux leave the ring when the host reads them.
HostReads ==
    /\ busy
    /\ busy' = FALSE
    /\ packet' = IF flight = <<>> THEN packet
                 ELSE [i \in DOMAIN flight |-> ring[flight[i]]]
    /\ flight' = <<>>
    /\ UNCHANGED <<indices, ring, flushing, accepted, taken, spilled, overrun>>

RingNext ==
    \/ \E n \in Sizes : UsbSendFlux(n)
    \/ Flush
    \/ FlushTimeout
    \/ Respond
    \/ HostReads

RingSpec == RingInit /\ [][RingNext]_ringVars

-------------------------------------------------------------------------------
(* Properties *)

RingTypeOK ==
    /\ head \in Slots
    /\ tail \in Slots
    /\ ring \in [Slots -> Nat]
    /\ busy \in BOOLEAN
    /\ flight \in Seq(Slots)
    /\ flushing \in BOOLEAN
    /\ accepted \in Nat
    /\ taken \in Nat
    /\ packet \in Seq(Nat)
    /\ spilled \in BOOLEAN
    /\ overrun \in BOOLEAN

\* The indices tell an empty ring from a full one: what lies between them is
\* what was accepted and not yet handed on, and never a whole ring.
Conserved ==
    /\ taken <= accepted
    /\ accepted - taken < RingSize
    /\ head = Advance(tail, accepted - taken)

\* Bytes of flux that have reached the host.
Read == taken - Len(flight)

\* As long as every copy ended within the buffer and spared the packet in the
\* endpoint, the host reads the bytes as they were accepted: none is missing,
\* doubled, stale or out of order.
StreamIntact ==
    ~spilled /\ ~overrun =>
        \A i \in DOMAIN packet : packet[i] = Read - Len(packet) + i - 1

\* ufi_fixes.h calls the ring a safe one: then no copy leaves usb_tx_buffer.
CopyInBounds == ~spilled

===============================================================================
