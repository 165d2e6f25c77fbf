---------------------------- MODULE CaptureService ----------------------------
(***************************************************************************)
(* What reading a track promises to its caller, with the timer, the DMA    *)
(* stream and the interrupt left out.                                      *)
(*                                                                         *)
(* A caller asks for `want` revolutions of one surface.  The first index   *)
(* pulse opens the first revolution, every later pulse closes one.  Only   *)
(* when all of them are there are they offered to the link, each once and  *)
(* in the order of their numbers.  The link takes an offer whole or not at *)
(* all, and a refused one is not offered again.  Index pulses mean nothing *)
(* to an idle service, and a cancelled read offers nothing.                *)
(*                                                                         *)
(* FluxCapture is shown to implement this module.                          *)
(***************************************************************************)
EXTENDS Integers, Sequences

CONSTANTS
    Surfaces,    \* what can be read: a track and a side
    NoSurface,   \* no read is pending
    RevBuffers   \* the largest number of revolutions of one read

VARIABLES
    phase,       \* "idle", "waiting", "running" or "done"
    surface,     \* the surface asked for
    want,        \* revolutions asked for
    got,         \* revolutions closed so far
    out,         \* revolutions offered so far
    taken        \* those of them the link has taken, in its order

vars == <<phase, surface, want, got, out, taken>>

Idle ==
    /\ phase = "idle"
    /\ surface = NoSurface
    /\ want = 0
    /\ got = 0
    /\ out = 0
    /\ taken = <<>>

Init == Idle

Accept(s, n) ==
    /\ phase = "idle"
    /\ phase' = "waiting"
    /\ surface' = s
    /\ want' = n
    /\ UNCHANGED <<got, out, taken>>

OpeningPulse ==
    /\ phase = "waiting"
    /\ phase' = "running"
    /\ UNCHANGED <<surface, want, got, out, taken>>

ClosingPulse ==
    /\ phase = "running"
    /\ got' = got + 1
    /\ phase' = IF got' = want THEN "done" ELSE "running"
    /\ UNCHANGED <<surface, want, out, taken>>

Offer ==
    /\ phase = "done"
    /\ out < got
    /\ out' = out + 1
    /\ taken' \in {taken, Append(taken, out)}
    /\ UNCHANGED <<phase, surface, want, got>>

Finish ==
    /\ phase = "done"
    /\ out = want
    /\ Idle'

\* A read is cancelled as a whole: nothing of it is offered afterwards.
Cancel ==
    /\ phase # "idle"
    /\ out = 0
    /\ Idle'

Next ==
    \/ \E s \in Surfaces, n \in 1..RevBuffers : Accept(s, n)
    \/ OpeningPulse
    \/ ClosingPulse
    \/ Offer
    \/ Finish
    \/ Cancel

Spec == Init /\ [][Next]_vars

===============================================================================
