------------------------------- MODULE DriveHead -------------------------------
(***************************************************************************)
(* Moving the head: the drive functions of firmware/src/ufi_main.c.        *)
(*                                                                         *)
(* The firmware never sees where a head is.  It counts its own step pulses *)
(* and knows one fixed point, the TRACK0 signal of the selected drive.     *)
(* Beside the program's counter the model keeps the real position of every *)
(* head: a pulse moves the head of the selected drive by one cylinder, or  *)
(* not at all when it stands at the end of its way.                        *)
(*                                                                         *)
(* The functions run to their end in the main loop; no other part of the   *)
(* program touches their state, but they step the head pulse by pulse.     *)
(***************************************************************************)
EXTENDS Integers

CONSTANTS
    Connected,    \* drives on the cable, among SHUGART_A and SHUGART_B
    Selectable,   \* types the host selects
    Targets,      \* tracks the host asks for
    MaxCylinder,  \* the last cylinder a head can reach
    MaxSteps,     \* the 85 steps after which a recalibration gives up
    None          \* no track asked for

Types == {"NONE", "SHUGART_A", "SHUGART_B", "APPLE_II", "AMIGA", "IEC"}
Byte == 0 .. 255

ASSUME DriveAssumption ==
    /\ Connected \subseteq {"SHUGART_A", "SHUGART_B"}
    /\ Selectable \subseteq Types
    /\ Targets \subseteq Byte
    /\ MaxCylinder \in Nat
    /\ MaxSteps \in Nat
    /\ MaxCylinder < MaxSteps
    /\ None \notin Nat

VARIABLES
    active,       \* g_active_drive
    counter,      \* g_drive_status[].current_track
    track0,       \* g_drive_status[].track0
    op,           \* the function that runs
    goal,         \* the track a seek is for
    tries,        \* i of the recalibration
    result,       \* what the last function returned: 0, -1
    position,     \* where the heads really are
    stopped       \* history: drives whose head was stepped against the end of
                  \* its way and not calibrated since

vars == <<active, counter, track0, op, goal, tries, result, position, stopped>>

Cylinders == 0 .. MaxCylinder

Init ==
    /\ active = "NONE"
    /\ counter = [d \in Types |-> 0]
    /\ track0 = [d \in Types |-> FALSE]
    /\ op = "none"
    /\ goal = None
    /\ tries = 0
    /\ result = "ok"
    /\ position \in [Connected -> Cylinders]
    /\ stopped = {}

\* TRACK0 is driven by the selected drive only.
AtTrack0 == active \in Connected /\ position[active] = 0

\* ufi_drive_select. Every known type becomes the active drive; only the two
\* Shugart drives get a select line.
Select(type) ==
    /\ op = "none"
    /\ active' = type
    /\ result' = IF type = "NONE" THEN "error" ELSE "ok"
    /\ UNCHANGED <<counter, track0, op, goal, tries, position, stopped>>

\* ufi_drive_step: one pulse, and the counter follows, but not below zero.
StepIn ==
    /\ counter' = [counter EXCEPT ![active] = (@ + 1) % 256]
    /\ position' = [d \in Connected |->
           IF d = active /\ position[d] < MaxCylinder
             THEN position[d] + 1 ELSE position[d]]
    /\ stopped' = stopped \cup
           {d \in Connected : d = active /\ position[d] = MaxCylinder}

StepOut ==
    /\ counter' = [counter EXCEPT ![active] = IF @ > 0 THEN @ - 1 ELSE 0]
    /\ position' = [d \in Connected |->
           IF d = active /\ position[d] > 0
             THEN position[d] - 1 ELSE position[d]]
    /\ UNCHANGED stopped

\* UFI_CMD_RECALIBRATE, and the recalibration at the beginning of a seek.
Recalibrate ==
    /\ op = "none"
    /\ op' = "recalibrate"
    /\ goal' = None
    /\ tries' = 0
    /\ UNCHANGED <<active, counter, track0, result, position, stopped>>

\* Slip: a seek never recalibrates.
SeekBlindly(track) ==
    /\ op = "none"
    /\ goal' = track
    /\ tries' = 0
    /\ op' = "seek"
    /\ UNCHANGED <<active, counter, track0, result, position, stopped>>

Seek(track) ==
    /\ op = "none"
    /\ goal' = track
    /\ tries' = 0
    /\ op' = IF ~track0[active] /\ counter[active] = 0
               THEN "recalibrate" ELSE "seek"
    /\ UNCHANGED <<active, counter, track0, result, position, stopped>>

\* A seek goes on whatever its recalibration returned.
Recalibrated(res) ==
    IF goal = None
      THEN op' = "none" /\ result' = res
      ELSE op' = "seek" /\ UNCHANGED result

RecalibrateFound ==
    /\ op = "recalibrate"
    /\ tries < MaxSteps
    /\ AtTrack0
    /\ counter' = [counter EXCEPT ![active] = 0]
    /\ track0' = [track0 EXCEPT ![active] = TRUE]
    /\ stopped' = stopped \ {active}
    /\ Recalibrated("ok")
    /\ UNCHANGED <<active, goal, tries, position>>

\* Slips: the tries are not limited, not counted, or lead inwards.
RecalibrateForever ==
    /\ op = "recalibrate"
    /\ ~AtTrack0
    /\ StepOut
    /\ tries' = tries + 1
    /\ UNCHANGED <<active, track0, op, goal, result>>

RecalibrateUncounted ==
    /\ op = "recalibrate"
    /\ tries < MaxSteps
    /\ ~AtTrack0
    /\ StepOut
    /\ UNCHANGED <<active, track0, op, goal, tries, result>>

RecalibrateInwards ==
    /\ op = "recalibrate"
    /\ tries < MaxSteps
    /\ ~AtTrack0
    /\ StepIn
    /\ tries' = tries + 1
    /\ UNCHANGED <<active, track0, op, goal, result>>

RecalibrateStep ==
    /\ op = "recalibrate"
    /\ tries < MaxSteps
    /\ ~AtTrack0
    /\ StepOut
    /\ tries' = tries + 1
    /\ UNCHANGED <<active, track0, op, goal, result>>

RecalibrateFailed ==
    /\ op = "recalibrate"
    /\ tries = MaxSteps
    /\ Recalibrated("error")
    /\ UNCHANGED <<active, counter, track0, goal, tries, position, stopped>>

\* The number of steps of a seek is the distance of the counter from the goal.
SeekStep ==
    /\ op = "seek"
    /\ \/ counter[active] < goal /\ StepIn
       \/ counter[active] > goal /\ StepOut
    /\ UNCHANGED <<active, track0, op, goal, tries, result>>

SeekEnd ==
    /\ op = "seek"
    /\ counter[active] = goal
    /\ op' = "none"
    /\ result' = "ok"
    /\ UNCHANGED <<active, counter, track0, goal, tries, position, stopped>>

\* UFI_CMD_GET_STATUS reads the signal again.
GetStatus ==
    /\ op = "none"
    /\ track0' = [track0 EXCEPT ![active] = AtTrack0]
    /\ UNCHANGED <<active, counter, op, goal, tries, result, position, stopped>>

Command ==
    \/ \E type \in Selectable : Select(type)
    \/ Recalibrate
    \/ \E track \in Targets : Seek(track)
    \/ GetStatus

Continue ==
    \/ RecalibrateFound
    \/ RecalibrateStep
    \/ RecalibrateFailed
    \/ SeekStep
    \/ SeekEnd

Next == Command \/ Continue

Spec == Init /\ [][Next]_vars

\* A function of the firmware runs to its end.
FairSpec == Spec /\ WF_vars(Continue)

-------------------------------------------------------------------------------
(* Properties *)

\* The types; among them, the counter of a drive is a byte that never wraps.
TypeOK ==
    /\ active \in Types
    /\ counter \in [Types -> Byte]
    /\ track0 \in [Types -> BOOLEAN]
    /\ op \in {"none", "recalibrate", "seek"}
    /\ goal \in Targets \cup {None}
    /\ tries \in 0 .. MaxSteps
    /\ result \in {"ok", "error"}
    /\ position \in [Connected -> Cylinders]
    /\ stopped \subseteq Connected

\* A drive the firmware takes to be at a known place: it has been calibrated,
\* or has been seen at track 0 by GET_STATUS.
Trusted(d) == track0[d] \/ counter[d] > 0

\* Between two functions, the counter of a drive that is taken to be at a known
\* place is the cylinder its head is at, whichever drives were selected and
\* moved in between, unless the head was stepped against the end of its way.
CounterIsHead ==
    op = "none" =>
        \A d \in Connected \ stopped : Trusted(d) => counter[d] = position[d]

\* The counter errs on one side only: however far the host seeks, the head is
\* never further in than the counter says, so that a seek to track 0 reaches it.
HeadNotBeyondCounter ==
    op = "none" =>
        \A d \in Connected : Trusted(d) => position[d] <= counter[d]

\* What a counter in use tells of its head, in a drive that was never driven
\* against its stop and in one that was.
CounterTellsHead == CounterIsHead /\ HeadNotBeyondCounter

\* A recalibration of a connected drive succeeds from any position.
RecalibrationFinds ==
    op = "recalibrate" /\ tries = MaxSteps => active \notin Connected

\* Every function ends.
FunctionEnds == (op # "none") ~> (op = "none")

===============================================================================
