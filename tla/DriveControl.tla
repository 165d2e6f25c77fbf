----------------------------- MODULE DriveControl -----------------------------
(***************************************************************************)
(* The drive control of firmware/src/ufi_drive.c, for two Shugart drives   *)
(* (an Amiga drive is the first of them under another name) and an Apple   *)
(* Disk II with its four-phase stepper.                                    *)
(*                                                                         *)
(* Every type has a status of its own, with a track counter and a motor    *)
(* flag; the pins belong to the drives. Beside both the model keeps the    *)
(* heads, which the firmware never sees: those of the Shugart drives in    *)
(* cylinders, that of the Disk II in half tracks. The functions run to     *)
(* their end in the main loop, but move the head pulse by pulse. Left out: *)
(* what the functions return, and what ufi_drive_get_status reads from the *)
(* pins anew in every call.                                                *)
(***************************************************************************)
EXTENDS Integers

CONSTANTS
    Connected,     \* the drives on the cable
    Selectable,    \* types a caller selects
    Targets,       \* tracks a caller asks for
    Sides,
    LastTrack,     \* 83, where the counters end
    LastApple,     \* 39
    LastCylinder,  \* where the heads of the Shugart drives end
    LastHalf,      \* where the head of the Disk II ends
    MaxSteps,      \* 90, steps of a recalibration
    MaxApple       \* 50

Types == {"NONE", "SHUGART_A", "SHUGART_B", "APPLE_II", "AMIGA", "IEC"}
Shugarts == {"A", "B"}
Drives == Shugarts \cup {"II"}

ASSUME ControlAssumption ==
    /\ Connected \subseteq Drives
    /\ Selectable \subseteq Types
    /\ Targets \subseteq Nat
    /\ Sides \subseteq Nat
    /\ LastTrack \in Nat /\ LastApple \in Nat
    /\ LastCylinder \in Nat /\ LastHalf \in Nat
    /\ MaxSteps \in Nat /\ MaxApple \in Nat
    /\ LastCylinder <= LastTrack
    /\ LastCylinder < MaxSteps

VARIABLES
    current,   \* g_current_drive
    track,     \* g_drive_status[].current_track
    side,      \* g_drive_status[].current_side
    motorOn,   \* g_drive_status[].motor_on
    phase,     \* apple_phase
    odd,       \* phase_count is 1
    selected,  \* drives whose select or enable pin is active
    spinning,  \* Shugart drives whose motor pin is active
    sideHigh,  \* the pin that selects the side
    coils,     \* phase pins that are active
    op,        \* the function that moves the head
    dir,       \* its direction
    left,      \* its steps to go
    head,      \* where the heads are
    known      \* history: types calibrated on TRACK0 whose drive has since been moved
               \* under this type only, and not against the inner end

pins == <<selected, spinning, sideHigh, coils>>
status == <<track, side, motorOn>>
vars == <<current, status, phase, odd, pins, op, dir, left, head, known>>

\* The drive that a type stands for.
DriveOf(type) ==
    CASE type \in {"SHUGART_A", "AMIGA"} -> {"A"}
      [] type = "SHUGART_B" -> {"B"}
      [] type = "APPLE_II" -> {"II"}
      [] OTHER -> {}

Way(drive) == IF drive = "II" THEN LastHalf ELSE LastCylinder

\* ufi_drive_init, with the heads anywhere.
Init ==
    /\ current = "NONE"
    /\ track = [t \in Types |-> 0]
    /\ side = [t \in Types |-> 0]
    /\ motorOn = [t \in Types |-> FALSE]
    /\ phase = 0 /\ odd = FALSE
    /\ selected = {} /\ spinning = {} /\ sideHigh = TRUE /\ coils = {}
    /\ op = "none" /\ dir = 1 /\ left = 0
    /\ head \in [Connected -> 0 .. LastCylinder \cup 0 .. LastHalf]
    /\ \A d \in Connected : head[d] <= Way(d)
    /\ known = {}

\* The line of the selected drives; nobody pulls it for a Disk II.
AtTrack0(heads) == \E d \in selected \cap Connected \cap Shugarts : heads[d] = 0

Idle == op = "none"
Returns == UNCHANGED <<op, dir, left>>
Refuse == UNCHANGED vars

\* Slip: what was selected stays selected.
SelectToo(type) ==
    /\ Idle
    /\ selected' = selected \cup DriveOf(type)
    /\ current' = type
    /\ Returns
    /\ UNCHANGED <<status, phase, odd, spinning, sideHigh, coils, head, known>>

Select(type) ==
    /\ Idle
    /\ selected' = DriveOf(type)
    /\ current' = type
    /\ Returns
    /\ UNCHANGED <<status, phase, odd, spinning, sideHigh, coils, head, known>>

\* The enable pin is the motor of a Disk II, which selects it, too.
Switch(set, drives, on) == IF on THEN set \cup drives ELSE set \ drives

Motor(on) ==
    /\ Idle
    /\ IF current = "NONE" THEN Refuse
       ELSE /\ spinning' = Switch(spinning, DriveOf(current) \cap Shugarts, on)
            /\ selected' = Switch(selected, DriveOf(current) \cap {"II"}, on)
            /\ motorOn' = [motorOn EXCEPT ![current] = on]
            /\ Returns
            /\ UNCHANGED <<current, track, side, phase, odd, sideHigh, coils, head, known>>

SelectSide(s) ==
    /\ Idle
    /\ IF current = "NONE" THEN Refuse
       ELSE IF current = "APPLE_II" THEN Refuse
       ELSE /\ sideHigh' = (s = 0)
            /\ side' = [side EXCEPT ![current] = s]
            /\ Returns
            /\ UNCHANGED <<current, track, motorOn, phase, odd, selected, spinning, coils,
                           head, known>>

------------------------------------------------------------------------------
(* One step.                                                               *)

\* A pulse moves the selected Shugart drive, or not at the end of its way.
ShugartHeads(d) ==
    [m \in Connected |-> IF /\ m \in selected \cap Shugarts
                            /\ head[m] + d \in 0 .. LastCylinder
                         THEN head[m] + d ELSE head[m]]

\* A coil pulls the head of an enabled Disk II to the half track next to it; two away,
\* the head may go either way or stay.
NextPhase(d) == (phase + d + 4) % 4
Pulled(coil, far) ==
    {h \in 0 .. LastHalf : h - head["II"] \in -far .. far /\ h % 4 = coil}
AppleHeads(d) ==
    LET near == Pulled(NextPhase(d), 1)
    IN  IF near # {} THEN near ELSE {head["II"]} \cup Pulled(NextPhase(d), 2)

\* Slip: the counter follows the direction alone.
CountedFreely(d) ==
    LET counter == track[current]
    IN  IF d = 1 \/ counter > 1 THEN counter + d ELSE counter

\* The track counter: of a Disk II, two phases are one track.
Counted(d) ==
    LET counter == track[current]
        last == IF current = "APPLE_II" THEN LastApple ELSE LastTrack
    IN  IF current = "APPLE_II" /\ ~odd THEN counter
        ELSE IF d = 1 /\ counter < last THEN counter + 1
        ELSE IF d = -1 /\ counter > 0 THEN counter - 1 ELSE counter

MoveHead(d) ==
    /\ IF current = "APPLE_II"
         THEN /\ IF "II" \in selected \cap Connected
                   THEN \E h \in AppleHeads(d) : head' = [head EXCEPT !["II"] = h]
                   ELSE UNCHANGED head
              /\ phase' = NextPhase(d)
              /\ coils' = (coils \ {phase}) \cup {NextPhase(d)}
              /\ odd' = ~odd
         ELSE /\ head' = ShugartHeads(d)
              /\ UNCHANGED <<phase, coils, odd>>
    /\ UNCHANGED <<current, side, motorOn, selected, spinning, sideHigh>>

SetTrack(n) == track' = [track EXCEPT ![current] = n]

\* A step inwards at the end of the way, or under another type, loses the position.
StillKnown(d) ==
    {t \in known : IF t = current THEN \A m \in DriveOf(t) : d = 1 => head[m] < LastCylinder
                   ELSE DriveOf(t) \cap selected = {}}

Step(d) ==
    /\ Idle
    /\ IF current = "NONE" THEN Refuse
       ELSE /\ MoveHead(d)
            /\ SetTrack(Counted(d))
            /\ known' = StillKnown(d)
            /\ Returns

------------------------------------------------------------------------------
(* Seek and recalibrate.                                                   *)

Begin(function, d, steps) ==
    /\ op' = function /\ dir' = d /\ left' = steps
    /\ UNCHANGED <<current, status, phase, odd, pins, head, known>>

Seek(target) ==
    /\ Idle
    /\ IF current = "NONE" THEN Refuse
       ELSE IF target > (IF current = "APPLE_II" THEN LastApple ELSE LastTrack) THEN Refuse
       ELSE IF target > track[current] THEN Begin("seek", 1, target - track[current])
       ELSE Begin("seek", -1, track[current] - target)

\* On the way out TRACK0 ends the seek, and sets the counter.
SeekStep ==
    /\ op = "seek" /\ left > 0
    /\ MoveHead(dir)
    /\ IF dir = -1 /\ AtTrack0(head')
         THEN SetTrack(0) /\ left' = 0 /\ known' = StillKnown(dir) \cup {current}
         ELSE SetTrack(Counted(dir)) /\ left' = left - 1 /\ known' = StillKnown(dir)
    /\ UNCHANGED <<op, dir>>

SeekEnds ==
    /\ op = "seek" /\ left = 0
    /\ op' = "none" /\ dir' = 1
    /\ UNCHANGED <<current, status, phase, odd, pins, left, head, known>>

Recalibrate ==
    /\ Idle
    /\ IF current = "NONE" THEN Refuse
       ELSE Begin("recalibrate", -1, IF current = "APPLE_II" THEN MaxApple ELSE MaxSteps)

\* Slip: the steps are not counted.
RecalibrateForever ==
    /\ op = "recalibrate" /\ left > 0 /\ ~AtTrack0(head)
    /\ MoveHead(-1)
    /\ SetTrack(Counted(-1))
    /\ known' = StillKnown(-1)
    /\ UNCHANGED <<op, dir, left>>

RecalibrateStep ==
    /\ op = "recalibrate" /\ left > 0 /\ ~AtTrack0(head)
    /\ MoveHead(-1)
    /\ SetTrack(Counted(-1))
    /\ left' = left - 1
    /\ known' = StillKnown(-1)
    /\ UNCHANGED <<op, dir>>

\* Slip: the counter is left as it is.
RecalibratedOnly ==
    /\ op = "recalibrate" /\ left > 0 /\ AtTrack0(head)
    /\ known' = known \cup {current}
    /\ op' = "none" /\ dir' = 1 /\ left' = 0
    /\ UNCHANGED <<current, status, phase, odd, pins, head>>

Recalibrated ==
    /\ op = "recalibrate" /\ left > 0 /\ AtTrack0(head)
    /\ SetTrack(0)
    /\ known' = known \cup {current}
    /\ op' = "none" /\ dir' = 1 /\ left' = 0
    /\ UNCHANGED <<current, side, motorOn, phase, odd, pins, head>>

RecalibrationFails ==
    /\ op = "recalibrate" /\ left = 0
    /\ op' = "none" /\ dir' = 1
    /\ UNCHANGED <<current, status, phase, odd, pins, left, head, known>>

Continue == SeekStep \/ SeekEnds \/ RecalibrateStep \/ Recalibrated \/ RecalibrationFails

Call ==
    \/ \E t \in Selectable : Select(t)
    \/ \E on \in BOOLEAN : Motor(on)
    \/ \E s \in Sides : SelectSide(s)
    \/ \E d \in {-1, 1} : Step(d)
    \/ \E n \in Targets : Seek(n)
    \/ Recalibrate

Next == Continue \/ Call

Spec == Init /\ [][Next]_vars
FairSpec == Spec /\ WF_vars(Continue)

------------------------------------------------------------------------------

TypeOK ==
    /\ current \in Types
    /\ track \in [Types -> 0 .. LastTrack \cup 0 .. LastApple]
    /\ side \in [Types -> Nat]
    /\ motorOn \in [Types -> BOOLEAN]
    /\ phase \in 0 .. 3 /\ odd \in BOOLEAN /\ sideHigh \in BOOLEAN
    /\ selected \subseteq Drives /\ spinning \subseteq Shugarts /\ coils \subseteq 0 .. 3
    /\ op \in {"none", "seek", "recalibrate"} /\ dir \in {-1, 1}
    /\ left \in Nat
    /\ head \in [Connected -> Nat] /\ \A d \in Connected : head[d] <= Way(d)
    /\ known \subseteq Types

\* Pins agree with what the program believes, whatever drives were used before: only the
\* drive of the current type is selected, a motor that turns is on in the status of a
\* type that stands for its drive, and at most one coil of the stepper has current
\* (lines 160 to 244 and 290 to 310).
PinsAgree ==
    /\ selected \subseteq DriveOf(current)
    /\ \A d \in spinning : \E t \in Types : d \in DriveOf(t) /\ motorOn[t]
    /\ coils \subseteq {phase}

\* The counter of a type that has found TRACK0 tells where the head is, however often
\* other drives were selected and moved in between, also within a seek (lines 250 to
\* 285, 366 to 373 and 391 to 399).
CounterIsHead ==
    \A t \in known : \A d \in DriveOf(t) : head[d] = track[t]

\* Every function that moves the head comes to its end.
FunctionsEnd == op # "none" ~> op = "none"
==============================================================================
