----------------------------- MODULE MCDriveHead -----------------------------
EXTENDS DriveHead

TwoDrives == {"SHUGART_A", "SHUGART_B"}

\* NONE stands for every byte that is no drive type. The types that get no select
\* line behave as it does.
SomeTypes == TwoDrives \cup {"NONE"}

\* The tracks of the disk, and one that no head reaches.
AnyTrack == 0 .. MaxCylinder + 1

==============================================================================
