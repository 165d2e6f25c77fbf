---------------------------- MODULE MCCommandLink ----------------------------
EXTENDS CommandLink

\* Every kind of command.
KindsUsed == AllKinds

===============================================================================
