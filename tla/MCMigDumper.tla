------------------------------ MODULE MCMigDumper ------------------------------
EXTENDS MigDumper

CONSTANTS d1, d2

TwoThreads == {d1, d2}

================================================================================
