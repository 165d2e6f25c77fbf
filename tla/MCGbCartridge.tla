---------------------------- MODULE MCGbCartridge ----------------------------
EXTENDS GbCartridge, TLC

\* One page of two or three banks, and two full pages; no RAM, one bank, two banks.
SomeCarts ==
    {[chip |-> "NONE", pages |-> 1, banks |-> 2, ram |-> 0],
     [chip |-> "MBC1", pages |-> 1, banks |-> 3, ram |-> 1],
     [chip |-> "MBC1", pages |-> 2, banks |-> 3, ram |-> 0],
     [chip |-> "MBC2", pages |-> 1, banks |-> 3, ram |-> 0],
     [chip |-> "MBC3", pages |-> 1, banks |-> 3, ram |-> 1],
     [chip |-> "MBC5", pages |-> 2, banks |-> 3, ram |-> 2],
     [chip |-> "MMM01", pages |-> 1, banks |-> 3, ram |-> 0]}

\* What the bytes of a saved game are makes no difference.
DataSymmetry == Permutations(Data)

==============================================================================
