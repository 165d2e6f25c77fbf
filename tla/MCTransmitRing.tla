---------------------------- MODULE MCTransmitRing ----------------------------
EXTENDS TransmitRing

\* From less than a packet to more than the ring holds.
AllSizes == 1 .. RingSize

===============================================================================
