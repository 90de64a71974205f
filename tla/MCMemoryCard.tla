----------------------------- MODULE MCMemoryCard -----------------------------
(* An instance of the memory card for TLC: three-bit bytes, two sectors of *)
(* two bytes; addresses reach the last sector, the one after it and far    *)
(* beyond.                                                                 *)
EXTENDS MemoryCard, Bitwise

XorBits(a, b) == a ^^ b
BlankImage == [s \in Sector |-> [i \in 1..SectorBytes |-> 0]]
=============================================================================
