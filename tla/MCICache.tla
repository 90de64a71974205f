------------------------------- MODULE MCICache -------------------------------
(* An instance of the instruction cache for TLC: two pages of RAM, the     *)
(* first mirrored at page 2, that share a line of four words.              *)
EXTENDS ICache

SomeAddresses ==
    {[page |-> 0, line |-> 0, slot |-> 0], [page |-> 1, line |-> 0, slot |-> 1],
     [page |-> 2, line |-> 0, slot |-> 1]}
SomeTagBits == {{}, {1, 2}}
=============================================================================
