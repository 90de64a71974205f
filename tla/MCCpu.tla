-------------------------------- MODULE MCCpu --------------------------------
(* An instance of the R3000A interpreter for TLC: four instruction         *)
(* addresses, one of them unmapped, one register beside $0, and one loaded *)
(* word, 6, which is misaligned as an address.                             *)
EXTENDS Cpu

\* Interrupts on, the vectors in ROM as after a reset.
InterruptsOn ==
    [ie |-> <<TRUE, FALSE, FALSE>>, im |-> {"hw"}, isc |-> FALSE,
     bev |-> TRUE]
SomeStatuses == {InterruptsOn}

AllOps ==
    {"alu", "load", "merge", "branch", "jump", "jr", "mtc0", "rfe", "trap",
     "memory", "reset"}
=============================================================================
