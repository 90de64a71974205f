------------------------------- MODULE MCCpuCache -------------------------------
(* The instances of the interpreter and of the instruction cache in one    *)
(* run.  The cache is asked for what the addresses hold and the            *)
(* interpreter takes any opcode from any address, so neither restricts the *)
(* other: which of them runs is chosen at the start.                       *)
EXTENDS MCCpu, MCICache

VARIABLE part

PartsInit ==
    /\ part \in {"cpu", "cache"}
    /\ Init /\ CacheInit
    /\ part = "cache" => cpu = NewCpu

PartsNext ==
    /\ UNCHANGED part
    /\ \/ part = "cpu" /\ Next /\ UNCHANGED cacheVars
       \/ part = "cache" /\ CacheNext /\ UNCHANGED vars

PartsSpec == PartsInit /\ [][PartsNext]_<<part, vars, cacheVars>>
=============================================================================
