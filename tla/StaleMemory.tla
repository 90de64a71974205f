------------------------------ MODULE StaleMemory ------------------------------
(***************************************************************************)
(* What a program may rely on when it writes instructions: memory whose    *)
(* fetches may be stale, but never older than the last flush of their      *)
(* line, nor than what was fetched from the same address before.           *)
(*                                                                         *)
(* A word is the number of the store that wrote it.                        *)
(***************************************************************************)
EXTENDS CacheAddresses

VARIABLES
    memory,   \* the word in each cell
    visible,  \* the words a cached fetch of each address may return
    event     \* what the step did

promises == <<memory, visible, event>>

PromiseInit ==
    /\ DOMAIN memory = Cells
    /\ visible = [a \in RamAddresses |-> {memory[Cell(a)]}]
    /\ event = << >>

\* A store shows at every mirror; whoever has fetched the word may go on
\* seeing the old one.
Stored ==
    \E cell \in Cells :
        /\ event' = <<"store", cell>>
        /\ memory' = [memory EXCEPT ![cell] = memory'[cell]]
        /\ visible' = [a \in RamAddresses |-> IF Cell(a) = cell
                           THEN visible[a] \cup {memory'[cell]} ELSE visible[a]]

\* After a flush of its line an address shows what memory holds.
Flushed ==
    \E line \in CacheLines :
        /\ event' = <<"flush", line>>
        /\ visible' = [a \in RamAddresses |-> IF a.line = line
                           THEN {memory[Cell(a)]} ELSE visible[a]]
        /\ UNCHANGED memory

\* A program that writes into an isolated line may put anything there, and
\* nowhere else.
Poked ==
    \E line \in CacheLines :
        /\ event' = <<"poke", line>>
        /\ visible' = [a \in RamAddresses |-> visible'[a]]
        /\ \A a \in RamAddresses : IF a.line = line
               THEN memory[Cell(a)] \in visible'[a]
               ELSE visible'[a] = visible[a]
        /\ UNCHANGED memory

\* A cached fetch returns a visible word, and then no older one is visible
\* from there than it, save what memory holds.
Fetched ==
    \E a \in RamAddresses : \E word \in visible[a] :
        /\ event' = <<"fetch", a, word>>
        /\ visible' = [visible EXCEPT ![a] =
                          {w \in @ : w >= word} \cup {memory[Cell(a)]}]
        /\ UNCHANGED memory
FetchedUncached ==
    \E a \in RamAddresses :
        /\ event' = <<"uncached", a, memory[Cell(a)]>>
        /\ UNCHANGED <<memory, visible>>

Nothing == event' = << >> /\ UNCHANGED <<memory, visible>>

PromiseNext ==
    Nothing \/ Stored \/ Flushed \/ Poked \/ Fetched \/ FetchedUncached
PromiseSpec == PromiseInit /\ [][PromiseNext]_promises
=============================================================================
