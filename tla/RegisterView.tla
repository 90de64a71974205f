----------------------------- MODULE RegisterView -----------------------------
(***************************************************************************)
(* What the load delay promises a program: every register has the value    *)
(* the next instruction reads (now) and the value the one after it reads   *)
(* (later).  A computed result is visible at once, a loaded one an         *)
(* instruction later; the youngest write in program order wins; a partial  *)
(* load (LWL, LWR) merges into the youngest value, visible or not.         *)
(* An interrupt comes between two instructions and takes nothing away.     *)
(* The promise is that of ARCHITECTURE.md:77 and docs/concepts/cpus.md:11. *)
(* Cpu.tla keeps it in every step but one: an exception between two        *)
(* instructions that finds a load in flight loses it.                      *)
(***************************************************************************)
EXTENDS Integers

CONSTANTS Regs, Values

VARIABLES now, later, did

\* A word has an upper and a lower lane; LWL replaces the upper one.
MergeUpper(base, word) == ((word \div 4) * 4) + (base % 4)
MergeLower(base, word) == ((base \div 4) * 4) + (word % 4)

Init ==
    /\ now = [r \in Regs |-> 0]
    /\ later = now
    /\ did = <<"none", 0, 0>>

\* What was in flight arrives, whatever the instruction does to others.
Arrive(r, sooner, final) ==
    /\ now' = [later EXCEPT ![r] = sooner]
    /\ later' = [later EXCEPT ![r] = final]

Write(r, v) == did' = <<"write", r, v>> /\ Arrive(r, v, v)
Load(r, v)  == did' = <<"load", r, v>> /\ Arrive(r, now[r], v)
LoadUpper(r, w) ==
    did' = <<"lwl", r, w>> /\ Arrive(r, now[r], MergeUpper(later[r], w))
LoadLower(r, w) ==
    did' = <<"lwr", r, w>> /\ Arrive(r, now[r], MergeLower(later[r], w))

\* An instruction without a destination, or with register 0.
Other ==
    /\ did'[1] \notin {"trap", "reset"}
    /\ did'[2] = 0
    /\ now' = later
    /\ later' = later

\* An interrupt or a failed fetch, between two instructions: what is in
\* flight arrives, at once or one instruction into the handler.
Trap ==
    /\ did' = <<"trap", 0, 0>>
    /\ now' \in {now, later}
    /\ later' = later

Reset ==
    /\ did' = <<"reset", 0, 0>>
    /\ now' = [r \in Regs |-> 0]
    /\ later' = now'

Next ==
    \/ Other \/ Trap \/ Reset
    \/ \E r \in Regs \ {0}, v \in Values :
           Write(r, v) \/ Load(r, v) \/ LoadUpper(r, v) \/ LoadLower(r, v)

Spec == Init /\ [][Next]_<<now, later, did>>
=============================================================================
