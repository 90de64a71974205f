---------------------------- MODULE CacheAddresses ----------------------------
(***************************************************************************)
(* The words an instruction is fetched from, as the cache divides them: a  *)
(* page of the size of the cache, a line of it and a slot in the line      *)
(* (src/ps1-core/src/bus/mod.rs, icache_line_index, icache_word_index).    *)
(* Main RAM is mirrored: pages apart by RamPages are the same memory.      *)
(***************************************************************************)
EXTENDS Integers

CONSTANTS
    RamPages,      \* 512 pages of 4 KiB
    MirroredPages, \* the pages the mirrors span: four times as many
    CacheLines     \* 0..255

ASSUME CacheAssumption ==
    /\ RamPages \in Nat \ {0} /\ MirroredPages \in Nat \ {0}
    /\ CacheLines # {}

WordSlots == 0..3
RamAddresses ==
    [page : 0..(MirroredPages - 1), line : CacheLines, slot : WordSlots]
Cells == [page : 0..(RamPages - 1), line : CacheLines, slot : WordSlots]
Cell(a) == [page |-> a.page % RamPages, line |-> a.line, slot |-> a.slot]
=============================================================================
