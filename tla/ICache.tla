-------------------------------- MODULE ICache --------------------------------
(***************************************************************************)
(* The instruction cache of the bus: src/ps1-core/src/bus/mod.rs, with the *)
(* CPU's choice between it and memory when the cache is isolated           *)
(* (src/ps1-core/src/cpu/mod.rs, load8 to store32).                        *)
(*                                                                         *)
(* Nothing keeps the cache coherent: stores and DMA write RAM behind it,   *)
(* and a program flushes it by isolating it and storing tags.  A word of   *)
(* data is the number of the store that wrote it, so the width of a store  *)
(* does not matter; addresses are divided as in CacheAddresses, and seg is *)
(* the segment they are used through.                                      *)
(***************************************************************************)
EXTENDS CacheAddresses

CONSTANTS
    Touched,    \* the addresses the program uses
    Segments,   \* "kuseg", "kseg0" and "kseg1"
    TagBits,    \* the valid bits a program writes into a tag
    MaxStores   \* bound: stores of data

ASSUME TouchedAssumption ==
    /\ Touched \subseteq RamAddresses
    /\ Segments \subseteq {"kuseg", "kseg0", "kseg1"}
    /\ TagBits \subseteq SUBSET WordSlots /\ MaxStores \in Nat

VARIABLES
    ram,
    words,          \* icache_words
    tags,           \* icache_tags
    cache_control,  \* is1, tag and iblksz of the register
    isolated,       \* IsC of the status register
    stores,         \* data stores so far
    event, visible  \* what StaleMemory speaks of

cacheVars ==
    <<ram, words, tags, cache_control, isolated, stores, event, visible>>

\* DEFAULT_CACHE_CONTROL enables the cache; every tag names page 0 with no
\* valid word.
CacheInit ==
    /\ ram = [c \in Cells |-> 0]
    /\ words = [l \in CacheLines |-> [s \in WordSlots |-> 0]]
    /\ tags = [l \in CacheLines |-> [physical |-> TRUE, page |-> 0, valid |-> {}]]
    /\ cache_control = [is1 |-> TRUE, tag |-> FALSE, iblksz |-> 0]
    /\ isolated = FALSE /\ stores = 0
    /\ event = << >>
    /\ visible = [a \in RamAddresses |-> {ram[Cell(a)]}]

Promise == INSTANCE StaleMemory WITH memory <- ram

TagMatches(a) == tags[a.line].physical /\ tags[a.line].page = a.page
HitAnyPage(a) == a.slot \in tags[a.line].valid
Hit(a) == TagMatches(a) /\ a.slot \in tags[a.line].valid

-----------------------------------------------------------------------------
(* Data accesses.                                                          *)

\* Bus::write8, write16 and write32 to main RAM, from the CPU or from DMA.
WriteRam(a) ==
    /\ stores < MaxStores /\ stores' = stores + 1
    /\ ram' = [ram EXCEPT ![Cell(a)] = stores + 1]
    /\ visible' = [b \in RamAddresses |-> IF Cell(b) = Cell(a)
                       THEN visible[b] \cup {stores + 1} ELSE visible[b]]
    /\ event' = <<"store", Cell(a)>>
    /\ UNCHANGED <<words, tags, cache_control, isolated>>

Store(a) == ~isolated /\ WriteRam(a)
DmaStore(a) == WriteRam(a)

\* Only the address of a tag is used unconverted: through kseg0 or kseg1 it
\* is one that no fetch compares equal.
WriteTag(seg, a, valid) ==
    /\ isolated /\ cache_control.is1 /\ cache_control.tag
    /\ tags' = [tags EXCEPT ![a.line] = [physical |-> seg = "kuseg",
                                         page |-> a.page, valid |-> valid]]
    /\ visible' = [b \in RamAddresses |->
                      CASE b.line # a.line -> visible[b]
                        [] b.line = a.line /\ seg = "kuseg" /\ b.page = a.page
                               /\ b.slot \in valid ->
                               {ram[Cell(b)], words[b.line][b.slot]}
                        [] OTHER -> {ram[Cell(b)]}]
    /\ event' = <<IF valid = {} THEN "flush" ELSE "poke", a.line>>
    /\ UNCHANGED <<ram, words, cache_control, isolated, stores>>

WriteWord(a) ==
    /\ isolated /\ cache_control.is1 /\ ~cache_control.tag
    /\ stores < MaxStores /\ stores' = stores + 1
    /\ words' = [words EXCEPT ![a.line][a.slot] = stores + 1]
    /\ visible' = [b \in RamAddresses |->
                      IF b.line = a.line /\ b.slot = a.slot /\ Hit(b)
                      THEN visible[b] \cup {stores + 1} ELSE visible[b]]
    /\ event' = <<"poke", a.line>>
    /\ UNCHANGED <<ram, tags, cache_control, isolated>>

\* With the cache off an isolated store does nothing.
IsolatedStore(seg, a) ==
    (\E valid \in TagBits : WriteTag(seg, a, valid)) \/ WriteWord(a)

SetCacheControl ==
    /\ \E is1, tag \in BOOLEAN, iblksz \in {0, 1} :
           cache_control' = [is1 |-> is1, tag |-> tag, iblksz |-> iblksz]
    /\ event' = << >>
    /\ UNCHANGED <<ram, words, tags, isolated, stores, visible>>

SetIsolated ==
    /\ isolated' = ~isolated
    /\ event' = << >>
    /\ UNCHANGED <<ram, words, tags, cache_control, stores, visible>>

-----------------------------------------------------------------------------
(* Fetches.                                                                *)

Cached(seg) == cache_control.is1 /\ seg \in {"kuseg", "kseg0"}

\* The slots fill_icache_line reads: to the end of the line, or only the
\* first two when the block size says so and the first is missing.
FilledSlots(slot) ==
    slot..(IF slot = 0 /\ cache_control.iblksz = 0 THEN 1 ELSE 3)

FillLine(a) ==
    LET filled == FilledSlots(a.slot)
        old == IF TagMatches(a) THEN tags[a.line].valid ELSE {}
    IN /\ words' = [words EXCEPT ![a.line] =
                       [s \in WordSlots |-> IF s \in filled
                            THEN ram[Cell([a EXCEPT !.slot = s])] ELSE @[s]]]
       /\ tags' = [tags EXCEPT ![a.line] = [physical |-> TRUE, page |-> a.page,
                                            valid |-> old \cup filled]]

\* The promise's view of a fetch that returned word.
Shows(a, word) ==
    /\ event' = <<"fetch", a, word>>
    /\ visible' = [visible EXCEPT ![a] =
                      {w \in @ : w >= word} \cup {ram[Cell(a)]}]

FetchCached(seg, a) ==
    /\ Cached(seg)
    /\ IF Hit(a) THEN UNCHANGED <<words, tags>> ELSE FillLine(a)
    /\ Shows(a, words'[a.line][a.slot])
    /\ UNCHANGED <<ram, cache_control, isolated, stores>>

FetchUncached(seg, a) ==
    /\ ~Cached(seg)
    /\ event' = <<"uncached", a, ram[Cell(a)]>>
    /\ UNCHANGED <<ram, words, tags, cache_control, isolated, stores, visible>>

CacheNext ==
    \/ SetCacheControl \/ SetIsolated
    \/ \E a \in Touched : Store(a) \/ DmaStore(a)
    \/ \E a \in Touched, seg \in Segments :
           \/ IsolatedStore(seg, a)
           \/ FetchCached(seg, a) \/ FetchUncached(seg, a)

CacheSpec == CacheInit /\ [][CacheNext]_cacheVars

-----------------------------------------------------------------------------
(* Properties.                                                             *)

CacheTypeOK ==
    /\ ram \in [Cells -> 0..MaxStores]
    /\ words \in [CacheLines -> [WordSlots -> 0..MaxStores]]
    /\ tags \in [CacheLines -> [physical : BOOLEAN, page : 0..(MirroredPages - 1),
                           valid : SUBSET WordSlots]]
    /\ cache_control \in [is1 : BOOLEAN, tag : BOOLEAN, iblksz : {0, 1}]
    /\ isolated \in BOOLEAN /\ stores \in 0..MaxStores
    /\ visible \in [RamAddresses -> SUBSET (0..MaxStores)]

\* A word the cache would return is one a program must expect there: no fill,
\* no aliased line, no mirror and no partial fill leaves a word valid that
\* its address did not hold since the flush (fill_icache_line).
CacheIsVisible ==
    \A a \in RamAddresses :
        /\ ram[Cell(a)] \in visible[a]
        /\ Hit(a) => words[a.line][a.slot] \in visible[a]

\* The cache implements memory that is stale at worst since the last flush
\* and never goes back (fetch32, fill_icache_line, isolated_cache_write32).
MemorySpec == Promise!PromiseSpec
=============================================================================
