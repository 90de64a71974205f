---------------------------------- MODULE Dma ----------------------------------
(***************************************************************************)
(* The DMA controller: src/ps1-core/src/dma.rs, and the transfers that     *)
(* Bus::write_io32 runs to their end on every register write               *)
(* (src/ps1-core/src/bus/mod.rs), with main RAM and the IRQ_DMA bit of     *)
(* I_STAT.                                                                 *)
(*                                                                         *)
(* RAM is a function from word addresses to words; a word is what the GPU  *)
(* linked list and the ordering table see in it: a header with its size    *)
(* and its successor.  The data that devices give and take is abstracted.  *)
(***************************************************************************)
EXTENDS Integers, FiniteSets, Sequences

CONSTANTS
    Channels,      \* 0..6 in the code
    RamWords,      \* words of main RAM
    CountMod,      \* 2^16: what a count of 0 stands for
    NodeGuard,     \* 0x20000: nodes after which a linked list is cut
    MaxRuns,       \* 33: transfers that one register write runs at most
    Madrs, Bcrs, Chcrs, Priorities, Dicrs,   \* values the guest writes
    Words,         \* words that the guest stores in RAM
    DeviceWord     \* what a device hands over

Mdec == {0, 1}
Gpu == 2
Cdrom == 3
Spu == 4
Pio == 5
Otc == 6

\* A word as a list sees it.
Word == [size : Nat, next : Nat, end : BOOLEAN]

ASSUME DmaAssumption ==
    /\ Channels \subseteq 0..6
    /\ RamWords \in Nat \ {0} /\ CountMod \in Nat \ {0}
    /\ NodeGuard \in Nat
    /\ MaxRuns \in Nat /\ MaxRuns >= Cardinality(Channels)
    /\ Madrs \subseteq Nat
    /\ Bcrs \subseteq [size : Nat, blocks : Nat]
    /\ Chcrs \subseteq [active : BOOLEAN, force : BOOLEAN, sync : 0..3,
                        fromRam : BOOLEAN, back : BOOLEAN]
    /\ Priorities \subseteq [Channels -> Nat]
    /\ Dicrs \subseteq [enables : SUBSET Channels, always : BOOLEAN,
                        master : BOOLEAN]
    /\ Words \subseteq Word /\ DeviceWord \in Word

VARIABLES
    dma,           \* the registers of the controller
    ram,           \* main RAM
    istat,         \* the IRQ_DMA bit of I_STAT
    \* Observations:
    served,        \* channels that the last write ran, in order
    owed,          \* channels done with their interrupt enabled, not yet
                   \* acknowledged
    seen           \* the guest cleared I_STAT since the master line rose

vars == <<dma, ram, istat, served, owed, seen>>

Address == 0..(RamWords - 1)
RamIndex(a) == a % RamWords
\* 0x00ffffff: bit 23, and the address bits all ones, in words.
ListEnd == 8 * RamWords - 1
EndWord == [size |-> 0, next |-> ListEnd, end |-> TRUE]
LinkTo(a) == [size |-> 0, next |-> a, end |-> FALSE]

-----------------------------------------------------------------------------
(* Registers.                                                              *)

NewChannel ==
    [madr |-> 0, size |-> 0, blocks |-> 0, active |-> FALSE,
     force |-> FALSE, sync |-> 0, fromRam |-> FALSE, back |-> FALSE]

NewDma ==
    [ch |-> [c \in Channels |-> NewChannel],
     priority |-> [c \in Channels |-> c + 1], enabled |-> {},
     flags |-> {}, enables |-> {}, always |-> FALSE, master |-> FALSE]

ReadyToStart(ch) == ch.active /\ (ch.sync # 0 \/ ch.force)

Pending(d) == {c \in d.enabled : ReadyToStart(d.ch[c])}

\* The lowest priority number goes first, among equals the highest channel.
Precedes(d, c, e) ==
    \/ d.priority[c] < d.priority[e]
    \/ d.priority[c] = d.priority[e] /\ c > e

NextPendingChannel(d) ==
    CHOOSE c \in Pending(d) : \A e \in Pending(d) \ {c} : Precedes(d, c, e)

MasterIrq(d) == d.always \/ (d.master /\ d.flags # {})

-----------------------------------------------------------------------------
(* Transfers.  Each gives RAM afterwards and the madr and size to store    *)
(* back, if any.                                                           *)

Untouched(r) == [ram |-> r, final |-> <<>>]

CountPart(n) == IF n = 0 THEN CountMod ELSE n
WordCount(ch) ==
    CASE ch.sync = 0 -> CountPart(ch.size)
      [] ch.sync = 1 -> CountPart(ch.size) * CountPart(ch.blocks)
      [] OTHER       -> 0

Backwards(c, ch) == c = Gpu /\ ch.back
Nth(c, ch, i) ==
    RamIndex(IF Backwards(c, ch) THEN ch.madr - i ELSE ch.madr + i)

\* A block transfer: words into RAM, or out of it and seen by the device.
BlockDma(r, c, ch) ==
    LET n == WordCount(ch)
        written == IF ch.fromRam THEN {}
                   ELSE {Nth(c, ch, i) : i \in 0..(n - 1)}
    IN  [ram   |-> [a \in Address |-> IF a \in written THEN DeviceWord
                                      ELSE r[a]],
         final |-> IF ch.sync = 1 THEN <<Nth(c, ch, n)>> ELSE <<>>]

\* The nodes of a list, as run_gpu_linked_list_dma visits them.
NodesFrom(r, start) ==
    LET more(path) == ~r[path[Len(path)]].end /\ Len(path) <= NodeGuard
        walk[n \in 0..NodeGuard] ==
            IF n = 0 THEN <<RamIndex(start)>>
            ELSE LET path == walk[n - 1] IN
                 IF more(path)
                 THEN Append(path, RamIndex(r[path[Len(path)]].next))
                 ELSE path
    IN  walk[NodeGuard]

\* The last header's address stays in madr, cut to RAM only where the list is.
LinkedListDma(r, ch) ==
    LET nodes == NodesFrom(r, ch.madr)
        tail  == r[nodes[Len(nodes)]]
    IN  [ram   |-> r,
         final |-> <<IF tail.end THEN tail.next ELSE RamIndex(tail.next)>>]

\* Faulty: the last entry is not told from the others.
OtcEndless(r, ch) ==
    LET entry(i) == RamIndex(ch.madr - i) IN
    [a \in Address |->
        IF \E i \in 0..(ch.size - 1) : entry(i) = a
        THEN LinkTo(RamIndex(a - 1)) ELSE r[a]]

\* The ordering table: each entry links to the one below it, the last ends.
OtcTable(r, ch) ==
    LET n == IF ch.size = 0 THEN 1 ELSE ch.size
        entry(i) == RamIndex(ch.madr - i)
        place(a) == {i \in 0..(n - 1) : entry(i) = a}
    IN  [a \in Address |->
            IF place(a) = {} THEN r[a]
            ELSE IF (n - 1) \in place(a) THEN EndWord
            ELSE LinkTo(RamIndex(a - 1))]

WrongWay(c, ch) ==
    \/ c = 0 /\ ~ch.fromRam
    \/ c \in {1, Cdrom} /\ ch.fromRam

Transfer(r, c, ch) ==
    IF c = Otc THEN Untouched(OtcTable(r, ch))
    ELSE IF c = Gpu /\ ch.sync = 2 /\ ch.fromRam THEN LinkedListDma(r, ch)
    ELSE IF c = Pio \/ WrongWay(c, ch) THEN Untouched(r)
    ELSE BlockDma(r, c, ch)

-----------------------------------------------------------------------------
(* Completion.  machine gathers the variables that a write goes through.   *)

FlagDone(d, c) ==
    IF c \in d.enables THEN d.flags \union {c} ELSE d.flags

Completed(ch, final) ==
    [ch EXCEPT
        !.madr = IF final = <<>> THEN @ ELSE final[1],
        !.blocks = IF final # <<>> /\ ch.sync = 1 THEN 0 ELSE @,
        !.active = FALSE, !.force = FALSE]

CompleteChannel(d, c, final) ==
    [d EXCEPT !.ch[c] = Completed(@, final), !.flags = FlagDone(d, c)]

Machine == [dma |-> dma, ram |-> ram, istat |-> istat, served |-> <<>>,
            owed |-> owed, seen |-> seen]

\* Faulty: the line that DICR forces is forgotten.
RequestOnFlags(m, before) ==
    [m EXCEPT !.istat = @ \/ (~MasterIrq(before) /\ m.dma.master
                               /\ m.dma.flags # {})]

\* The IRQ is requested on the rising edge of the master line.
RequestOnEdge(m, before) ==
    [m EXCEPT !.istat = @ \/ (~MasterIrq(before) /\ MasterIrq(m.dma))]

Requested(m, before) ==
    [RequestOnEdge(m, before) EXCEPT
        !.seen = @ /\ (MasterIrq(before) \/ ~MasterIrq(m.dma))]

RunDma(m, c) ==
    LET t == Transfer(m.ram, c, m.dma.ch[c])
        d == CompleteChannel(m.dma, c, t.final)
    IN  Requested([m EXCEPT !.dma = d, !.ram = t.ram,
                                !.served = Append(@, c),
                                !.owed = IF c \in d.enables
                                         THEN @ \union {c} ELSE @],
                      m.dma)

RunPendingDma(m) ==
    LET run[n \in 0..MaxRuns] ==
            IF n = 0 THEN m
            ELSE LET p == run[n - 1] IN
                 IF Pending(p.dma) = {} THEN p
                 ELSE RunDma(p, NextPendingChannel(p.dma))
    IN  run[MaxRuns]

Become(m) ==
    /\ dma' = m.dma /\ ram' = m.ram /\ istat' = m.istat
    /\ served' = m.served /\ owed' = m.owed /\ seen' = m.seen

\* Every register write ends with whatever transfers it made possible.
WriteRegister(d) ==
    Become(RunPendingDma(Requested([Machine EXCEPT !.dma = d], dma)))

-----------------------------------------------------------------------------
(* Actions.                                                                *)

WriteMadr(c, a) == WriteRegister([dma EXCEPT !.ch[c].madr = a])

WriteBcr(c, b) ==
    WriteRegister([dma EXCEPT !.ch[c].size = b.size,
                              !.ch[c].blocks = b.blocks])

\* Channel 6 keeps only its start bits and always steps backwards.
ChcrWritten(c, ch, v) ==
    [ch EXCEPT
        !.active = v.active, !.force = v.force,
        !.sync = IF c = Otc THEN 0 ELSE v.sync,
        !.fromRam = c # Otc /\ v.fromRam,
        !.back = c = Otc \/ v.back]

WriteChcr(c, v) ==
    WriteRegister([dma EXCEPT !.ch[c] = ChcrWritten(c, @, v)])

\* Faulty: enabling a channel does not look for waiting transfers.
WriteDpcrQuietly(priority, enabled) ==
    Become(Requested([Machine EXCEPT
        !.dma = [dma EXCEPT !.priority = priority, !.enabled = enabled]],
        dma))

WriteDpcr(priority, enabled) ==
    WriteRegister([dma EXCEPT !.priority = priority, !.enabled = enabled])

\* Faulty: a write clears the flags it does not mention.
DicrOverwritten(acked, v) ==
    [dma EXCEPT !.flags = {}, !.enables = v.enables, !.always = v.always,
                !.master = v.master]
DicrWritten(acked, v) ==
    [dma EXCEPT !.flags = @ \ acked, !.enables = v.enables,
                !.always = v.always, !.master = v.master]

WriteDicr(acked, v) ==
    LET d == DicrWritten(acked, v)
        m == [Machine EXCEPT !.dma = d, !.owed = @ \ acked]
    IN  Become(RunPendingDma(Requested(m, dma)))

AckIstat ==
    /\ istat
    /\ istat' = FALSE
    /\ seen' = TRUE
    /\ UNCHANGED <<dma, ram, served, owed>>

\* The CPU stores a word in RAM.
Store(a, w) ==
    /\ ram' = [ram EXCEPT ![a] = w]
    /\ served' = <<>>
    /\ UNCHANGED <<dma, istat, owed, seen>>

Init ==
    /\ dma = NewDma
    /\ ram = [a \in Address |-> LinkTo(0)]
    /\ istat = FALSE
    /\ served = <<>>
    /\ owed = {}
    /\ seen = TRUE

Next ==
    \/ \E c \in Channels :
           \/ \E a \in Madrs : WriteMadr(c, a)
           \/ \E b \in Bcrs : WriteBcr(c, b)
           \/ \E v \in Chcrs : WriteChcr(c, v)
    \/ \E p \in Priorities, e \in SUBSET Channels : WriteDpcr(p, e)
    \/ \E acked \in SUBSET Channels, v \in Dicrs : WriteDicr(acked, v)
    \/ AckIstat
    \/ \E a \in Address, w \in Words : Store(a, w)

Spec == Init /\ [][Next]_vars

-----------------------------------------------------------------------------
\* A transfer that may start has been run to its end by the write that made
\* it possible, whichever register came last and however many channels were
\* waiting: the bound on the loop never cuts it short.
NothingReady == Pending(dma) = {}

\* The flags tell exactly which channels were done, with their interrupt
\* enabled, since the guest last acknowledged them.
FlagsAreOwed == dma.flags = owed

\* No completion is missed: while the master line is up, I_STAT has the bit
\* or the guest has cleared it since the line rose.
IrqIsLatched == MasterIrq(dma) => istat \/ seen

\* The ordering table that channel 6 leaves is a list for channel 2: from
\* its first entry it leads through exactly the entries asked for, once
\* each, to an end mark (unless it is longer than RAM).
TableIsAList ==
    served # <<>> /\ served[Len(served)] = Otc =>
        LET ch == dma.ch[Otc]
            n == IF ch.size = 0 THEN 1 ELSE ch.size
        IN  n <= RamWords /\ n <= NodeGuard =>
                NodesFrom(ram, ch.madr) =
                    [i \in 1..n |-> RamIndex(ch.madr - (i - 1))]
                /\ ram[RamIndex(ch.madr - (n - 1))].end
=============================================================================
