---------------------------- MODULE DeviceProofs ----------------------------
(***************************************************************************)
(* Proofs about three devices: the DMA controller, for every set of        *)
(* channels, every size of RAM and everything the guest writes; the        *)
(* timers, for every counter width, mode and number of clocks; and a       *)
(* memory card, for every size of sector and card and every guest.         *)
(*                                                                         *)
(* The loops of the code are recursive functions in the models, of which   *)
(* the lemmas of Iteration speak.                                          *)
(***************************************************************************)
EXTENDS Dma, Timers, MemoryCard, Iteration, FiniteSetTheorems

-----------------------------------------------------------------------------
(* The types.                                                               *)

ChannelType ==
  [madr : Nat, size : Nat, blocks : Nat, active : BOOLEAN, force : BOOLEAN,
   sync : 0..3, fromRam : BOOLEAN, back : BOOLEAN]

DmaType ==
  [ch : [Channels -> ChannelType], priority : [Channels -> Nat],
   enabled : SUBSET Channels, flags : SUBSET Channels,
   enables : SUBSET Channels, always : BOOLEAN, master : BOOLEAN]

Ram == [Address -> Word]

MachineType ==
  [dma : DmaType, ram : Ram, istat : BOOLEAN, served : Seq(Channels),
   owed : SUBSET Channels, seen : BOOLEAN]

LEMMA ConstantTypes ==
  /\ \A c \in Channels : c \in Nat /\ c <= 6
  /\ RamWords \in Nat /\ RamWords > 0
  /\ CountMod \in Nat /\ NodeGuard \in Nat
  /\ DeviceWord \in Word
  BY DmaAssumption

LEMMA EndWordIsWord == EndWord \in Word
  BY ConstantTypes DEF EndWord, ListEnd, Word

\* An address is wrapped into RAM, and wrapping before a step back changes
\* nothing.
LEMMA RamIndexInRam == \A a \in Int : RamIndex(a) \in Address
<1>. SUFFICES ASSUME NEW a \in Int PROVE RamIndex(a) \in Address
  OBVIOUS
<1>1. a % RamWords \in Int /\ 0 <= a % RamWords /\ a % RamWords < RamWords
  BY ConstantTypes, DivisionOf
<1>. QED
  BY <1>1, ConstantTypes DEF RamIndex, Address

LEMMA RamIndexAgain == \A a \in Int : RamIndex(RamIndex(a)) = RamIndex(a)
<1>. SUFFICES ASSUME NEW a \in Int PROVE RamIndex(RamIndex(a)) = RamIndex(a)
  OBVIOUS
<1>1. /\ a % RamWords \in Int /\ 0 <= a % RamWords /\ a % RamWords < RamWords
      /\ RamWords \in Nat \ {0}
  BY ConstantTypes, DivisionOf
<1>2. a % RamWords = RamWords * 0 + (a % RamWords)
  BY <1>1
<1>. QED
  BY <1>1, <1>2, RemainderIs DEF RamIndex

LEMMA RamIndexBelow == \A a \in Int : RamIndex(RamIndex(a) - 1) = RamIndex(a - 1)
<1>. SUFFICES ASSUME NEW a \in Int
              PROVE  RamIndex(RamIndex(a) - 1) = RamIndex(a - 1)
  OBVIOUS
<1>1. ((a % RamWords) + (-1)) % RamWords = (a + (-1)) % RamWords
  BY ConstantTypes, RemainderAdds
<1>2. a % RamWords \in Int
  BY ConstantTypes, DivisionOf
<1>3. (a % RamWords) + (-1) = (a % RamWords) - 1 /\ a + (-1) = a - 1
  BY <1>2
<1>. QED
  BY <1>1, <1>3 DEF RamIndex

-----------------------------------------------------------------------------
(* The ordering table.                                                      *)

Entries(ch) == IF ch.size = 0 THEN 1 ELSE ch.size
Entry(ch, i) == RamIndex(ch.madr - i)

\* What channel 6 leaves behind: each entry links to the one below it.
IsTable(r, ch) ==
  Entries(ch) <= RamWords =>
    /\ \A i \in 0..(Entries(ch) - 2) : r[Entry(ch, i)] = LinkTo(Entry(ch, i + 1))
    /\ r[Entry(ch, Entries(ch) - 1)] = EndWord

LEMMA EntriesDiffer ==
  ASSUME NEW ch \in ChannelType, NEW i \in Nat, NEW j \in Nat,
         i < RamWords, j < RamWords, Entry(ch, i) = Entry(ch, j)
  PROVE  i = j
<1>1. ch.madr \in Int
  BY DEF ChannelType
<1>. QED
  BY <1>1, ConstantTypes, RemaindersDiffer DEF Entry, RamIndex

LEMMA OtcLeavesTable ==
  ASSUME NEW ch \in ChannelType, NEW r
  PROVE  IsTable(OtcTable(r, ch), ch)
<1>. SUFFICES ASSUME Entries(ch) <= RamWords
              PROVE  /\ \A i \in 0..(Entries(ch) - 2) :
                          OtcTable(r, ch)[Entry(ch, i)] = LinkTo(Entry(ch, i + 1))
                     /\ OtcTable(r, ch)[Entry(ch, Entries(ch) - 1)] = EndWord
  BY DEF IsTable
<1>. DEFINE n == Entries(ch)
            place(a) == {i \in 0..(n - 1) : Entry(ch, i) = a}
            table == OtcTable(r, ch)
<1>1. ch.madr \in Int /\ n \in Nat /\ n >= 1 /\ n <= RamWords
  BY DEF ChannelType, Entries
<1>2. \A a \in Address : table[a] = IF place(a) = {} THEN r[a]
                                    ELSE IF (n - 1) \in place(a) THEN EndWord
                                    ELSE LinkTo(RamIndex(a - 1))
  BY DEF OtcTable, Entries, Entry
<1>3. ASSUME NEW i \in Int, 0 <= i, i < n
      PROVE  Entry(ch, i) \in Address /\ place(Entry(ch, i)) = {i}
  <2>1. ch.madr - i \in Int
    BY <1>1
  <2>2. Entry(ch, i) \in Address
    BY <2>1, RamIndexInRam DEF Entry
  <2>3. i \in place(Entry(ch, i))
    BY <1>1, <1>3
  <2>4. ASSUME NEW j \in place(Entry(ch, i)) PROVE j = i
    <3>1. j \in Nat /\ j < n /\ Entry(ch, j) = Entry(ch, i)
      BY <1>1
    <3>. QED
      BY <3>1, <1>1, <1>3, EntriesDiffer, ConstantTypes
  <2>. QED
    BY <2>2, <2>3, <2>4
<1>. HIDE DEF place, table
<1>4. ASSUME NEW i \in 0..(n - 2)
      PROVE  table[Entry(ch, i)] = LinkTo(Entry(ch, i + 1))
  <2>1. i \in Int /\ 0 <= i /\ i < n - 1 /\ n - 1 # i
    BY <1>1
  <2>2. table[Entry(ch, i)] = LinkTo(RamIndex(Entry(ch, i) - 1))
    BY <1>1, <1>2, <1>3, <2>1
  <2>3. ch.madr - i \in Int /\ (ch.madr - i) - 1 = ch.madr - (i + 1)
    BY <1>1
  <2>4. RamIndex(Entry(ch, i) - 1) = Entry(ch, i + 1)
    BY <2>3, RamIndexBelow DEF Entry
  <2>. QED
    BY <2>2, <2>4
<1>5. table[Entry(ch, n - 1)] = EndWord
  <2>1. n - 1 \in Int /\ 0 <= n - 1 /\ n - 1 < n
    BY <1>1
  <2>. QED
    BY <1>2, <1>3, <2>1
<1>. QED
  BY <1>4, <1>5 DEF table

-----------------------------------------------------------------------------
(* The walk of a linked list: nodes are appended until the end mark.        *)

Paths == {p \in Seq(Address) : p # <<>>}
WalkOn(r, p) ==
  IF ~r[p[Len(p)]].end /\ Len(p) <= NodeGuard
  THEN Append(p, RamIndex(r[p[Len(p)]].next)) ELSE p

LEMMA WalkTyped ==
  ASSUME NEW r \in Ram, NEW p \in Paths
  PROVE  WalkOn(r, p) \in Paths
<1>1. p \in Seq(Address) /\ Len(p) \in Nat /\ Len(p) > 0
  BY DEF Paths
<1>2. p[Len(p)] \in Address
  BY <1>1
<1>3. r[p[Len(p)]].next \in Int
  BY <1>2 DEF Ram, Word
<1>4. RamIndex(r[p[Len(p)]].next) \in Address
  BY <1>3, RamIndexInRam
<1>. QED
  BY <1>1, <1>4 DEF WalkOn, Paths

\* What the recursive definition in NodesFrom computes.
LEMMA NodesFromIs ==
  ASSUME NEW r \in Ram, NEW start \in Nat
  PROVE  \E walk :
           /\ NodesFrom(r, start) = walk[NodeGuard]
           /\ walk[0] = <<RamIndex(start)>>
           /\ \A k \in Nat : k < NodeGuard => walk[k + 1] = WalkOn(r, walk[k])
           /\ \A k \in 0..NodeGuard : walk[k] \in Paths
<1>. DEFINE first == <<RamIndex(start)>>
            step == [p \in Paths |-> WalkOn(r, p)]
            walk == CHOOSE f : f = [n \in 0..NodeGuard |->
                      IF n = 0 THEN first ELSE WalkOn(r, f[n - 1])]
<1>1. NodeGuard \in Nat /\ first \in Paths /\ step \in [Paths -> Paths]
  <2>1. RamIndex(start) \in Address
    BY RamIndexInRam
  <2>2. first \in Paths
    BY <2>1 DEF Paths
  <2>. QED
    BY <2>2, WalkTyped, ConstantTypes
<1>. HIDE DEF first
<1>2. \E f : f = [n \in 0..NodeGuard |->
                    IF n = 0 THEN first ELSE WalkOn(r, f[n - 1])]
  <2>1. PICK f \in [0..NodeGuard -> Paths] :
          f = [n \in 0..NodeGuard |-> IF n = 0 THEN first ELSE step[f[n - 1]]]
    <3>. HIDE DEF step
    <3>. QED
      BY <1>1, IterationExists
  <2>2. \A n \in 0..NodeGuard : n # 0 => step[f[n - 1]] = WalkOn(r, f[n - 1])
    BY <1>1
  <2>. HIDE DEF step
  <2>3. f = [n \in 0..NodeGuard |->
               IF n = 0 THEN first ELSE WalkOn(r, f[n - 1])]
    BY <2>1, <2>2
  <2>. QED
    BY <2>3
<1>3. walk = [n \in 0..NodeGuard |->
                IF n = 0 THEN first ELSE WalkOn(r, walk[n - 1])]
  BY <1>2
<1>4. NodesFrom(r, start) = walk[NodeGuard]
  BY DEF NodesFrom, WalkOn, first
<1>. HIDE DEF walk
<1>5. walk[0] = first
  BY <1>1, <1>3
<1>6. ASSUME NEW k \in Nat, k < NodeGuard
      PROVE  walk[k + 1] = WalkOn(r, walk[k])
  <2>1. k + 1 \in 0..NodeGuard /\ k + 1 # 0 /\ (k + 1) - 1 = k
    BY <1>1, <1>6
  <2>. QED
    BY <1>3, <2>1
<1>7. \A k \in 0..NodeGuard : walk[k] \in Paths
  <2>1. \A k \in Nat : k < NodeGuard /\ walk[k] \in Paths => walk[k + 1] \in Paths
    BY <1>6, WalkTyped
  <2>2. walk[0] \in Paths
    BY <1>1, <1>5
  <2>. QED
    BY <1>1, <2>1, <2>2, IterationStays
<1>. QED
  BY <1>4, <1>5, <1>6, <1>7 DEF first

\* A table is a list from its first entry through all of them.
LEMMA TableIsWalked ==
  ASSUME NEW r \in Ram, NEW ch \in ChannelType, IsTable(r, ch),
         Entries(ch) <= RamWords, Entries(ch) <= NodeGuard
  PROVE  NodesFrom(r, ch.madr) = [i \in 1..Entries(ch) |-> Entry(ch, i - 1)]
<1>. DEFINE n == Entries(ch)
            upto(k) == IF k + 1 <= n THEN k + 1 ELSE n
            prefix(k) == [i \in 1..upto(k) |-> Entry(ch, i - 1)]
<1>1. ch.madr \in Nat /\ n \in Nat /\ n >= 1 /\ n <= RamWords /\ n <= NodeGuard
  BY DEF ChannelType, Entries
<1>2. /\ \A i \in 0..(n - 2) : r[Entry(ch, i)] = LinkTo(Entry(ch, i + 1))
      /\ r[Entry(ch, n - 1)] = EndWord
  BY DEF IsTable
<1>3. \A i \in Int : Entry(ch, i) \in Address /\ RamIndex(Entry(ch, i)) = Entry(ch, i)
  <2>. SUFFICES ASSUME NEW i \in Int
                PROVE  Entry(ch, i) \in Address /\ RamIndex(Entry(ch, i)) = Entry(ch, i)
    OBVIOUS
  <2>1. ch.madr - i \in Int
    BY <1>1
  <2>. QED
    BY <2>1, RamIndexInRam, RamIndexAgain DEF Entry
<1>4. PICK walk :
        /\ NodesFrom(r, ch.madr) = walk[NodeGuard]
        /\ walk[0] = <<RamIndex(ch.madr)>>
        /\ \A k \in Nat : k < NodeGuard => walk[k + 1] = WalkOn(r, walk[k])
        /\ \A k \in 0..NodeGuard : walk[k] \in Paths
  BY <1>1, NodesFromIs
<1>. HIDE DEF n
<1>5. walk[0] = prefix(0)
  <2>1. upto(0) = 1 /\ 1..1 = {1}
    BY <1>1
  <2>2. prefix(0) = [i \in 1..1 |-> Entry(ch, i - 1)]
    BY <2>1
  <2>3. ch.madr - (1 - 1) = ch.madr
    BY <1>1
  <2>4. Entry(ch, 1 - 1) = RamIndex(ch.madr)
    BY <2>3 DEF Entry
  <2>5. prefix(0) = <<RamIndex(ch.madr)>>
    BY <2>2, <2>4
  <2>. QED
    BY <2>5, <1>4
<1>6. ASSUME NEW k \in Nat, k < NodeGuard, walk[k] = prefix(k)
      PROVE  walk[k + 1] = prefix(k + 1)
  <2>1. walk[k + 1] = WalkOn(r, prefix(k))
    BY <1>4, <1>6
  <2>2. prefix(k) \in Seq(Address) /\ Len(prefix(k)) = upto(k)
    BY <1>1, <1>3
  <2>3. upto(k) \in 1..upto(k) /\ upto(k) \in Nat
    BY <1>1
  <2>4. prefix(k)[upto(k)] = Entry(ch, upto(k) - 1)
    BY <2>3
  <2>5. CASE k + 1 < n
    <3>1. upto(k) = k + 1 /\ upto(k + 1) = k + 2 /\ k \in 0..(n - 2)
      BY <2>5, <1>1
    <3>2. prefix(k)[k + 1] = Entry(ch, k) /\ Len(prefix(k)) = k + 1
      <4>1. (k + 1) - 1 = k
        OBVIOUS
      <4>. QED
        BY <2>2, <2>4, <3>1, <4>1
    <3>3. r[Entry(ch, k)] = LinkTo(Entry(ch, k + 1))
      BY <1>2, <3>1
    <3>4. r[Entry(ch, k)].next = Entry(ch, k + 1) /\ ~r[Entry(ch, k)].end
      BY <3>3 DEF LinkTo
    <3>5. k + 1 <= NodeGuard
      BY <1>1, <2>5, ConstantTypes
    <3>6. RamIndex(Entry(ch, k + 1)) = Entry(ch, k + 1)
      BY <1>3
    <3>. HIDE DEF prefix
    <3>7. WalkOn(r, prefix(k)) = Append(prefix(k), Entry(ch, k + 1))
      BY <3>2, <3>4, <3>5, <3>6 DEF WalkOn
    <3>. USE DEF prefix
    <3>8. Append(prefix(k), Entry(ch, k + 1)) = prefix(k + 1)
      <4>1. prefix(k) = [i \in 1..(k + 1) |-> Entry(ch, i - 1)]
        BY <3>1
      <4>2. prefix(k + 1) = [i \in 1..(k + 2) |-> Entry(ch, i - 1)]
        BY <3>1
      <4>. HIDE DEF prefix
      <4>3. Append(prefix(k), Entry(ch, k + 1))
              = [i \in 1..(k + 2) |-> IF i <= k + 1 THEN prefix(k)[i]
                                      ELSE Entry(ch, k + 1)]
        BY <2>2, <3>2
      <4>4. ASSUME NEW i \in 1..(k + 2)
            PROVE  (IF i <= k + 1 THEN prefix(k)[i] ELSE Entry(ch, k + 1))
                     = Entry(ch, i - 1)
        <5>1. CASE i <= k + 1
          <6>1. i \in 1..(k + 1)
            BY <5>1
          <6>. QED
            BY <4>1, <5>1, <6>1
        <5>2. CASE ~ i <= k + 1
          <6>1. i - 1 = k + 1
            BY <5>2
          <6>. QED
            BY <5>2, <6>1
        <5>. QED
          BY <5>1, <5>2
      <4>. QED
        BY <4>2, <4>3, <4>4
    <3>. QED
      BY <2>1, <3>7, <3>8
  <2>6. CASE ~ k + 1 < n
    <3>1. upto(k) = n /\ upto(k + 1) = n
      BY <2>6, <1>1
    <3>2. prefix(k)[n] = Entry(ch, n - 1) /\ Len(prefix(k)) = n
      BY <2>2, <2>4, <3>1
    <3>3. r[Entry(ch, n - 1)].end
      BY <1>2 DEF EndWord
    <3>4. prefix(k + 1) = prefix(k)
      BY <3>1
    <3>. HIDE DEF prefix
    <3>5. WalkOn(r, prefix(k)) = prefix(k)
      BY <3>2, <3>3 DEF WalkOn
    <3>. QED
      BY <2>1, <3>4, <3>5
  <2>. QED
    BY <2>5, <2>6
<1>7. walk[NodeGuard] = prefix(NodeGuard)
  <2>. DEFINE T == {k \in Nat : k <= NodeGuard => walk[k] = prefix(k)}
  <2>1. 0 \in T
    BY <1>5
  <2>2. \A k \in Nat : k \in T => k + 1 \in T
    <3>. HIDE DEF prefix
    <3>. QED
      BY <1>6, ConstantTypes
  <2>3. \A k \in Nat : k \in T
    <3>. HIDE DEF T
    <3>. QED
      BY <2>1, <2>2, SetInduction
  <2>. HIDE DEF prefix
  <2>. QED
    BY <2>3, ConstantTypes
<1>8. upto(NodeGuard) = n
  BY <1>1, ConstantTypes
<1>9. prefix(NodeGuard) = [i \in 1..n |-> Entry(ch, i - 1)]
  BY <1>8
<1>. QED
  BY <1>4, <1>7, <1>9 DEF n

-----------------------------------------------------------------------------
(* A transfer and its completion.                                           *)

LEMMA TransferTyped ==
  ASSUME NEW r \in Ram, NEW c \in Channels, NEW ch \in ChannelType
  PROVE  /\ Transfer(r, c, ch).ram \in Ram
         /\ Transfer(r, c, ch).final # <<>> => Transfer(r, c, ch).final[1] \in Nat
<1>1. ch.madr \in Nat /\ ch.size \in Nat /\ ch.blocks \in Nat
  BY DEF ChannelType
<1>2. \A a \in Int : RamIndex(a) \in Address /\ RamIndex(a) \in Nat
  BY RamIndexInRam, ConstantTypes DEF Address
<1>3. OtcTable(r, ch) \in Ram
  <2>1. EndWord \in Word
    BY EndWordIsWord
  <2>2. ASSUME NEW a \in Address PROVE LinkTo(RamIndex(a - 1)) \in Word
    <3>1. a - 1 \in Int
      BY ConstantTypes DEF Address
    <3>2. RamIndex(a - 1) \in Nat
      BY <1>2, <3>1
    <3>. QED
      BY <3>2 DEF LinkTo, Word
  <2>3. \A a \in Address : OtcTable(r, ch)[a] \in Word
    BY <2>1, <2>2 DEF OtcTable, Ram
  <2>4. OtcTable(r, ch) = [a \in Address |-> OtcTable(r, ch)[a]]
    BY DEF OtcTable
  <2>. QED
    BY <2>3, <2>4 DEF Ram
<1>4. /\ LinkedListDma(r, ch).ram \in Ram
      /\ LinkedListDma(r, ch).final[1] \in Nat
  <2>. DEFINE nodes == NodesFrom(r, ch.madr)
              tail == r[nodes[Len(nodes)]]
  <2>1. nodes \in Paths
    BY <1>1, NodesFromIs, ConstantTypes
  <2>. HIDE DEF nodes
  <2>2. nodes[Len(nodes)] \in Address
    BY <2>1 DEF Paths
  <2>3. tail.next \in Nat /\ tail.next \in Int
    BY <2>2 DEF Ram, Word
  <2>4. RamIndex(tail.next) \in Nat
    BY <1>2, <2>3
  <2>. HIDE DEF tail
  <2>5. LinkedListDma(r, ch) =
          [ram |-> r, final |-> <<IF tail.end THEN tail.next ELSE RamIndex(tail.next)>>]
    BY DEF LinkedListDma, tail, nodes
  <2>. QED
    BY <2>3, <2>4, <2>5
<1>5. /\ BlockDma(r, c, ch).ram \in Ram
      /\ BlockDma(r, c, ch).final # <<>> => BlockDma(r, c, ch).final[1] \in Nat
  <2>1. CountPart(ch.size) \in Nat /\ CountPart(ch.blocks) \in Nat
    BY <1>1, ConstantTypes DEF CountPart
  <2>2. WordCount(ch) \in Int
    BY <2>1 DEF WordCount
  <2>3. Nth(c, ch, WordCount(ch)) \in Nat
    BY <1>1, <1>2, <2>2 DEF Nth
  <2>4. BlockDma(r, c, ch).ram \in Ram
    BY ConstantTypes DEF BlockDma, Ram
  <2>5. BlockDma(r, c, ch).final = IF ch.sync = 1 THEN <<Nth(c, ch, WordCount(ch))>>
                                   ELSE <<>>
    BY DEF BlockDma
  <2>. QED
    BY <2>3, <2>4, <2>5
<1>6. /\ Untouched(OtcTable(r, ch)).ram = OtcTable(r, ch)
      /\ Untouched(OtcTable(r, ch)).final = <<>>
      /\ Untouched(r).ram = r /\ Untouched(r).final = <<>>
  BY DEF Untouched
<1>. QED
  BY <1>3, <1>4, <1>5, <1>6 DEF Transfer

LEMMA CompletionIs ==
  ASSUME NEW d \in DmaType, NEW c \in Channels, NEW final,
         final # <<>> => final[1] \in Nat
  PROVE  LET e == CompleteChannel(d, c, final) IN
         /\ e \in DmaType
         /\ e.flags = FlagDone(d, c) /\ e.enables = d.enables
         /\ e.always = d.always /\ e.master = d.master
         /\ e.enabled = d.enabled
         /\ \A x \in Channels \ {c} : e.ch[x] = d.ch[x]
         /\ ~e.ch[c].active
         /\ e.ch[c].size = d.ch[c].size
         /\ final = <<>> => e.ch[c].madr = d.ch[c].madr
<1>. DEFINE b == Completed(d.ch[c], final)
            e == CompleteChannel(d, c, final)
<1>1. d.ch \in [Channels -> ChannelType] /\ d.ch[c] \in ChannelType
  BY DEF DmaType
<1>2. b \in ChannelType
  BY <1>1 DEF ChannelType, Completed
<1>3. /\ ~b.active /\ b.size = d.ch[c].size
      /\ final = <<>> => b.madr = d.ch[c].madr
  BY <1>1 DEF ChannelType, Completed
<1>4. e = [d EXCEPT !.ch[c] = b, !.flags = FlagDone(d, c)]
  BY DEF CompleteChannel
<1>. HIDE DEF b, e
<1>5. FlagDone(d, c) \in SUBSET Channels
  BY DEF FlagDone, DmaType
<1>6. [d.ch EXCEPT ![c] = b] \in [Channels -> ChannelType]
  BY <1>1, <1>2
<1>7. e \in DmaType
  BY <1>1, <1>4, <1>5, <1>6 DEF DmaType
<1>8. /\ e.flags = FlagDone(d, c) /\ e.enables = d.enables
      /\ e.always = d.always /\ e.master = d.master /\ e.enabled = d.enabled
      /\ e.ch = [d.ch EXCEPT ![c] = b]
  BY <1>1, <1>4 DEF DmaType
<1>9. /\ e.ch[c] = b
      /\ \A x \in Channels \ {c} : e.ch[x] = d.ch[x]
  BY <1>1, <1>8
<1>. QED
  BY <1>3, <1>7, <1>8, <1>9 DEF e

-----------------------------------------------------------------------------
(* The channel that goes first.  Its key is the priority number, and among  *)
(* equals the distance to channel 6.                                        *)

LEMMA SomeChannelIsNext ==
  ASSUME NEW d \in DmaType, Pending(d) # {}
  PROVE  /\ NextPendingChannel(d) \in Pending(d)
         /\ NextPendingChannel(d) \in Channels
<1>. DEFINE key(c) == 7 * d.priority[c] + (6 - c)
            keys == {key(c) : c \in Pending(d)}
<1>1. Pending(d) \subseteq Channels
  BY DEF Pending, DmaType
<1>2. \A c \in Pending(d) : /\ c \in Nat /\ c <= 6 /\ d.priority[c] \in Nat
                            /\ key(c) \in Nat
  BY <1>1, ConstantTypes DEF DmaType
<1>3. keys \subseteq Nat /\ keys # {}
  BY <1>2
<1>4. PICK k \in keys : \A l \in keys : k <= l
  <2>. HIDE DEF keys
  <2>. QED
    BY <1>3, LeastElement
<1>5. PICK c \in Pending(d) : k = key(c)
  BY <1>4
<1>6. ASSUME NEW e \in Pending(d) \ {c} PROVE Precedes(d, c, e)
  <2>1. key(c) <= key(e)
    BY <1>4, <1>5
  <2>2. 7 * d.priority[c] + (6 - c) <= 7 * d.priority[e] + (6 - e)
    BY <2>1
  <2>. HIDE DEF key
  <2>3. /\ c \in Nat /\ c <= 6 /\ d.priority[c] \in Nat
        /\ e \in Nat /\ e <= 6 /\ d.priority[e] \in Nat
        /\ c # e
    BY <1>2
  <2>4. d.priority[c] < d.priority[e] \/ (d.priority[c] = d.priority[e] /\ c > e)
    BY <2>2, <2>3
  <2>. QED
    BY <2>4 DEF Precedes
<1>7. NextPendingChannel(d) \in Pending(d)
  <2>1. \E x \in Pending(d) : \A e \in Pending(d) \ {x} : Precedes(d, x, e)
    BY <1>6
  <2>. QED
    BY <2>1 DEF NextPendingChannel
<1>. QED
  BY <1>1, <1>7

-----------------------------------------------------------------------------
(* What holds of the machine after every transfer of a register write.      *)

FlagsOwed(m) == m.dma.flags = m.owed
Latched(m) == MasterIrq(m.dma) => m.istat \/ m.seen
Tabled(m) ==
  m.served # <<>> /\ m.served[Len(m.served)] = Otc => IsTable(m.ram, m.dma.ch[Otc])

GoodMachines == {m \in MachineType : FlagsOwed(m) /\ Latched(m) /\ Tabled(m)}

LEMMA MasterIrqBoolean == \A d \in DmaType : MasterIrq(d) \in BOOLEAN
  BY DEF MasterIrq, DmaType

LEMMA RequestedIs ==
  ASSUME NEW m \in MachineType, NEW earlier \in DmaType,
         MasterIrq(earlier) => m.istat \/ m.seen
  PROVE  LET q == Requested(m, earlier) IN
         /\ q \in MachineType
         /\ q.dma = m.dma /\ q.ram = m.ram /\ q.served = m.served
         /\ q.owed = m.owed
         /\ Latched(q)
<1>. DEFINE q == Requested(m, earlier)
            up == MasterIrq(earlier)
            now == MasterIrq(m.dma)
<1>1. up \in BOOLEAN /\ now \in BOOLEAN
  BY MasterIrqBoolean DEF MachineType
<1>2. up => m.istat \/ m.seen
  OBVIOUS
<1>3. q = [[m EXCEPT !.istat = @ \/ (~up /\ now)] EXCEPT !.seen = @ /\ (up \/ ~now)]
  BY DEF Requested, RequestOnEdge
<1>. HIDE DEF up, now, q
<1>4. /\ q \in MachineType
      /\ q.dma = m.dma /\ q.ram = m.ram /\ q.served = m.served /\ q.owed = m.owed
      /\ q.istat = (m.istat \/ (~up /\ now))
      /\ q.seen = (m.seen /\ (up \/ ~now))
  BY <1>1, <1>3 DEF MachineType
<1>5. now => q.istat \/ q.seen
  BY <1>1, <1>2, <1>4
<1>6. MasterIrq(q.dma) = now
  BY <1>4 DEF now
<1>. QED
  BY <1>4, <1>5, <1>6 DEF q, Latched

LEMMA RunDmaKeeps ==
  ASSUME NEW m \in GoodMachines, NEW c \in Channels
  PROVE  /\ RunDma(m, c) \in GoodMachines
         /\ Pending(RunDma(m, c).dma) = Pending(m.dma) \ {c}
<1>. DEFINE ch == m.dma.ch[c]
            t == Transfer(m.ram, c, ch)
            d == CompleteChannel(m.dma, c, t.final)
            owes == IF c \in d.enables THEN m.owed \union {c} ELSE m.owed
            n == [m EXCEPT !.dma = d, !.ram = t.ram, !.served = Append(@, c),
                           !.owed = owes]
            q == Requested(n, m.dma)
<1>1. /\ m \in MachineType /\ m.dma \in DmaType /\ m.ram \in Ram
      /\ m.served \in Seq(Channels) /\ m.owed \subseteq Channels
      /\ FlagsOwed(m) /\ Latched(m)
  BY DEF GoodMachines, MachineType
<1>2. ch \in ChannelType
  BY <1>1 DEF DmaType
<1>3. t.ram \in Ram /\ (t.final # <<>> => t.final[1] \in Nat)
  BY <1>1, <1>2, TransferTyped
<1>4. /\ d \in DmaType
      /\ d.flags = FlagDone(m.dma, c) /\ d.enables = m.dma.enables
      /\ d.enabled = m.dma.enabled
      /\ \A x \in Channels \ {c} : d.ch[x] = m.dma.ch[x]
      /\ ~d.ch[c].active
      /\ d.ch[c].size = ch.size
      /\ t.final = <<>> => d.ch[c].madr = ch.madr
  <2>. HIDE DEF t
  <2>. QED
    BY <1>1, <1>3, CompletionIs
<1>5. RunDma(m, c) = q
  BY DEF RunDma
<1>6. c = Otc => t.ram = OtcTable(m.ram, ch) /\ t.final = <<>>
  BY DEF Transfer, Untouched
<1>. HIDE DEF ch, t, d
<1>7. d.flags = owes
  BY <1>1, <1>4 DEF FlagDone, FlagsOwed
<1>8. owes \subseteq Channels
  BY <1>1
<1>. HIDE DEF owes
<1>9. /\ n \in MachineType
      /\ n.dma = d /\ n.ram = t.ram /\ n.served = Append(m.served, c)
      /\ n.owed = owes /\ n.istat = m.istat /\ n.seen = m.seen
  <2>1. /\ n.dma = d /\ n.ram = t.ram /\ n.served = Append(m.served, c)
        /\ n.owed = owes
    BY <1>1 DEF MachineType
  <2>2. n.istat = m.istat
    BY <1>1 DEF MachineType
  <2>3. n.seen = m.seen
    BY <1>1 DEF MachineType
  <2>4. n \in MachineType
    <3>1. Append(m.served, c) \in Seq(Channels)
      BY <1>1
    <3>. QED
      BY <1>1, <1>3, <1>4, <1>8, <3>1 DEF MachineType
  <2>. QED
    BY <2>1, <2>2, <2>3, <2>4
<1>. HIDE DEF n
<1>10. MasterIrq(m.dma) => n.istat \/ n.seen
  BY <1>1, <1>9 DEF Latched
<1>11. /\ q \in MachineType
       /\ q.dma = d /\ q.ram = t.ram /\ q.served = Append(m.served, c)
       /\ q.owed = owes /\ Latched(q)
  BY <1>1, <1>9, <1>10, RequestedIs
<1>. HIDE DEF q
<1>12. q.served[Len(q.served)] = c
  BY <1>1, <1>11
<1>13. Tabled(q)
  <2>. SUFFICES ASSUME c = Otc PROVE IsTable(q.ram, q.dma.ch[Otc])
    BY <1>12 DEF Tabled
  <2>1. IsTable(t.ram, ch)
    BY <1>2, <1>6, OtcLeavesTable
  <2>2. d.ch[c].size = ch.size /\ d.ch[c].madr = ch.madr
    BY <1>4, <1>6
  <2>3. Entries(d.ch[c]) = Entries(ch) /\ \A i : Entry(d.ch[c], i) = Entry(ch, i)
    BY <2>2 DEF Entries, Entry
  <2>4. IsTable(t.ram, d.ch[c])
    BY <2>1, <2>3 DEF IsTable
  <2>. QED
    BY <1>11, <2>4
<1>14. q \in GoodMachines
  BY <1>7, <1>11, <1>13 DEF GoodMachines, FlagsOwed
<1>15. Pending(d) = Pending(m.dma) \ {c}
  <2>1. d.enabled \subseteq Channels
    BY <1>4 DEF DmaType
  <2>2. ~ReadyToStart(d.ch[c])
    BY <1>4 DEF ReadyToStart
  <2>3. \A x \in d.enabled \ {c} : d.ch[x] = m.dma.ch[x]
    BY <1>4, <2>1
  <2>. QED
    BY <1>4, <2>2, <2>3 DEF Pending
<1>. QED
  BY <1>5, <1>11, <1>14, <1>15

-----------------------------------------------------------------------------
(* The loop.  Each round takes one channel off the waiting ones.            *)

RunNext(m) ==
  IF Pending(m.dma) = {} THEN m ELSE RunDma(m, NextPendingChannel(m.dma))

LEMMA RunNextKeeps ==
  ASSUME NEW m \in GoodMachines
  PROVE  /\ RunNext(m) \in GoodMachines
         /\ Pending(m.dma) # {} =>
              \E c \in Pending(m.dma) : Pending(RunNext(m).dma) = Pending(m.dma) \ {c}
<1>1. m.dma \in DmaType
  BY DEF GoodMachines, MachineType
<1>2. CASE Pending(m.dma) = {}
  BY <1>2 DEF RunNext
<1>3. CASE Pending(m.dma) # {}
  <2>1. /\ NextPendingChannel(m.dma) \in Pending(m.dma)
        /\ NextPendingChannel(m.dma) \in Channels
    BY <1>1, <1>3, SomeChannelIsNext
  <2>2. RunNext(m) = RunDma(m, NextPendingChannel(m.dma))
    BY <1>3 DEF RunNext
  <2>. QED
    BY <2>1, <2>2, RunDmaKeeps
<1>. QED
  BY <1>2, <1>3

LEMMA RunPendingDmaIs ==
  ASSUME NEW m \in GoodMachines
  PROVE  \E run :
           /\ RunPendingDma(m) = run[MaxRuns]
           /\ run[0] = m
           /\ \A k \in Nat : k < MaxRuns => run[k + 1] = RunNext(run[k])
           /\ \A k \in 0..MaxRuns : run[k] \in GoodMachines
<1>. DEFINE step == [p \in GoodMachines |-> RunNext(p)]
            run == CHOOSE f : f = [n \in 0..MaxRuns |->
                      IF n = 0 THEN m ELSE RunNext(f[n - 1])]
<1>1. MaxRuns \in Nat /\ step \in [GoodMachines -> GoodMachines]
  BY RunNextKeeps, DmaAssumption
<1>2. \E f : f = [n \in 0..MaxRuns |-> IF n = 0 THEN m ELSE RunNext(f[n - 1])]
  <2>1. PICK f \in [0..MaxRuns -> GoodMachines] :
          f = [n \in 0..MaxRuns |-> IF n = 0 THEN m ELSE step[f[n - 1]]]
    <3>. HIDE DEF step
    <3>. QED
      BY <1>1, IterationExists
  <2>2. \A n \in 0..MaxRuns : n # 0 => step[f[n - 1]] = RunNext(f[n - 1])
    BY <1>1
  <2>. HIDE DEF step
  <2>3. f = [n \in 0..MaxRuns |-> IF n = 0 THEN m ELSE RunNext(f[n - 1])]
    BY <2>1, <2>2
  <2>. QED
    BY <2>3
<1>3. run = [n \in 0..MaxRuns |-> IF n = 0 THEN m ELSE RunNext(run[n - 1])]
  BY <1>2
<1>4. RunPendingDma(m) = run[MaxRuns]
  BY DEF RunPendingDma, RunNext
<1>. HIDE DEF run
<1>5. run[0] = m
  BY <1>1, <1>3
<1>6. ASSUME NEW k \in Nat, k < MaxRuns PROVE run[k + 1] = RunNext(run[k])
  <2>1. k + 1 \in 0..MaxRuns /\ k + 1 # 0 /\ (k + 1) - 1 = k
    BY <1>1, <1>6
  <2>. QED
    BY <1>3, <2>1
<1>7. \A k \in 0..MaxRuns : run[k] \in GoodMachines
  <2>1. \A k \in Nat :
          k < MaxRuns /\ run[k] \in GoodMachines => run[k + 1] \in GoodMachines
    BY <1>6, RunNextKeeps
  <2>2. run[0] \in GoodMachines
    BY <1>5
  <2>. QED
    BY <1>1, <2>1, <2>2, IterationStays
<1>. QED
  BY <1>4, <1>5, <1>6, <1>7

\* A register write leaves a good machine with nothing waiting: there are no
\* more channels than rounds.
LEMMA RunPendingDmaEnds ==
  ASSUME NEW m \in GoodMachines
  PROVE  /\ RunPendingDma(m) \in GoodMachines
         /\ Pending(RunPendingDma(m).dma) = {}
<1>1. PICK run :
        /\ RunPendingDma(m) = run[MaxRuns]
        /\ run[0] = m
        /\ \A k \in Nat : k < MaxRuns => run[k + 1] = RunNext(run[k])
        /\ \A k \in 0..MaxRuns : run[k] \in GoodMachines
  BY RunPendingDmaIs
<1>. DEFINE waiting(k) == Pending(run[k].dma)
            total == Cardinality(Channels)
<1>2. MaxRuns \in Nat /\ MaxRuns >= total
  BY DmaAssumption
<1>3. IsFiniteSet(Channels) /\ total \in Nat
  <2>1. IsFiniteSet(0..6)
    <3>1. 0 \in Int /\ 6 \in Int
      OBVIOUS
    <3>. QED
      BY <3>1, FS_Interval, Zenon
  <2>2. IsFiniteSet(Channels)
    BY <2>1, FS_Subset, DmaAssumption
  <2>. QED
    BY <2>2, FS_CardinalityType
<1>4. ASSUME NEW k \in 0..MaxRuns
      PROVE  /\ waiting(k) \subseteq Channels /\ IsFiniteSet(waiting(k))
             /\ Cardinality(waiting(k)) \in Nat /\ Cardinality(waiting(k)) <= total
  <2>1. waiting(k) \subseteq Channels
    BY <1>1 DEF GoodMachines, MachineType, DmaType, Pending
  <2>. HIDE DEF waiting
  <2>. QED
    BY <2>1, <1>3, FS_Subset, FS_CardinalityType
<1>. DEFINE T == {k \in Nat : k <= MaxRuns =>
                    waiting(k) = {} \/ Cardinality(waiting(k)) <= total - k}
<1>5. 0 \in T
  BY <1>2, <1>3, <1>4
<1>6. ASSUME NEW k \in Nat, k \in T PROVE k + 1 \in T
  <2>. SUFFICES ASSUME k + 1 <= MaxRuns
                PROVE  \/ waiting(k + 1) = {}
                       \/ Cardinality(waiting(k + 1)) <= total - (k + 1)
    OBVIOUS
  <2>1. k \in 0..MaxRuns /\ k < MaxRuns
    BY <1>2
  <2>2. run[k] \in GoodMachines /\ run[k + 1] = RunNext(run[k])
    BY <1>1, <2>1
  <2>3. waiting(k) = {} \/ Cardinality(waiting(k)) <= total - k
    BY <1>6, <2>1
  <2>4. CASE waiting(k) = {}
    BY <2>2, <2>4 DEF RunNext
  <2>5. CASE waiting(k) # {}
    <3>1. PICK c \in waiting(k) : waiting(k + 1) = waiting(k) \ {c}
      BY <2>2, <2>5, RunNextKeeps
    <3>. HIDE DEF waiting
    <3>2. Cardinality(waiting(k + 1)) = Cardinality(waiting(k)) - 1
      BY <3>1, <2>1, <1>4, FS_RemoveElement
    <3>. QED
      BY <3>2, <2>1, <2>3, <2>5, <1>2, <1>3, <1>4
  <2>. QED
    BY <2>4, <2>5
<1>7. MaxRuns \in T
  <2>. HIDE DEF T
  <2>. QED
    BY <1>2, <1>5, <1>6, SetInduction
<1>8. waiting(MaxRuns) = {}
  <2>1. waiting(MaxRuns) = {} \/ Cardinality(waiting(MaxRuns)) <= total - MaxRuns
    BY <1>7, <1>2
  <2>. HIDE DEF waiting
  <2>2. Cardinality(waiting(MaxRuns)) = 0 => waiting(MaxRuns) = {}
    BY <1>2, <1>4, FS_EmptySet
  <2>. QED
    BY <2>1, <2>2, <1>2, <1>3, <1>4
<1>. QED
  BY <1>1, <1>2, <1>8

-----------------------------------------------------------------------------
(* The inductive invariant.                                                 *)

\* Every register, RAM and the observations keep their types.
TypeOK ==
  /\ dma \in DmaType
  /\ ram \in Ram
  /\ istat \in BOOLEAN
  /\ served \in Seq(Channels)
  /\ owed \subseteq Channels
  /\ seen \in BOOLEAN

\* While the last transfer was the ordering table's, the table stands in RAM
\* where the registers of channel 6 say.
TableStands ==
  served # <<>> /\ served[Len(served)] = Otc => IsTable(ram, dma.ch[Otc])

IInv ==
  /\ TypeOK
  /\ NothingReady
  /\ FlagsAreOwed
  /\ IrqIsLatched
  /\ TableStands

\* What a register write, with the transfers it starts, does to a machine
\* that satisfies the invariant.
LEMMA BecomeKeeps ==
  ASSUME NEW m \in GoodMachines, Become(RunPendingDma(m))
  PROVE  IInv'
<1>. DEFINE n == RunPendingDma(m)
<1>1. n \in GoodMachines /\ Pending(n.dma) = {}
  BY RunPendingDmaEnds
<1>2. /\ dma' = n.dma /\ ram' = n.ram /\ istat' = n.istat
      /\ served' = n.served /\ owed' = n.owed /\ seen' = n.seen
  BY DEF Become
<1>. HIDE DEF n
<1>3. TypeOK'
  BY <1>1, <1>2 DEF TypeOK, GoodMachines, MachineType
<1>4. NothingReady' /\ FlagsAreOwed'
  BY <1>1, <1>2 DEF NothingReady, FlagsAreOwed, GoodMachines, FlagsOwed
<1>5. IrqIsLatched'
  BY <1>1, <1>2 DEF IrqIsLatched, GoodMachines, Latched
<1>6. TableStands'
  BY <1>1, <1>2 DEF TableStands, GoodMachines, Tabled
<1>. QED
  BY <1>3, <1>4, <1>5, <1>6 DEF IInv

\* The machine a write starts from: new registers, flags and debts that
\* still agree, no channel served yet.
LEMMA WriteStartsGood ==
  ASSUME IInv, NEW d \in DmaType, NEW o \in SUBSET Channels, d.flags = o,
         NEW m \in MachineType, m.dma = d, m.owed = o, m.served = <<>>,
         m.istat = istat, m.seen = seen
  PROVE  Requested(m, dma) \in GoodMachines
<1>1. dma \in DmaType /\ (MasterIrq(dma) => m.istat \/ m.seen)
  BY DEF IInv, TypeOK, IrqIsLatched
<1>2. /\ Requested(m, dma) \in MachineType
      /\ Requested(m, dma).dma = d /\ Requested(m, dma).owed = o
      /\ Requested(m, dma).served = <<>> /\ Latched(Requested(m, dma))
  BY <1>1, RequestedIs
<1>3. FlagsOwed(Requested(m, dma)) /\ Tabled(Requested(m, dma))
  BY <1>2 DEF FlagsOwed, Tabled
<1>. QED
  BY <1>2, <1>3 DEF GoodMachines

LEMMA MachineIs ==
  ASSUME IInv, NEW d \in DmaType
  PROVE  LET m == [Machine EXCEPT !.dma = d] IN
         /\ m \in MachineType
         /\ m.dma = d /\ m.owed = owed /\ m.served = <<>>
         /\ m.istat = istat /\ m.seen = seen
<1>1. /\ ram \in Ram /\ istat \in BOOLEAN /\ owed \in SUBSET Channels
      /\ seen \in BOOLEAN /\ <<>> \in Seq(Channels)
  BY DEF IInv, TypeOK
<1>. DEFINE m == [Machine EXCEPT !.dma = d]
<1>2. m = [dma |-> d, ram |-> ram, istat |-> istat, served |-> <<>>,
           owed |-> owed, seen |-> seen]
  BY DEF Machine
<1>. HIDE DEF m
<1>3. m \in MachineType
  BY <1>1, <1>2 DEF MachineType
<1>4. m.dma = d /\ m.owed = owed /\ m.served = <<>>
  BY <1>2
<1>5. m.istat = istat
  BY <1>2
<1>6. m.seen = seen
  BY <1>2
<1>. QED
  BY <1>3, <1>4, <1>5, <1>6 DEF m

LEMMA WriteRegisterKeeps ==
  ASSUME IInv, NEW d \in DmaType, d.flags = dma.flags, WriteRegister(d)
  PROVE  IInv'
<1>. DEFINE m == [Machine EXCEPT !.dma = d]
<1>1. /\ m \in MachineType
      /\ m.dma = d /\ m.owed = owed /\ m.served = <<>>
      /\ m.istat = istat /\ m.seen = seen
  BY MachineIs
<1>2. Become(RunPendingDma(Requested(m, dma)))
  BY DEF WriteRegister
<1>. HIDE DEF m
<1>3. d.flags = owed /\ owed \in SUBSET Channels
  BY DEF IInv, TypeOK, FlagsAreOwed
<1>4. Requested(m, dma) \in GoodMachines
  BY <1>1, <1>3, WriteStartsGood
<1>. QED
  BY <1>2, <1>4, BecomeKeeps

LEMMA InvInit == Init => IInv
<1>. SUFFICES ASSUME Init PROVE IInv
  OBVIOUS
<1>1. TypeOK
  <2>1. NewChannel \in ChannelType
    BY DEF NewChannel, ChannelType
  <2>2. \A c \in Channels : c + 1 \in Nat
    BY ConstantTypes
  <2>3. NewDma \in DmaType
    BY <2>1, <2>2 DEF NewDma, DmaType
  <2>4. LinkTo(0) \in Word
    BY DEF LinkTo, Word
  <2>5. [a \in Address |-> LinkTo(0)] \in Ram
    BY <2>4 DEF Ram
  <2>6. dma \in DmaType /\ ram \in Ram
    BY <2>3, <2>5 DEF Init
  <2>7. istat \in BOOLEAN /\ seen \in BOOLEAN
    BY DEF Init
  <2>8. served \in Seq(Channels) /\ owed \subseteq Channels
    BY DEF Init
  <2>. QED
    BY <2>6, <2>7, <2>8 DEF TypeOK
<1>2. NothingReady /\ FlagsAreOwed /\ IrqIsLatched /\ TableStands
  BY DEF Init, NewDma, NothingReady, Pending, FlagsAreOwed, IrqIsLatched,
         TableStands
<1>. QED
  BY <1>1, <1>2 DEF IInv

\* The writes to the registers of one channel.
LEMMA ChannelWriteKeeps ==
  ASSUME IInv, NEW c \in Channels, NEW ch \in ChannelType,
         WriteRegister([dma EXCEPT !.ch[c] = ch])
  PROVE  IInv'
<1>1. dma \in DmaType /\ dma.ch \in [Channels -> ChannelType]
  BY DEF IInv, TypeOK, DmaType
<1>2. [dma EXCEPT !.ch[c] = ch] \in DmaType
  BY <1>1 DEF DmaType
<1>3. [dma EXCEPT !.ch[c] = ch].flags = dma.flags
  BY <1>1 DEF DmaType
<1>. QED
  BY <1>2, <1>3, WriteRegisterKeeps

LEMMA WriteMadrKeeps ==
  ASSUME IInv, NEW c \in Channels, NEW a \in Madrs, WriteMadr(c, a)
  PROVE  IInv'
<1>. DEFINE ch == [dma.ch[c] EXCEPT !.madr = a]
<1>1. dma \in DmaType /\ dma.ch[c] \in ChannelType /\ a \in Nat
  BY DmaAssumption DEF IInv, TypeOK, DmaType
<1>2. ch \in ChannelType
  BY <1>1 DEF ChannelType
<1>3. [dma EXCEPT !.ch[c].madr = a] = [dma EXCEPT !.ch[c] = ch]
  BY <1>1 DEF DmaType
<1>. HIDE DEF ch
<1>. QED
  BY <1>2, <1>3, ChannelWriteKeeps DEF WriteMadr

LEMMA WriteBcrKeeps ==
  ASSUME IInv, NEW c \in Channels, NEW b \in Bcrs, WriteBcr(c, b)
  PROVE  IInv'
<1>. DEFINE ch == [dma.ch[c] EXCEPT !.size = b.size, !.blocks = b.blocks]
<1>1. /\ dma \in DmaType /\ dma.ch[c] \in ChannelType
      /\ b.size \in Nat /\ b.blocks \in Nat
  BY DmaAssumption DEF IInv, TypeOK, DmaType
<1>2. ch \in ChannelType
  BY <1>1 DEF ChannelType
<1>3. [dma EXCEPT !.ch[c].size = b.size, !.ch[c].blocks = b.blocks]
        = [dma EXCEPT !.ch[c] = ch]
  BY <1>1 DEF DmaType
<1>. HIDE DEF ch
<1>. QED
  BY <1>2, <1>3, ChannelWriteKeeps DEF WriteBcr

LEMMA WriteChcrKeeps ==
  ASSUME IInv, NEW c \in Channels, NEW v \in Chcrs, WriteChcr(c, v)
  PROVE  IInv'
<1>. DEFINE ch == ChcrWritten(c, dma.ch[c], v)
<1>1. /\ dma \in DmaType /\ dma.ch[c] \in ChannelType
      /\ v \in [active : BOOLEAN, force : BOOLEAN, sync : 0..3,
                fromRam : BOOLEAN, back : BOOLEAN]
  BY DmaAssumption DEF IInv, TypeOK, DmaType
<1>2. ch \in ChannelType
  <2>. DEFINE sync == IF c = Otc THEN 0 ELSE v.sync
              fromRam == c # Otc /\ v.fromRam
              back == c = Otc \/ v.back
  <2>1. ch = [dma.ch[c] EXCEPT !.active = v.active, !.force = v.force,
                !.sync = sync, !.fromRam = fromRam, !.back = back]
    BY DEF ChcrWritten
  <2>2. sync \in 0..3 /\ fromRam \in BOOLEAN /\ back \in BOOLEAN
    BY <1>1
  <2>3. v.active \in BOOLEAN /\ v.force \in BOOLEAN
    BY <1>1
  <2>. HIDE DEF ch, sync, fromRam, back
  <2>. QED
    BY <1>1, <2>1, <2>2, <2>3 DEF ChannelType
<1>3. WriteRegister([dma EXCEPT !.ch[c] = ch])
  BY DEF WriteChcr
<1>. HIDE DEF ch
<1>. QED
  BY <1>2, <1>3, ChannelWriteKeeps

LEMMA WriteDpcrKeeps ==
  ASSUME IInv, NEW p \in Priorities, NEW e \in SUBSET Channels, WriteDpcr(p, e)
  PROVE  IInv'
<1>1. dma \in DmaType /\ p \in [Channels -> Nat]
  BY DmaAssumption DEF IInv, TypeOK
<1>. DEFINE d == [dma EXCEPT !.priority = p, !.enabled = e]
<1>2. d \in DmaType /\ d.flags = dma.flags
  BY <1>1 DEF DmaType
<1>3. WriteRegister(d)
  BY DEF WriteDpcr
<1>. HIDE DEF d
<1>. QED
  BY <1>2, <1>3, WriteRegisterKeeps

LEMMA WriteDicrKeeps ==
  ASSUME IInv, NEW acked \in SUBSET Channels, NEW v \in Dicrs, WriteDicr(acked, v)
  PROVE  IInv'
<1>. DEFINE d == DicrWritten(acked, v)
            k == [Machine EXCEPT !.dma = d]
            m == [Machine EXCEPT !.dma = d, !.owed = @ \ acked]
<1>1. /\ dma \in DmaType
      /\ v.enables \in SUBSET Channels /\ v.always \in BOOLEAN
      /\ v.master \in BOOLEAN
  BY DmaAssumption DEF IInv, TypeOK
<1>2. d \in DmaType /\ d.flags = dma.flags \ acked
  BY <1>1 DEF DicrWritten, DmaType
<1>3. Become(RunPendingDma(Requested(m, dma)))
  BY DEF WriteDicr
<1>. HIDE DEF d
<1>4. /\ k \in MachineType
      /\ k.dma = d /\ k.owed = owed /\ k.served = <<>>
      /\ k.istat = istat /\ k.seen = seen
  BY <1>2, MachineIs
<1>5. m = [k EXCEPT !.owed = @ \ acked]
  BY DEF Machine
<1>. HIDE DEF k, m
<1>6. /\ m.dma = d /\ m.owed = owed \ acked /\ m.served = <<>>
      /\ m.istat = istat /\ m.seen = seen
      /\ m \in MachineType
  BY <1>4, <1>5 DEF MachineType
<1>7. owed \ acked \in SUBSET Channels /\ d.flags = owed \ acked
  BY <1>2 DEF IInv, TypeOK, FlagsAreOwed
<1>8. Requested(m, dma) \in GoodMachines
  BY <1>2, <1>6, <1>7, WriteStartsGood
<1>. QED
  BY <1>3, <1>8, BecomeKeeps

LEMMA AckIstatKeeps ==
  ASSUME IInv, AckIstat
  PROVE  IInv'
<1>1. TypeOK'
  BY DEF AckIstat, IInv, TypeOK
<1>2. NothingReady' /\ FlagsAreOwed'
  BY DEF AckIstat, IInv, NothingReady, FlagsAreOwed
<1>3. IrqIsLatched'
  BY DEF AckIstat, IrqIsLatched
<1>4. TableStands'
  BY DEF AckIstat, IInv, TableStands
<1>. QED
  BY <1>1, <1>2, <1>3, <1>4 DEF IInv

LEMMA StoreKeeps ==
  ASSUME IInv, NEW a \in Address, NEW w \in Words, Store(a, w)
  PROVE  IInv'
<1>1. w \in Word
  BY DmaAssumption
<1>2. TypeOK'
  BY <1>1 DEF Store, IInv, TypeOK, Ram
<1>3. NothingReady' /\ FlagsAreOwed'
  BY DEF Store, IInv, NothingReady, FlagsAreOwed
<1>4. IrqIsLatched'
  BY DEF Store, IInv, IrqIsLatched
<1>5. TableStands'
  BY DEF Store, TableStands
<1>. QED
  BY <1>2, <1>3, <1>4, <1>5 DEF IInv

LEMMA InvNext == IInv /\ [Next]_vars => IInv'
<1>. SUFFICES ASSUME IInv, [Next]_vars PROVE IInv'
  OBVIOUS
<1>1. ASSUME NEW c \in Channels, NEW a \in Madrs, WriteMadr(c, a) PROVE IInv'
  BY <1>1, WriteMadrKeeps
<1>2. ASSUME NEW c \in Channels, NEW b \in Bcrs, WriteBcr(c, b) PROVE IInv'
  BY <1>2, WriteBcrKeeps
<1>3. ASSUME NEW c \in Channels, NEW v \in Chcrs, WriteChcr(c, v) PROVE IInv'
  BY <1>3, WriteChcrKeeps
<1>4. ASSUME NEW p \in Priorities, NEW e \in SUBSET Channels, WriteDpcr(p, e)
      PROVE  IInv'
  BY <1>4, WriteDpcrKeeps
<1>5. ASSUME NEW acked \in SUBSET Channels, NEW v \in Dicrs, WriteDicr(acked, v)
      PROVE  IInv'
  BY <1>5, WriteDicrKeeps
<1>6. CASE AckIstat
  BY <1>6, AckIstatKeeps
<1>7. ASSUME NEW a \in Address, NEW w \in Words, Store(a, w) PROVE IInv'
  BY <1>7, StoreKeeps
<1>8. CASE UNCHANGED vars
  BY <1>8 DEF vars, IInv, TypeOK, NothingReady, FlagsAreOwed, IrqIsLatched,
              TableStands
<1>. QED
  BY <1>1, <1>2, <1>3, <1>4, <1>5, <1>6, <1>7, <1>8 DEF Next

\* The registers and RAM keep their types whatever the guest writes.
THEOREM TypeCorrect == Spec => []TypeOK
<1>1. IInv => TypeOK
  BY DEF IInv
<1>. QED
  BY <1>1, InvInit, InvNext, PTL DEF Spec

\* No write leaves a transfer behind that could start: the loop of
\* run_pending_dma has a round for every channel, so its bound never cuts it
\* short, whichever register made the transfers possible.
THEOREM NothingStaysReady == Spec => []NothingReady
<1>1. IInv => NothingReady
  BY DEF IInv
<1>. QED
  BY <1>1, InvInit, InvNext, PTL DEF Spec

\* The flags of DICR are exactly the completions the guest is owed: a write
\* acknowledges what it names and nothing else, in whatever order transfers
\* end and registers are written.
THEOREM FlagsTellWhatIsOwed == Spec => []FlagsAreOwed
<1>1. IInv => FlagsAreOwed
  BY DEF IInv
<1>. QED
  BY <1>1, InvInit, InvNext, PTL DEF Spec

\* The edge detection of the master line misses no completion: while the
\* line is up I_STAT has the bit, or the guest has cleared it since.
THEOREM EveryCompletionIsLatched == Spec => []IrqIsLatched
<1>1. IInv => IrqIsLatched
  BY DEF IInv
<1>. QED
  BY <1>1, InvInit, InvNext, PTL DEF Spec

\* The table that channel 6 builds backwards is what channel 2 walks
\* forwards, whatever the size of RAM, its start in it and its length.
THEOREM TableLeadsToItsEnd == Spec => []TableIsAList
<1>1. IInv => TableIsAList
  <2>. SUFFICES ASSUME IInv, served # <<>>, served[Len(served)] = Otc,
                       NEW ch, ch = dma.ch[Otc],
                       Entries(ch) <= RamWords, Entries(ch) <= NodeGuard
                PROVE  /\ NodesFrom(ram, ch.madr) =
                            [i \in 1..Entries(ch) |-> RamIndex(ch.madr - (i - 1))]
                       /\ ram[RamIndex(ch.madr - (Entries(ch) - 1))].end
    BY DEF TableIsAList, Entries
  <2>1. ram \in Ram /\ Otc \in Channels /\ ch \in ChannelType
    BY DEF IInv, TypeOK, DmaType
  <2>2. IsTable(ram, ch)
    BY DEF IInv, TableStands
  <2>3. NodesFrom(ram, ch.madr) = [i \in 1..Entries(ch) |-> Entry(ch, i - 1)]
    BY <2>1, <2>2, TableIsWalked
  <2>4. ram[Entry(ch, Entries(ch) - 1)].end
    BY <2>2 DEF IsTable, EndWord
  <2>. QED
    BY <2>3, <2>4 DEF Entry
<1>. QED
  BY <1>1, InvInit, InvNext, PTL DEF Spec

-----------------------------------------------------------------------------
(* Timers.                                                                  *)

Counts == 0..(CounterMod - 1)

TimerType ==
  [counter : Counts, mode : ModeType, line : BOOLEAN, hitTarget : BOOLEAN,
   hitMax : BOOLEAN, target : Counts, fired : BOOLEAN, accum : Nat,
   freeRun : BOOLEAN]

\* A timer and the interrupts it has asked for during a run of clocks.
RunType == [timer : TimerType, count : Nat]

AfterClock(i, r) ==
  [timer |-> Clocked(i, r.timer).timer,
   count |-> r.count + (IF Clocked(i, r.timer).request THEN 1 ELSE 0)]

\* The reference of the properties, of any mode, target and number of clocks.
PeriodOf(m, n) == IF m.resetOnTarget /\ n > 0 THEN n ELSE CounterMod
EventOf(m, n, k) ==
  \/ m.irqOnTarget /\ k % PeriodOf(m, n) = (n % PeriodOf(m, n))
  \/ m.irqOnOverflow /\ PeriodOf(m, n) = CounterMod /\ k % CounterMod = 0
EventsIn(m, n, k) == Cardinality({j \in 1..k : EventOf(m, n, j)})
Wanted(m, e) ==
  IF ~m.repeat THEN (IF e > 0 THEN 1 ELSE 0)
  ELSE IF m.toggle THEN (e + 1) \div 2 ELSE e

\* Where k clocks from 0 leave a counter, and the requests they led to.
Stands(t, k, asked) ==
  LET e == EventsIn(t.mode, t.target, k)
  IN  /\ t.counter = k % PeriodOf(t.mode, t.target)
      /\ t.fired <=> e > 0
      /\ e = 0 => t.line
      /\ t.mode.repeat /\ t.mode.toggle => (t.line <=> e % 2 = 0)
      /\ asked = Wanted(t.mode, e)

OneShot(t, asked) ==
  ~t.mode.repeat => asked <= 1 /\ (~t.fired => asked = 0)

LEMMA TimersTypes ==
  /\ CounterMod \in Nat /\ CounterMod > 1
  /\ DotDivisor \in Nat \ {0} /\ SlowDivisor \in Nat \ {0}
  /\ Modes \subseteq ModeType /\ Targets \subseteq Counts
  /\ StepCycles \subseteq Nat /\ MaxCycles \in Nat
  BY TimersAssumption DEF Counts

LEMMA DivisorIsPositive ==
  ASSUME NEW i, NEW m PROVE Divisor(i, m) \in Nat \ {0}
  BY TimersTypes DEF Divisor

LEMMA PeriodIs ==
  ASSUME NEW m \in ModeType, NEW n \in Counts
  PROVE  /\ PeriodOf(m, n) \in Nat \ {0}
         /\ \/ m.resetOnTarget /\ n > 0 /\ PeriodOf(m, n) = n
            \/ ~(m.resetOnTarget /\ n > 0) /\ PeriodOf(m, n) = CounterMod
  BY TimersTypes DEF PeriodOf, Counts

LEMMA EventsAdd ==
  ASSUME NEW m, NEW n, NEW k \in Nat
  PROVE  /\ EventsIn(m, n, k) \in Nat
         /\ EventsIn(m, n, 0) = 0
         /\ EventsIn(m, n, k + 1) =
              EventsIn(m, n, k) + (IF EventOf(m, n, k + 1) THEN 1 ELSE 0)
<1> DEFINE E(l) == {j \in 1..l : EventOf(m, n, j)}
<1>1. IsFiniteSet(1..k) /\ E(k) \subseteq 1..k
  BY FS_Interval
<1>2. IsFiniteSet(E(k))
  BY <1>1, FS_Subset
<1>3. Cardinality(E(k)) \in Nat
  BY <1>2, FS_CardinalityType
<1>4. E(0) = {}
  OBVIOUS
<1>5. Cardinality(E(0)) = 0
  BY <1>4, FS_EmptySet
<1>6. CASE EventOf(m, n, k + 1)
  <2>1. E(k + 1) = E(k) \cup {k + 1} /\ k + 1 \notin E(k)
    BY <1>6
  <2>2. Cardinality(E(k + 1)) = Cardinality(E(k)) + 1
    <3> HIDE DEF E
    <3> QED BY <1>2, <2>1, FS_AddElement
  <2> QED BY <1>3, <1>5, <1>6, <2>2 DEF EventsIn
<1>7. CASE ~EventOf(m, n, k + 1)
  <2>1. E(k + 1) = E(k)
    BY <1>7
  <2> QED BY <1>3, <1>5, <1>7, <2>1 DEF EventsIn
<1> QED BY <1>6, <1>7

LEMMA NextIs ==
  ASSUME NEW c \in Counts
  PROVE  /\ Next16(c) \in Counts
         /\ c = CounterMod - 1 => Next16(c) = 0
         /\ c # CounterMod - 1 => Next16(c) = c + 1
<1>1. CASE c = CounterMod - 1
  <2>1. c + 1 = CounterMod * 1 + 0
    BY <1>1, TimersTypes DEF Counts
  <2>2. (c + 1) % CounterMod = 0
    BY <2>1, TimersTypes, RemainderIs DEF Counts
  <2> QED BY <1>1, <2>2, TimersTypes DEF Next16, Counts
<1>2. CASE c # CounterMod - 1
  <2>1. c + 1 = CounterMod * 0 + (c + 1) /\ c + 1 < CounterMod /\ c + 1 >= 0
    BY <1>2, TimersTypes DEF Counts
  <2>2. (c + 1) % CounterMod = c + 1
    BY <2>1, TimersTypes, RemainderIs DEF Counts
  <2> QED BY <1>2, <2>1, <2>2, TimersTypes DEF Next16, Counts
<1> QED BY <1>1, <1>2

LEMMA ClockedTyped ==
  ASSUME NEW i, NEW t \in TimerType
  PROVE  LET u == Clocked(i, t).timer IN
         /\ u \in TimerType /\ Clocked(i, t).request \in BOOLEAN
         /\ u.mode = t.mode /\ u.target = t.target /\ u.accum = t.accum
         /\ u.freeRun = t.freeRun
<1>1. Next16(t.counter) \in Counts /\ 0 \in Counts
  BY NextIs, TimersTypes DEF TimerType, Counts
<1>2. t.mode \in ModeType
  BY DEF TimerType
<1> QED
  BY <1>1, <1>2 DEF Clocked, FireTimerIrq, TimerType

LEMMA RemainderNext ==
  ASSUME NEW a \in Nat, NEW R \in Nat \ {0}
  PROVE  /\ (a % R) + 1 = R => (a + 1) % R = 0
         /\ (a % R) + 1 # R => (a + 1) % R = (a % R) + 1
         /\ a % R \in Nat /\ a % R < R
<1> DEFINE q == a \div R
           r == a % R
<1>1. q \in Int /\ r \in Int /\ a = R * q + r /\ 0 <= r /\ r < R
  BY DivisionOf
<1> HIDE DEF q, r
<1>2. CASE r + 1 = R
  <2>1. a + 1 = R * (q + 1) + 0 /\ q + 1 \in Int
    <3>1. R * (q + 1) = R * q + R
      BY <1>1
    <3>2. R * q \in Int
      BY <1>1
    <3> QED BY <1>1, <1>2, <3>1, <3>2
  <2>2. (a + 1) % R = 0
    BY <2>1, RemainderIs
  <2> QED BY <1>1, <1>2, <2>2
<1>3. CASE r + 1 # R
  <2>1. a + 1 = R * q + (r + 1) /\ r + 1 \in Int /\ 0 <= r + 1 /\ r + 1 < R
    <3>1. R * q \in Int
      BY <1>1
    <3> QED BY <1>1, <1>3, <3>1
  <2>2. (a + 1) % R = r + 1
    BY <1>1, <2>1, RemainderIs
  <2> QED BY <1>1, <1>3, <2>2
<1> QED BY <1>1, <1>2, <1>3 DEF r

\* The remainders in the events are of numbers below their divisors.
LEMMA EventIs ==
  ASSUME NEW m \in ModeType, NEW n \in Counts, NEW k \in Nat
  PROVE  LET P == PeriodOf(m, n)
             resets == m.resetOnTarget /\ n > 0
         IN EventOf(m, n, k) <=>
              \/ m.irqOnTarget /\ k % P = (IF resets THEN 0 ELSE n)
              \/ m.irqOnOverflow /\ ~resets /\ k % P = 0
<1> DEFINE P == PeriodOf(m, n)
           resets == m.resetOnTarget /\ n > 0
<1>1. P \in Nat \ {0} /\ n \in Nat /\ n < CounterMod /\ CounterMod \in Nat
  BY PeriodIs, TimersTypes DEF Counts
<1>2. resets => P = n /\ P # CounterMod
  BY <1>1, PeriodIs
<1>3. ~resets => P = CounterMod
  BY PeriodIs
<1>4. n % P = (IF resets THEN 0 ELSE n)
  <2>1. CASE resets
    <3>1. n = P * 1 + 0
      BY <1>1, <1>2, <2>1
    <3>2. n % P = 0
      <4> HIDE DEF P, resets
      <4> QED BY <1>1, <3>1, RemainderIs
    <3> QED BY <2>1, <3>2
  <2>2. CASE ~resets
    <3>1. n = P * 0 + n /\ n < P
      BY <1>1, <1>3, <2>2
    <3>2. n % P = n
      <4> HIDE DEF P, resets
      <4> QED BY <1>1, <3>1, RemainderIs
    <3> QED BY <2>2, <3>2
  <2> QED BY <2>1, <2>2
<1>5. EventOf(m, n, k) <=>
        \/ m.irqOnTarget /\ k % P = (n % P)
        \/ m.irqOnOverflow /\ P = CounterMod /\ k % CounterMod = 0
  BY DEF EventOf
<1> HIDE DEF P, resets
<1> QED BY <1>2, <1>3, <1>4, <1>5 DEF P, resets

\* The counter comes to where the reference says, and is on its target or
\* has overflowed exactly when the reference has an event for it.
LEMMA ClockCounts ==
  ASSUME NEW i, NEW t \in TimerType, NEW k \in Nat, CounterEnabled(i, t),
         t.counter = k % PeriodOf(t.mode, t.target)
  PROVE  LET onTarget == Next16(t.counter) = t.target
             overflow == t.counter = CounterMod - 1
         IN  /\ Clocked(i, t).timer.counter =
                  (k + 1) % PeriodOf(t.mode, t.target)
             /\ EventOf(t.mode, t.target, k + 1) <=>
                  \/ t.mode.irqOnTarget /\ onTarget
                  \/ t.mode.irqOnOverflow /\ overflow
<1>1. PICK m \in ModeType, n \in Counts, c \in Counts :
        m = t.mode /\ n = t.target /\ c = t.counter
  BY DEF TimerType
<1>2. PICK P \in Nat \ {0} : P = PeriodOf(m, n)
  BY PeriodIs
<1>3. /\ n \in Nat /\ n < CounterMod /\ c \in Nat /\ c < CounterMod
      /\ CounterMod \in Nat
  BY TimersTypes DEF Counts
<1>4. /\ c + 1 = P => (k + 1) % P = 0
      /\ c + 1 # P => (k + 1) % P = c + 1
      /\ c < P
  BY <1>1, <1>2, RemainderNext
<1>5. /\ c = CounterMod - 1 => Next16(c) = 0
      /\ c # CounterMod - 1 => Next16(c) = c + 1
  BY NextIs
<1>6. \/ m.resetOnTarget /\ n > 0 /\ P = n
      \/ ~(m.resetOnTarget /\ n > 0) /\ P = CounterMod
  BY <1>2, PeriodIs
<1>7. Clocked(i, t).timer.counter =
        IF m.resetOnTarget /\ Next16(c) = n THEN 0 ELSE Next16(c)
  BY <1>1 DEF Clocked, FireTimerIrq, TimerType
<1>8. (IF m.resetOnTarget /\ Next16(c) = n THEN 0 ELSE Next16(c)) = (k + 1) % P
  BY <1>3, <1>4, <1>5, <1>6
<1>9. EventOf(m, n, k + 1) <=>
        \/ m.irqOnTarget
           /\ (k + 1) % P = (IF m.resetOnTarget /\ n > 0 THEN 0 ELSE n)
        \/ m.irqOnOverflow /\ ~(m.resetOnTarget /\ n > 0) /\ (k + 1) % P = 0
  BY <1>2, EventIs
<1>10. EventOf(m, n, k + 1) <=>
         \/ m.irqOnTarget /\ Next16(c) = n
         \/ m.irqOnOverflow /\ c = CounterMod - 1
  BY <1>3, <1>4, <1>5, <1>6, <1>9
<1> QED BY <1>1, <1>2, <1>7, <1>8, <1>10

LEMMA FireIs ==
  ASSUME NEW x \in TimerType
  PROVE  /\ FireTimerIrq(x).timer.fired
         /\ x.mode.toggle => (FireTimerIrq(x).timer.line <=> ~x.line)
         /\ x.mode.toggle => (FireTimerIrq(x).request <=> x.line)
         /\ ~x.mode.toggle => ~FireTimerIrq(x).timer.line
         /\ ~x.mode.toggle => FireTimerIrq(x).request
<1>1. x.line \in BOOLEAN /\ x.mode.toggle \in BOOLEAN
  BY DEF TimerType, ModeType
<1>2. FireTimerIrq(x).timer.fired
  BY <1>1 DEF FireTimerIrq, TimerType
<1>3. ASSUME x.mode.toggle PROVE FireTimerIrq(x).timer.line <=> ~x.line
  BY <1>1, <1>3 DEF FireTimerIrq, TimerType
<1>4. ASSUME x.mode.toggle PROVE FireTimerIrq(x).request <=> x.line
  BY <1>1, <1>4 DEF FireTimerIrq, TimerType
<1>5. ASSUME ~x.mode.toggle PROVE ~FireTimerIrq(x).timer.line
  BY <1>1, <1>5 DEF FireTimerIrq, TimerType
<1>6. ASSUME ~x.mode.toggle PROVE FireTimerIrq(x).request
  BY <1>1, <1>6 DEF FireTimerIrq, TimerType
<1> QED BY <1>2, <1>3, <1>4, <1>5, <1>6

LEMMA ClockStands ==
  ASSUME NEW i, NEW t \in TimerType, NEW k \in Nat, NEW asked \in Nat,
         CounterEnabled(i, t), Stands(t, k, asked)
  PROVE  Stands(Clocked(i, t).timer, k + 1,
                asked + (IF Clocked(i, t).request THEN 1 ELSE 0))
<1>1. PICK m \in ModeType, n \in Counts : m = t.mode /\ n = t.target
  BY DEF TimerType
<1>2. PICK e \in Nat : e = EventsIn(m, n, k)
  BY EventsAdd
<1> DEFINE u == Clocked(i, t).timer
           request == Clocked(i, t).request
           event == \/ m.irqOnTarget /\ Next16(t.counter) = n
                    \/ m.irqOnOverflow /\ t.counter = CounterMod - 1
<1>3. /\ u \in TimerType /\ request \in BOOLEAN /\ u.mode = m /\ u.target = n
      /\ t.fired \in BOOLEAN /\ t.line \in BOOLEAN
  BY <1>1, ClockedTyped DEF TimerType
<1>4. u.counter = (k + 1) % PeriodOf(m, n)
  BY <1>1, ClockCounts DEF Stands
<1>5. EventsIn(m, n, k + 1) = IF event THEN e + 1 ELSE e
  <2>1. EventOf(m, n, k + 1) <=> event
    BY <1>1, ClockCounts DEF Stands
  <2> QED BY <1>2, <2>1, EventsAdd
<1>6. /\ t.fired <=> e > 0
      /\ e = 0 => t.line
      /\ m.repeat /\ m.toggle => (t.line <=> e % 2 = 0)
      /\ asked = Wanted(m, e)
  BY <1>1, <1>2 DEF Stands
<1>7. CASE ~(event /\ (m.repeat \/ ~t.fired))
  <2>1. ~request /\ u.fired = t.fired /\ u.line = t.line
    BY <1>1, <1>7 DEF Clocked, Armed, TimerType
  <2> DEFINE d == IF event THEN e + 1 ELSE e
  <2>2. d \in Nat /\ (d > 0 <=> e > 0) /\ (d = e \/ (~m.repeat /\ e > 0))
    <3>1. CASE event
      <4>1. ~m.repeat /\ t.fired
        BY <1>7, <3>1
      <4>2. e > 0
        BY <1>6, <4>1
      <4>3. d = e + 1
        BY <3>1
      <4> HIDE DEF d, event
      <4>4. d \in Nat /\ d > 0
        BY <1>2, <4>2, <4>3
      <4> QED BY <4>1, <4>2, <4>4
    <3>2. CASE ~event
      BY <1>2, <3>2
    <3> QED BY <3>1, <3>2
  <2>3. Wanted(m, d) = asked /\ asked \in Nat
    BY <1>6, <2>2 DEF Wanted
  <2>4. m.repeat => d = e
    BY <2>2
  <2> HIDE DEF d
  <2>5. /\ u.fired <=> d > 0
        /\ d = 0 => u.line
        /\ m.repeat /\ m.toggle => (u.line <=> d % 2 = 0)
    BY <1>6, <2>1, <2>2, <2>4
  <2>6. d = EventsIn(m, n, k + 1)
    BY <1>5 DEF d
  <2> QED BY <1>3, <1>4, <2>1, <2>3, <2>5, <2>6 DEF Stands
<1>8. CASE event /\ (m.repeat \/ ~t.fired)
  <2>1. /\ u.fired
        /\ m.toggle => (u.line <=> ~t.line) /\ (request <=> t.line)
        /\ ~m.toggle => ~u.line /\ request
    <3>1. PICK x \in TimerType :
            /\ Clocked(i, t) = FireTimerIrq(x)
            /\ x.mode = m /\ x.line = t.line
      <4> DEFINE x == [t EXCEPT
                   !.hitTarget = @ \/ Next16(t.counter) = t.target,
                   !.hitMax = @ \/ t.counter = CounterMod - 1,
                   !.counter = IF m.resetOnTarget /\ Next16(t.counter) = t.target
                               THEN 0 ELSE Next16(@)]
      <4>1. Clocked(i, t) = FireTimerIrq(x)
        BY <1>1, <1>8 DEF Clocked, Armed
      <4>2. Next16(t.counter) \in Counts /\ 0 \in Counts
        BY NextIs, TimersTypes DEF TimerType, Counts
      <4>3. x \in TimerType /\ x.mode = m /\ x.line = t.line
        BY <1>1, <4>2 DEF TimerType
      <4> HIDE DEF x
      <4> QED BY <4>1, <4>3
    <3> QED BY <3>1, FireIs
  <2>2. e + 1 \in Nat /\ e + 1 > 0 /\ (~m.repeat => e = 0)
    BY <1>6, <1>8
  <2>3. e % 2 \in {0, 1} /\ (e + 1) % 2 = 1 - (e % 2)
    OBVIOUS
  <2>4. m.repeat /\ m.toggle => (u.line <=> (e + 1) % 2 = 0)
    <3> SUFFICES ASSUME m.repeat, m.toggle
                 PROVE  u.line <=> (e + 1) % 2 = 0
      OBVIOUS
    <3>1. CASE t.line
      <4>1. ~u.line /\ e % 2 = 0
        BY <1>6, <2>1, <3>1
      <4> QED BY <2>3, <4>1
    <3>2. CASE ~t.line
      <4>1. u.line /\ e % 2 # 0
        BY <1>6, <2>1, <3>2
      <4> QED BY <2>3, <4>1
    <3> QED BY <3>1, <3>2
  <2>5. asked + (IF request THEN 1 ELSE 0) = Wanted(m, e + 1)
    <3>1. (e % 2 = 0 => (e + 2) \div 2 = (e + 1) \div 2 + 1)
          /\ (e % 2 = 1 => (e + 2) \div 2 = (e + 1) \div 2)
      OBVIOUS
    <3>2. CASE ~m.repeat
      BY <1>6, <2>1, <2>2, <3>2 DEF Wanted
    <3>3. CASE m.repeat /\ m.toggle
      BY <1>3, <1>6, <2>1, <2>3, <3>1, <3>3 DEF Wanted
    <3>4. CASE m.repeat /\ ~m.toggle
      BY <1>6, <2>1, <3>4 DEF Wanted
    <3> QED BY <3>2, <3>3, <3>4
  <2>6. e + 1 = EventsIn(m, n, k + 1)
    BY <1>5, <1>8
  <2> QED BY <1>3, <1>4, <2>1, <2>2, <2>4, <2>5, <2>6 DEF Stands
<1> QED BY <1>7, <1>8

LEMMA ClockOneShot ==
  ASSUME NEW i, NEW t \in TimerType, NEW asked \in Nat, OneShot(t, asked)
  PROVE  OneShot(Clocked(i, t).timer,
                 asked + (IF Clocked(i, t).request THEN 1 ELSE 0))
<1>1. t.mode \in ModeType /\ t.fired \in BOOLEAN
  BY DEF TimerType
<1> QED
  BY <1>1 DEF OneShot, Clocked, Armed, FireTimerIrq, TimerType

-----------------------------------------------------------------------------
(* What a run of clocks carries along, when the run may start k clocks      *)
(* after the counter did and asked interrupts were requested before it;     *)
(* free if nothing but the clock has moved the counter.                     *)

Carried(i, t, free, k, asked, r) ==
  /\ r \in RunType
  /\ r.timer.mode = t.mode /\ r.timer.target = t.target
  /\ r.timer.accum = t.accum
  /\ OneShot(r.timer, asked + r.count)
  /\ free => ~t.mode.sync /\ Stands(r.timer, k, asked + r.count)

LEMMA Carries ==
  ASSUME NEW i, NEW t \in TimerType, NEW k \in Nat, NEW asked \in Nat,
         NEW free \in BOOLEAN, NEW r, Carried(i, t, free, k, asked, r)
  PROVE  Carried(i, t, free, k + 1, asked, AfterClock(i, r))
<1>1. PICK v \in TimerType, n \in Nat :
        /\ v = r.timer /\ n = r.count
        /\ v.mode = t.mode /\ v.target = t.target /\ v.accum = t.accum
        /\ OneShot(v, asked + n)
        /\ free => ~t.mode.sync /\ Stands(v, k, asked + n)
  BY DEF Carried, RunType
<1> DEFINE u == Clocked(i, v).timer
           d == IF Clocked(i, v).request THEN 1 ELSE 0
<1>2. d \in Nat /\ asked + n \in Nat /\ (asked + n) + d = asked + (n + d)
  BY <1>1
<1>3. /\ u \in TimerType
      /\ u.mode = t.mode /\ u.target = t.target /\ u.accum = t.accum
  BY <1>1, ClockedTyped
<1>4. OneShot(u, (asked + n) + d)
  BY <1>1, <1>2, ClockOneShot
<1>5. free => ~t.mode.sync /\ Stands(u, k + 1, (asked + n) + d)
  <2>1. free => CounterEnabled(i, v)
    BY <1>1 DEF CounterEnabled
  <2> QED BY <1>1, <1>2, <2>1, ClockStands
<1> DEFINE w == [timer |-> u, count |-> n + d]
<1>6. AfterClock(i, r) = w
  BY <1>1 DEF AfterClock
<1> HIDE DEF u, d
<1>7. w \in RunType /\ w.timer = u /\ w.count = n + d
  BY <1>1, <1>2, <1>3 DEF RunType
<1> HIDE DEF w
<1> QED BY <1>2, <1>3, <1>4, <1>5, <1>6, <1>7 DEF Carried

LEMMA ClocksCarry ==
  ASSUME NEW i, NEW t \in TimerType, NEW n \in Nat, NEW k \in Nat,
         NEW asked \in Nat, NEW free \in BOOLEAN, OneShot(t, asked),
         free => ~t.mode.sync /\ Stands(t, k, asked)
  PROVE  Carried(i, t, free, k + n, asked, Clocks(i, t, n))
<1> DEFINE r0 == [timer |-> t, count |-> 0]
           clock == [j \in Nat |-> [r \in RunType |-> AfterClock(i, r)]]
           after == CHOOSE f : f = [j \in 0..n |->
                      IF j = 0 THEN r0
                      ELSE LET r == Clocked(i, f[j - 1].timer) IN
                           [timer |-> r.timer,
                            count |-> f[j - 1].count
                                        + (IF r.request THEN 1 ELSE 0)]]
<1>1. r0 \in RunType
  BY DEF RunType
<1>2. clock \in [Nat -> [RunType -> RunType]]
  <2> SUFFICES ASSUME NEW r \in RunType PROVE AfterClock(i, r) \in RunType
    OBVIOUS
  <2>1. Clocked(i, r.timer).timer \in TimerType /\ r.count \in Nat
    BY ClockedTyped DEF RunType
  <2> QED BY <2>1 DEF AfterClock, RunType
<1>3. \E f : f = [j \in 0..n |->
                    IF j = 0 THEN r0
                    ELSE LET r == Clocked(i, f[j - 1].timer) IN
                         [timer |-> r.timer,
                          count |-> f[j - 1].count
                                      + (IF r.request THEN 1 ELSE 0)]]
  <2>1. PICK f \in [0..n -> RunType] : Iterates(f, n, r0, clock)
    <3> HIDE DEF clock, r0
    <3> QED BY <1>1, <1>2, IteratesExists
  <2>2. \A j \in 0..n : j # 0 => clock[j][f[j - 1]] = AfterClock(i, f[j - 1])
    <3> SUFFICES ASSUME NEW j \in 0..n, j # 0
                 PROVE  clock[j][f[j - 1]] = AfterClock(i, f[j - 1])
      OBVIOUS
    <3>1. j - 1 \in 0..n
      OBVIOUS
    <3>2. f[j - 1] \in RunType
      BY <3>1
    <3> QED BY <3>2
  <2> HIDE DEF clock
  <2>3. f = [j \in 0..n |-> IF j = 0 THEN r0 ELSE AfterClock(i, f[j - 1])]
    BY <2>1, <2>2 DEF Iterates
  <2> QED BY <2>3 DEF AfterClock
<1>4. after = [j \in 0..n |-> IF j = 0 THEN r0 ELSE AfterClock(i, after[j - 1])]
  BY <1>3 DEF AfterClock
<1>5. Clocks(i, t, n) = after[n]
  BY DEF Clocks
<1> HIDE DEF after, clock
<1> DEFINE T == {j \in Nat : j <= n => Carried(i, t, free, k + j, asked, after[j])}
<1>6. 0 \in T
  <2>1. after[0] = r0
    BY <1>4
  <2>2. r0.timer = t /\ asked + r0.count = asked /\ k + 0 = k
    OBVIOUS
  <2> HIDE DEF r0
  <2>3. Carried(i, t, free, k + 0, asked, r0)
    BY <1>1, <2>2 DEF Carried
  <2> QED BY <2>1, <2>3
<1>7. ASSUME NEW j \in Nat, j \in T PROVE j + 1 \in T
  <2> SUFFICES ASSUME j + 1 <= n
               PROVE  Carried(i, t, free, k + (j + 1), asked, after[j + 1])
    OBVIOUS
  <2>1. j + 1 \in 0..n /\ j + 1 # 0 /\ (j + 1) - 1 = j /\ j <= n
    OBVIOUS
  <2>2. after[j + 1] = AfterClock(i, after[j])
    BY <1>4, <2>1
  <2>3. Carried(i, t, free, k + j, asked, after[j])
    BY <1>7, <2>1
  <2>4. k + j \in Nat /\ (k + j) + 1 = k + (j + 1)
    OBVIOUS
  <2> HIDE DEF T, r0
  <2> QED BY <2>2, <2>3, <2>4, Carries
<1>8. n \in T
  <2> HIDE DEF T
  <2>1. \A j \in Nat : j \in T => j + 1 \in T
    BY <1>7
  <2> QED BY <1>6, <2>1, SetInduction
<1> QED BY <1>5, <1>8

LEMMA DivisionAdds ==
  ASSUME NEW a \in Nat, NEW c \in Nat, NEW R \in Nat \ {0}
  PROVE  /\ a \div R \in Nat /\ ((a % R) + c) \div R \in Nat
         /\ (a + c) \div R = (a \div R) + (((a % R) + c) \div R)
<1> DEFINE x == (a % R) + c
           q == a \div R
           p == x \div R
           s == x % R
           v == a + c
<1>1. q \in Int /\ a % R \in Int /\ a = R * q + (a % R) /\ 0 <= a % R
  BY DivisionOf
<1>2. x \in Nat /\ v = R * q + x
  BY <1>1
<1>3. p \in Int /\ s \in Int /\ x = R * p + s /\ 0 <= s /\ s < R
  BY <1>2, DivisionOf
<1>4. q \in Nat /\ p \in Nat
  BY <1>2
<1> HIDE DEF x, q, p, s
<1>5. v = R * (q + p) + s
  <2>1. R * (q + p) = R * q + R * p
    BY <1>1, <1>3
  <2>2. R * q \in Int /\ R * p \in Int
    BY <1>1, <1>3
  <2> QED BY <1>2, <1>3, <2>1, <2>2
<1>6. v \in Int
  OBVIOUS
<1> HIDE DEF v
<1>7. v \div R = q + p
  <2> DEFINE z == v \div R
             w == v % R
  <2>1. z \in Int /\ w \in Int /\ v = R * z + w /\ 0 <= w /\ w < R
    BY <1>6, DivisionOf
  <2> HIDE DEF z, w
  <2> DEFINE y == z - (q + p)
  <2>2. y \in Int /\ R * y = R * z - R * (q + p)
    BY <1>4, <2>1
  <2>3. R * y = s - w
    <3>1. R * z \in Int /\ R * (q + p) \in Int
      BY <1>4, <2>1
    <3> HIDE DEF y
    <3> QED BY <1>3, <1>5, <2>1, <2>2, <3>1
  <2> HIDE DEF y
  <2>4. y < 1
    <3>1. y >= 1 => R * y >= R
      BY <2>2
    <3> QED BY <1>3, <2>1, <2>2, <2>3, <3>1
  <2>5. y > -1
    <3>1. y <= -1 => R * y <= -R
      BY <2>2
    <3> QED BY <1>3, <2>1, <2>2, <2>3, <3>1
  <2>6. y = 0
    BY <2>2, <2>4, <2>5
  <2>7. z = q + p
    BY <1>4, <2>1, <2>6 DEF y
  <2> QED BY <2>7 DEF z
<1> QED BY <1>4, <1>7 DEF v, x, q, p

-----------------------------------------------------------------------------
(* The invariant: where the cycles since the mode was written put a         *)
(* free-running counter, and at most one request of a one-shot counter.     *)

TimerTypeOK ==
  /\ index \in 0..2 /\ timer \in TimerType
  /\ hblank \in BOOLEAN /\ vblank \in BOOLEAN
  /\ cycles \in Nat /\ requests \in Nat /\ plain \in BOOLEAN

FreeRunning ==
  plain =>
    LET D == Divisor(index, timer.mode)
    IN  /\ ~timer.mode.sync /\ ~OnHblankClock(index, timer.mode)
        /\ timer.accum = cycles % D
        /\ Stands(timer, cycles \div D, requests)

TimerInv == TimerTypeOK /\ OneShot(timer, requests) /\ FreeRunning

\* At 0 clocks any counter with nothing requested stands where it should.
LEMMA StandsAtZero ==
  ASSUME NEW t \in TimerType, t.counter = 0, ~t.fired, t.line
  PROVE  Stands(t, 0, 0)
<1>1. PICK m \in ModeType, n \in Counts : m = t.mode /\ n = t.target
  BY DEF TimerType
<1>2. PeriodOf(m, n) \in Nat \ {0}
  BY PeriodIs
<1>3. 0 % PeriodOf(m, n) = 0
  BY <1>2
<1>4. EventsIn(m, n, 0) = 0
  BY EventsAdd
<1>5. Wanted(m, 0) = 0
  BY DEF Wanted
<1> QED BY <1>1, <1>3, <1>4, <1>5 DEF Stands

LEMMA ZeroDivided ==
  ASSUME NEW D \in Nat \ {0}
  PROVE  0 \div D = 0 /\ 0 % D = 0
  OBVIOUS

LEMMA TimerInvStarts == TimerInit => TimerInv
<1> SUFFICES ASSUME TimerInit PROVE TimerInv
  OBVIOUS
<1>1. NewTimer \in TimerType
  BY TimersTypes DEF NewTimer, NewMode, TimerType, ModeType, Counts
<1>2. TimerTypeOK
  BY <1>1 DEF TimerInit, TimerTypeOK
<1>3. OneShot(timer, requests) /\ FreeRunning
  BY DEF TimerInit, OneShot, FreeRunning
<1> QED BY <1>2, <1>3 DEF TimerInv

\* A tick gives a free-running counter the clocks its cycles make, with what
\* an earlier tick left over.
LEMMA TickKeeps ==
  ASSUME TimerInv, NEW c \in StepCycles, Tick(c)
  PROVE  TimerInv'
<1> DEFINE D == Divisor(index, timer.mode)
           sum == timer.accum + c
           t == [timer EXCEPT !.accum = Remainder(sum, D)]
           k == cycles \div D
           n == sum \div D
           r == Clocks(index, t, n)
<1>1. /\ timer \in TimerType /\ cycles \in Nat /\ requests \in Nat /\ c \in Nat
      /\ D \in Nat \ {0}
  BY TimersTypes, DivisorIsPositive DEF TimerInv, TimerTypeOK
<1>2. /\ index' = index /\ hblank' = hblank /\ vblank' = vblank /\ plain' = plain
      /\ cycles' = cycles + c
      /\ IF OnHblankClock(index, timer.mode)
         THEN UNCHANGED <<timer, requests>>
         ELSE timer' = r.timer /\ requests' = requests + r.count
  BY DEF Tick
<1>3. CASE OnHblankClock(index, timer.mode)
  <2>1. ~plain
    BY <1>3 DEF TimerInv, FreeRunning
  <2> QED
    BY <1>1, <1>2, <1>3, <2>1 DEF TimerInv, TimerTypeOK, FreeRunning
<1>4. CASE ~OnHblankClock(index, timer.mode)
  <2>1. sum \in Nat /\ n \in Nat /\ Remainder(sum, D) \in Nat /\ k \in Nat
    <3>1. sum \in Nat
      BY <1>1 DEF TimerType
    <3> HIDE DEF sum, D
    <3> QED BY <1>1, <3>1, DivisionOf DEF Remainder
  <2>2. t \in TimerType /\ t.mode = timer.mode /\ t.target = timer.target
        /\ t.accum = Remainder(sum, D)
    BY <1>1, <2>1 DEF TimerType
  <2>3. OneShot(t, requests)
    BY <1>1 DEF TimerInv, OneShot, TimerType
  <2>4. CASE plain
    <3>1. /\ ~timer.mode.sync
          /\ timer.accum = cycles % D /\ Stands(timer, k, requests)
      BY <2>4 DEF TimerInv, FreeRunning
    <3>2. Stands(t, k, requests)
      BY <1>1, <3>1 DEF Stands, TimerType
    <3>3. Carried(index, t, TRUE, k + n, requests, r)
      <4> HIDE DEF t, k, n
      <4> QED BY <1>1, <2>1, <2>2, <2>3, <3>1, <3>2, ClocksCarry
    <3>4. (cycles + c) \div D = k + n
      <4>1. sum = (cycles % D) + c
        BY <3>1
      <4> HIDE DEF D, sum
      <4>2. (cycles + c) \div D = (cycles \div D) + (((cycles % D) + c) \div D)
        BY <1>1, DivisionAdds
      <4> QED BY <4>1, <4>2
    <3>5. (cycles + c) % D = Remainder(sum, D)
      <4>1. sum = (cycles % D) + c
        BY <3>1
      <4> HIDE DEF D, sum
      <4>2. ((cycles % D) + c) % D = (cycles + c) % D
        <5>1. cycles \in Int /\ c \in Int /\ D \in Nat \ {0}
          BY <1>1
        <5> QED BY <5>1, RemainderAdds, Zenon
      <4> QED BY <4>1, <4>2 DEF Remainder
    <3> HIDE DEF r, t, sum, n, k
    <3>6. /\ timer' \in TimerType /\ timer'.mode = timer.mode
          /\ requests' \in Nat
          /\ timer'.accum = (cycles + c) % D
          /\ OneShot(timer', requests')
          /\ Stands(timer', k + n, requests')
      BY <1>1, <1>2, <1>4, <2>2, <3>1, <3>3, <3>5 DEF Carried, RunType
    <3>7. D' = D
      BY <1>2, <3>6
    <3> HIDE DEF D
    <3>8. TimerTypeOK'
      BY <1>1, <1>2, <3>6 DEF TimerInv, TimerTypeOK
    <3>9. OneShot(timer, requests)'
      BY <3>6 DEF OneShot
    <3>10. FreeRunning'
      <4>1. ~timer'.mode.sync /\ ~OnHblankClock(index', timer'.mode)
        BY <1>2, <1>4, <3>1, <3>6
      <4>2. timer'.accum = cycles' % D' /\ Stands(timer', cycles' \div D', requests')
        BY <1>2, <3>4, <3>6, <3>7
      <4> QED BY <4>1, <4>2 DEF FreeRunning, D, Stands
    <3> QED BY <3>8, <3>9, <3>10 DEF TimerInv
  <2>5. CASE ~plain
    <3>1. Carried(index, t, FALSE, k + n, requests, r)
      <4> HIDE DEF t, k, n
      <4> QED BY <1>1, <2>1, <2>2, <2>3, ClocksCarry
    <3> HIDE DEF r, t, sum, n, k, D
    <3>2. /\ timer' \in TimerType /\ requests' \in Nat
          /\ OneShot(timer', requests')
      BY <1>1, <1>2, <1>4, <3>1 DEF Carried, RunType
    <3>3. TimerTypeOK'
      BY <1>1, <1>2, <3>2 DEF TimerInv, TimerTypeOK
    <3>4. OneShot(timer, requests)'
      BY <3>2 DEF OneShot
    <3> QED BY <1>2, <2>5, <3>3, <3>4 DEF TimerInv, FreeRunning
  <2> QED BY <2>4, <2>5
<1> QED BY <1>3, <1>4

LEMMA SyncEdgeKeeps ==
  ASSUME NEW t \in TimerType
  PROVE  LET u == SyncEdge(t) IN
         /\ u \in TimerType /\ u.mode = t.mode /\ u.fired = t.fired
         /\ ~t.mode.sync => u = t
<1>1. CASE ~t.mode.sync
  BY <1>1 DEF SyncEdge
<1>2. CASE t.mode.sync
  <2>1. \/ SyncEdge(t) = t \/ SyncEdge(t) = [t EXCEPT !.counter = 0]
        \/ SyncEdge(t) = [t EXCEPT !.freeRun = TRUE]
    BY <1>2 DEF SyncEdge
  <2>2. 0 \in Counts
    BY TimersTypes DEF Counts
  <2> QED BY <1>2, <2>1, <2>2 DEF TimerType
<1> QED BY <1>1, <1>2

\* A blanking signal moves only counters that are not free-running.
LEMMA BlankingKeeps ==
  ASSUME TimerInv, NEW b \in BOOLEAN, SetHblank(b) \/ SetVblank(b)
  PROVE  TimerInv'
<1>1. timer \in TimerType /\ requests \in Nat
  BY DEF TimerInv, TimerTypeOK
<1>2. CASE SetVblank(b)
  <2>1. /\ vblank' = b /\ UNCHANGED <<index, hblank, cycles, requests, plain>>
        /\ timer' = timer \/ timer' = SyncEdge(timer)
    BY <1>2 DEF SetVblank
  <2>2. /\ timer' \in TimerType /\ timer'.mode = timer.mode
        /\ timer'.fired = timer.fired
        /\ ~timer.mode.sync => timer' = timer
    BY <1>1, <2>1, SyncEdgeKeeps
  <2>3. TimerTypeOK'
    BY <2>1, <2>2 DEF TimerInv, TimerTypeOK
  <2>4. OneShot(timer, requests)'
    BY <2>1, <2>2 DEF TimerInv, OneShot
  <2>5. FreeRunning'
    <3> SUFFICES ASSUME plain PROVE FreeRunning'
      BY <2>1 DEF FreeRunning
    <3>1. timer' = timer
      BY <2>2 DEF TimerInv, FreeRunning
    <3> QED BY <2>1, <3>1 DEF TimerInv, FreeRunning, Stands
  <2> QED BY <2>3, <2>4, <2>5 DEF TimerInv
<1>3. CASE SetHblank(b)
  <2> DEFINE t == IF ~hblank /\ b /\ index = 0 THEN SyncEdge(timer) ELSE timer
             r == Clocked(index, t)
             clocked == ~hblank /\ b /\ OnHblankClock(index, timer.mode)
             d == IF r.request THEN 1 ELSE 0
  <2>1. /\ hblank' = b /\ UNCHANGED <<index, vblank, plain>>
        /\ clocked => /\ timer' = r.timer /\ requests' = requests + d
                      /\ cycles' = cycles + 1
        /\ ~clocked => timer' = t /\ UNCHANGED <<requests, cycles>>
    BY <1>3 DEF SetHblank
  <2>2. /\ t \in TimerType /\ t.mode = timer.mode
        /\ t.fired = timer.fired
        /\ ~timer.mode.sync => t = timer
    BY <1>1, SyncEdgeKeeps
  <2>3. OneShot(t, requests)
    BY <2>2 DEF TimerInv, OneShot
  <2>4. CASE clocked
    <3>1. ~plain
      BY <2>4 DEF TimerInv, FreeRunning
    <3>2. r.timer \in TimerType /\ d \in Nat
      BY <2>2, ClockedTyped
    <3>3. OneShot(r.timer, requests + d)
      BY <1>1, <2>2, <2>3, ClockOneShot
    <3> HIDE DEF t, r, d
    <3>4. TimerTypeOK'
      BY <2>1, <2>4, <3>2 DEF TimerInv, TimerTypeOK
    <3>5. OneShot(timer, requests)'
      BY <2>1, <2>4, <3>3 DEF OneShot
    <3> QED BY <2>1, <3>1, <3>4, <3>5 DEF TimerInv, FreeRunning
  <2>5. CASE ~clocked
    <3> HIDE DEF t, r, d
    <3>1. TimerTypeOK'
      BY <2>1, <2>2, <2>5 DEF TimerInv, TimerTypeOK
    <3>2. OneShot(timer, requests)'
      BY <2>1, <2>3, <2>5 DEF OneShot
    <3>3. FreeRunning'
      <4> SUFFICES ASSUME plain PROVE FreeRunning'
        BY <2>1 DEF FreeRunning
      <4>1. timer' = timer
        BY <2>1, <2>2, <2>5 DEF TimerInv, FreeRunning
      <4> QED BY <2>1, <2>5, <4>1 DEF TimerInv, FreeRunning, Stands
    <3> QED BY <3>1, <3>2, <3>3 DEF TimerInv
  <2> QED BY <2>4, <2>5
<1> QED BY <1>2, <1>3

LEMMA WriteModeKeeps ==
  ASSUME TimerInv, NEW m \in Modes, WriteMode(m)
  PROVE  TimerInv'
<1>1. m \in ModeType /\ timer \in TimerType
  BY TimersTypes DEF TimerInv, TimerTypeOK
<1> DEFINE t == SetMode(timer, m)
<1>2. /\ t \in TimerType /\ t.counter = 0 /\ ~t.fired /\ t.line /\ t.accum = 0
      /\ t.mode = m
  <2>1. 0 \in Counts
    BY TimersTypes DEF Counts
  <2>2. t \in TimerType
    BY <1>1, <2>1 DEF SetMode, TimerType
  <2>3. t.counter = 0 /\ t.accum = 0 /\ t.mode = m
    BY <1>1 DEF SetMode, TimerType
  <2>4. t.fired = FALSE
    BY <1>1 DEF SetMode, TimerType
  <2>5. t.line = TRUE
    BY <1>1 DEF SetMode, TimerType
  <2> QED BY <2>2, <2>3, <2>4, <2>5
<1>3. Stands(t, 0, 0)
  BY <1>2, StandsAtZero
<1>4. /\ timer' = t /\ cycles' = 0 /\ requests' = 0
      /\ plain' = (~m.sync /\ ~OnHblankClock(index, m))
      /\ UNCHANGED <<index, hblank, vblank>>
  BY DEF WriteMode
<1> HIDE DEF t
<1>5. TimerTypeOK'
  BY <1>2, <1>4 DEF TimerInv, TimerTypeOK
<1>6. OneShot(timer, requests)'
  BY <1>4 DEF OneShot
<1>7. FreeRunning'
  <2>1. Divisor(index, m) \in Nat \ {0}
    BY DivisorIsPositive
  <2>2. 0 \div Divisor(index, m) = 0 /\ 0 % Divisor(index, m) = 0
    BY <2>1, ZeroDivided
  <2>3. index' = index /\ timer'.mode = m
    BY <1>2, <1>4
  <2>4. plain' => ~m.sync /\ ~OnHblankClock(index, m)
    BY <1>4
  <2>5. timer'.accum = cycles' % Divisor(index', timer'.mode)
    BY <1>2, <1>4, <2>2, <2>3
  <2>6. Stands(timer', cycles' \div Divisor(index', timer'.mode), requests')
    BY <1>3, <1>4, <2>2, <2>3
  <2> QED BY <2>3, <2>4, <2>5, <2>6 DEF FreeRunning, Stands
<1> QED BY <1>5, <1>6, <1>7 DEF TimerInv

LEMMA WriteTargetKeeps ==
  ASSUME TimerInv, NEW n \in Targets, WriteTarget(n)
  PROVE  TimerInv'
<1>1. n \in Counts /\ timer \in TimerType
  BY TimersTypes DEF TimerInv, TimerTypeOK
<1> DEFINE t == [timer EXCEPT !.target = n]
<1>2. /\ t \in TimerType /\ t.counter = timer.counter /\ t.fired = timer.fired
      /\ t.line = timer.line /\ t.accum = timer.accum /\ t.mode = timer.mode
  BY <1>1 DEF TimerType
<1>3. /\ timer' = t /\ plain' = (plain /\ cycles = 0)
      /\ UNCHANGED <<index, hblank, vblank, cycles, requests>>
  BY DEF WriteTarget
<1> HIDE DEF t
<1>4. TimerTypeOK'
  BY <1>2, <1>3 DEF TimerInv, TimerTypeOK
<1>5. OneShot(timer, requests)'
  BY <1>2, <1>3 DEF TimerInv, OneShot
<1>6. ASSUME plain, cycles = 0 PROVE FreeRunning'
  <2> DEFINE D == Divisor(index, timer.mode)
  <2>1. D \in Nat \ {0}
    BY DivisorIsPositive
  <2>2. 0 \div D = 0 /\ 0 % D = 0
    <3> HIDE DEF D
    <3> QED BY <2>1, ZeroDivided
  <2>3. /\ ~timer.mode.sync /\ ~OnHblankClock(index, timer.mode)
        /\ timer.accum = 0 /\ Stands(timer, 0, requests)
    BY <1>6, <2>2 DEF TimerInv, FreeRunning
  <2>4. timer.mode \in ModeType /\ timer.target \in Counts
    BY <1>1 DEF TimerType
  <2>5. EventsIn(timer.mode, timer.target, 0) = 0
    BY EventsAdd
  <2>6. PeriodOf(timer.mode, timer.target) \in Nat \ {0}
    BY <2>4, PeriodIs
  <2>7. 0 % PeriodOf(timer.mode, timer.target) = 0
    BY <2>6, ZeroDivided
  <2>8. Wanted(timer.mode, 0) = 0
    BY DEF Wanted
  <2>9. timer.counter = 0 /\ ~timer.fired /\ timer.line /\ requests = 0
    BY <2>3, <2>5, <2>7, <2>8 DEF Stands
  <2>10. Stands(t, 0, 0)
    BY <1>2, <2>9, StandsAtZero
  <2>11. index' = index /\ timer'.mode = timer.mode /\ cycles' = 0
         /\ requests' = 0 /\ timer'.accum = 0
    BY <1>2, <1>3, <1>6, <2>3, <2>9
  <2>12. timer'.accum = cycles' % Divisor(index', timer'.mode)
    BY <2>2, <2>11
  <2>13. Stands(timer', cycles' \div Divisor(index', timer'.mode), requests')
    BY <1>3, <2>2, <2>10, <2>11
  <2> QED BY <2>3, <2>11, <2>12, <2>13 DEF FreeRunning, Stands
<1>7. ~(plain /\ cycles = 0) => FreeRunning'
  BY <1>3 DEF FreeRunning
<1> QED BY <1>4, <1>5, <1>6, <1>7 DEF TimerInv

LEMMA OtherAccessesKeep ==
  ASSUME TimerInv, ReadMode \/ \E n \in Targets : WriteCounter(n)
  PROVE  TimerInv'
<1>1. timer \in TimerType
  BY DEF TimerInv, TimerTypeOK
<1>2. CASE ReadMode
  <2>1. /\ timer' \in TimerType /\ timer'.mode = timer.mode
        /\ timer'.target = timer.target /\ timer'.counter = timer.counter
        /\ timer'.fired = timer.fired /\ timer'.line = timer.line
        /\ timer'.accum = timer.accum
        /\ UNCHANGED <<index, hblank, vblank, cycles, requests, plain>>
    BY <1>1, <1>2 DEF ReadMode, TimerType
  <2>2. TimerTypeOK'
    BY <2>1 DEF TimerInv, TimerTypeOK
  <2>3. OneShot(timer, requests)'
    BY <2>1 DEF TimerInv, OneShot
  <2>4. FreeRunning'
    BY <2>1 DEF TimerInv, FreeRunning, Stands
  <2> QED BY <2>2, <2>3, <2>4 DEF TimerInv
<1>3. ASSUME NEW n \in Targets, WriteCounter(n) PROVE TimerInv'
  <2>1. /\ timer' \in TimerType /\ timer'.mode = timer.mode
        /\ timer'.fired = timer.fired /\ ~plain'
        /\ UNCHANGED <<index, hblank, vblank, cycles, requests>>
    BY <1>1, <1>3, TimersTypes DEF WriteCounter, TimerType
  <2>2. TimerTypeOK'
    BY <1>3, <2>1 DEF TimerInv, TimerTypeOK, WriteCounter
  <2>3. OneShot(timer, requests)'
    BY <2>1 DEF TimerInv, OneShot
  <2> QED BY <2>1, <2>2, <2>3 DEF TimerInv, FreeRunning
<1> QED BY <1>2, <1>3

\* Where the cycles have put a free-running counter, what it has requested,
\* and that a one-shot counter asks once, hold together in every state.
THEOREM TimerInvHolds == TimerSpec => []TimerInv
<1>1. TimerInit => TimerInv
  BY TimerInvStarts
<1>2. TimerInv /\ [TimerNext]_timerVars => TimerInv'
  <2> SUFFICES ASSUME TimerInv, [TimerNext]_timerVars PROVE TimerInv'
    OBVIOUS
  <2>1. ASSUME NEW c \in StepCycles, Tick(c) PROVE TimerInv'
    BY <2>1, TickKeeps
  <2>2. ASSUME NEW b \in BOOLEAN, SetHblank(b) \/ SetVblank(b) PROVE TimerInv'
    BY <2>2, BlankingKeeps
  <2>3. ASSUME NEW m \in Modes, WriteMode(m) PROVE TimerInv'
    BY <2>3, WriteModeKeeps
  <2>4. ASSUME NEW n \in Targets, WriteCounter(n) PROVE TimerInv'
    BY <2>4, OtherAccessesKeep
  <2>5. ASSUME NEW n \in Targets, WriteTarget(n) PROVE TimerInv'
    BY <2>5, WriteTargetKeeps
  <2>6. CASE ReadMode
    BY <2>6, OtherAccessesKeep
  <2>7. CASE UNCHANGED timerVars
    BY <2>7 DEF timerVars, TimerInv, TimerTypeOK, OneShot, FreeRunning, Stands
  <2> QED BY <2>1, <2>2, <2>3, <2>4, <2>5, <2>6, <2>7 DEF TimerNext
<1> QED BY <1>1, <1>2, PTL DEF TimerSpec

LEMMA ReferenceIs ==
  /\ Period = PeriodOf(timer.mode, timer.target)
  /\ Events = EventsIn(timer.mode, timer.target,
                       cycles \div Divisor(index, timer.mode))
  BY DEF Period, PeriodOf, Events, EventsIn, Event, EventOf, Clocked0

\* However the steps of the CPU cut the cycles up, a free-running counter is
\* where all of them since its mode was written put it (Timers::tick).
THEOREM CyclesAreCounted == TimerSpec => []CountsExactly
<1>1. TimerInv => CountsExactly
  BY ReferenceIs DEF TimerInv, FreeRunning, Stands, CountsExactly, Clocked0
<1> QED BY <1>1, TimerInvHolds, PTL

\* A counter asks for the interrupts its mode promises and no others, and a
\* one-shot counter for one at most whatever happens (fire_timer_irq).
THEOREM EventsAreRequested == TimerSpec => []RequestsFit
<1>1. TimerInv => RequestsFit
  BY ReferenceIs
     DEF TimerInv, FreeRunning, Stands, RequestsFit, OneShot, Wanted
<1> QED BY <1>1, TimerInvHolds, PTL

-----------------------------------------------------------------------------
(* The memory card.                                                         *)

Data == [1..SectorBytes -> Bytes]
Images == [Sector -> Data]

CardType ==
  [data : Images, fresh : BOOLEAN, dirty : BOOLEAN, command : Bytes,
   step : Nat, previous : Bytes, address : Nat, buffer : Seq(Bytes),
   result : Bytes]

\* What a card and its transaction have come to: s the bytes sent, g the
\* answers, b the image the transaction began with.
InStep(c, s, g) ==
  /\ Len(g) = Len(s)
  /\ c.command = 0 =>
       /\ c.step = 0 /\ Len(c.buffer) = 0
       /\ Len(s) <= 1 /\ (Len(s) = 1 => s[1] = 0)
  /\ c.command # 0 => Len(s) = c.step + 1 /\ s[1] = c.command

Addressed(c, s) ==
  c.command \in {CmdRead, CmdWrite} =>
    /\ c.step = 3 => c.address = s[4] * ByteMod
    /\ c.step >= 4 => c.address = s[4] * ByteMod + s[5]

Buffered(c, s) ==
  c.command = CmdWrite =>
    /\ c.step < 4 => Len(c.buffer) = 0
    /\ c.step \in 4..(4 + SectorBytes) => Len(c.buffer) = c.step - 4
    /\ c.step > 4 + SectorBytes => Len(c.buffer) = SectorBytes
    /\ \A i \in 1..Len(c.buffer) : c.buffer[i] = s[i + 5]

Decided(c) == c.command = CmdWrite /\ c.step > 4 + SectorBytes
Proper(c, s) ==
  c.address < Sectors /\ s[6 + SectorBytes] = ChecksumOf(c, c.buffer)
Outcome(c, s) ==
  IF Proper(c, s) THEN Good
  ELSE IF c.address < Sectors THEN BadSum ELSE BadSector

Stored(c, s, b) ==
  /\ ~Decided(c) => c.data = b
  /\ Decided(c) =>
       /\ c.data = IF Proper(c, s) THEN [b EXCEPT ![c.address] = c.buffer]
                   ELSE b
       /\ c.result = Outcome(c, s)

Answered(c, g) ==
  /\ c.command = CmdWrite /\ Len(g) >= 9 + SectorBytes =>
       g[9 + SectorBytes] = Final(c.result)
  /\ c.command = CmdRead =>
       /\ \A i \in 1..SectorBytes : Len(g) >= 9 + i =>
            g[9 + i].value = c.data[c.address][i]
       /\ Len(g) >= 10 + SectorBytes =>
            g[10 + SectorBytes].value = ChecksumOf(c, c.data[c.address])

\* A read has come past its address only to a sector of the image.
Found(c) == c.command = CmdRead /\ c.step >= 9 => ValidAddress(c)

Progress(c, s, g, b) ==
  /\ c \in CardType /\ s \in Seq(Bytes) /\ b \in Images
  /\ \E S : g \in Seq(S)
  /\ InStep(c, s, g) /\ Addressed(c, s) /\ Buffered(c, s)
  /\ Found(c) /\ Stored(c, s, b) /\ Answered(c, g)

LEMMA CardConstants ==
  /\ ByteMod \in Nat /\ ByteMod > 0
  /\ SectorBytes \in Nat /\ SectorBytes > 0
  /\ Sectors \in Nat /\ Sectors > 0
  /\ CmdRead \in Bytes /\ CmdRead # 0 /\ CmdGetId \in Bytes /\ CmdGetId # 0
  /\ CmdWrite \in Bytes /\ CmdWrite # 0
  /\ CmdRead # CmdGetId /\ CmdRead # CmdWrite /\ CmdGetId # CmdWrite
  /\ Good \in Bytes /\ BadSum \in Bytes /\ BadSector \in Bytes
  /\ Image \in Images /\ 0 \in Bytes /\ InBytes \subseteq Bytes
<1>1. /\ ByteMod \in Nat /\ ByteMod > 0
      /\ SectorBytes \in Nat /\ SectorBytes > 0
      /\ Sectors \in Nat /\ Sectors > 0
  BY CardAssumption
<1>2. /\ CmdRead \in Bytes /\ CmdRead # 0 /\ CmdGetId \in Bytes /\ CmdGetId # 0
      /\ CmdWrite \in Bytes /\ CmdWrite # 0
  BY CardAssumption
<1>3. CmdRead # CmdGetId /\ CmdRead # CmdWrite /\ CmdGetId # CmdWrite
  BY CardAssumption
<1>4. /\ Good \in Bytes /\ BadSum \in Bytes /\ BadSector \in Bytes
      /\ InBytes \subseteq Bytes
  BY CardAssumption
<1>5. Image \in Images
  BY CardAssumption DEF Images, Data
<1>6. 0 \in Bytes
  BY <1>1 DEF Bytes
<1> QED BY <1>1, <1>2, <1>3, <1>4, <1>5, <1>6

LEMMA AppendIs ==
  ASSUME NEW S, NEW s \in Seq(S), NEW e \in S
  PROVE  /\ Append(s, e) \in Seq(S)
         /\ Len(Append(s, e)) = Len(s) + 1
         /\ \A i \in 1..Len(s) : Append(s, e)[i] = s[i]
         /\ Append(s, e)[Len(s) + 1] = e
  OBVIOUS

LEMMA AppendAny ==
  ASSUME NEW S, NEW s \in Seq(S), NEW e
  PROVE  /\ \E T : Append(s, e) \in Seq(T)
         /\ Len(Append(s, e)) = Len(s) + 1
         /\ \A i \in 1..Len(s) : Append(s, e)[i] = s[i]
         /\ Append(s, e)[Len(s) + 1] = e
<1> DEFINE T == S \cup {e}
<1>1. s \in Seq(T) /\ e \in T
  OBVIOUS
<1> HIDE DEF T
<1> QED BY <1>1, AppendIs

\* Bytes that were sent stay as they are, and so do answers.
LEMMA Kept ==
  ASSUME NEW S, NEW s \in Seq(S), NEW t, NEW e,
         Len(t) = Len(s) + 1, \A i \in 1..Len(s) : t[i] = s[i],
         NEW i \in Nat, 0 < i, i <= Len(s)
  PROVE  t[i] = s[i]
  OBVIOUS

\* The step of CardExchange that counts the byte.
Counted(c, v) == [c EXCEPT !.previous = v, !.step = @ + 1]

LEMMA CountedIs ==
  ASSUME NEW c \in CardType, NEW v \in Bytes
  PROVE  LET d == Counted(c, v) IN
         /\ d \in CardType /\ d.step = c.step + 1 /\ d.data = c.data
         /\ d.command = c.command /\ d.address = c.address
         /\ d.buffer = c.buffer /\ d.result = c.result
         /\ d.fresh = c.fresh /\ d.dirty = c.dirty
<1>1. c.step + 1 \in Nat
  BY DEF CardType
<1>2. Counted(c, v) \in CardType
  BY <1>1 DEF Counted, CardType
<1>3. Counted(c, v).step = c.step + 1
  BY DEF Counted, CardType
<1> QED BY <1>2, <1>3 DEF Counted, CardType

\* A card in a dialogue answers as its command says.
Dialogue(c, v) ==
  CASE c.command = CmdRead  -> ExchangeRead(c, v)
    [] c.command = CmdGetId -> ExchangeId(c)
    [] c.command = CmdWrite -> ExchangeWrite(c, v)
    [] OTHER -> Reply(c, Final(BadSector))

LEMMA ReplyIs ==
  ASSUME NEW c, NEW a
  PROVE  Reply(c, a).card = c /\ Reply(c, a).answer = a
  BY DEF Reply

LEMMA ExchangeIs ==
  ASSUME NEW c \in CardType, NEW v \in Bytes, c.command # 0,
         NEW d \in CardType, NEW a, Dialogue(c, v) = Reply(d, a)
  PROVE  /\ CardExchange(c, v).card = Counted(d, v)
         /\ CardExchange(c, v).answer = a
<1>1. CardExchange(c, v) =
        [Dialogue(c, v) EXCEPT !.card.previous = v, !.card.step = @ + 1]
  BY DEF CardExchange, Dialogue
<1>2. [Reply(d, a) EXCEPT !.card.previous = v, !.card.step = @ + 1].card
        = Counted(d, v)
  BY DEF Reply, Counted, CardType
<1>3. [Reply(d, a) EXCEPT !.card.previous = v, !.card.step = @ + 1].answer = a
  BY DEF Reply
<1> QED BY <1>1, <1>2, <1>3

-----------------------------------------------------------------------------
(* The two dialogues, step by step.                                         *)

LEMMA AddressedIs ==
  ASSUME NEW c \in CardType, NEW n \in Nat
  PROVE  LET d == [c EXCEPT !.address = n] IN
         /\ d \in CardType /\ d.address = n
         /\ d.data = c.data /\ d.fresh = c.fresh /\ d.dirty = c.dirty
         /\ d.command = c.command /\ d.step = c.step
         /\ d.buffer = c.buffer /\ d.result = c.result
  BY DEF CardType

LEMMA TakesAddress ==
  ASSUME NEW c \in CardType, NEW v \in Bytes
  PROVE  /\ TakeHigh(c, v) \in CardType /\ TakeHigh(c, v).address = v * ByteMod
         /\ TakeLow(c, v) \in CardType /\ TakeLow(c, v).address = c.address + v
         /\ \A d \in {TakeHigh(c, v), TakeLow(c, v)} :
              /\ d.data = c.data /\ d.fresh = c.fresh /\ d.dirty = c.dirty
              /\ d.command = c.command /\ d.step = c.step
              /\ d.buffer = c.buffer /\ d.result = c.result
<1>1. v \in Nat
  BY CardConstants DEF Bytes
<1>2. v * ByteMod \in Nat /\ c.address + v \in Nat
  BY <1>1, CardConstants DEF CardType
<1>3. TakeHigh(c, v) = [c EXCEPT !.address = v * ByteMod]
  BY DEF TakeHigh
<1>4. TakeLow(c, v) = [c EXCEPT !.address = c.address + v]
  BY DEF TakeLow
<1>5. ASSUME NEW n \in Nat, NEW d, d = [c EXCEPT !.address = n]
      PROVE  /\ d \in CardType /\ d.address = n
             /\ d.data = c.data /\ d.fresh = c.fresh /\ d.dirty = c.dirty
             /\ d.command = c.command /\ d.step = c.step
             /\ d.buffer = c.buffer /\ d.result = c.result
  BY <1>5, AddressedIs
<1> QED BY <1>2, <1>3, <1>4, <1>5

LEMMA ReadIs ==
  ASSUME NEW c \in CardType, NEW v \in Bytes
  PROVE  /\ c.step = 2 => ExchangeRead(c, v) = Reply(TakeHigh(c, v), More(Filler))
         /\ c.step = 3 => ExchangeRead(c, v) = Reply(TakeLow(c, v), More(c.previous))
         /\ c.step \in 8..(7 + SectorBytes) =>
              ExchangeRead(c, v) = Reply(c, More(c.data[c.address][c.step - 7]))
         /\ c.step = 8 + SectorBytes =>
              ExchangeRead(c, v) = Reply(c, More(ChecksumOf(c, c.data[c.address])))
         /\ c.step \notin {2, 3} => \E a : ExchangeRead(c, v) = Reply(c, a)
<1>1. c.step \in Nat
  BY DEF CardType
<1>2. ASSUME c.step = 2
      PROVE  ExchangeRead(c, v) = Reply(TakeHigh(c, v), More(Filler))
  BY <1>2, CardConstants DEF ExchangeRead
<1>3. ASSUME c.step = 3
      PROVE  ExchangeRead(c, v) = Reply(TakeLow(c, v), More(c.previous))
  BY <1>3, CardConstants DEF ExchangeRead
<1>4. ASSUME c.step \in 8..(7 + SectorBytes)
      PROVE  ExchangeRead(c, v) = Reply(c, More(c.data[c.address][c.step - 7]))
  BY <1>1, <1>4, CardConstants DEF ExchangeRead
<1>5. ASSUME c.step = 8 + SectorBytes
      PROVE  ExchangeRead(c, v) = Reply(c, More(ChecksumOf(c, c.data[c.address])))
  BY <1>1, <1>5, CardConstants DEF ExchangeRead
<1>6. ASSUME c.step \notin {2, 3} PROVE \E a : ExchangeRead(c, v) = Reply(c, a)
  <2>1. CASE c.step \in 8..(7 + SectorBytes)
    BY <2>1, <1>4
  <2>2. CASE c.step = 8 + SectorBytes
    BY <2>2, <1>5
  <2>3. CASE c.step > 8 + SectorBytes
    <3>1. c.step = 9 + SectorBytes \/ c.step > 9 + SectorBytes
      BY <1>1, <2>3, CardConstants
    <3>2. ASSUME c.step = 9 + SectorBytes
          PROVE  ExchangeRead(c, v) = Reply(c, Final(Good))
      BY <1>1, <3>2, CardConstants DEF ExchangeRead
    <3>3. ASSUME c.step > 9 + SectorBytes
          PROVE  ExchangeRead(c, v) = Reply(c, Final(BadSector))
      BY <1>1, <3>3, CardConstants DEF ExchangeRead
    <3> QED BY <3>1, <3>2, <3>3
  <2>4. CASE c.step < 8
    <3>1. c.step \in {0, 1, 4, 5, 6, 7}
      BY <1>1, <1>6, <2>4
    <3>2. CASE c.step \in {0, 1, 5}
      <4>1. ExchangeRead(c, v) = Reply(c, More(Filler))
        BY <3>2, CardConstants DEF ExchangeRead
      <4> QED BY <4>1
    <3>3. CASE c.step = 4
      <4>1. ExchangeRead(c, v) = Reply(c, MoreLate(Filler))
        BY <3>3, CardConstants DEF ExchangeRead
      <4> QED BY <4>1
    <3>4. CASE c.step = 6
      <4>1. ExchangeRead(c, v) = Reply(c, More(IF ValidAddress(c)
                                    THEN c.address \div ByteMod
                                    ELSE BadSector))
        BY <3>4, CardConstants DEF ExchangeRead
      <4> QED BY <4>1
    <3>5. CASE c.step = 7
      <4>1. ExchangeRead(c, v) = Reply(c, IF ValidAddress(c)
                               THEN More(c.address % ByteMod)
                               ELSE Final(BadSector))
        BY <3>5, CardConstants DEF ExchangeRead
      <4> QED BY <4>1
    <3> QED BY <3>1, <3>2, <3>3, <3>4, <3>5
  <2> QED BY <1>1, <2>1, <2>2, <2>3, <2>4, CardConstants
<1> QED BY <1>2, <1>3, <1>4, <1>5, <1>6

LEMMA WriteIs ==
  ASSUME NEW c \in CardType, NEW v \in Bytes
  PROVE  /\ c.step = 2 => ExchangeWrite(c, v) = Reply(TakeHigh(c, v), More(Filler))
         /\ c.step = 3 => ExchangeWrite(c, v) = Reply(TakeLow(c, v), More(c.previous))
         /\ c.step \in 4..(3 + SectorBytes) =>
              ExchangeWrite(c, v) =
                Reply([c EXCEPT !.buffer = Append(@, v)], More(c.previous))
         /\ c.step = 4 + SectorBytes =>
              ExchangeWrite(c, v) = Reply(FinishWrite(c, v), More(c.previous))
         /\ c.step = 7 + SectorBytes =>
              ExchangeWrite(c, v) = Reply(c, Final(c.result))
         /\ c.step \notin 2..(4 + SectorBytes) =>
              \E a : ExchangeWrite(c, v) = Reply(c, a)
<1>1. c.step \in Nat
  BY DEF CardType
<1>2. ASSUME c.step = 2
      PROVE  ExchangeWrite(c, v) = Reply(TakeHigh(c, v), More(Filler))
  BY <1>2, CardConstants DEF ExchangeWrite
<1>3. ASSUME c.step = 3
      PROVE  ExchangeWrite(c, v) = Reply(TakeLow(c, v), More(c.previous))
  BY <1>3, CardConstants DEF ExchangeWrite
<1>4. ASSUME c.step \in 4..(3 + SectorBytes)
      PROVE  ExchangeWrite(c, v) =
               Reply([c EXCEPT !.buffer = Append(@, v)], More(c.previous))
  BY <1>1, <1>4, CardConstants DEF ExchangeWrite
<1>5. ASSUME c.step = 4 + SectorBytes
      PROVE  ExchangeWrite(c, v) = Reply(FinishWrite(c, v), More(c.previous))
  BY <1>1, <1>5, CardConstants DEF ExchangeWrite
<1>6. ASSUME c.step = 7 + SectorBytes
      PROVE  ExchangeWrite(c, v) = Reply(c, Final(c.result))
  BY <1>1, <1>6, CardConstants DEF ExchangeWrite
<1>7. ASSUME c.step \notin 2..(4 + SectorBytes)
      PROVE  \E a : ExchangeWrite(c, v) = Reply(c, a)
  <2>1. CASE c.step = 7 + SectorBytes
    BY <2>1, <1>6
  <2>2. CASE c.step > 7 + SectorBytes
    <3>1. ExchangeWrite(c, v) = Reply(c, Final(BadSector))
      BY <1>1, <2>2, CardConstants DEF ExchangeWrite
    <3> QED BY <3>1
  <2>3. CASE c.step \in {0, 1} \/ c.step \in (5 + SectorBytes)..(6 + SectorBytes)
    <3>1. /\ c.step # 2 /\ c.step # 3
          /\ c.step \notin 4..((4 + SectorBytes) - 1)
          /\ c.step # 4 + SectorBytes
          /\ c.step # (4 + SectorBytes) + 3
          /\ ~(c.step > (4 + SectorBytes) + 3)
      BY <1>1, <2>3, CardConstants
    <3>2. ExchangeWrite(c, v) = Reply(c, More(Filler))
      BY <3>1 DEF ExchangeWrite
    <3> QED BY <3>2
  <2>4. \/ c.step = 7 + SectorBytes \/ c.step > 7 + SectorBytes
        \/ c.step \in {0, 1} \/ c.step \in (5 + SectorBytes)..(6 + SectorBytes)
    BY <1>1, <1>7, CardConstants
  <2> QED BY <2>1, <2>2, <2>3, <2>4
<1> QED BY <1>2, <1>3, <1>4, <1>5, <1>6, <1>7

-----------------------------------------------------------------------------
(* What a byte does to a card in a dialogue, and what it is answered.       *)

Moves(c, d, v) ==
  /\ d \in CardType /\ d.step = c.step + 1 /\ d.command = c.command
  /\ c.command \in {CmdRead, CmdWrite} =>
       /\ c.step = 2 => d.address = v * ByteMod
       /\ c.step = 3 => d.address = c.address + v
       /\ c.step \notin {2, 3} => d.address = c.address
  /\ c.command = CmdWrite =>
       d.buffer = IF c.step \in 4..(3 + SectorBytes) THEN Append(c.buffer, v)
                  ELSE c.buffer
  /\ c.command = CmdWrite /\ c.step = 4 + SectorBytes =>
       LET f == FinishWrite(c, v) IN
       d.data = f.data /\ d.result = f.result /\ d.fresh = f.fresh
       /\ d.dirty = f.dirty
  /\ ~(c.command = CmdWrite /\ c.step = 4 + SectorBytes) =>
       d.data = c.data /\ d.result = c.result /\ d.fresh = c.fresh
       /\ d.dirty = c.dirty

Answers(c, a) ==
  /\ c.command = CmdWrite /\ c.step = 7 + SectorBytes => a = Final(c.result)
  /\ c.command = CmdRead /\ c.step \in 8..(7 + SectorBytes) =>
       a.value = c.data[c.address][c.step - 7]
  /\ c.command = CmdRead /\ c.step = 8 + SectorBytes =>
       a.value = ChecksumOf(c, c.data[c.address])

LEMMA MoreIs == ASSUME NEW v PROVE More(v).value = v
  BY DEF More

LEMMA FinishIs ==
  ASSUME NEW c \in CardType, NEW v \in Bytes
  PROVE  LET f == FinishWrite(c, v)
             stores == /\ c.address < Sectors /\ Len(c.buffer) = SectorBytes
                       /\ v = ChecksumOf(c, c.buffer)
         IN  /\ f \in CardType /\ f.step = c.step /\ f.command = c.command
             /\ f.address = c.address /\ f.buffer = c.buffer
             /\ stores => /\ f.data = [c.data EXCEPT ![c.address] = c.buffer]
                          /\ f.fresh = FALSE /\ f.dirty = TRUE
                          /\ f.result = Good
             /\ ~stores => /\ f.data = c.data /\ f.fresh = c.fresh
                           /\ f.dirty = c.dirty
                           /\ f.result = IF c.address < Sectors THEN BadSum
                                         ELSE BadSector
<1> DEFINE stores == /\ c.address < Sectors /\ Len(c.buffer) = SectorBytes
                     /\ v = ChecksumOf(c, c.buffer)
<1>1. CASE ~ c.address < Sectors
  <2>1. FinishWrite(c, v) = [c EXCEPT !.result = BadSector]
    BY <1>1 DEF FinishWrite, ValidAddress
  <2> QED BY <1>1, <2>1, CardConstants DEF CardType
<1>2. CASE c.address < Sectors /\ ~stores
  <2>1. FinishWrite(c, v) = [c EXCEPT !.result = BadSum]
    BY <1>2 DEF FinishWrite, ValidAddress
  <2> HIDE DEF stores
  <2> QED BY <1>2, <2>1, CardConstants DEF CardType, stores
<1>3. CASE stores
  <2>1. FinishWrite(c, v) = [c EXCEPT !.data[c.address] = c.buffer,
                               !.fresh = FALSE, !.dirty = TRUE, !.result = Good]
    BY <1>3 DEF FinishWrite, ValidAddress
  <2>2. c.address \in Sector
    BY <1>3, CardConstants DEF Sector, CardType
  <2>3. c.buffer \in Data
    BY <1>3 DEF CardType, Data
  <2>4. [c.data EXCEPT ![c.address] = c.buffer] \in Images
    BY <2>2, <2>3 DEF CardType, Images
  <2> QED BY <1>3, <2>1, <2>4, CardConstants DEF CardType
<1> QED BY <1>1, <1>2, <1>3

\* A step of a dialogue, before the byte is counted.
Keeps(c, d) ==
  d.data = c.data /\ d.result = c.result /\ d.fresh = c.fresh
  /\ d.dirty = c.dirty
Same(c, d) == d \in CardType /\ d.step = c.step /\ d.command = c.command

LEMMA MovesAddress ==
  ASSUME NEW c \in CardType, NEW v \in Bytes, NEW d, Same(c, d), Keeps(c, d),
         d.buffer = c.buffer,
         \/ c.step = 2 /\ d.address = v * ByteMod
         \/ c.step = 3 /\ d.address = c.address + v
         \/ /\ c.step \notin {2, 3} /\ d.address = c.address
            /\ c.command = CmdWrite => c.step \notin 4..(4 + SectorBytes)
  PROVE  Moves(c, Counted(d, v), v)
<1>1. PICK e \in CardType : e = Counted(d, v)
  BY CountedIs DEF Same
<1>2. /\ e.step = c.step + 1 /\ e.command = c.command /\ e.buffer = c.buffer
      /\ e.address = d.address /\ Keeps(c, e)
  BY <1>1, CountedIs DEF Same, Keeps
<1>3. c.step \in Nat
  BY DEF CardType
<1>4. c.command = CmdWrite => c.step \notin 4..(3 + SectorBytes)
  BY <1>3, CardConstants
<1>5. c.command = CmdWrite => c.step # 4 + SectorBytes
  BY <1>3, CardConstants
<1>6. /\ c.step = 2 => e.address = v * ByteMod
      /\ c.step = 3 => e.address = c.address + v
      /\ c.step \notin {2, 3} => e.address = c.address
  BY <1>2
<1> QED BY <1>1, <1>2, <1>4, <1>5, <1>6 DEF Moves, Keeps

LEMMA MovesBuffer ==
  ASSUME NEW c \in CardType, NEW v \in Bytes, NEW d, Same(c, d), Keeps(c, d),
         c.step \in 4..(3 + SectorBytes), d.address = c.address,
         d.buffer = Append(c.buffer, v)
  PROVE  Moves(c, Counted(d, v), v)
<1>1. PICK e \in CardType : e = Counted(d, v)
  BY CountedIs DEF Same
<1>2. /\ e.step = c.step + 1 /\ e.command = c.command
      /\ e.buffer = Append(c.buffer, v)
      /\ e.address = c.address /\ Keeps(c, e)
  BY <1>1, CountedIs DEF Same, Keeps
<1>3. c.step # 2 /\ c.step # 3 /\ c.step # 4 + SectorBytes
  BY CardConstants
<1> QED BY <1>1, <1>2, <1>3 DEF Moves, Keeps

LEMMA MovesFinish ==
  ASSUME NEW c \in CardType, NEW v \in Bytes, c.step = 4 + SectorBytes,
         c.command = CmdWrite
  PROVE  Moves(c, Counted(FinishWrite(c, v), v), v)
<1>1. PICK f \in CardType : f = FinishWrite(c, v)
  BY FinishIs
<1>2. /\ f.step = c.step /\ f.command = c.command
      /\ f.address = c.address /\ f.buffer = c.buffer
  BY <1>1, FinishIs
<1>3. PICK e \in CardType : e = Counted(f, v)
  BY CountedIs
<1>4. /\ e.step = c.step + 1 /\ e.command = c.command /\ e.buffer = c.buffer
      /\ e.address = c.address /\ e.data = f.data /\ e.result = f.result
      /\ e.fresh = f.fresh /\ e.dirty = f.dirty
  BY <1>2, <1>3, CountedIs
<1>5. c.step # 2 /\ c.step # 3 /\ c.step \notin 4..(3 + SectorBytes)
  BY CardConstants
<1> QED BY <1>1, <1>3, <1>4, <1>5 DEF Moves

LEMMA ReadMoves ==
  ASSUME NEW c \in CardType, NEW v \in Bytes, c.command = CmdRead
  PROVE  LET r == CardExchange(c, v) IN
         Moves(c, r.card, v) /\ Answers(c, r.answer)
<1>1. Dialogue(c, v) = ExchangeRead(c, v) /\ c.command # 0
      /\ c.command # CmdWrite /\ c.step \in Nat
  BY CardConstants DEF Dialogue, CardType
<1>2. ASSUME NEW d \in CardType, NEW a, ExchangeRead(c, v) = Reply(d, a)
      PROVE  /\ CardExchange(c, v).card = Counted(d, v)
             /\ CardExchange(c, v).answer = a
  BY <1>1, <1>2, ExchangeIs
<1>3. CASE c.step = 2
  <2>0. ExchangeRead(c, v) = Reply(TakeHigh(c, v), More(Filler))
    BY <1>3, ReadIs
  <2>1. CardExchange(c, v).card = Counted(TakeHigh(c, v), v)
    <3>1. TakeHigh(c, v) \in CardType
      BY TakesAddress
    <3> QED BY <1>2, <2>0, <3>1
  <2>2. Moves(c, Counted(TakeHigh(c, v), v), v)
    <3>1. TakeHigh(c, v).address = (IF c.step = 2 THEN v * ByteMod ELSE c.address + v)
      BY <1>3, TakesAddress
    <3>2. /\ Same(c, TakeHigh(c, v)) /\ Keeps(c, TakeHigh(c, v))
          /\ TakeHigh(c, v).buffer = c.buffer
      BY TakesAddress DEF Same, Keeps
    <3> QED BY <1>3, <3>1, <3>2, MovesAddress
  <2>3. Answers(c, CardExchange(c, v).answer)
    BY <1>1, <1>3, CardConstants DEF Answers
  <2> QED BY <2>1, <2>2, <2>3
<1>4. CASE c.step = 3
  <2>0. ExchangeRead(c, v) = Reply(TakeLow(c, v), More(c.previous))
    BY <1>4, ReadIs
  <2>1. CardExchange(c, v).card = Counted(TakeLow(c, v), v)
    <3>1. TakeLow(c, v) \in CardType
      BY TakesAddress
    <3> QED BY <1>2, <2>0, <3>1
  <2>2. Moves(c, Counted(TakeLow(c, v), v), v)
    <3>1. TakeLow(c, v).address = (IF c.step = 2 THEN v * ByteMod ELSE c.address + v)
      BY <1>4, TakesAddress
    <3>2. /\ Same(c, TakeLow(c, v)) /\ Keeps(c, TakeLow(c, v))
          /\ TakeLow(c, v).buffer = c.buffer
      BY TakesAddress DEF Same, Keeps
    <3> QED BY <1>4, <3>1, <3>2, MovesAddress
  <2>3. Answers(c, CardExchange(c, v).answer)
    BY <1>1, <1>4, CardConstants DEF Answers
  <2> QED BY <2>1, <2>2, <2>3
<1>5. CASE c.step \notin {2, 3}
  <2>1. CardExchange(c, v).card = Counted(c, v)
    BY <1>2, <1>5, ReadIs
  <2>2. Moves(c, Counted(c, v), v)
    BY <1>1, <1>5, MovesAddress DEF Same, Keeps
  <2>3. c.step \in 8..(7 + SectorBytes) =>
          CardExchange(c, v).answer.value = c.data[c.address][c.step - 7]
    BY <1>2, ReadIs, MoreIs
  <2>4. c.step = 8 + SectorBytes =>
          CardExchange(c, v).answer.value = ChecksumOf(c, c.data[c.address])
    BY <1>2, ReadIs, MoreIs
  <2>5. Answers(c, CardExchange(c, v).answer)
    BY <1>1, <2>3, <2>4 DEF Answers
  <2> QED BY <2>1, <2>2, <2>5
<1> QED BY <1>3, <1>4, <1>5

LEMMA WriteMoves ==
  ASSUME NEW c \in CardType, NEW v \in Bytes, c.command = CmdWrite
  PROVE  LET r == CardExchange(c, v) IN
         Moves(c, r.card, v) /\ Answers(c, r.answer)
<1>1. Dialogue(c, v) = ExchangeWrite(c, v) /\ c.command # 0
      /\ c.command # CmdRead /\ c.step \in Nat
  BY CardConstants DEF Dialogue, CardType
<1>2. ASSUME NEW d \in CardType, NEW a, ExchangeWrite(c, v) = Reply(d, a)
      PROVE  /\ CardExchange(c, v).card = Counted(d, v)
             /\ CardExchange(c, v).answer = a
  BY <1>1, <1>2, ExchangeIs
<1>3. CASE c.step = 2
  <2>0. ExchangeWrite(c, v) = Reply(TakeHigh(c, v), More(Filler))
    BY <1>3, WriteIs
  <2>1. CardExchange(c, v).card = Counted(TakeHigh(c, v), v)
    <3>1. TakeHigh(c, v) \in CardType
      BY TakesAddress
    <3> QED BY <1>2, <2>0, <3>1
  <2>2. Moves(c, Counted(TakeHigh(c, v), v), v)
    <3>1. TakeHigh(c, v).address = (IF c.step = 2 THEN v * ByteMod ELSE c.address + v)
      BY <1>3, TakesAddress
    <3>2. /\ Same(c, TakeHigh(c, v)) /\ Keeps(c, TakeHigh(c, v))
          /\ TakeHigh(c, v).buffer = c.buffer
      BY TakesAddress DEF Same, Keeps
    <3> QED BY <1>3, <3>1, <3>2, MovesAddress
  <2>3. Answers(c, CardExchange(c, v).answer)
    BY <1>1, <1>3, CardConstants DEF Answers
  <2> QED BY <2>1, <2>2, <2>3
<1>4. CASE c.step = 3
  <2>0. ExchangeWrite(c, v) = Reply(TakeLow(c, v), More(c.previous))
    BY <1>4, WriteIs
  <2>1. CardExchange(c, v).card = Counted(TakeLow(c, v), v)
    <3>1. TakeLow(c, v) \in CardType
      BY TakesAddress
    <3> QED BY <1>2, <2>0, <3>1
  <2>2. Moves(c, Counted(TakeLow(c, v), v), v)
    <3>1. TakeLow(c, v).address = (IF c.step = 2 THEN v * ByteMod ELSE c.address + v)
      BY <1>4, TakesAddress
    <3>2. /\ Same(c, TakeLow(c, v)) /\ Keeps(c, TakeLow(c, v))
          /\ TakeLow(c, v).buffer = c.buffer
      BY TakesAddress DEF Same, Keeps
    <3> QED BY <1>4, <3>1, <3>2, MovesAddress
  <2>3. Answers(c, CardExchange(c, v).answer)
    BY <1>1, <1>4, CardConstants DEF Answers
  <2> QED BY <2>1, <2>2, <2>3
<1>5. CASE c.step \in 4..(3 + SectorBytes)
  <2> DEFINE d == [c EXCEPT !.buffer = Append(@, v)]
  <2>1. Append(c.buffer, v) \in Seq(Bytes)
    BY AppendIs DEF CardType
  <2>2. /\ d \in CardType /\ d.step = c.step /\ d.command = c.command
        /\ d.address = c.address /\ d.buffer = Append(c.buffer, v)
        /\ d.data = c.data /\ d.result = c.result /\ d.fresh = c.fresh
        /\ d.dirty = c.dirty
    BY <2>1 DEF CardType
  <2>3. ExchangeWrite(c, v) = Reply(d, More(c.previous))
    BY <1>5, WriteIs
  <2> HIDE DEF d
  <2>4. CardExchange(c, v).card = Counted(d, v)
    BY <1>2, <2>2, <2>3
  <2>5. Moves(c, Counted(d, v), v)
    BY <1>5, <2>2, MovesBuffer DEF Same, Keeps
  <2>6. Answers(c, CardExchange(c, v).answer)
    BY <1>1, <1>5, CardConstants DEF Answers
  <2> QED BY <2>4, <2>5, <2>6
<1>6. CASE c.step = 4 + SectorBytes
  <2> DEFINE d == FinishWrite(c, v)
  <2>1. /\ d \in CardType /\ d.step = c.step /\ d.command = c.command
        /\ d.address = c.address /\ d.buffer = c.buffer
    BY FinishIs
  <2>2. ExchangeWrite(c, v) = Reply(d, More(c.previous))
    BY <1>6, WriteIs
  <2>3. CardExchange(c, v).card = Counted(d, v)
    <3> HIDE DEF d
    <3> QED BY <1>2, <2>1, <2>2
  <2>4. Moves(c, Counted(d, v), v)
    BY <1>6, MovesFinish
  <2>5. Answers(c, CardExchange(c, v).answer)
    BY <1>1, <1>6, CardConstants DEF Answers
  <2> QED BY <2>3, <2>4, <2>5
<1>7. CASE c.step \notin 2..(4 + SectorBytes)
  <2>1. CardExchange(c, v).card = Counted(c, v)
    BY <1>2, <1>7, WriteIs
  <2>2. Moves(c, Counted(c, v), v)
    <3>1. c.step \in {0, 1} \/ c.step > 4 + SectorBytes
      BY <1>1, <1>7, CardConstants
    <3>2. \/ c.step = 2 \/ c.step = 3
          \/ c.step \notin {2, 3} /\ c.step \notin 4..(4 + SectorBytes)
      BY <1>1, <1>7
    <3> QED BY <1>7, <3>2, CardConstants, MovesAddress DEF Same, Keeps
  <2>3. c.step = 7 + SectorBytes =>
          CardExchange(c, v).answer = Final(c.result)
    BY <1>2, WriteIs
  <2>4. Answers(c, CardExchange(c, v).answer)
    BY <1>1, <2>3 DEF Answers
  <2> QED BY <2>1, <2>2, <2>4
<1> QED BY <1>1, <1>3, <1>4, <1>5, <1>6, <1>7, CardConstants

LEMMA OtherMoves ==
  ASSUME NEW c \in CardType, NEW v \in Bytes,
         c.command \notin {0, CmdRead, CmdWrite}
  PROVE  LET r == CardExchange(c, v) IN
         Moves(c, r.card, v) /\ Answers(c, r.answer)
<1>1. \E a : Dialogue(c, v) = Reply(c, a)
  BY CardConstants DEF Dialogue, ExchangeId
<1>2. CardExchange(c, v).card = Counted(c, v)
  BY <1>1, ExchangeIs
<1>3. Moves(c, Counted(c, v), v)
  BY CountedIs DEF Moves
<1> QED BY <1>2, <1>3 DEF Answers

LEMMA DialogueMoves ==
  ASSUME NEW c \in CardType, NEW v \in Bytes, c.command # 0
  PROVE  LET r == CardExchange(c, v) IN
         Moves(c, r.card, v) /\ Answers(c, r.answer)
  BY ReadMoves, WriteMoves, OtherMoves

-----------------------------------------------------------------------------
(* A byte of a dialogue keeps what is known of the card.                    *)

\* The byte v takes the card c, with s sent and g answered, to d.
ByteStep(c, s, g, b, v, d, t, h) ==
  /\ Progress(c, s, g, b) /\ c.command # 0 /\ ~Panics(c)
  /\ Moves(c, d, v)
  /\ t = Append(s, v)
  /\ \E a : Answers(c, a) /\ h = Append(g, a)

LEMMA ByteAnswers ==
  ASSUME NEW c, NEW s, NEW g, NEW b, NEW v \in Bytes, NEW d, NEW t, NEW h,
         ByteStep(c, s, g, b, v, d, t, h)
  PROVE  /\ \E S : h \in Seq(S)
         /\ Len(h) = Len(g) + 1
         /\ \A i \in 1..Len(g) : h[i] = g[i]
         /\ Answers(c, h[Len(g) + 1])
<1>1. PICK S : g \in Seq(S)
  BY DEF ByteStep, Progress
<1>2. PICK a : Answers(c, a) /\ h = Append(g, a)
  BY DEF ByteStep
<1>3. /\ \E T : h \in Seq(T)
      /\ Len(h) = Len(g) + 1
      /\ \A i \in 1..Len(g) : h[i] = g[i]
      /\ h[Len(g) + 1] = a
  BY <1>1, <1>2, AppendAny
<1> QED BY <1>2, <1>3

ByteFacts(c, s, g, b, v, d, t, h) ==
  /\ c \in CardType /\ d \in CardType /\ t \in Seq(Bytes) /\ b \in Images
  /\ Len(s) = c.step + 1 /\ Len(g) = c.step + 1 /\ c.step \in Nat
  /\ Len(t) = c.step + 2 /\ Len(h) = c.step + 2
  /\ \A i \in 1..(c.step + 1) : t[i] = s[i]
  /\ t[c.step + 2] = v
  /\ \A i \in 1..(c.step + 1) : h[i] = g[i]
  /\ Answers(c, h[c.step + 2])
  /\ d.step = c.step + 1 /\ d.command = c.command

LEMMA ByteSequences ==
  ASSUME NEW c, NEW s, NEW g, NEW b, NEW v \in Bytes, NEW d, NEW t, NEW h,
         ByteStep(c, s, g, b, v, d, t, h)
  PROVE  ByteFacts(c, s, g, b, v, d, t, h)
<1>1. /\ c \in CardType /\ s \in Seq(Bytes) /\ b \in Images
      /\ Len(g) = Len(s) /\ Len(s) = c.step + 1 /\ t = Append(s, v)
      /\ d \in CardType /\ d.step = c.step + 1 /\ d.command = c.command
  BY DEF ByteStep, Progress, InStep, Moves
<1>4. c.step \in Nat /\ c.step + 2 = Len(s) + 1 /\ c.step + 2 = Len(g) + 1
  BY <1>1 DEF CardType
<1>5. /\ t \in Seq(Bytes) /\ Len(t) = Len(s) + 1 /\ t[Len(s) + 1] = v
      /\ \A i \in 1..Len(s) : t[i] = s[i]
  BY <1>1, AppendIs
<1>6. /\ Len(h) = Len(g) + 1 /\ \A i \in 1..Len(g) : h[i] = g[i]
      /\ Answers(c, h[Len(g) + 1])
  BY ByteAnswers
<1> QED BY <1>1, <1>4, <1>5, <1>6 DEF ByteFacts

LEMMA ByteAddressed ==
  ASSUME NEW c, NEW s, NEW g, NEW b, NEW v \in Bytes, NEW d, NEW t, NEW h,
         ByteStep(c, s, g, b, v, d, t, h)
  PROVE  Addressed(d, t)
<1> SUFFICES ASSUME d.command \in {CmdRead, CmdWrite}
    PROVE  /\ d.step = 3 => d.address = t[4] * ByteMod
           /\ d.step >= 4 => d.address = t[4] * ByteMod + t[5]
  BY DEF Addressed
<1>0. ByteFacts(c, s, g, b, v, d, t, h)
  BY ByteSequences
<1>1. /\ c.step \in Nat /\ d.step = c.step + 1 /\ c.command \in {CmdRead, CmdWrite}
      /\ t[c.step + 2] = v /\ \A i \in 1..(c.step + 1) : t[i] = s[i]
  BY <1>0 DEF ByteFacts
<1>2. /\ c.step = 2 => d.address = v * ByteMod
      /\ c.step = 3 => d.address = c.address + v
      /\ c.step \notin {2, 3} => d.address = c.address
  BY <1>1 DEF ByteStep, Moves
<1>3. /\ c.step = 3 => c.address = s[4] * ByteMod
      /\ c.step >= 4 => c.address = s[4] * ByteMod + s[5]
  BY <1>1 DEF ByteStep, Progress, Addressed
<1>4. d.step = 3 => d.address = t[4] * ByteMod
  BY <1>1, <1>2
<1>5. ASSUME d.step = 4 PROVE d.address = t[4] * ByteMod + t[5]
  <2>1. c.step = 3 /\ t[5] = v /\ t[4] = s[4]
    BY <1>1, <1>5
  <2> QED BY <2>1, <1>2, <1>3
<1>6. ASSUME d.step > 4 PROVE d.address = t[4] * ByteMod + t[5]
  <2>1. c.step >= 4 /\ t[5] = s[5] /\ t[4] = s[4] /\ c.step \notin {2, 3}
    BY <1>1, <1>6
  <2> QED BY <2>1, <1>2, <1>3
<1> QED BY <1>1, <1>4, <1>5, <1>6

LEMMA ByteBuffered ==
  ASSUME NEW c, NEW s, NEW g, NEW b, NEW v \in Bytes, NEW d, NEW t, NEW h,
         ByteStep(c, s, g, b, v, d, t, h)
  PROVE  Buffered(d, t)
<1> SUFFICES ASSUME d.command = CmdWrite
    PROVE  /\ d.step < 4 => Len(d.buffer) = 0
           /\ d.step \in 4..(4 + SectorBytes) => Len(d.buffer) = d.step - 4
           /\ d.step > 4 + SectorBytes => Len(d.buffer) = SectorBytes
           /\ \A i \in 1..Len(d.buffer) : d.buffer[i] = t[i + 5]
  BY DEF Buffered
<1>0. ByteFacts(c, s, g, b, v, d, t, h)
  BY ByteSequences
<1>1. /\ c.step \in Nat /\ d.step = c.step + 1 /\ c.command = CmdWrite
      /\ t[c.step + 2] = v /\ \A i \in 1..(c.step + 1) : t[i] = s[i]
      /\ c \in CardType
  BY <1>0 DEF ByteFacts
<1>2. d.buffer = IF c.step \in 4..(3 + SectorBytes) THEN Append(c.buffer, v)
                 ELSE c.buffer
  BY <1>1 DEF ByteStep, Moves
<1>3. /\ c.step < 4 => Len(c.buffer) = 0
      /\ c.step \in 4..(4 + SectorBytes) => Len(c.buffer) = c.step - 4
      /\ c.step > 4 + SectorBytes => Len(c.buffer) = SectorBytes
      /\ \A i \in 1..Len(c.buffer) : c.buffer[i] = s[i + 5]
  BY <1>1 DEF ByteStep, Progress, Buffered
<1>4. c.buffer \in Seq(Bytes) /\ Len(c.buffer) \in Nat
  BY <1>1 DEF CardType
<1>5. CASE c.step \in 4..(3 + SectorBytes)
  <2>1. /\ Len(d.buffer) = Len(c.buffer) + 1
        /\ \A i \in 1..Len(c.buffer) : d.buffer[i] = c.buffer[i]
        /\ d.buffer[Len(c.buffer) + 1] = v
    BY <1>2, <1>4, <1>5, AppendIs
  <2>2. Len(c.buffer) = c.step - 4 /\ c.step + 1 < 5 + SectorBytes
    BY <1>1, <1>3, <1>5, CardConstants
  <2>3. /\ d.step < 4 => Len(d.buffer) = 0
        /\ d.step \in 4..(4 + SectorBytes) => Len(d.buffer) = d.step - 4
        /\ d.step > 4 + SectorBytes => Len(d.buffer) = SectorBytes
    BY <1>1, <1>5, <2>1, <2>2, CardConstants
  <2>4. ASSUME NEW i \in 1..Len(d.buffer) PROVE d.buffer[i] = t[i + 5]
    <3>1. CASE i = Len(c.buffer) + 1
      <4>1. i + 5 = c.step + 2
        BY <1>1, <2>2, <3>1
      <4> QED BY <1>1, <2>1, <3>1, <4>1
    <3>2. CASE i # Len(c.buffer) + 1
      <4>1. i \in 1..Len(c.buffer) /\ i + 5 \in 1..(c.step + 1)
        BY <1>1, <1>4, <2>1, <2>2, <3>2
      <4> QED BY <1>1, <1>3, <2>1, <4>1
    <3> QED BY <3>1, <3>2
  <2> QED BY <2>3, <2>4
<1>6. CASE c.step \notin 4..(3 + SectorBytes)
  <2>1. d.buffer = c.buffer
    BY <1>2, <1>6
  <2>2. c.step < 4 \/ c.step >= 4 + SectorBytes
    BY <1>1, <1>6, CardConstants
  <2>3. CASE c.step < 4
    <3>1. Len(d.buffer) = 0 /\ d.step <= 4
      BY <1>1, <1>3, <2>1, <2>3
    <3> QED BY <1>1, <3>1, CardConstants
  <2>4. CASE c.step >= 4 + SectorBytes
    <3>1. Len(c.buffer) = SectorBytes /\ d.step > 4 + SectorBytes
      BY <1>1, <1>3, <2>4, CardConstants
    <3>2. ASSUME NEW i \in 1..Len(d.buffer) PROVE d.buffer[i] = t[i + 5]
      <4>1. i \in 1..Len(c.buffer) /\ i + 5 \in 1..(c.step + 1)
        BY <1>1, <2>1, <2>4, <3>1, CardConstants
      <4> QED BY <1>1, <1>3, <2>1, <4>1
    <3> QED BY <1>1, <2>1, <3>1, <3>2, CardConstants
  <2> QED BY <2>2, <2>3, <2>4
<1> QED BY <1>5, <1>6

LEMMA ByteInStep ==
  ASSUME NEW c, NEW s, NEW g, NEW b, NEW v \in Bytes, NEW d, NEW t, NEW h,
         ByteStep(c, s, g, b, v, d, t, h)
  PROVE  InStep(d, t, h)
<1>0. ByteFacts(c, s, g, b, v, d, t, h)
  BY ByteSequences
<1>1. /\ c.step \in Nat /\ d.step = c.step + 1 /\ d.command = c.command
      /\ Len(t) = c.step + 2 /\ Len(h) = c.step + 2
      /\ \A i \in 1..(c.step + 1) : t[i] = s[i]
  BY <1>0 DEF ByteFacts
<1>2. c.command # 0 /\ s[1] = c.command
  BY DEF ByteStep, Progress, InStep
<1>3. t[1] = s[1]
  BY <1>1
<1> QED BY <1>1, <1>2, <1>3 DEF InStep

LEMMA SumOfAddress ==
  ASSUME NEW c, NEW d, d.address = c.address, NEW x
  PROVE  ChecksumOf(d, x) = ChecksumOf(c, x)
  BY DEF ChecksumOf, AddressSum

LEMMA ByteStored ==
  ASSUME NEW c, NEW s, NEW g, NEW b, NEW v \in Bytes, NEW d, NEW t, NEW h,
         ByteStep(c, s, g, b, v, d, t, h)
  PROVE  Stored(d, t, b)
<1>0. ByteFacts(c, s, g, b, v, d, t, h)
  BY ByteSequences
<1>1. /\ c.step \in Nat /\ d.step = c.step + 1 /\ d.command = c.command
      /\ t[c.step + 2] = v /\ \A i \in 1..(c.step + 1) : t[i] = s[i]
      /\ c \in CardType
  BY <1>0 DEF ByteFacts
<1>2. /\ ~Decided(c) => c.data = b
      /\ Decided(c) =>
           /\ c.data = IF Proper(c, s) THEN [b EXCEPT ![c.address] = c.buffer]
                       ELSE b
           /\ c.result = Outcome(c, s)
  BY DEF ByteStep, Progress, Stored
<1>3. CASE ~(c.command = CmdWrite /\ c.step >= 4 + SectorBytes)
  <2>1. ~Decided(c) /\ ~Decided(d)
    BY <1>1, <1>3, CardConstants DEF Decided
  <2>2. d.data = c.data
    BY <1>1, <1>3, CardConstants DEF ByteStep, Moves
  <2> QED BY <1>2, <2>1, <2>2 DEF Stored
<1>4. CASE c.command = CmdWrite /\ c.step = 4 + SectorBytes
  <2>1. PICK f : f = FinishWrite(c, v)
    OBVIOUS
  <2>2. /\ d.data = f.data /\ d.result = f.result /\ d.buffer = c.buffer
        /\ d.address = c.address
    BY <1>1, <1>4, <2>1, CardConstants DEF ByteStep, Moves
  <2>3. ~Decided(c) /\ Decided(d)
    BY <1>1, <1>4, CardConstants DEF Decided
  <2>4. Len(c.buffer) = SectorBytes
    <3>1. Len(c.buffer) = c.step - 4
      BY <1>1, <1>4, CardConstants DEF ByteStep, Progress, Buffered
    <3> QED BY <3>1, <1>4, CardConstants
  <2>5. Proper(d, t) <=> c.address < Sectors /\ v = ChecksumOf(c, c.buffer)
    <3>1. t[6 + SectorBytes] = v
      BY <1>1, <1>4, CardConstants
    <3>2. ChecksumOf(d, d.buffer) = ChecksumOf(c, c.buffer)
      BY <2>2, SumOfAddress
    <3> QED BY <3>1, <3>2, <2>2 DEF Proper
  <2>6. CASE Proper(d, t)
    <3>1. f.data = [c.data EXCEPT ![c.address] = c.buffer] /\ f.result = Good
      BY <1>1, <2>1, <2>4, <2>5, <2>6, FinishIs
    <3>2. Outcome(d, t) = Good
      BY <2>6 DEF Outcome
    <3> QED BY <1>2, <2>2, <2>3, <2>6, <3>1, <3>2 DEF Stored
  <2>7. CASE ~Proper(d, t)
    <3>1. /\ f.data = c.data
          /\ f.result = IF c.address < Sectors THEN BadSum ELSE BadSector
      BY <1>1, <2>1, <2>4, <2>5, <2>7, FinishIs
    <3>2. Outcome(d, t) = IF c.address < Sectors THEN BadSum ELSE BadSector
      BY <2>2, <2>7 DEF Outcome
    <3> QED BY <1>2, <2>2, <2>3, <2>7, <3>1, <3>2 DEF Stored
  <2> QED BY <2>6, <2>7
<1>5. CASE c.command = CmdWrite /\ c.step > 4 + SectorBytes
  <2>1. Decided(c) /\ Decided(d)
    BY <1>1, <1>5, CardConstants DEF Decided
  <2>2. /\ c.step # 4 + SectorBytes /\ c.step \notin 4..(3 + SectorBytes)
        /\ c.step \notin {2, 3}
    BY <1>1, <1>5, CardConstants
  <2>3. /\ d.data = c.data /\ d.result = c.result /\ d.buffer = c.buffer
        /\ d.address = c.address
    BY <1>5, <2>2 DEF ByteStep, Moves
  <2>4. t[6 + SectorBytes] = s[6 + SectorBytes]
    BY <1>1, <1>5, CardConstants
  <2>5. ChecksumOf(d, d.buffer) = ChecksumOf(c, c.buffer)
    BY <2>3, SumOfAddress
  <2>6. Proper(d, t) <=> Proper(c, s)
    BY <2>3, <2>4, <2>5 DEF Proper
  <2>7. Outcome(d, t) = Outcome(c, s)
    BY <2>3, <2>6 DEF Outcome
  <2> QED BY <1>2, <2>1, <2>3, <2>6, <2>7 DEF Stored
<1> QED BY <1>1, <1>3, <1>4, <1>5, CardConstants

LEMMA ByteAnswered ==
  ASSUME NEW c, NEW s, NEW g, NEW b, NEW v \in Bytes, NEW d, NEW t, NEW h,
         ByteStep(c, s, g, b, v, d, t, h)
  PROVE  Answered(d, h)
<1>0. ByteFacts(c, s, g, b, v, d, t, h)
  BY ByteSequences
<1>1. /\ c.step \in Nat /\ d.step = c.step + 1 /\ d.command = c.command
      /\ Len(h) = c.step + 2 /\ Len(g) = c.step + 1
      /\ \A i \in 1..(c.step + 1) : h[i] = g[i]
  BY <1>0 DEF ByteFacts
<1>2. PICK a : a = h[c.step + 2] /\ Answers(c, a)
  BY <1>0 DEF ByteFacts
<1>3. Answered(c, g)
  BY DEF ByteStep, Progress
<1>4. ASSUME d.command = CmdWrite, Len(h) >= 9 + SectorBytes
      PROVE  h[9 + SectorBytes] = Final(d.result)
  <2>1. c.command = CmdWrite /\ c.step >= 7 + SectorBytes
    BY <1>1, <1>4, CardConstants
  <2>2. d.result = c.result
    BY <1>1, <2>1, CardConstants DEF ByteStep, Moves
  <2>3. CASE c.step = 7 + SectorBytes
    <3>1. a = Final(c.result)
      BY <1>2, <2>1, <2>3 DEF Answers
    <3>2. c.step + 2 = 9 + SectorBytes
      BY <2>3, CardConstants
    <3> QED BY <1>2, <2>2, <3>1, <3>2
  <2>4. CASE c.step > 7 + SectorBytes
    <3>1. 9 + SectorBytes \in 1..(c.step + 1) /\ Len(g) >= 9 + SectorBytes
      BY <1>1, <2>4, CardConstants
    <3>2. g[9 + SectorBytes] = Final(c.result)
      BY <1>3, <2>1, <3>1 DEF Answered
    <3> QED BY <1>1, <2>2, <3>1, <3>2
  <2> QED BY <1>1, <2>1, <2>3, <2>4, CardConstants
<1>5. ASSUME d.command = CmdRead, c.step >= 8
      PROVE  /\ c.command = CmdRead /\ d.data = c.data /\ d.address = c.address
  BY <1>1, <1>5, CardConstants DEF ByteStep, Moves
<1>6. ASSUME d.command = CmdRead, NEW i \in 1..SectorBytes, Len(h) >= 9 + i
      PROVE  h[9 + i].value = d.data[d.address][i]
  <2>0. i \in Nat /\ i >= 1 /\ i <= SectorBytes
    BY CardConstants
  <2>1. c.step >= 7 + i /\ c.step >= 8
    BY <1>1, <1>6, <2>0
  <2>2. c.command = CmdRead /\ d.data = c.data /\ d.address = c.address
    BY <1>5, <1>6, <2>1
  <2>3. CASE c.step = 7 + i
    <3>1. c.step \in 8..(7 + SectorBytes) /\ c.step - 7 = i /\ c.step + 2 = 9 + i
      BY <1>1, <2>0, <2>3, CardConstants
    <3>2. a.value = c.data[c.address][c.step - 7]
      BY <1>2, <2>2, <3>1 DEF Answers
    <3> QED BY <1>2, <2>2, <3>1, <3>2
  <2>4. CASE c.step > 7 + i
    <3>1. 9 + i \in 1..(c.step + 1) /\ Len(g) >= 9 + i
      BY <1>1, <2>0, <2>4
    <3>2. g[9 + i].value = c.data[c.address][i]
      BY <1>3, <2>2, <3>1 DEF Answered
    <3> QED BY <1>1, <2>2, <3>1, <3>2
  <2> QED BY <1>1, <2>0, <2>1, <2>3, <2>4
<1>7. ASSUME d.command = CmdRead, Len(h) >= 10 + SectorBytes
      PROVE  h[10 + SectorBytes].value = ChecksumOf(d, d.data[d.address])
  <2>1. c.step >= 8 + SectorBytes /\ c.step >= 8
    BY <1>1, <1>7, CardConstants
  <2>2. c.command = CmdRead /\ d.data = c.data /\ d.address = c.address
    BY <1>5, <1>7, <2>1
  <2>3. ChecksumOf(d, d.data[d.address]) = ChecksumOf(c, c.data[c.address])
    BY <2>2, SumOfAddress
  <2>4. CASE c.step = 8 + SectorBytes
    <3>1. a.value = ChecksumOf(c, c.data[c.address])
      BY <1>2, <2>2, <2>4 DEF Answers
    <3>2. c.step + 2 = 10 + SectorBytes
      BY <2>4, CardConstants
    <3> QED BY <1>2, <2>3, <3>1, <3>2
  <2>5. CASE c.step > 8 + SectorBytes
    <3>1. 10 + SectorBytes \in 1..(c.step + 1) /\ Len(g) >= 10 + SectorBytes
      BY <1>1, <2>5, CardConstants
    <3>2. g[10 + SectorBytes].value = ChecksumOf(c, c.data[c.address])
      BY <1>3, <2>2, <3>1 DEF Answered
    <3> QED BY <1>1, <2>3, <3>1, <3>2
  <2> QED BY <1>1, <2>1, <2>4, <2>5, CardConstants
<1> QED BY <1>4, <1>6, <1>7 DEF Answered

LEMMA ByteFound ==
  ASSUME NEW c, NEW s, NEW g, NEW b, NEW v \in Bytes, NEW d, NEW t, NEW h,
         ByteStep(c, s, g, b, v, d, t, h)
  PROVE  Found(d)
<1> SUFFICES ASSUME d.command = CmdRead, d.step >= 9 PROVE d.address < Sectors
  BY DEF Found, ValidAddress
<1>0. ByteFacts(c, s, g, b, v, d, t, h)
  BY ByteSequences
<1>1. c.step \in Nat /\ d.step = c.step + 1 /\ c.command = CmdRead
  BY <1>0 DEF ByteFacts
<1>2. c.step >= 8 /\ d.address = c.address
  BY <1>1, CardConstants DEF ByteStep, Moves
<1>3. CASE c.step = 8
  <2>1. c.step \in 8..(7 + SectorBytes)
    BY <1>3, CardConstants
  <2> QED BY <1>1, <1>2, <2>1 DEF ByteStep, Panics, ValidAddress
<1>4. CASE c.step > 8
  BY <1>1, <1>2, <1>4 DEF ByteStep, Progress, Found, ValidAddress
<1> QED BY <1>1, <1>2, <1>3, <1>4

LEMMA ByteKeeps ==
  ASSUME NEW c, NEW s, NEW g, NEW b, NEW v \in Bytes, NEW d, NEW t, NEW h,
         ByteStep(c, s, g, b, v, d, t, h)
  PROVE  Progress(d, t, h, b)
<1>1. ByteFacts(c, s, g, b, v, d, t, h)
  BY ByteSequences
<1>2. d \in CardType /\ t \in Seq(Bytes) /\ b \in Images
  BY <1>1 DEF ByteFacts
<1>3. \E S : h \in Seq(S)
  BY ByteAnswers
<1>4. InStep(d, t, h) /\ Addressed(d, t) /\ Buffered(d, t)
  BY ByteInStep, ByteAddressed, ByteBuffered
<1>5. Stored(d, t, b) /\ Answered(d, h) /\ Found(d)
  BY ByteStored, ByteAnswered, ByteFound
<1> QED BY <1>2, <1>3, <1>4, <1>5 DEF Progress

-----------------------------------------------------------------------------
(* The card at rest: a command byte, deselection, a save.                   *)

Flags(c, last) ==
  /\ ~c.dirty => c.data = last
  /\ c.fresh => c.data = Image

CardInv ==
  /\ Progress(card, sent, got, before)
  /\ Flags(card, saved)

LEMMA Single ==
  ASSUME NEW v
  PROVE  Len(<<v>>) = 1 /\ <<v>>[1] = v /\ \E S : <<v>> \in Seq(S)
<1>1. <<v>> \in Seq({v})
  OBVIOUS
<1> QED BY <1>1

Starting(c, s, g) ==
  /\ c \in CardType /\ s \in Seq(Bytes) /\ \E S : g \in Seq(S)
  /\ c.step = 0 /\ Len(g) = Len(s) /\ Len(s) <= 1 /\ Len(c.buffer) = 0
  /\ Len(s) = 1 => s[1] = c.command
  /\ Len(s) = 0 => c.command = 0

LEMMA AtStart ==
  ASSUME NEW c, NEW s, NEW g, Starting(c, s, g)
  PROVE  Progress(c, s, g, c.data)
<1>0. /\ c \in CardType /\ s \in Seq(Bytes) /\ \E S : g \in Seq(S)
      /\ c.step = 0 /\ Len(g) = Len(s) /\ Len(s) <= 1 /\ Len(c.buffer) = 0
      /\ Len(s) = 1 => s[1] = c.command
      /\ Len(s) = 0 => c.command = 0
  BY DEF Starting
<1>1. InStep(c, s, g)
  BY <1>0 DEF InStep
<1>2. Addressed(c, s) /\ Buffered(c, s) /\ Found(c)
  BY <1>0, CardConstants DEF Addressed, Buffered, Found
<1>3. Stored(c, s, c.data)
  BY <1>0, CardConstants DEF Stored, Decided
<1>4. Answered(c, g)
  BY <1>0, CardConstants DEF Answered
<1>5. c.data \in Images
  BY <1>0 DEF CardType
<1> QED BY <1>0, <1>1, <1>2, <1>3, <1>4, <1>5 DEF Progress

LEMMA ProgressFacts ==
  ASSUME CardInv
  PROVE  card \in CardType /\ sent \in Seq(Bytes) /\ before \in Images
  BY DEF CardInv, Progress

LEMMA InitCard == CardInit => CardInv
<1> SUFFICES ASSUME CardInit PROVE CardInv
  OBVIOUS
<1>1. /\ card.data = Image /\ card.fresh = TRUE /\ card.step = 0
      /\ card.command = 0 /\ card.buffer = <<>> /\ card \in CardType
  BY CardConstants DEF CardInit, NewCard, CardType
<1>2. /\ sent = <<>> /\ got = <<>> /\ before = Image /\ saved = Image
  BY DEF CardInit
<1>3. Len(sent) = 0 /\ Len(got) = 0 /\ sent \in Seq(Bytes) /\ Len(card.buffer) = 0
      /\ got \in Seq(Bytes)
  BY <1>1, <1>2
<1>4. Starting(card, sent, got)
  BY <1>1, <1>2, <1>3 DEF Starting
<1>5. Progress(card, sent, got, card.data)
  BY <1>4, AtStart
<1> QED BY <1>1, <1>2, <1>5 DEF CardInv, Flags

LEMMA DeselectCard == CardInv /\ Deselect => CardInv'
<1> SUFFICES ASSUME CardInv, Deselect PROVE CardInv'
  OBVIOUS
<1>1. /\ card' = ResetCard(card) /\ sent' = <<>> /\ got' = <<>>
      /\ before' = card.data /\ saved' = saved
  BY DEF Deselect
<1>2. card \in CardType
  BY ProgressFacts
<1>3. PICK d : d = ResetCard(card)
  OBVIOUS
<1>4. /\ d.data = card.data /\ d.fresh = card.fresh /\ d.dirty = card.dirty
      /\ d.step = 0 /\ d.command = 0 /\ d.buffer = <<>> /\ d \in CardType
  <2>1. /\ d.data = card.data /\ d.fresh = card.fresh /\ d.dirty = card.dirty
        /\ d.step = 0 /\ d.command = 0 /\ d.buffer = <<>>
    BY <1>2, <1>3 DEF ResetCard, CardType
  <2>2. <<>> \in Seq(Bytes)
    OBVIOUS
  <2>3. d \in CardType
    BY <1>2, <1>3, <2>2, CardConstants DEF ResetCard, CardType
  <2> QED BY <2>1, <2>3
<1>5. /\ Len(sent') = 0 /\ Len(got') = 0 /\ sent' \in Seq(Bytes)
      /\ got' \in Seq(Bytes) /\ Len(d.buffer) = 0
  BY <1>1, <1>4
<1>6. Progress(d, sent', got', d.data)
  <2>1. Starting(d, sent', got')
    BY <1>4, <1>5 DEF Starting
  <2> QED BY <2>1, AtStart
<1>7. Flags(d, saved)
  BY <1>4 DEF CardInv, Flags
<1> QED BY <1>1, <1>3, <1>4, <1>6, <1>7 DEF CardInv

LEMMA SaveCard == CardInv /\ Save => CardInv'
<1> SUFFICES ASSUME CardInv, Save PROVE CardInv'
  OBVIOUS
<1>1. /\ card' = [card EXCEPT !.dirty = FALSE] /\ sent' = sent /\ got' = got
      /\ before' = before /\ saved' = card.data
  BY DEF Save
<1>2. card \in CardType
  BY ProgressFacts
<1>3. PICK d : d = [card EXCEPT !.dirty = FALSE]
  OBVIOUS
<1>4. /\ d.data = card.data /\ d.fresh = card.fresh /\ d.result = card.result
      /\ d.step = card.step /\ d.command = card.command
      /\ d.buffer = card.buffer /\ d.address = card.address /\ d \in CardType
  BY <1>2, <1>3 DEF CardType
<1>5. Progress(d, sent, got, before)
  <2>1. ASSUME NEW x PROVE ChecksumOf(d, x) = ChecksumOf(card, x)
    BY <1>4, SumOfAddress
  <2>2. Proper(d, sent) <=> Proper(card, sent)
    BY <1>4, <2>1 DEF Proper
  <2>3. Outcome(d, sent) = Outcome(card, sent)
    BY <1>4, <2>2 DEF Outcome
  <2>4. InStep(d, sent, got) /\ Addressed(d, sent) /\ Buffered(d, sent)
    BY <1>4 DEF CardInv, Progress, InStep, Addressed, Buffered
  <2>5. Found(d)
    BY <1>4 DEF CardInv, Progress, Found, ValidAddress
  <2>6. Decided(d) <=> Decided(card)
    BY <1>4 DEF Decided
  <2>7. Stored(d, sent, before)
    BY <1>4, <2>2, <2>3, <2>6 DEF CardInv, Progress, Stored
  <2>8. Answered(d, got)
    <3>1. ChecksumOf(d, d.data[d.address]) = ChecksumOf(card, card.data[card.address])
      BY <1>4, <2>1
    <3> QED BY <1>4, <3>1 DEF CardInv, Progress, Answered
  <2> QED BY <1>4, <2>4, <2>5, <2>7, <2>8 DEF CardInv, Progress
<1>6. Flags(d, card.data)
  BY <1>4 DEF CardInv, Flags
<1> QED BY <1>1, <1>3, <1>5, <1>6 DEF CardInv

LEMMA CommandIs ==
  ASSUME NEW c \in CardType, NEW v \in Bytes, c.command = 0
  PROVE  LET d == CardExchange(c, v).card IN
         /\ d.data = c.data /\ d.fresh = c.fresh /\ d.dirty = c.dirty
         /\ d.step = 0 /\ d.command = v /\ d.buffer = c.buffer
         /\ d \in CardType
<1>1. CardExchange(c, v).card =
        [c EXCEPT !.command = v, !.step = 0, !.previous = v]
  BY DEF CardExchange, ExchangeCommand, Reply
<1>2. PICK d : d = [c EXCEPT !.command = v, !.step = 0, !.previous = v]
  OBVIOUS
<1>3. /\ d.data = c.data /\ d.fresh = c.fresh /\ d.dirty = c.dirty
      /\ d.step = 0 /\ d.command = v /\ d.buffer = c.buffer
  BY <1>2 DEF CardType
<1>4. d \in CardType
  BY <1>2 DEF CardType
<1> QED BY <1>1, <1>2, <1>3, <1>4

LEMMA CommandKeeps ==
  ASSUME NEW c, NEW s, NEW g, NEW b, NEW v \in Bytes, NEW last,
         Progress(c, s, g, b), Flags(c, last), c.command = 0,
         NEW r, r = CardExchange(c, v)
  PROVE  Progress(r.card, <<v>>, <<r.answer>>, b) /\ Flags(r.card, last)
<1>1. c \in CardType /\ Len(c.buffer) = 0 /\ c.data = b
  BY CardConstants DEF Progress, InStep, Stored, Decided
<1>2. PICK d : d = r.card
  OBVIOUS
<1>3. /\ d.data = c.data /\ d.fresh = c.fresh /\ d.dirty = c.dirty
      /\ d.step = 0 /\ d.command = v /\ d.buffer = c.buffer
      /\ d \in CardType
  BY <1>1, <1>2, CommandIs
<1>4. PICK t, h : t = <<v>> /\ h = <<r.answer>>
  OBVIOUS
<1>5. /\ t \in Seq(Bytes) /\ Len(t) = 1 /\ t[1] = v
      /\ Len(h) = 1 /\ \E S : h \in Seq(S)
  BY <1>4, Single
<1>6. Progress(d, t, h, d.data)
  <2>1. Starting(d, t, h)
    BY <1>1, <1>3, <1>5 DEF Starting
  <2> QED BY <2>1, AtStart
<1>7. Flags(d, last)
  BY <1>3 DEF Flags
<1> QED BY <1>1, <1>2, <1>3, <1>4, <1>6, <1>7

LEMMA DialogueKeeps ==
  ASSUME NEW c, NEW s, NEW g, NEW b, NEW v \in Bytes, NEW last,
         Progress(c, s, g, b), Flags(c, last), c.command # 0, ~Panics(c),
         NEW r, r = CardExchange(c, v)
  PROVE  /\ Progress(r.card, Append(s, v), Append(g, r.answer), b)
         /\ Flags(r.card, last)
<1>1. c \in CardType
  BY DEF Progress
<1>2. PICK d, a : d = r.card /\ a = r.answer
  OBVIOUS
<1>3. Moves(c, d, v) /\ Answers(c, a)
  BY <1>1, <1>2, DialogueMoves
<1>4. PICK t, h : t = Append(s, v) /\ h = Append(g, a)
  OBVIOUS
<1>5. ByteStep(c, s, g, b, v, d, t, h)
  BY <1>3, <1>4 DEF ByteStep
<1>6. Progress(d, t, h, b)
  BY <1>5, ByteKeeps
<1>7. Flags(d, last)
  <2>1. CASE c.command = CmdWrite /\ c.step = 4 + SectorBytes
    <3>1. PICK f : f = FinishWrite(c, v)
      OBVIOUS
    <3>2. d.data = f.data /\ d.fresh = f.fresh /\ d.dirty = f.dirty
      BY <1>3, <2>1, <3>1 DEF Moves
    <3>3. \/ f.fresh = FALSE /\ f.dirty = TRUE
          \/ f.data = c.data /\ f.fresh = c.fresh /\ f.dirty = c.dirty
      BY <1>1, <3>1, FinishIs
    <3> QED BY <3>2, <3>3 DEF Flags
  <2>2. CASE ~(c.command = CmdWrite /\ c.step = 4 + SectorBytes)
    <3>1. d.data = c.data /\ d.fresh = c.fresh /\ d.dirty = c.dirty
      BY <1>3, <2>2 DEF Moves
    <3> QED BY <3>1 DEF Flags
  <2> QED BY <2>1, <2>2
<1> QED BY <1>2, <1>4, <1>6, <1>7

LEMMA ExchangeCard ==
  ASSUME CardInv, NEW v \in Sendable, Exchange(v)
  PROVE  CardInv'
<1>1. v \in Bytes
  BY CardConstants DEF Sendable, Filler
<1>2. CASE Panics(card)
  <2>1. UNCHANGED <<card, sent, got, before, saved>>
    BY <1>2 DEF Exchange
  <2> QED BY <2>1 DEF CardInv, Progress, InStep, Addressed, Buffered, Stored,
                      Answered, Found, Flags, Proper, Outcome, Decided,
                      ValidAddress
<1>3. CASE ~Panics(card)
  <2>1. PICK r : r = CardExchange(card, v)
    OBVIOUS
  <2>2. /\ card' = r.card /\ before' = before /\ saved' = saved
        /\ sent' = IF card.command = 0 THEN <<v>> ELSE Append(sent, v)
        /\ got' = IF card.command = 0 THEN <<r.answer>>
                  ELSE Append(got, r.answer)
    BY <1>3, <2>1 DEF Exchange
  <2>3. Progress(r.card, sent', got', before) /\ Flags(r.card, saved)
    <3>1. CASE card.command = 0
      BY <1>1, <2>1, <2>2, <3>1, CommandKeeps DEF CardInv
    <3>2. CASE card.command # 0
      BY <1>1, <1>3, <2>1, <2>2, <3>2, DialogueKeeps DEF CardInv
    <3> QED BY <3>1, <3>2
  <2> QED BY <2>2, <2>3 DEF CardInv
<1> QED BY <1>2, <1>3

LEMMA NextCard == CardInv /\ [CardNext]_cardVars => CardInv'
<1> SUFFICES ASSUME CardInv, [CardNext]_cardVars PROVE CardInv'
  OBVIOUS
<1>1. CASE \E v \in Sendable : Exchange(v)
  BY <1>1, ExchangeCard
<1>2. CASE Deselect
  BY <1>2, DeselectCard
<1>3. CASE Save
  BY <1>3, SaveCard
<1>4. CASE UNCHANGED cardVars
  <2>1. UNCHANGED <<card, sent, got, before, saved>>
    BY <1>4 DEF cardVars
  <2> QED BY <2>1 DEF CardInv
<1> QED BY <1>1, <1>2, <1>3, <1>4 DEF CardNext

\* What a dialogue has reached follows from the bytes sent, whatever they are
\* and wherever it is broken off, and the flags are honest: the card's
\* invariant is inductive.
THEOREM CardProgress == CardSpec => []CardInv
<1>1. CardInit => CardInv
  BY InitCard
<1>2. CardInv /\ [CardNext]_cardVars => CardInv'
  BY NextCard
<1> QED BY <1>1, <1>2, PTL DEF CardSpec

-----------------------------------------------------------------------------
(* What the guest asked for, and what the card did.                         *)

LEMMA PartIs ==
  ASSUME NEW S, NEW s \in Seq(S), NEW u \in Seq(S), NEW m \in Nat,
         NEW n \in Nat, Len(s) >= m + n, Len(u) = n,
         \A i \in 1..n : u[i] = s[i + m]
  PROVE  SubSeq(s, m + 1, m + n) = u
<1>1. SubSeq(s, m + 1, m + n) = [i \in 1..n |-> s[i + m]]
  OBVIOUS
<1>2. u = [i \in 1..n |-> u[i]]
  OBVIOUS
<1> QED BY <1>1, <1>2

\* An address of two bytes is taken apart into them.
LEMMA AddressParts ==
  ASSUME NEW high \in Bytes, NEW low \in Bytes
  PROVE  /\ (high * ByteMod + low) \div ByteMod = high
         /\ (high * ByteMod + low) % ByteMod = low
<1>1. /\ high \in Int /\ low \in Int /\ 0 <= low /\ low < ByteMod
      /\ ByteMod \in Nat \ {0}
  BY CardConstants DEF Bytes
<1>2. PICK a \in Int : a = high * ByteMod + low
  BY <1>1
<1>3. a = ByteMod * high + low
  BY <1>1, <1>2
<1>4. a % ByteMod = low
  BY <1>1, <1>3, RemainderIs
<1>5. a = ByteMod * (a \div ByteMod) + (a % ByteMod) /\ a \div ByteMod \in Int
  BY <1>1, DivisionOf
<1>6. ByteMod * (a \div ByteMod) = ByteMod * high
  BY <1>1, <1>3, <1>4, <1>5
<1>7. ASSUME NEW p \in Int, NEW q \in Int, ByteMod * p = ByteMod * q PROVE p = q
  <2>1. ByteMod * (p - q) = 0
    BY <1>1, <1>7
  <2> QED BY <1>1, <2>1
<1> QED BY <1>1, <1>2, <1>4, <1>5, <1>6, <1>7

LEMMA CommandSent ==
  ASSUME CardInv, Len(sent) > 1
  PROVE  /\ card.command = sent[1] /\ card.command # 0
         /\ Len(sent) = card.step + 1 /\ Len(got) = card.step + 1
         /\ card.step \in Nat /\ card \in CardType /\ sent \in Seq(Bytes)
<1>1. InStep(card, sent, got) /\ card \in CardType /\ sent \in Seq(Bytes)
  BY DEF CardInv, Progress
<1>2. Len(sent) \in Nat /\ card.step \in Nat
  BY <1>1 DEF CardType
<1>3. card.command # 0
  BY <1>1, <1>2 DEF InStep
<1> QED BY <1>1, <1>2, <1>3 DEF InStep

LEMMA AddressAsked ==
  ASSUME CardInv, Len(sent) > 5, sent[1] \in {CmdRead, CmdWrite}
  PROVE  /\ card.address = AskedAddress /\ AskedAddress \in Nat
         /\ \A x : ChecksumOf(card, x) = XorSum(BitXor(sent[4], sent[5]), x)
<1>1. /\ card.command = sent[1] /\ Len(sent) = card.step + 1
      /\ card.step \in Nat /\ card \in CardType /\ sent \in Seq(Bytes)
      /\ Len(sent) \in Nat
  BY CommandSent
<1>2. card.step >= 4
  BY <1>1
<1>3. card.address = sent[4] * ByteMod + sent[5]
  BY <1>1, <1>2 DEF CardInv, Progress, Addressed
<1>4. sent[4] \in Bytes /\ sent[5] \in Bytes
  BY <1>1
<1>5. /\ card.address \div ByteMod = sent[4]
      /\ card.address % ByteMod = sent[5]
  BY <1>3, <1>4, AddressParts
<1>6. AddressSum(card) = BitXor(sent[4], sent[5])
  BY <1>5 DEF AddressSum
<1>7. card.address \in Nat
  BY <1>1 DEF CardType
<1> QED BY <1>3, <1>6, <1>7 DEF AskedAddress, ChecksumOf

LEMMA WhenAsked ==
  ASSUME CardInv
  PROVE  WriteAsked <=> Decided(card)
<1>1. InStep(card, sent, got) /\ card \in CardType /\ sent \in Seq(Bytes)
  BY DEF CardInv, Progress
<1>2. Len(sent) \in Nat /\ card.step \in Nat
  BY <1>1 DEF CardType
<1>3. ASSUME WriteAsked PROVE Decided(card)
  <2>1. Len(sent) >= 6 + SectorBytes /\ sent[1] = CmdWrite
    BY <1>3 DEF WriteAsked
  <2>2. Len(sent) > 1
    BY <1>2, <2>1, CardConstants
  <2>3. card.command = sent[1] /\ Len(sent) = card.step + 1
    BY <2>2, CommandSent
  <2> QED BY <1>2, <2>1, <2>3, CardConstants DEF Decided
<1>4. ASSUME Decided(card) PROVE WriteAsked
  <2>1. card.command = CmdWrite /\ card.step > 4 + SectorBytes
    BY <1>4 DEF Decided
  <2>2. Len(sent) = card.step + 1 /\ sent[1] = CmdWrite
    BY <1>1, <2>1, CardConstants DEF InStep
  <2> QED BY <1>2, <2>1, <2>2, CardConstants DEF WriteAsked
<1> QED BY <1>3, <1>4

LEMMA WhatWasAsked ==
  ASSUME CardInv, WriteAsked
  PROVE  /\ card.address = AskedAddress /\ card.buffer = AskedBytes
         /\ Proper(card, sent) <=> ProperWrite
<1>1. Decided(card) /\ Len(sent) >= 6 + SectorBytes /\ sent[1] = CmdWrite
  BY WhenAsked DEF WriteAsked
<1>2. Len(sent) > 5 /\ Len(sent) > 1
  <2>1. Len(sent) \in Nat
    BY DEF CardInv, Progress
  <2> QED BY <1>1, <2>1, CardConstants
<1>3. /\ card.address = AskedAddress
      /\ \A x : ChecksumOf(card, x) = XorSum(BitXor(sent[4], sent[5]), x)
  BY <1>1, <1>2, AddressAsked
<1>4. card \in CardType /\ sent \in Seq(Bytes)
  BY <1>2, CommandSent
<1>5. card.buffer \in Seq(Bytes)
  BY <1>4 DEF CardType
<1>6. /\ Len(card.buffer) = SectorBytes
      /\ \A i \in 1..SectorBytes : card.buffer[i] = sent[i + 5]
  <2>1. card.command = CmdWrite /\ card.step > 4 + SectorBytes
    BY <1>1 DEF Decided
  <2>2. /\ card.step > 4 + SectorBytes => Len(card.buffer) = SectorBytes
        /\ \A i \in 1..Len(card.buffer) : card.buffer[i] = sent[i + 5]
    BY <2>1 DEF CardInv, Progress, Buffered
  <2> QED BY <2>1, <2>2
<1>7. SubSeq(sent, 5 + 1, 5 + SectorBytes) = card.buffer
  <2>1. Len(sent) >= 5 + SectorBytes
    <3>1. Len(sent) \in Nat
      BY <1>4
    <3> QED BY <1>1, <3>1, CardConstants
  <2>2. 5 \in Nat /\ SectorBytes \in Nat
    BY CardConstants
  <2> QED BY <1>4, <1>5, <1>6, <2>1, <2>2, PartIs
<1>8. card.buffer = AskedBytes
  BY <1>7 DEF AskedBytes
<1>9. Proper(card, sent) <=> ProperWrite
  <2>1. ChecksumOf(card, card.buffer) = ProperSum
    BY <1>3, <1>8 DEF ProperSum
  <2> QED BY <1>3, <2>1 DEF Proper, ProperWrite, AskedSum
<1> QED BY <1>3, <1>8, <1>9

LEMMA AtomicHere == CardInv => WriteIsAtomic
<1> SUFFICES ASSUME CardInv PROVE WriteIsAtomic
  OBVIOUS
<1>1. Stored(card, sent, before)
  BY DEF CardInv, Progress
<1>2. CASE WriteAsked
  <2>1. Decided(card)
    BY <1>2, WhenAsked
  <2>2. card.data = IF Proper(card, sent)
                    THEN [before EXCEPT ![card.address] = card.buffer]
                    ELSE before
    BY <1>1, <2>1 DEF Stored
  <2> QED BY <1>2, <2>2, WhatWasAsked DEF WriteIsAtomic
<1>3. CASE ~WriteAsked
  <2>1. ~Decided(card)
    BY <1>3, WhenAsked
  <2> QED BY <1>1, <1>3, <2>1 DEF Stored, WriteIsAtomic, ProperWrite
<1> QED BY <1>2, <1>3

LEMMA TruthfulHere == CardInv => ResultIsTruthful
<1> SUFFICES ASSUME CardInv, WriteAsked, Len(got) >= 9 + SectorBytes
    PROVE  got[9 + SectorBytes] =
             Final(IF ProperWrite THEN Good
                   ELSE IF AskedAddress < Sectors THEN BadSum ELSE BadSector)
  BY DEF ResultIsTruthful
<1>1. Decided(card) /\ card.command = CmdWrite
  BY WhenAsked DEF Decided
<1>2. card.result = Outcome(card, sent)
  BY <1>1 DEF CardInv, Progress, Stored
<1>3. got[9 + SectorBytes] = Final(card.result)
  BY <1>1 DEF CardInv, Progress, Answered
<1>4. Outcome(card, sent) =
        IF ProperWrite THEN Good
        ELSE IF AskedAddress < Sectors THEN BadSum ELSE BadSector
  BY WhatWasAsked DEF Outcome
<1> QED BY <1>2, <1>3, <1>4

LEMMA VerifiableHere == CardInv => ReadIsVerifiable
<1> SUFFICES ASSUME CardInv, sent # <<>>, sent[1] = CmdRead,
                    Len(got) = 11 + SectorBytes
    PROVE  LET answer == [i \in 1..SectorBytes |-> got[9 + i].value]
           IN  /\ answer = card.data[AskedAddress]
               /\ got[10 + SectorBytes].value =
                    XorSum(BitXor(sent[4], sent[5]), answer)
  BY DEF ReadIsVerifiable
<1>1. Len(sent) = 11 + SectorBytes
  BY DEF CardInv, Progress, InStep
<1>2. Len(sent) > 5 /\ Len(sent) > 1
  BY <1>1, CardConstants
<1>3. /\ card.address = AskedAddress
      /\ \A x : ChecksumOf(card, x) = XorSum(BitXor(sent[4], sent[5]), x)
  BY <1>2, AddressAsked
<1>4. /\ card.command = CmdRead /\ card.step = 10 + SectorBytes
      /\ card \in CardType
  BY <1>1, <1>2, CommandSent, CardConstants
<1>5. card.address \in Sector
  <2>1. card.step >= 9
    BY <1>4, CardConstants
  <2>2. card.address < Sectors
    BY <1>4, <2>1 DEF CardInv, Progress, Found, ValidAddress
  <2>3. card.address \in Nat
    BY <1>4 DEF CardType
  <2> QED BY <2>2, <2>3, CardConstants DEF Sector
<1>6. card.data[card.address] \in [1..SectorBytes -> Bytes]
  BY <1>4, <1>5 DEF CardType, Images, Data
<1>7. /\ \A i \in 1..SectorBytes : Len(got) >= 9 + i =>
           got[9 + i].value = card.data[card.address][i]
      /\ Len(got) >= 10 + SectorBytes =>
           got[10 + SectorBytes].value =
             ChecksumOf(card, card.data[card.address])
  BY <1>4 DEF CardInv, Progress, Answered
<1>8. [i \in 1..SectorBytes |-> got[9 + i].value] = card.data[card.address]
  <2>1. \A i \in 1..SectorBytes : got[9 + i].value = card.data[card.address][i]
    BY <1>7, CardConstants
  <2> QED BY <1>6, <2>1
<1>9. got[10 + SectorBytes].value =
        XorSum(BitXor(sent[4], sent[5]), card.data[card.address])
  <2>1. Len(got) >= 10 + SectorBytes
    BY CardConstants
  <2> QED BY <1>3, <1>7, <2>1
<1> QED BY <1>3, <1>8, <1>9

\* A sector is written whole or not at all: whatever bytes the guest sends
\* and wherever it breaks off, the image is what it was when the card was
\* selected, or that image with the one sector the guest addressed holding
\* the bytes it sent, and that only after their checksum was found right.
THEOREM SectorsAreWrittenWhole == CardSpec => []WriteIsAtomic
<1>1. CardInv => WriteIsAtomic
  BY AtomicHere
<1> QED BY <1>1, CardProgress, PTL

\* The last byte of a write tells the guest what became of its sector: Good
\* for a sector that was stored, and otherwise which of the two failures.
THEOREM WritesAreReported == CardSpec => []ResultIsTruthful
<1>1. CardInv => ResultIsTruthful
  BY TruthfulHere
<1> QED BY <1>1, CardProgress, PTL

\* A read that was answered to its end handed out the sector the guest
\* addressed, of a card that has one there, and a checksum that fits it.
THEOREM ReadsAreVerifiable == CardSpec => []ReadIsVerifiable
<1>1. CardInv => ReadIsVerifiable
  BY VerifiableHere
<1> QED BY <1>1, CardProgress, PTL

\* The host that saves a card only when it is dirty loses nothing, and a
\* guest that is told the card was not written finds the image inserted.
THEOREM FlagsAreHonest == CardSpec => []FlagsCoverChanges
<1>1. CardInv => FlagsCoverChanges
  BY DEF CardInv, Flags, FlagsCoverChanges
<1> QED BY <1>1, CardProgress, PTL
=============================================================================
