----------------------------- MODULE CdromProofs -----------------------------
(***************************************************************************)
(* Proofs about the CD-ROM controller, for every disc, sector size, Setloc *)
(* position and queue bound: its invariants and action properties, that it *)
(* implements CdromMailbox, and how its interrupt line and I_STAT agree    *)
(* whatever the guest's handler and main program do (CdromIrq).            *)
(***************************************************************************)
EXTENDS CdromIrq, SequenceTheorems, TLAPS

-----------------------------------------------------------------------------
(* The constants, and items of responses.                                  *)

LEMMA ConstantTypes ==
  /\ SectorBytes \in Nat /\ SectorBytes > 0
  /\ LbaMod \in Nat /\ LbaMod > 0
  /\ Pregap \in Nat
  /\ \A n \in DiscSizes : n \in Nat /\ n > 0
  BY CdromAssumption

LEMMA CodesAreBits ==
  /\ Codes \subseteq SUBSET Bits
  /\ {} \notin Codes
  /\ Ack \in Codes /\ Complete \in Codes /\ DataReady \in Codes /\ Error \in Codes
  BY DEF Codes, Bits, Ack, Complete, DataReady, Error

LEMMA StatusIsItem ==
  ASSUME NEW bits \in SUBSET StatusBits
  PROVE  Status(bits) \in Items
  BY DEF Status, Items

LEMMA DriveStatusBits ==
  ASSUME NEW d
  PROVE  /\ DriveStatus(d) \in SUBSET StatusBits
         /\ DriveStatus(d) \union {"error"} \in SUBSET StatusBits
         /\ DriveStatus(d) \union {"seek"} \in SUBSET StatusBits
  BY DEF DriveStatus, StatusBits

LEMMA PositionIsItem ==
  ASSUME NEW lba \in Nat
  PROVE  Position(lba) \in Items
  <1>1. (lba + Pregap) % LbaMod \in 0..LbaMod - 1
    BY ConstantTypes
  <1> QED BY <1>1 DEF Position, Items

-----------------------------------------------------------------------------
(* The interrupt queue.                                                    *)

LEMMA QueueInterruptType ==
  ASSUME NEW d \in Drives, NEW code \in Codes, NEW response \in Seq(Items)
  PROVE  QueueInterrupt(d, code, response) \in Drives
  <1>1. Interrupt(code, response) \in Interrupts
    BY DEF Interrupt, Interrupts
  <1>2. code \in SUBSET Bits
    BY CodesAreBits
  <1>3. CASE d.flags = {}
    BY <1>1, <1>2, <1>3 DEF QueueInterrupt, ActivateInterrupt, Interrupt, Drives
  <1>4. CASE d.flags # {}
    <2>1. Append(d.queued, Interrupt(code, response)) \in Seq(Interrupts)
      BY <1>1 DEF Drives
    <2> QED BY <2>1, <1>4 DEF QueueInterrupt, Drives
  <1> QED BY <1>3, <1>4

LEMMA QueueInterruptEffect ==
  ASSUME NEW d \in Drives, NEW code \in Codes, NEW response \in Seq(Items)
  PROVE  LET r == QueueInterrupt(d, code, response)
         IN  /\ r.flags # {}
             /\ d.flags = {} => r.flags = code /\ r.queued = d.queued
             /\ d.flags # {} => /\ r.flags = d.flags
                                /\ r.queued = Append(d.queued, Interrupt(code, response))
             /\ r.data = d.data /\ r.disc = d.disc /\ r.loc = d.loc
             /\ r.last = d.last /\ r.reading = d.reading
  <1>1. code # {}
    BY CodesAreBits
  <1> QED BY <1>1 DEF QueueInterrupt, ActivateInterrupt, Interrupt, Drives

-----------------------------------------------------------------------------
(* The invariant of a drive, as a predicate of its record.  Delivered and  *)
(* Running are NoStrandedInterrupt and ReadNeverStalls; neither is         *)
(* inductive alone: a pop goes on with the read only if nothing waits in   *)
(* the queue, which Delivered excludes while no code is outstanding.       *)

Delivered(d) == d.flags = {} => d.queued = <<>>

Running(d) == d.reading => d.data # <<>> \/ d.flags # {}

TailOfLast(d) ==
    d.data # <<>> =>
        /\ d.last \in 0..d.disc - 1
        /\ SectorBytes - Len(d.data) >= 0
        /\ \A i \in 1..Len(d.data) :
               d.data[i] = <<d.last, SectorBytes - Len(d.data) + i>>

\* What every method keeps; Running holds again when the method is done.
Stable(d) == d \in Drives /\ Delivered(d) /\ TailOfLast(d)

Good(d) == Stable(d) /\ Running(d)

LEMMA QueueInterruptGood ==
  ASSUME NEW d, Stable(d), NEW code \in Codes, NEW response \in Seq(Items)
  PROVE  Good(QueueInterrupt(d, code, response))
  <1>1. d \in Drives
    BY DEF Stable
  <1>2. QueueInterrupt(d, code, response) \in Drives
    BY <1>1, QueueInterruptType
  <1> QED BY <1>1, <1>2, QueueInterruptEffect
          DEF Good, Stable, Delivered, Running, TailOfLast

LEMMA QueueStatusGood ==
  ASSUME NEW d, Stable(d), NEW code \in Codes
  PROVE  Good(QueueStatus(d, code))
  <1>1. <<Status(DriveStatus(d))>> \in Seq(Items)
    BY DriveStatusBits, StatusIsItem
  <1> QED BY <1>1, QueueInterruptGood DEF QueueStatus

LEMMA ErrorResponseGood ==
  ASSUME NEW d, Stable(d)
  PROVE  Good(ErrorResponse(d))
  <1> DEFINE stopped == [d EXCEPT !.reading = FALSE]
  <1>1. Stable(stopped)
    BY DEF Stable, Drives, Delivered, TailOfLast
  <1>2. [reason |-> "invalid"] \in Items
    BY DEF Items
  <1>3. Status(DriveStatus(stopped) \union {"error"}) \in Items
    BY DriveStatusBits, StatusIsItem
  <1>4. <<Status(DriveStatus(stopped) \union {"error"}), [reason |-> "invalid"]>>
          \in Seq(Items)
    BY <1>2, <1>3
  <1> HIDE DEF stopped
  <1>5. Good(QueueInterrupt(stopped, Error,
             <<Status(DriveStatus(stopped) \union {"error"}), [reason |-> "invalid"]>>))
    BY <1>1, <1>4, QueueInterruptGood, CodesAreBits
  <1> QED BY <1>5 DEF ErrorResponse, stopped

-----------------------------------------------------------------------------
(* Sector delivery.                                                        *)

LEMMA SectorDataIsSector ==
  ASSUME NEW lba \in 0..LbaMod - 1
  PROVE  /\ SectorData(lba) \in Seq((0..LbaMod - 1) \X (1..SectorBytes))
         /\ Len(SectorData(lba)) = SectorBytes
         /\ SectorData(lba) # <<>>
         /\ \A i \in 1..SectorBytes : SectorData(lba)[i] = <<lba, i>>
  BY ConstantTypes DEF SectorData

\* The drive with the sector under its head in the FIFO.
SectorLoaded(d) ==
  [d EXCEPT !.data = SectorData(d.loc),
            !.last = d.loc,
            !.loc  = IF d.loc < LbaMod - 1 THEN d.loc + 1 ELSE d.loc]

LEMMA SectorLoadedStable ==
  ASSUME NEW d, Stable(d), d.loc < d.disc
  PROVE  /\ Stable(SectorLoaded(d))
         /\ SectorLoaded(d).flags = d.flags
         /\ SectorLoaded(d).queued = d.queued
  <1> DEFINE loaded == SectorLoaded(d)
  <1>1. d \in Drives /\ d.loc \in 0..LbaMod - 1
    BY DEF Stable, Drives
  <1>2. (IF d.loc < LbaMod - 1 THEN d.loc + 1 ELSE d.loc) \in 0..LbaMod - 1
    BY <1>1, ConstantTypes
  <1>3. loaded \in Drives
    BY <1>1, <1>2, SectorDataIsSector DEF SectorLoaded, Drives
  <1>4. d.disc \in Nat
    <2>1. d.disc \in DiscSizes \union {0}
      BY <1>1 DEF Drives, NoDisc
    <2> QED BY <2>1, ConstantTypes
  <1>5. TailOfLast(loaded)
    BY <1>1, <1>4, SectorDataIsSector, ConstantTypes
       DEF SectorLoaded, TailOfLast, Drives
  <1>6. loaded.flags = d.flags /\ loaded.queued = d.queued
    BY <1>1 DEF SectorLoaded, Drives
  <1> HIDE DEF loaded
  <1>7. Stable(loaded)
    BY <1>3, <1>5, <1>6 DEF Stable, Delivered
  <1> QED BY <1>6, <1>7 DEF loaded

LEMMA QueueCurrentSectorGood ==
  ASSUME NEW d, Stable(d)
  PROVE  Good(QueueCurrentSector(d))
  <1>1. CASE d.loc < d.disc
    <2>1. Good(QueueStatus(SectorLoaded(d), DataReady))
      BY <1>1, SectorLoadedStable, QueueStatusGood, CodesAreBits
    <2> QED BY <1>1, <2>1 DEF QueueCurrentSector, SectorLoaded
  <1>2. CASE ~(d.loc < d.disc)
    BY <1>2, ErrorResponseGood DEF QueueCurrentSector
  <1> QED BY <1>1, <1>2

LEMMA QueueNextSectorGood ==
  ASSUME NEW d, Stable(d)
  PROVE  Good(QueueNextSectorIfReady(d))
  <1>1. CASE ReadyForSector(d)
    BY <1>1, QueueCurrentSectorGood DEF QueueNextSectorIfReady
  <1>2. CASE ~ReadyForSector(d)
    BY <1>2 DEF QueueNextSectorIfReady, ReadyForSector, Good, Stable, Running,
                Delivered, Drives
  <1> QED BY <1>1, <1>2

\* The drive with the first byte of the FIFO taken.
LEMMA PoppedStable ==
  ASSUME NEW d, Stable(d), d.data # <<>>
  PROVE  Stable([d EXCEPT !.data = Tail(@)])
  <1> DEFINE popped == [d EXCEPT !.data = Tail(@)]
  <1>1. d \in Drives
    BY DEF Stable
  <1>2. /\ Tail(d.data) \in Seq((0..LbaMod - 1) \X (1..SectorBytes))
        /\ Len(Tail(d.data)) = Len(d.data) - 1
        /\ \A i \in 1..Len(d.data) - 1 : Tail(d.data)[i] = d.data[i + 1]
    BY <1>1 DEF Drives
  <1>3. popped \in Drives
    BY <1>1, <1>2 DEF Drives
  <1>4. TailOfLast(popped)
    <2>1. popped.data = Tail(d.data) /\ popped.last = d.last /\ popped.disc = d.disc
      BY <1>1 DEF Drives
    <2>2. Len(d.data) \in Nat
      BY <1>1 DEF Drives
    <2> HIDE DEF popped
    <2> DEFINE left == Len(d.data)
               missing == SectorBytes - left
    <2>3. /\ d.last \in 0..d.disc - 1
          /\ missing >= 0
          /\ \A i \in 1..left : d.data[i] = <<d.last, missing + i>>
      BY DEF TailOfLast, Stable
    <2>1a. Len(popped.data) = left - 1
      BY <1>2, <2>1
    <2>2a. left \in Nat
      BY <2>2
    <2>4. SectorBytes - Len(popped.data) = missing + 1
      <3> HIDE DEF left
      <3> QED BY <2>1a, <2>2a, ConstantTypes
    <2>5. ASSUME NEW i \in 1..Len(popped.data)
          PROVE  popped.data[i] = <<d.last, missing + 1 + i>>
      <3>1. i \in 1..left - 1 /\ i + 1 \in 1..left
        <4> HIDE DEF left
        <4> QED BY <2>1a, <2>2a
      <3>2. popped.data[i] = d.data[i + 1]
        BY <1>2, <2>1, <3>1
      <3>3. missing + (i + 1) = missing + 1 + i
        BY <2>2, ConstantTypes
      <3> QED BY <2>3, <3>1, <3>2, <3>3
    <2>6. SectorBytes - Len(popped.data) >= 0
      <3>1. missing \in Int /\ missing >= 0
        BY <2>3, <2>2a, ConstantTypes
      <3> HIDE DEF missing
      <3> QED BY <2>4, <3>1
    <2> HIDE DEF missing, left
    <2> QED BY <2>1, <2>3, <2>4, <2>5, <2>6 DEF TailOfLast
  <1> QED BY <1>1, <1>3, <1>4 DEF Stable, Delivered, Drives

LEMMA PopDataByteGood ==
  ASSUME NEW d, Stable(d)
  PROVE  Good(PopDataByte(d))
  <1>1. CASE d.data = <<>>
    BY <1>1, QueueNextSectorGood DEF PopDataByte
  <1>2. CASE d.data # <<>>
    BY <1>2, PoppedStable, QueueNextSectorGood DEF PopDataByte
  <1> QED BY <1>1, <1>2

LEMMA AckInterruptGood ==
  ASSUME NEW d, Stable(d), NEW mask \in SUBSET Bits
  PROVE  Good(AckInterrupt(d, mask))
  <1> DEFINE acked == [d EXCEPT !.flags = @ \ mask]
             next == [acked EXCEPT !.queued = Tail(@)]
  <1>1. d \in Drives /\ d.flags \in SUBSET Bits /\ d.queued \in Seq(Interrupts)
    BY DEF Stable, Drives
  <1>2. acked \in Drives /\ acked.queued = d.queued /\ acked.flags = d.flags \ mask
    BY <1>1 DEF Drives
  <1>3. TailOfLast(acked)
    BY <1>1 DEF TailOfLast, Stable, Drives
  <1>4. CASE acked.flags # {}
    <2>1. Good(acked)
      BY <1>2, <1>3, <1>4 DEF Good, Stable, Running, Delivered
    <2> QED BY <1>4, <2>1 DEF AckInterrupt
  <1>5. CASE acked.flags = {} /\ acked.queued # <<>>
    <2>1. /\ Head(d.queued) \in Interrupts
          /\ Tail(d.queued) \in Seq(Interrupts)
      BY <1>1, <1>2, <1>5
    <2>2. next \in Drives
      BY <1>2, <2>1 DEF Drives
    <2>3. TailOfLast(next)
      BY <1>1, <1>2, <1>3 DEF TailOfLast, Drives
    <2>4. Head(d.queued).code \in Codes /\ Head(d.queued).response \in Seq(Items)
      BY <2>1 DEF Interrupts
    <2> DEFINE r == ActivateInterrupt(next, Head(d.queued))
    <2>5. r \in Drives
      BY <2>2, <2>4, CodesAreBits DEF ActivateInterrupt, Drives
    <2>6. r.flags # {} /\ r.data = next.data /\ r.last = next.last /\ r.disc = next.disc
      BY <2>2, <2>4, CodesAreBits DEF ActivateInterrupt, Drives
    <2>7. TailOfLast(r)
      BY <2>3, <2>6 DEF TailOfLast
    <2> HIDE DEF r
    <2>8. Good(r)
      BY <2>5, <2>6, <2>7 DEF Good, Stable, Delivered, Running
    <2> QED BY <1>2, <1>5, <2>8 DEF AckInterrupt, r
  <1>6. CASE acked.flags = {} /\ acked.queued = <<>>
    <2>1. Stable(acked)
      BY <1>2, <1>3, <1>6 DEF Stable, Delivered
    <2> HIDE DEF acked
    <2> QED BY <1>6, <2>1, QueueNextSectorGood DEF AckInterrupt, acked
  <1> QED BY <1>4, <1>5, <1>6

-----------------------------------------------------------------------------
(* Commands.                                                               *)

LEMMA AckThenCompleteGood ==
  ASSUME NEW d, Stable(d)
  PROVE  Good(AckThenComplete(d))
  <1>1. Stable(QueueStatus(d, Ack))
    BY QueueStatusGood, CodesAreBits DEF Good
  <1> QED BY <1>1, QueueStatusGood, CodesAreBits DEF AckThenComplete

LEMMA AckWithGood ==
  ASSUME NEW d, Stable(d), NEW item \in Items
  PROVE  Good(AckWith(d, item))
  <1>1. <<Status(DriveStatus(d)), item>> \in Seq(Items)
    BY DriveStatusBits, StatusIsItem
  <1> QED BY <1>1, QueueInterruptGood, CodesAreBits DEF AckWith

\* What a command changes before it posts its reply leaves the drive stable.
LEMMA StopsStable ==
  ASSUME NEW d, Stable(d), NEW muted \in BOOLEAN
  PROVE  /\ Stable([d EXCEPT !.reading = TRUE])
         /\ Stable([d EXCEPT !.reading = FALSE])
         /\ Stable([d EXCEPT !.reading = FALSE, !.data = <<>>])
         /\ Stable([d EXCEPT !.mode = 0, !.reading = FALSE, !.data = <<>>])
         /\ Stable([d EXCEPT !.muted = muted])
  <1>1. d \in Drives /\ Delivered(d) /\ TailOfLast(d)
    BY DEF Stable
  <1>2. <<>> \in Seq((0..LbaMod - 1) \X (1..SectorBytes))
    OBVIOUS
  <1>3. Stable([d EXCEPT !.reading = TRUE])
    BY <1>1 DEF Stable, Drives, Delivered, TailOfLast
  <1>4. Stable([d EXCEPT !.reading = FALSE])
    BY <1>1 DEF Stable, Drives, Delivered, TailOfLast
  <1>5. Stable([d EXCEPT !.reading = FALSE, !.data = <<>>])
    BY <1>1, <1>2 DEF Stable, Drives, Delivered, TailOfLast
  <1>6. Stable([d EXCEPT !.mode = 0, !.reading = FALSE, !.data = <<>>])
    BY <1>1, <1>2 DEF Stable, Drives, Delivered, TailOfLast
  <1>7. Stable([d EXCEPT !.muted = muted])
    BY <1>1 DEF Stable, Drives, Delivered, TailOfLast
  <1> QED BY <1>3, <1>4, <1>5, <1>6, <1>7

LEMMA SeekGood ==
  ASSUME NEW d, Stable(d)
  PROVE  Good(Seek(d))
  <1> DEFINE stopped == [d EXCEPT !.reading = FALSE, !.data = <<>>]
             response == <<Status(DriveStatus(stopped) \union {"seek"})>>
  <1>1. Stable(stopped)
    BY StopsStable
  <1>2. response \in Seq(Items)
    BY DriveStatusBits, StatusIsItem
  <1> HIDE DEF stopped, response
  <1>3. Stable(QueueInterrupt(stopped, Ack, response))
    BY <1>1, <1>2, QueueInterruptGood, CodesAreBits DEF Good
  <1>4. Good(QueueStatus(QueueInterrupt(stopped, Ack, response), Complete))
    BY <1>3, QueueStatusGood, CodesAreBits
  <1> QED BY <1>4, ErrorResponseGood DEF Seek, NeedsDisc, stopped, response

LEMMA GetidGood ==
  ASSUME NEW d, Stable(d)
  PROVE  Good(Getid(d))
  <1> DEFINE response == <<Status(DriveStatus(d)), [id |-> "SCEA"]>>
  <1>1. Status(DriveStatus(d)) \in Items /\ [id |-> "SCEA"] \in Items
    BY DriveStatusBits, StatusIsItem DEF Items
  <1>2. response \in Seq(Items)
    BY <1>1
  <1> HIDE DEF response
  <1>3. Stable(QueueStatus(d, Ack))
    BY QueueStatusGood, CodesAreBits DEF Good
  <1>4. Good(QueueInterrupt(QueueStatus(d, Ack), Complete, response))
    BY <1>2, <1>3, QueueInterruptGood, CodesAreBits
  <1> QED BY <1>4, ErrorResponseGood DEF Getid, NeedsDisc, response

LEMMA GetlocGood ==
  ASSUME NEW d, Stable(d)
  PROVE  Good(Getloc(d))
  <1>1. \A lba \in Nat : Good(QueueInterrupt(d, Ack, <<Position(lba)>>))
    <2> TAKE lba \in Nat
    <2>1. <<Position(lba)>> \in Seq(Items)
      BY PositionIsItem
    <2> QED BY <2>1, QueueInterruptGood, CodesAreBits
  <1>2. (IF d.last = None THEN d.loc ELSE d.last) \in Nat
    BY ConstantTypes DEF Stable, Drives
  <1> QED BY <1>1, <1>2 DEF Getloc

LEMMA GettdGood ==
  ASSUME NEW d, Stable(d), NEW track \in 0..2
  PROVE  Good(Gettd(d, track))
  <1>1. d.disc \in Nat
    <2>1. d.disc \in DiscSizes \union {0}
      BY DEF Stable, Drives, NoDisc
    <2> QED BY <2>1, ConstantTypes
  <1>2. Good(AckWith(d, Position(d.disc))) /\ Good(AckWith(d, Position(0)))
    BY <1>1, PositionIsItem, AckWithGood
  <1> QED BY <1>2, ErrorResponseGood DEF Gettd, NeedsDisc

LEMMA StartReadGood ==
  ASSUME NEW d, Stable(d)
  PROVE  Good(StartRead(d))
  <1>1. Stable(QueueStatus([d EXCEPT !.reading = TRUE], Ack))
    BY StopsStable, QueueStatusGood, CodesAreBits DEF Good
  <1> QED BY <1>1, QueueCurrentSectorGood, ErrorResponseGood DEF StartRead, NeedsDisc

LEMMA SetlocGood ==
  ASSUME NEW d, Stable(d), NEW position \in Positions
  PROVE  Good(Setloc(d, position))
  <1>1. (position - Pregap) % LbaMod \in 0..LbaMod - 1
    BY CdromAssumption, ConstantTypes
  <1>2. Stable([d EXCEPT !.loc = (position - Pregap) % LbaMod])
    BY <1>1 DEF Stable, Drives, Delivered, TailOfLast
  <1> QED BY <1>2, QueueStatusGood, ErrorResponseGood, CodesAreBits
          DEF Setloc, NeedsParams

LEMMA SetfilterGood ==
  ASSUME NEW d, Stable(d), NEW filter \in Filters
  PROVE  Good(Setfilter(d, filter))
  <1>1. Stable([d EXCEPT !.filter = filter])
    BY DEF Stable, Drives, Delivered, TailOfLast
  <1> QED BY <1>1, QueueStatusGood, ErrorResponseGood, CodesAreBits
          DEF Setfilter, NeedsParams

LEMMA SetmodeGood ==
  ASSUME NEW d, Stable(d), NEW mode \in Modes
  PROVE  Good(Setmode(d, mode))
  <1>1. Stable([d EXCEPT !.mode = mode])
    BY DEF Stable, Drives, Delivered, TailOfLast
  <1> QED BY <1>1, QueueStatusGood, ErrorResponseGood, CodesAreBits
          DEF Setmode, NeedsParams

LEMMA EffectGood ==
  ASSUME NEW d, Stable(d), NEW command, NEW r \in Effect(d, command)
  PROVE  Good(r)
  <1>1. /\ Good(QueueStatus(d, Ack))
        /\ Good(QueueStatus([d EXCEPT !.muted = TRUE], Ack))
        /\ Good(QueueStatus([d EXCEPT !.muted = FALSE], Ack))
    BY StopsStable, QueueStatusGood, CodesAreBits
  <1>2. /\ Good(AckThenComplete(d)) /\ Good(Stop(d)) /\ Good(Pause(d))
    BY StopsStable, AckThenCompleteGood DEF Stop, Pause
  <1>3. Good(InitDrive(d))
    BY StopsStable, QueueStatusGood, CodesAreBits DEF InitDrive
  <1>4. [settings |-> <<d.mode, d.filter, d.muted>>] \in Items
    BY DEF Items, Stable, Drives
  <1>5. [tracks |-> <<1, 1>>] \in Items /\ [version |-> 0] \in Items
    BY DEF Items
  <1>6. /\ Good(AckWith(d, [settings |-> <<d.mode, d.filter, d.muted>>]))
        /\ Good(AckWith(d, [version |-> 0]))
        /\ Good(NeedsDisc(d, AckWith(d, [tracks |-> <<1, 1>>])))
        /\ Good(NeedsDisc(d, AckThenComplete(d)))
    BY <1>4, <1>5, AckWithGood, AckThenCompleteGood, ErrorResponseGood DEF NeedsDisc
  <1>7. CASE command \in {"Nop", "Read", "MotorOn", "Stop", "Pause"}
    BY <1>1, <1>2, <1>7, StartReadGood, AckThenCompleteGood DEF Effect
  <1>8. CASE command \in {"Init", "Mute", "Demute", "Getparam"}
    BY <1>1, <1>3, <1>6, <1>8 DEF Effect
  <1>12. CASE command = "Setloc"
    <2>1. PICK position \in Positions : r = Setloc(d, position)
      BY <1>12 DEF Effect
    <2> QED BY <2>1, SetlocGood
  <1>13. CASE command = "Setfilter"
    <2>1. PICK filter \in Filters : r = Setfilter(d, filter)
      BY <1>13 DEF Effect
    <2> QED BY <2>1, SetfilterGood
  <1>14. CASE command = "Setmode"
    <2>1. PICK mode \in Modes : r = Setmode(d, mode)
      BY <1>14 DEF Effect
    <2> QED BY <2>1, SetmodeGood
  <1>9. CASE command = "GetTD"
    BY <1>9, GettdGood DEF Effect
  <1>10. CASE command \in {"Getloc", "GetTN", "Seek", "Test", "GetID", "ReadTOC"}
    BY <1>6, <1>10, GetlocGood, SeekGood, GetidGood DEF Effect
  <1>11. CASE command \notin {"Nop", "Setloc", "Read", "MotorOn", "Stop", "Pause",
                              "Init", "Mute", "Demute", "Setfilter", "Setmode",
                              "Getparam", "Getloc", "GetTN", "GetTD", "Seek",
                              "Test", "GetID", "ReadTOC"}
    BY <1>11, ErrorResponseGood DEF Effect
  <1> QED BY <1>7, <1>8, <1>9, <1>10, <1>11, <1>12, <1>13, <1>14

-----------------------------------------------------------------------------
(* The invariant of the specification.                                     *)

CdromInv == TypeOK /\ Good(drive)

LEMMA InitInv == Init => CdromInv
  <1>1. NewDrive \in Drives
    BY ConstantTypes DEF NewDrive, Drives, None, NoDisc
  <1>2. NewDrive.data = <<>> /\ NewDrive.queued = <<>> /\ NewDrive.reading = FALSE
    BY DEF NewDrive
  <1>3. Good(NewDrive)
    BY <1>1, <1>2 DEF Good, Stable, Delivered, Running, TailOfLast
  <1> QED BY <1>1, <1>3, CdromAssumption DEF Init, CdromInv, TypeOK, Bits

LEMMA NextInv == CdromInv /\ [Next]_vars => CdromInv'
  <1> SUFFICES ASSUME CdromInv, [Next]_vars
               PROVE  CdromInv'
    OBVIOUS
  <1>1. /\ Stable(drive) /\ Good(drive) /\ drive \in Drives
        /\ index \in 0..3 /\ params \in 0..MaxParams /\ enable \in SUBSET Bits
    BY DEF CdromInv, Good, Stable, TypeOK
  <1>2. MaxParams \in Nat
    BY CdromAssumption
  <1>3. SUFFICES /\ Good(drive')
                 /\ index' \in 0..3
                 /\ params' \in 0..MaxParams
                 /\ enable' \in SUBSET Bits
    BY DEF CdromInv, TypeOK, Good, Stable, Delivered, Running, TailOfLast
  <1>4. ASSUME NEW i \in 0..3, SelectIndex(i)
        PROVE  <1>3!1
    BY <1>1, <1>4 DEF SelectIndex
  <1>5. ASSUME NEW c \in Commands, Command(c)
        PROVE  <1>3!1
    BY <1>1, <1>2, <1>5, EffectGood DEF Command
  <1>6. CASE PushParam
    BY <1>1, <1>2, <1>6 DEF PushParam
  <1>7. ASSUME NEW bits \in EnableMasks, WriteEnable(bits)
        PROVE  <1>3!1
    <2>1. bits \in SUBSET Bits
      BY CdromAssumption DEF Bits
    <2> QED BY <1>1, <1>7, <2>1 DEF WriteEnable
  <1>8. ASSUME NEW mask \in SUBSET Bits, WriteAck(mask)
        PROVE  <1>3!1
    BY <1>1, <1>8, AckInterruptGood DEF WriteAck
  <1>9. CASE ReadResponse
    <2> DEFINE r == [drive EXCEPT !.responses = Tail(@)]
    <2>1. Tail(drive.responses) \in Seq(Items)
      BY <1>1, <1>9 DEF ReadResponse, Drives
    <2>2. r \in Drives
      BY <1>1, <2>1 DEF Drives
    <2>3. Good(r)
      BY <1>1, <2>2 DEF Good, Stable, Delivered, Running, TailOfLast, Drives
    <2> QED BY <1>1, <1>9, <2>3 DEF ReadResponse
  <1>10. CASE ReadData
    BY <1>1, <1>10, PopDataByteGood DEF ReadData
  <1>11. CASE DmaRead32
    <2>1. \A d : Stable(d) => Stable(PopDataByte(d)) /\ Good(PopDataByte(d))
      BY PopDataByteGood DEF Good
    <2> QED BY <1>1, <1>11, <2>1 DEF DmaRead32
  <1>a. /\ drive \in Drives
         /\ <<>> \in Seq((0..LbaMod - 1) \X (1..SectorBytes))
         /\ None \in (0..LbaMod - 1) \union {None}
         /\ NoDisc \in DiscSizes \union {NoDisc}
    BY <1>1
  <1>12. ASSUME NEW n \in DiscSizes, LoadDiscImage(n)
         PROVE  <1>3!1
    <2> DEFINE r == [drive EXCEPT !.disc = n, !.loc = 0, !.reading = FALSE,
                                  !.last = None, !.data = <<>>]
    <2>5. 0 \in 0..LbaMod - 1 /\ n \in DiscSizes \union {NoDisc}
      BY ConstantTypes
    <2>1. r \in Drives
      BY <1>a, <2>5 DEF Drives
    <2>2. /\ r.data = <<>> /\ r.reading = FALSE
          /\ r.flags = drive.flags /\ r.queued = drive.queued
      BY <1>1 DEF Drives
    <2>3. Delivered(drive)
      BY <1>1 DEF Stable
    <2> HIDE DEF r
    <2>4. Good(r)
      BY <2>1, <2>2, <2>3 DEF Good, Stable, Delivered, Running, TailOfLast
    <2> QED BY <1>1, <1>12, <2>4 DEF LoadDiscImage, r
  <1>13. CASE EjectDisc
    <2> DEFINE r == [drive EXCEPT !.disc = NoDisc, !.reading = FALSE,
                                  !.last = None, !.data = <<>>]
    <2>1. r \in Drives
      BY <1>a DEF Drives
    <2>2. /\ r.data = <<>> /\ r.reading = FALSE
          /\ r.flags = drive.flags /\ r.queued = drive.queued
      BY <1>1 DEF Drives
    <2>3. Delivered(drive)
      BY <1>1 DEF Stable
    <2> HIDE DEF r
    <2>4. Good(r)
      BY <2>1, <2>2, <2>3 DEF Good, Stable, Delivered, Running, TailOfLast
    <2> QED BY <1>1, <1>13, <2>4 DEF EjectDisc, r
  <1>14. CASE UNCHANGED vars
    BY <1>1, <1>14 DEF vars
  <1> QED BY <1>4, <1>5, <1>6, <1>7, <1>8, <1>9, <1>10, <1>11, <1>12, <1>13, <1>14 DEF Next

\* The strengthened invariant of the controller holds in every state.
THEOREM InvCorrect == Spec => []CdromInv
  BY InitInv, NextInv, PTL DEF Spec

\* Every reachable state of the controller is well typed: in particular the
\* positions stay in 32 bits whatever Setloc names.
THEOREM TypeCorrect == Spec => []TypeOK
  <1>1. CdromInv => TypeOK
    BY DEF CdromInv
  <1> QED BY <1>1, InvCorrect, PTL

\* No interrupt is ever stranded behind a clear flag register.
THEOREM NothingStranded == Spec => []NoStrandedInterrupt
  <1>1. CdromInv => NoStrandedInterrupt
    BY DEF CdromInv, Good, Stable, Delivered, NoStrandedInterrupt
  <1> QED BY <1>1, InvCorrect, PTL

\* A read always has data for the guest or an interrupt to acknowledge.
THEOREM ReadsNeverStall == Spec => []ReadNeverStalls
  <1>1. CdromInv => ReadNeverStalls
    BY DEF CdromInv, Good, Running, ReadNeverStalls
  <1> QED BY <1>1, InvCorrect, PTL

\* The data FIFO never mixes sectors and never outlives its disc.
THEOREM DataIsSound == Spec => []DataIsTailOfLastSector
  <1>1. CdromInv => DataIsTailOfLastSector
    BY DEF CdromInv, Good, Stable, TailOfLast, DataIsTailOfLastSector
  <1> QED BY <1>1, InvCorrect, PTL

-----------------------------------------------------------------------------
(* What one access may never do.  RaisedIn is Raised of a drive; Quiet is  *)
(* an access that neither loads a sector nor ends a read, and Tells one    *)
(* that reports it if it does.                                             *)

RaisedIn(r, code) ==
    \/ r.flags = code
    \/ r.queued # <<>> /\ r.queued[Len(r.queued)].code = code

Quiet(d, r) == r.last = d.last /\ r.reading = d.reading

Tells(d, r) ==
    /\ r.last # d.last => RaisedIn(r, DataReady)
    /\ d.reading /\ ~r.reading => RaisedIn(r, Error)

LEMMA QueueInterruptRaises ==
  ASSUME NEW d \in Drives, NEW code, NEW response
  PROVE  LET r == QueueInterrupt(d, code, response)
         IN  /\ RaisedIn(r, code) /\ Quiet(d, r)
             /\ r.data = d.data
             /\ code # {} => r.flags # {}
  <1> DEFINE i == Interrupt(code, response)
             r == QueueInterrupt(d, code, response)
  <1>1. i.code = code
    BY DEF Interrupt
  <1>2. CASE d.flags = {}
    BY <1>2 DEF QueueInterrupt, ActivateInterrupt, Interrupt, RaisedIn, Quiet, Drives
  <1>3. CASE d.flags # {}
    <2>1. r = [d EXCEPT !.queued = Append(@, i)]
      BY <1>3 DEF QueueInterrupt
    <2>2. d.queued \in Seq(Interrupts)
      BY DEF Drives
    <2> DEFINE q == Append(d.queued, i)
    <2>3. q # <<>> /\ q[Len(q)] = i
      BY <2>2
    <2>4. r.queued = q /\ r.last = d.last /\ r.reading = d.reading
          /\ r.data = d.data /\ r.flags = d.flags
      BY <2>1 DEF Drives
    <2> HIDE DEF i, r, q
    <2>5. RaisedIn(r, code) /\ Quiet(d, r) /\ r.data = d.data /\ r.flags # {}
      BY <1>1, <1>3, <2>3, <2>4 DEF RaisedIn, Quiet
    <2> QED BY <2>5 DEF r
  <1> QED BY <1>2, <1>3

LEMMA QueueStatusRaises ==
  ASSUME NEW d \in Drives, NEW code
  PROVE  LET r == QueueStatus(d, code)
         IN  /\ RaisedIn(r, code) /\ Quiet(d, r) /\ r.data = d.data
             /\ code # {} => r.flags # {}
  BY QueueInterruptRaises DEF QueueStatus

LEMMA ErrorResponseTells ==
  ASSUME NEW d \in Drives
  PROVE  LET r == ErrorResponse(d)
         IN  /\ Tells(d, r) /\ r.flags # {} /\ r.data = d.data
  <1> DEFINE stopped == [d EXCEPT !.reading = FALSE]
             response == <<Status(DriveStatus(stopped) \union {"error"}),
                           [reason |-> "invalid"]>>
             r == QueueInterrupt(stopped, Error, response)
  <1>1. stopped \in Drives
    BY DEF Drives
  <1>2. stopped.last = d.last /\ stopped.data = d.data
    BY DEF Drives
  <1>3. ErrorResponse(d) = r
    BY DEF ErrorResponse
  <1> HIDE DEF stopped, response
  <1>4. RaisedIn(r, Error) /\ Quiet(stopped, r) /\ r.data = stopped.data /\ r.flags # {}
    BY <1>1, QueueInterruptRaises DEF Error
  <1> HIDE DEF r
  <1> QED BY <1>2, <1>3, <1>4 DEF Tells, Quiet

LEMMA QueueCurrentSectorTells ==
  ASSUME NEW d, Stable(d)
  PROVE  LET r == QueueCurrentSector(d)
         IN  Tells(d, r) /\ r.flags # {}
  <1>1. CASE d.loc < d.disc
    <2> DEFINE loaded == SectorLoaded(d)
               r == QueueStatus(loaded, DataReady)
    <2>1. loaded \in Drives
      BY <1>1, SectorLoadedStable DEF Stable
    <2>2. loaded.reading = d.reading
      BY DEF SectorLoaded, Stable, Drives
    <2>3. QueueCurrentSector(d) = r
      BY <1>1 DEF QueueCurrentSector, SectorLoaded
    <2> HIDE DEF loaded
    <2>4. RaisedIn(r, DataReady) /\ Quiet(loaded, r) /\ r.flags # {}
      BY <2>1, QueueStatusRaises DEF DataReady
    <2> HIDE DEF r
    <2> QED BY <2>2, <2>3, <2>4 DEF Tells, Quiet
  <1>2. CASE ~(d.loc < d.disc)
    BY <1>2, ErrorResponseTells DEF QueueCurrentSector, Stable
  <1> QED BY <1>1, <1>2

LEMMA QueueNextSectorTells ==
  ASSUME NEW d, Stable(d)
  PROVE  LET r == QueueNextSectorIfReady(d)
         IN  /\ r = d \/ (Tells(d, r) /\ r.flags # {})
             /\ d.data # <<>> \/ d.flags # {} => r = d
  BY QueueCurrentSectorTells DEF QueueNextSectorIfReady, ReadyForSector

LEMMA TailOfLonger ==
  ASSUME NEW S, NEW s \in Seq(S), Len(s) > 1
  PROVE  s # <<>> /\ Tail(s) # <<>>
  <1>1. s # <<>> /\ Len(s) \in Nat
    OBVIOUS
  <1>2. Tail(s) \in Seq(S) /\ Len(Tail(s)) = Len(s) - 1
    BY <1>1, HeadTailProperties
  <1>3. Len(Tail(s)) # 0
    BY <1>1, <1>2
  <1>4. Tail(s) # <<>>
    <2> DEFINE t == Tail(s)
    <2> HIDE DEF t
    <2>1. t # <<>>
      BY <1>2, <1>3 DEF t
    <2> QED BY <2>1 DEF t
  <1> QED BY <1>1, <1>4

\* One byte taken: where an interrupt is outstanding nothing else happens,
\* and where bytes are left they stay.
LEMMA PopTells ==
  ASSUME NEW d, Stable(d)
  PROVE  LET r == PopDataByte(d)
         IN  /\ Tells(d, r)
             /\ Quiet(d, r) \/ r.flags # {}
             /\ d.flags # {} => r.flags = d.flags /\ r.queued = d.queued /\ Quiet(d, r)
             /\ Len(d.data) > 1 => r.data = Tail(d.data)
  <1> DEFINE popped == IF d.data = <<>> THEN d ELSE [d EXCEPT !.data = Tail(@)]
             r == QueueNextSectorIfReady(popped)
  <1>1. Stable(popped)
    BY PoppedStable
  <1>2. /\ popped.flags = d.flags /\ popped.queued = d.queued
        /\ popped.last = d.last /\ popped.reading = d.reading
    BY DEF Stable, Drives
  <1>3. d.data \in Seq((0..LbaMod - 1) \X (1..SectorBytes))
    BY DEF Stable, Drives
  <1>4. Len(d.data) > 1 => popped.data = Tail(d.data) /\ popped.data # <<>>
    <2>1. SUFFICES ASSUME Len(d.data) > 1
                   PROVE  popped.data = Tail(d.data) /\ popped.data # <<>>
      OBVIOUS
    <2>2. d.data # <<>> /\ Tail(d.data) # <<>>
      BY <1>3, <2>1, TailOfLonger
    <2>3. popped.data = Tail(d.data)
      BY <2>2 DEF Stable, Drives
    <2> QED BY <2>2, <2>3
  <1>5. PopDataByte(d) = r
    BY DEF PopDataByte
  <1> HIDE DEF popped
  <1>6. /\ r = popped \/ (Tells(popped, r) /\ r.flags # {})
        /\ popped.data # <<>> \/ popped.flags # {} => r = popped
    BY <1>1, QueueNextSectorTells
  <1> HIDE DEF r
  <1>7. Tells(d, r) /\ (Quiet(d, r) \/ r.flags # {})
    BY <1>2, <1>6 DEF Tells, Quiet
  <1>8. d.flags # {} => r.flags = d.flags /\ r.queued = d.queued /\ Quiet(d, r)
    BY <1>2, <1>6 DEF Quiet
  <1>9. Len(d.data) > 1 => r.data = Tail(d.data)
    BY <1>4, <1>6
  <1> QED BY <1>5, <1>7, <1>8, <1>9

\* Of the pops of one access at most one reports anything.
LEMMA PopAgain ==
  ASSUME NEW d, NEW e, Stable(e), Tells(d, e), Quiet(d, e) \/ e.flags # {}
  PROVE  /\ Stable(PopDataByte(e))
         /\ Tells(d, PopDataByte(e))
         /\ Quiet(d, PopDataByte(e)) \/ PopDataByte(e).flags # {}
  <1> DEFINE r == PopDataByte(e)
  <1>1. /\ Tells(e, r)
        /\ Quiet(e, r) \/ r.flags # {}
        /\ e.flags # {} => r.flags = e.flags /\ r.queued = e.queued /\ Quiet(e, r)
    BY PopTells
  <1>2. Stable(r)
    BY PopDataByteGood DEF Good
  <1> HIDE DEF r
  <1>3. ASSUME e.flags # {}
        PROVE  Tells(d, r) /\ r.flags # {}
    BY <1>1, <1>3 DEF Tells, Quiet, RaisedIn
  <1>4. ASSUME Quiet(d, e)
        PROVE  Tells(d, r) /\ (Quiet(d, r) \/ r.flags # {})
    BY <1>1, <1>4 DEF Tells, Quiet
  <1> QED BY <1>2, <1>3, <1>4 DEF r

LEMMA TailOfRest ==
  ASSUME NEW S, NEW s \in Seq(S), NEW m \in 1..Len(s)
  PROVE  /\ Tail(SubSeq(s, m, Len(s))) = SubSeq(s, m + 1, Len(s))
         /\ Len(SubSeq(s, m, Len(s))) = Len(s) - m + 1
  <1>1. Len(s) \in Nat /\ Len(s) \in m..Len(s) /\ m \in Int /\ m <= Len(s)
    OBVIOUS
  <1>2. \A i \in m..Len(s) : s[i] \in S
    OBVIOUS
  <1> QED BY <1>1, <1>2, HeadTailOfSubSeq, SubSeqProperties

LEMMA FourTails ==
  ASSUME NEW S, NEW s \in Seq(S), Len(s) > 4
  PROVE  /\ Len(Tail(s)) > 1 /\ Len(Tail(Tail(s))) > 1 /\ Len(Tail(Tail(Tail(s)))) > 1
         /\ Tail(Tail(Tail(Tail(s)))) = SubSeq(s, 5, Len(s))
  <1> DEFINE rest(m) == SubSeq(s, m, Len(s))
  <1>1. Len(s) \in Nat /\ rest(1) = s
    BY SubSeqFull
  <1>2. \A m \in 1..Len(s) : Tail(rest(m)) = rest(m + 1) /\ Len(rest(m)) = Len(s) - m + 1
    BY TailOfRest
  <1> HIDE DEF rest
  <1>3. /\ Tail(rest(1)) = rest(2) /\ Tail(rest(2)) = rest(3)
        /\ Tail(rest(3)) = rest(4) /\ Tail(rest(4)) = rest(5)
        /\ Len(rest(2)) > 1 /\ Len(rest(3)) > 1 /\ Len(rest(4)) > 1
    BY <1>1, <1>2
  <1> QED BY <1>1, <1>3 DEF rest

\* The FIFO after the four pops of DMA, when it held more.
LEMMA DmaTails ==
  ASSUME NEW d, Stable(d), Len(d.data) > 4
  PROVE  PopDataByte(PopDataByte(PopDataByte(PopDataByte(d)))).data
           = SubSeq(d.data, 5, Len(d.data))
  <1> DEFINE p == PopDataByte(d)
             q == PopDataByte(p)
             r == PopDataByte(q)
  <1>1. d.data \in Seq((0..LbaMod - 1) \X (1..SectorBytes))
    BY DEF Stable, Drives
  <1>2. Stable(p) /\ Stable(q) /\ Stable(r)
    BY PopDataByteGood DEF Good
  <1>3. p.data = Tail(d.data)
    <2>1. Len(d.data) > 1
      BY <1>1
    <2> QED BY <2>1, PopTells
  <1> HIDE DEF p, q, r
  <1> DEFINE s == d.data
  <1>4. /\ Len(Tail(s)) > 1 /\ Len(Tail(Tail(s))) > 1 /\ Len(Tail(Tail(Tail(s)))) > 1
        /\ Tail(Tail(Tail(Tail(s)))) = SubSeq(s, 5, Len(s))
    BY <1>1, FourTails
  <1>5. \A e : Stable(e) /\ Len(e.data) > 1 => PopDataByte(e).data = Tail(e.data)
    BY PopTells
  <1> HIDE DEF s
  <1>6. q.data = Tail(Tail(s))
    BY <1>2, <1>3, <1>4, <1>5 DEF q, s
  <1>7. r.data = Tail(Tail(Tail(s)))
    BY <1>2, <1>4, <1>5, <1>6 DEF r
  <1>8. PopDataByte(r).data = Tail(Tail(Tail(Tail(s))))
    BY <1>2, <1>4, <1>5, <1>7
  <1> QED BY <1>4, <1>8 DEF p, q, r, s

LEMMA AckInterruptTells ==
  ASSUME NEW d, Stable(d), NEW mask \in SUBSET Bits
  PROVE  /\ Tells(d, AckInterrupt(d, mask))
         /\ d.data = <<>> \/ AckInterrupt(d, mask).data = d.data
  <1> DEFINE acked == [d EXCEPT !.flags = @ \ mask]
             r == AckInterrupt(d, mask)
  <1>1. /\ acked \in Drives /\ acked.flags = d.flags \ mask
        /\ acked.queued = d.queued /\ acked.data = d.data
        /\ acked.last = d.last /\ acked.reading = d.reading
    BY DEF Stable, Drives
  <1>2. CASE acked.flags # {}
    BY <1>1, <1>2 DEF AckInterrupt, Tells
  <1>3. CASE acked.flags = {} /\ acked.queued # <<>>
    <2>1. r = ActivateInterrupt([acked EXCEPT !.queued = Tail(@)], Head(acked.queued))
      BY <1>3 DEF AckInterrupt
    <2>2. r.last = acked.last /\ r.reading = acked.reading /\ r.data = acked.data
      <3> HIDE DEF acked, r
      <3> QED BY <1>1, <2>1 DEF ActivateInterrupt, Drives
    <2> QED BY <1>1, <2>2 DEF Tells
  <1>4. CASE acked.flags = {} /\ acked.queued = <<>>
    <2>1. Stable(acked)
      BY <1>1, <1>4 DEF Stable, Delivered, TailOfLast
    <2>2. r = QueueNextSectorIfReady(acked)
      BY <1>4 DEF AckInterrupt
    <2> HIDE DEF acked, r
    <2>3. /\ r = acked \/ Tells(acked, r)
          /\ acked.data # <<>> => r = acked
      BY <2>1, <2>2, QueueNextSectorTells
    <2>4. Tells(d, r) /\ (d.data = <<>> \/ r.data = d.data)
      BY <1>1, <2>3 DEF Tells
    <2> QED BY <2>4 DEF r
  <1> QED BY <1>2, <1>3, <1>4

\* Commands other than StopCommands end no read without the error.
LEMMA EffectTells ==
  ASSUME NEW d, Stable(d), NEW command, NEW r \in Effect(d, command),
         command \notin StopCommands
  PROVE  Tells(d, r)
  <1>1. d \in Drives
    BY DEF Stable
  <1>2. \A e \in Drives : \A code, response :
            Quiet(d, e) => Quiet(d, QueueInterrupt(e, code, response))
    BY QueueInterruptRaises DEF Quiet
  <1>3. \A e \in Drives : \A code : Quiet(d, e) => Quiet(d, QueueStatus(e, code))
    BY QueueStatusRaises DEF Quiet
  <1>4. \A e : Quiet(d, e) => Tells(d, e)
    BY DEF Quiet, Tells
  <1>5. Quiet(d, d)
    BY DEF Quiet
  <1>6. Tells(d, ErrorResponse(d))
    BY <1>1, ErrorResponseTells
  <1>7. \A code : Tells(d, QueueStatus(d, code))
    BY <1>1, <1>3, <1>4, <1>5
  <1>8. \A item : Tells(d, AckWith(d, item))
    BY <1>1, <1>2, <1>4, <1>5 DEF AckWith
  <1>9. QueueStatus(d, Ack) \in Drives
    BY QueueStatusGood, CodesAreBits DEF Good, Stable
  <1>10. Tells(d, AckThenComplete(d))
    BY <1>1, <1>3, <1>4, <1>5, <1>9 DEF AckThenComplete
  <1>11. Tells(d, Getid(d))
    BY <1>1, <1>2, <1>3, <1>4, <1>5, <1>6, <1>9 DEF Getid, NeedsDisc
  <1>12. \A b \in BOOLEAN : Tells(d, QueueStatus([d EXCEPT !.muted = b], Ack))
    <2> TAKE b \in BOOLEAN
    <2>1. [d EXCEPT !.muted = b] \in Drives /\ Quiet(d, [d EXCEPT !.muted = b])
      BY <1>1 DEF Drives, Quiet
    <2> QED BY <2>1, <1>3, <1>4
  <1>13. \A p \in Positions : Tells(d, Setloc(d, p))
    <2> TAKE p \in Positions
    <2> DEFINE e == [d EXCEPT !.loc = (p - Pregap) % LbaMod]
    <2>1. (p - Pregap) % LbaMod \in 0..LbaMod - 1
      BY CdromAssumption, ConstantTypes
    <2>2. e \in Drives /\ Quiet(d, e)
      BY <1>1, <2>1 DEF Drives, Quiet
    <2> HIDE DEF e
    <2>3. Tells(d, QueueStatus(e, Ack))
      BY <2>2, <1>3, <1>4
    <2> QED BY <2>3, <1>6 DEF Setloc, NeedsParams, e
  <1>14. \A f \in Filters : Tells(d, Setfilter(d, f))
    <2> TAKE f \in Filters
    <2>1. [d EXCEPT !.filter = f] \in Drives /\ Quiet(d, [d EXCEPT !.filter = f])
      BY <1>1 DEF Drives, Quiet
    <2> QED BY <2>1, <1>3, <1>4, <1>6 DEF Setfilter, NeedsParams
  <1>15. \A m \in Modes : Tells(d, Setmode(d, m))
    <2> TAKE m \in Modes
    <2>1. [d EXCEPT !.mode = m] \in Drives /\ Quiet(d, [d EXCEPT !.mode = m])
      BY <1>1 DEF Drives, Quiet
    <2> QED BY <2>1, <1>3, <1>4, <1>6 DEF Setmode, NeedsParams
  <1>16. Tells(d, Getloc(d))
    BY <1>1, <1>2, <1>4, <1>5 DEF Getloc
  <1>17. \A t : Tells(d, Gettd(d, t))
    BY <1>6, <1>8 DEF Gettd, NeedsDisc
  <1>18. Tells(d, StartRead(d))
    <2> DEFINE started == [d EXCEPT !.reading = TRUE]
               e == QueueStatus(started, Ack)
               s == QueueCurrentSector(e)
    <2>1. Stable(started) /\ started.last = d.last /\ started.reading = TRUE
      BY <1>1, StopsStable DEF Drives
    <2> HIDE DEF started
    <2>2. Stable(e) /\ Quiet(started, e)
      BY <2>1, QueueStatusGood, QueueStatusRaises, CodesAreBits DEF Good, Stable
    <2> HIDE DEF e
    <2>3. Tells(e, s)
      BY <2>2, QueueCurrentSectorTells
    <2> HIDE DEF s
    <2>4. Tells(d, s)
      BY <2>1, <2>2, <2>3 DEF Tells, Quiet
    <2> QED BY <2>4, <1>6 DEF StartRead, NeedsDisc, s, e, started
  <1>19. CASE command \in {"Nop", "Read", "MotorOn", "Mute", "Demute", "Getparam"}
    BY <1>7, <1>8, <1>10, <1>12, <1>18, <1>19 DEF Effect
  <1>20. CASE command = "Setloc"
    BY <1>13, <1>20 DEF Effect
  <1>21. CASE command = "Setfilter"
    BY <1>14, <1>21 DEF Effect
  <1>22. CASE command = "Setmode"
    BY <1>15, <1>22 DEF Effect
  <1>23. CASE command = "GetTD"
    BY <1>17, <1>23 DEF Effect
  <1>24. CASE command \in {"Getloc", "GetTN", "Test", "GetID", "ReadTOC"}
    BY <1>6, <1>8, <1>10, <1>11, <1>16, <1>24 DEF Effect, NeedsDisc
  <1>25. CASE command \notin {"Nop", "Setloc", "Read", "MotorOn", "Stop", "Pause",
                              "Init", "Mute", "Demute", "Setfilter", "Setmode",
                              "Getparam", "Getloc", "GetTN", "GetTD", "Seek",
                              "Test", "GetID", "ReadTOC"}
    BY <1>6, <1>25 DEF Effect
  <1> QED BY <1>19, <1>20, <1>21, <1>22, <1>23, <1>24, <1>25 DEF StopCommands

LEMMA StopLeavesLast ==
  ASSUME NEW d \in Drives, NEW command \in StopCommands, NEW r \in Effect(d, command)
  PROVE  r.last = d.last
  <1>1. ErrorResponse(d).last = d.last
    <2> DEFINE stopped == [d EXCEPT !.reading = FALSE]
    <2>1. stopped \in Drives /\ stopped.last = d.last
      BY DEF Drives
    <2> HIDE DEF stopped
    <2>2. \A code, response : QueueInterrupt(stopped, code, response).last = d.last
      BY <2>1, QueueInterruptRaises DEF Quiet
    <2> QED BY <2>2 DEF ErrorResponse, stopped
  <1>2. \A e, code, response : QueueInterrupt(e, code, response).last = e.last
    BY DEF QueueInterrupt, ActivateInterrupt
  <1>3. \A e, code : QueueStatus(e, code).last = e.last
    BY <1>2 DEF QueueStatus
  <1>4. /\ [d EXCEPT !.reading = FALSE].last = d.last
        /\ [d EXCEPT !.reading = FALSE, !.data = <<>>].last = d.last
        /\ [d EXCEPT !.mode = 0, !.reading = FALSE, !.data = <<>>].last = d.last
    BY DEF Drives
  <1> DEFINE paused  == [d EXCEPT !.reading = FALSE]
             emptied == [d EXCEPT !.reading = FALSE, !.data = <<>>]
             reset   == [d EXCEPT !.mode = 0, !.reading = FALSE, !.data = <<>>]
             seeking == <<Status(DriveStatus(emptied) \cup {"seek"})>>
  <1>5. paused.last = d.last /\ emptied.last = d.last /\ reset.last = d.last
    BY <1>4
  <1>6. /\ Stop(d) = QueueStatus(QueueStatus(emptied, Ack), Complete)
        /\ Pause(d) = QueueStatus(QueueStatus(paused, Ack), Complete)
        /\ InitDrive(d) = QueueStatus(reset, Ack)
        /\ \/ Seek(d) = ErrorResponse(d)
           \/ Seek(d) = QueueStatus(QueueInterrupt(emptied, Ack, seeking), Complete)
    BY DEF Stop, Pause, InitDrive, Seek, AckThenComplete, NeedsDisc
  <1> HIDE DEF paused, emptied, reset, seeking
  <1>7. /\ Stop(d).last = d.last /\ Pause(d).last = d.last
        /\ InitDrive(d).last = d.last
    BY <1>3, <1>5, <1>6
  <1>8. Seek(d).last = d.last
    BY <1>1, <1>2, <1>3, <1>5, <1>6
  <1> QED BY <1>7, <1>8 DEF Effect, StopCommands

\* The two promises of a step.
Kept ==
    \/ \E c \in Commands : Command(c)
    \/ DiscChange
    \/ drive.data = <<>>
    \/ drive.data' = drive.data
    \/ ReadData /\ (Len(drive.data) > 1 => drive.data' = Tail(drive.data))
    \/ DmaRead32
         /\ (Len(drive.data) > 4 => drive.data' = SubSeq(drive.data, 5, Len(drive.data)))

Reported ==
    /\ drive'.last # drive.last /\ drive'.last # None => Raised(DataReady)
    /\ drive.reading /\ ~drive'.reading =>
          \/ \E c \in StopCommands \intersect Commands : Command(c)
          \/ DiscChange
          \/ Raised(Error)

LEMMA StepKeepsAndReports == CdromInv /\ [Next]_vars => [Kept /\ Reported]_vars
  <1> SUFFICES ASSUME CdromInv, Next
               PROVE  Kept /\ Reported
    OBVIOUS
  <1>1. Stable(drive) /\ drive \in Drives
    BY DEF CdromInv, Good, Stable
  <1>2. Tells(drive, drive') => Reported
    BY DEF Tells, RaisedIn, Reported, Raised
  <1>3. drive' = drive => Kept /\ Tells(drive, drive')
    BY DEF Kept, Tells
  <1>4. ASSUME NEW c \in Commands, Command(c)
        PROVE  Kept /\ Reported
    <2>1. Kept
      BY <1>4 DEF Kept
    <2>2. CASE c \in StopCommands
      <3>1. \E k \in StopCommands \intersect Commands : Command(k)
        BY <1>4, <2>2
      <3>2. drive' \in Effect(drive, c)
        BY <1>4 DEF Command
      <3>3. drive'.last = drive.last \/ Tells(drive, drive')
        BY <1>1, <2>2, <3>2, StopLeavesLast
      <3> QED BY <1>2, <2>1, <3>1, <3>3 DEF Reported
    <2>3. CASE c \notin StopCommands
      <3>1. Tells(drive, drive')
        BY <1>1, <1>4, <2>3, EffectTells DEF Command
      <3> QED BY <1>2, <2>1, <3>1
    <2> QED BY <2>2, <2>3
  <1>5. ASSUME NEW mask \in SUBSET Bits, WriteAck(mask)
        PROVE  Kept /\ Reported
    <2>1. Tells(drive, drive') /\ (drive.data = <<>> \/ drive'.data = drive.data)
      BY <1>1, <1>5, AckInterruptTells DEF WriteAck
    <2> QED BY <1>2, <2>1 DEF Kept
  <1>6. CASE ReadResponse
    <2>1. /\ drive'.data = drive.data /\ drive'.last = drive.last
          /\ drive'.reading = drive.reading
      BY <1>1, <1>6 DEF ReadResponse, Drives
    <2> QED BY <1>2, <2>1 DEF Kept, Tells
  <1>7. CASE ReadData
    <2>1. /\ Tells(drive, drive')
          /\ Len(drive.data) > 1 => drive'.data = Tail(drive.data)
      BY <1>1, <1>7, PopTells DEF ReadData
    <2> QED BY <1>2, <1>7, <2>1 DEF Kept
  <1>8. CASE DmaRead32
    <2> DEFINE p == PopDataByte(drive)
               q == PopDataByte(p)
               r == PopDataByte(q)
    <2>1. drive' = PopDataByte(r)
      BY <1>8 DEF DmaRead32
    <2>2. Stable(p) /\ Tells(drive, p) /\ (Quiet(drive, p) \/ p.flags # {})
      BY <1>1, PopTells, PopDataByteGood DEF Good
    <2>3. Len(drive.data) > 4 => drive'.data = SubSeq(drive.data, 5, Len(drive.data))
      BY <1>1, <2>1, DmaTails
    <2> HIDE DEF p
    <2>4. Stable(q) /\ Tells(drive, q) /\ (Quiet(drive, q) \/ q.flags # {})
      BY <2>2, PopAgain
    <2> HIDE DEF q
    <2>5. Stable(r) /\ Tells(drive, r) /\ (Quiet(drive, r) \/ r.flags # {})
      BY <2>4, PopAgain
    <2> HIDE DEF r
    <2>6. Tells(drive, drive')
      BY <2>1, <2>5, PopAgain
    <2> QED BY <1>2, <1>8, <2>3, <2>6 DEF Kept
  <1>9. ASSUME NEW n \in DiscSizes, LoadDiscImage(n)
        PROVE  Kept /\ Reported
    <2>1. DiscChange
      BY <1>9 DEF DiscChange
    <2>2. drive'.last = None
      BY <1>1, <1>9 DEF LoadDiscImage, Drives
    <2> QED BY <2>1, <2>2 DEF Kept, Reported
  <1>10. CASE EjectDisc
    <2>1. DiscChange
      BY <1>10 DEF DiscChange
    <2>2. drive'.last = None
      BY <1>1, <1>10 DEF EjectDisc, Drives
    <2> QED BY <2>1, <2>2 DEF Kept, Reported
  <1>11. ASSUME NEW i \in 0..3, SelectIndex(i)
         PROVE  Kept /\ Reported
    BY <1>2, <1>3, <1>11 DEF SelectIndex
  <1>12. CASE PushParam
    BY <1>2, <1>3, <1>12 DEF PushParam
  <1>13. ASSUME NEW bits \in EnableMasks, WriteEnable(bits)
         PROVE  Kept /\ Reported
    BY <1>2, <1>3, <1>13 DEF WriteEnable
  <1> QED BY <1>4, <1>5, <1>6, <1>7, <1>8, <1>9, <1>10, <1>11, <1>12, <1>13 DEF Next

\* No access but a command or a change of disc loses a byte the guest has not
\* taken: the next sector waits for the last byte of the one before.
THEOREM SectorsAreKept == Spec => SectorKeptUntilTaken
  BY InvCorrect, StepKeepsAndReports, PTL DEF Spec, SectorKeptUntilTaken, Kept

\* No sector is loaded and no read ends without the guest being told.
THEOREM ReadsReported == Spec => ReadsAreReported
  BY InvCorrect, StepKeepsAndReports, PTL DEF Spec, ReadsAreReported, Reported

-----------------------------------------------------------------------------
(* The controller implements CdromMailbox: each of its operations is        *)
(* followed to what it does to the mailbox the guest sees.                  *)

(* The mailbox of a drive.                                                 *)

Waiting(d) == [i \in 1..Len(d.queued) |-> d.queued[i].code]
MailOf(d)  == IF d.flags = {} THEN <<>> ELSE <<d.flags>> \o Waiting(d)

LEMMA WaitingType ==
  ASSUME NEW d \in Drives
  PROVE  /\ Waiting(d) \in Seq(SUBSET Bits)
         /\ Len(Waiting(d)) = Len(d.queued)
         /\ \A i \in 1..Len(d.queued) : Waiting(d)[i] = d.queued[i].code
  <1>1. d.queued \in Seq(Interrupts)
    BY DEF Drives
  <1>2. \A i \in 1..Len(d.queued) : d.queued[i].code \in SUBSET Bits
    <2> TAKE i \in 1..Len(d.queued)
    <2>1. d.queued[i] \in Interrupts
      BY <1>1
    <2>2. d.queued[i].code \in Codes
      BY <2>1 DEF Interrupts
    <2> QED BY <2>2, CodesAreBits
  <1> DEFINE n == Len(d.queued)
             w == [i \in 1..n |-> d.queued[i].code]
  <1>3. n \in Nat
    BY <1>1
  <1>4. \A i \in 1..n : d.queued[i].code \in SUBSET Bits
    BY <1>2
  <1> HIDE DEF n
  <1>5. w \in Seq(SUBSET Bits)
    BY <1>3, <1>4
  <1>6. Len(w) = n /\ \A i \in 1..n : w[i] = d.queued[i].code
    BY <1>3
  <1>7. Waiting(d) = w
    BY DEF Waiting, n
  <1> HIDE DEF w
  <1> QED BY <1>5, <1>6, <1>7 DEF n

LEMMA MailType ==
  ASSUME NEW d \in Drives
  PROVE  /\ MailOf(d) \in Seq(SUBSET Bits)
         /\ d.flags # {} => /\ MailOf(d) # <<>>
                            /\ MailOf(d)[1] = d.flags
                            /\ Tail(MailOf(d)) = Waiting(d)
  <1>0. d.flags \in SUBSET Bits
    BY DEF Drives
  <1>1. <<d.flags>> \in Seq(SUBSET Bits) /\ Waiting(d) \in Seq(SUBSET Bits)
    BY <1>0, WaitingType
  <1>2. CASE d.flags = {}
    BY <1>2 DEF MailOf
  <1>3. CASE d.flags # {}
    <2> DEFINE m == <<d.flags>> \o Waiting(d)
               w == Waiting(d)
    <2>1. /\ m \in Seq(SUBSET Bits) /\ Len(m) = 1 + Len(w)
          /\ m[1] = d.flags
          /\ \A i \in 1..Len(w) : m[i + 1] = w[i]
      BY <1>1, ConcatProperties
    <2>2. w \in Seq(SUBSET Bits)
      BY <1>1
    <2>3. MailOf(d) = m
      BY <1>3 DEF MailOf
    <2> HIDE DEF m, w
    <2>4. m # <<>>
      BY <2>1, <2>2
    <2>5. /\ Tail(m) \in Seq(SUBSET Bits) /\ Len(Tail(m)) = Len(w)
          /\ \A i \in 1..Len(Tail(m)) : Tail(m)[i] = m[i + 1]
      BY <2>1, <2>2, <2>4, HeadTailProperties
    <2>6. Tail(m) = w
      BY <2>1, <2>2, <2>5, SeqEqual
    <2> QED BY <2>1, <2>3, <2>4, <2>6 DEF w
  <1> QED BY <1>2, <1>3

LEMMA SameMail ==
  ASSUME NEW d, NEW r, r.flags = d.flags, r.queued = d.queued
  PROVE  MailOf(r) = MailOf(d)
  BY DEF MailOf, Waiting

\* An interrupt goes to the end of the mailbox.
LEMMA QueueInterruptMail ==
  ASSUME NEW d, Stable(d), NEW code \in Codes, NEW response \in Seq(Items)
  PROVE  MailOf(QueueInterrupt(d, code, response)) = MailOf(d) \o <<code>>
  <1> DEFINE r == QueueInterrupt(d, code, response)
  <1>1. d \in Drives /\ r \in Drives
    BY QueueInterruptType DEF Stable
  <1>2. /\ code # {} /\ code \in SUBSET Bits
    BY CodesAreBits
  <1>3. /\ d.flags = {} => r.flags = code /\ r.queued = d.queued
        /\ d.flags # {} => /\ r.flags = d.flags
                           /\ r.queued = Append(d.queued, Interrupt(code, response))
    BY <1>1, QueueInterruptEffect
  <1> HIDE DEF r
  <1>4. CASE d.flags = {}
    <2>1. d.queued = <<>>
      BY <1>4 DEF Stable, Delivered
    <2>2. Waiting(r) = <<>>
      BY <1>3, <1>4, <2>1 DEF Waiting
    <2>3. MailOf(r) = <<code>> /\ MailOf(d) = <<>>
      BY <1>2, <1>3, <1>4, <2>2 DEF MailOf
    <2>4. <<>> \o <<code>> = <<code>>
      OBVIOUS
    <2> QED BY <2>3, <2>4 DEF r
  <1>5. CASE d.flags # {}
    <2>1. d.queued \in Seq(Interrupts)
      BY <1>1 DEF Drives
    <2>2. /\ Len(r.queued) = Len(d.queued) + 1
          /\ \A i \in 1..Len(d.queued) : r.queued[i] = d.queued[i]
          /\ r.queued[Len(d.queued) + 1].code = code
      BY <1>3, <1>5, <2>1 DEF Interrupt
    <2>3. Waiting(d) \in Seq(SUBSET Bits) /\ Waiting(r) \in Seq(SUBSET Bits)
      BY <1>1, WaitingType
    <2>4. Waiting(r) = Append(Waiting(d), code)
      <3>1. /\ Append(Waiting(d), code) \in Seq(SUBSET Bits)
            /\ Len(Append(Waiting(d), code)) = Len(d.queued) + 1
            /\ \A i \in 1..Len(d.queued) :
                 Append(Waiting(d), code)[i] = Waiting(d)[i]
            /\ Append(Waiting(d), code)[Len(d.queued) + 1] = code
        BY <1>1, <1>2, <2>1, <2>3, WaitingType
      <3>2. /\ Len(Waiting(r)) = Len(d.queued) + 1
            /\ \A i \in 1..Len(d.queued) + 1 : Waiting(r)[i] = r.queued[i].code
        BY <1>1, <2>2, WaitingType
      <3>3. \A i \in 1..Len(d.queued) + 1 :
              Waiting(r)[i] = Append(Waiting(d), code)[i]
        <4> TAKE i \in 1..Len(d.queued) + 1
        <4>1. CASE i = Len(d.queued) + 1
          BY <2>2, <3>1, <3>2, <4>1
        <4>2. CASE i # Len(d.queued) + 1
          <5>1. i \in 1..Len(d.queued)
            BY <2>1, <4>2
          <5> QED BY <1>1, <2>2, <3>1, <3>2, <5>1, WaitingType
        <4> QED BY <4>1, <4>2
      <3> QED BY <2>3, <3>1, <3>2, <3>3, SeqEqual
    <2>5. Append(Waiting(d), code) = Waiting(d) \o <<code>>
      BY <1>2, <2>3, AppendIsConcat
    <2>6. /\ <<d.flags>> \in Seq(SUBSET Bits) /\ <<code>> \in Seq(SUBSET Bits)
      <3>1. d.flags \in SUBSET Bits
        BY <1>1 DEF Drives
      <3> QED BY <1>2, <3>1
    <2>7. <<d.flags>> \o (Waiting(d) \o <<code>>)
            = (<<d.flags>> \o Waiting(d)) \o <<code>>
      BY <2>3, <2>6, ConcatAssociative
    <2> QED BY <1>3, <1>5, <2>4, <2>5, <2>7 DEF MailOf, r
  <1> QED BY <1>4, <1>5

LEMMA QueueStatusMail ==
  ASSUME NEW d, Stable(d), NEW code \in Codes
  PROVE  MailOf(QueueStatus(d, code)) = MailOf(d) \o <<code>>
  <1>1. <<Status(DriveStatus(d))>> \in Seq(Items)
    BY DriveStatusBits, StatusIsItem
  <1> QED BY <1>1, QueueInterruptMail DEF QueueStatus

LEMMA ErrorResponseMail ==
  ASSUME NEW d, Stable(d)
  PROVE  MailOf(ErrorResponse(d)) = MailOf(d) \o <<Error>>
  <1> DEFINE stopped == [d EXCEPT !.reading = FALSE]
             response == <<Status(DriveStatus(stopped) \union {"error"}),
                           [reason |-> "invalid"]>>
  <1>1. Stable(stopped)
    BY StopsStable
  <1>0. stopped.flags = d.flags /\ stopped.queued = d.queued
    BY DEF Stable, Drives
  <1>2. [reason |-> "invalid"] \in Items
    BY DEF Items
  <1>3. Status(DriveStatus(stopped) \union {"error"}) \in Items
    BY DriveStatusBits, StatusIsItem
  <1>4. response \in Seq(Items)
    BY <1>2, <1>3
  <1>5. ErrorResponse(d) = QueueInterrupt(stopped, Error, response)
    BY DEF ErrorResponse
  <1> HIDE DEF stopped, response
  <1>6. MailOf(stopped) = MailOf(d)
    BY <1>0, SameMail
  <1> QED BY <1>1, <1>4, <1>5, <1>6, QueueInterruptMail, CodesAreBits

\* Two interrupts of one command.
LEMMA TwoReplies ==
  ASSUME NEW m \in Seq(SUBSET Bits), NEW a \in Codes, NEW b \in Codes
  PROVE  (m \o <<a>>) \o <<b>> = m \o <<a, b>>
  <1>0. a \in SUBSET Bits /\ b \in SUBSET Bits
    BY CodesAreBits
  <1>1. <<a>> \in Seq(SUBSET Bits) /\ <<b>> \in Seq(SUBSET Bits)
    BY <1>0
  <1>2. (m \o <<a>>) \o <<b>> = m \o (<<a>> \o <<b>>)
    BY <1>1, ConcatAssociative
  <1>3. <<a>> \o <<b>> = <<a, b>>
    <2>1. <<a>> \o <<b>> = Append(<<a>>, b)
      BY <1>0, <1>1, AppendIsConcat
    <2> DEFINE s == Append(<<a>>, b)
               t == <<a, b>>
    <2>2. s \in Seq(SUBSET Bits) /\ Len(s) = 2 /\ s[1] = a /\ s[2] = b
      BY <1>0, <1>1
    <2>3. t \in Seq(SUBSET Bits) /\ Len(t) = 2 /\ t[1] = a /\ t[2] = b
      BY <1>0
    <2> HIDE DEF s, t
    <2>4. s = t
      BY <2>2, <2>3, SeqEqual
    <2> QED BY <2>1, <2>4 DEF s, t
  <1> QED BY <1>2, <1>3

-----------------------------------------------------------------------------
(* Steps of the mailbox, as a relation of its contents.                    *)

Answers(m, n) == \E reply \in Mailbox!Replies : n = m \o reply

Streams(m, n) == n = m \/ (m = <<>> /\ n \in Mailbox!StreamPosts)

Acknowledges(m, n) ==
  /\ m # <<>>
  /\ \/ \E left \in (SUBSET m[1]) \ {{}} : n = <<left>> \o Tail(m)
     \/ n = Tail(m)
     \/ Tail(m) = <<>> /\ n \in Mailbox!StreamPosts

LEMMA StepsOfMailbox ==
  ASSUME Answers(Mail, Mail') \/ Streams(Mail, Mail') \/ Acknowledges(Mail, Mail')
  PROVE  Mailbox!Next \/ UNCHANGED Mail
  <1> DEFINE m == Mail
             n == Mail'
  <1>1. CASE Answers(m, n)
    BY <1>1 DEF Answers, Mailbox!Next, Mailbox!Reply
  <1>2. CASE Streams(m, n)
    BY <1>2 DEF Streams, Mailbox!Next, Mailbox!Stream
  <1>3. CASE Acknowledges(m, n)
    BY <1>3 DEF Acknowledges, Mailbox!Next, Mailbox!AcknowledgePart,
                Mailbox!AcknowledgeAll
  <1> QED BY <1>1, <1>2, <1>3

LEMMA RepliesAre ==
  /\ {<<Ack>>, <<Error>>, <<Ack, Complete>>, <<Ack, DataReady>>, <<Ack, Error>>}
       = Mailbox!Replies
  /\ {<<DataReady>>, <<Error>>} = Mailbox!StreamPosts
  BY DEF Mailbox!Replies, Mailbox!StreamPosts, Mailbox!Ack, Mailbox!Error,
         Mailbox!Complete, Mailbox!DataReady, Ack, Error, Complete, DataReady

-----------------------------------------------------------------------------
(* Sector delivery and acknowledgement.                                    *)

LEMMA QueueCurrentSectorMail ==
  ASSUME NEW d, Stable(d)
  PROVE  \/ MailOf(QueueCurrentSector(d)) = MailOf(d) \o <<DataReady>>
         \/ MailOf(QueueCurrentSector(d)) = MailOf(d) \o <<Error>>
  <1>1. CASE d.loc < d.disc
    <2>1. /\ Stable(SectorLoaded(d))
          /\ MailOf(SectorLoaded(d)) = MailOf(d)
      BY <1>1, SectorLoadedStable, SameMail
    <2>2. MailOf(QueueStatus(SectorLoaded(d), DataReady))
            = MailOf(d) \o <<DataReady>>
      BY <2>1, QueueStatusMail, CodesAreBits
    <2> QED BY <1>1, <2>2 DEF QueueCurrentSector, SectorLoaded
  <1>2. CASE ~(d.loc < d.disc)
    BY <1>2, ErrorResponseMail DEF QueueCurrentSector
  <1> QED BY <1>1, <1>2

\* The next sector is posted only to an empty mailbox.
LEMMA QueueNextSectorMail ==
  ASSUME NEW d, Stable(d)
  PROVE  Streams(MailOf(d), MailOf(QueueNextSectorIfReady(d)))
  <1>1. CASE ReadyForSector(d)
    <2>1. MailOf(d) = <<>>
      BY <1>1 DEF ReadyForSector, MailOf
    <2>2. <<>> \o <<DataReady>> = <<DataReady>> /\ <<>> \o <<Error>> = <<Error>>
      OBVIOUS
    <2>3. MailOf(QueueCurrentSector(d)) \in {<<DataReady>>, <<Error>>}
      BY <2>1, <2>2, QueueCurrentSectorMail
    <2> QED BY <1>1, <2>1, <2>3, RepliesAre DEF QueueNextSectorIfReady, Streams
  <1>2. CASE ~ReadyForSector(d)
    BY <1>2 DEF QueueNextSectorIfReady, Streams
  <1> QED BY <1>1, <1>2

LEMMA PopDataByteMail ==
  ASSUME NEW d, Stable(d)
  PROVE  Streams(MailOf(d), MailOf(PopDataByte(d)))
  <1>1. CASE d.data = <<>>
    BY <1>1, QueueNextSectorMail DEF PopDataByte
  <1>2. CASE d.data # <<>>
    <2> DEFINE popped == [d EXCEPT !.data = Tail(@)]
    <2>1. Stable(popped)
      BY <1>2, PoppedStable
    <2>2. popped.flags = d.flags /\ popped.queued = d.queued
      BY DEF Stable, Drives
    <2>3. PopDataByte(d) = QueueNextSectorIfReady(popped)
      BY <1>2 DEF PopDataByte
    <2> HIDE DEF popped
    <2>4. MailOf(popped) = MailOf(d)
      BY <2>2, SameMail
    <2> QED BY <2>1, <2>3, <2>4, QueueNextSectorMail
  <1> QED BY <1>1, <1>2

\* At most one of the bytes of a word is the last one of its sector.
LEMMA StreamsCompose ==
  ASSUME NEW l, NEW m, NEW n, Streams(l, m), Streams(m, n)
  PROVE  Streams(l, n)
  BY RepliesAre DEF Streams

LEMMA AckInterruptMail ==
  ASSUME NEW d, Stable(d), NEW mask \in SUBSET Bits
  PROVE  LET m == MailOf(d)
             n == MailOf(AckInterrupt(d, mask))
         IN  Streams(m, n) \/ Acknowledges(m, n)
  <1> DEFINE acked == [d EXCEPT !.flags = @ \ mask]
             next == [acked EXCEPT !.queued = Tail(@)]
             m == MailOf(d)
             n == MailOf(AckInterrupt(d, mask))
  <1>1. /\ d \in Drives /\ d.flags \in SUBSET Bits /\ d.queued \in Seq(Interrupts)
        /\ Delivered(d) /\ TailOfLast(d)
    BY DEF Stable, Drives
  <1>2. /\ acked \in Drives /\ acked.queued = d.queued
        /\ acked.flags = d.flags \ mask
    BY <1>1 DEF Drives
  <1>3. TailOfLast(acked)
    BY <1>1 DEF TailOfLast, Drives
  <1>4. CASE acked.flags = {} /\ acked.queued = <<>>
    <2>1. Stable(acked) /\ MailOf(acked) = <<>>
      BY <1>2, <1>3, <1>4 DEF Stable, Delivered, MailOf
    <2>2. AckInterrupt(d, mask) = QueueNextSectorIfReady(acked)
      BY <1>4 DEF AckInterrupt
    <2>3. m = <<>> \/ (m # <<>> /\ Tail(m) = <<>>)
      <3>1. CASE d.flags = {}
        BY <3>1 DEF MailOf
      <3>2. CASE d.flags # {}
        <4>1. Waiting(d) = <<>>
          BY <1>2, <1>4 DEF Waiting
        <4> QED BY <1>1, <3>2, <4>1, MailType
      <3> QED BY <3>1, <3>2
    <2> HIDE DEF acked
    <2>4. Streams(<<>>, n)
      BY <2>1, <2>2, QueueNextSectorMail
    <2> HIDE DEF m, n
    <2>5. Streams(m, n) \/ Acknowledges(m, n)
      BY <2>3, <2>4 DEF Streams, Acknowledges
    <2> QED BY <2>5 DEF m, n
  <1>5. CASE acked.flags # {}
    <2>1. AckInterrupt(d, mask) = acked
      BY <1>5 DEF AckInterrupt
    <2>2. d.flags # {} /\ acked.flags \in (SUBSET d.flags) \ {{}}
      BY <1>2, <1>5
    <2>3. m # <<>> /\ m[1] = d.flags /\ Tail(m) = Waiting(d)
      BY <1>1, <2>2, MailType
    <2>4. n = <<acked.flags>> \o Waiting(acked) /\ Waiting(acked) = Waiting(d)
      BY <1>2, <1>5, <2>1 DEF MailOf, Waiting
    <2> HIDE DEF m, n, acked
    <2>5. Acknowledges(m, n)
      BY <2>2, <2>3, <2>4 DEF Acknowledges
    <2> QED BY <2>5 DEF m, n
  <1>6. CASE acked.flags = {} /\ acked.queued # <<>>
    <2> DEFINE r == ActivateInterrupt(next, Head(d.queued))
    <2>1. /\ Head(d.queued) \in Interrupts /\ Head(d.queued) = d.queued[1]
          /\ Tail(d.queued) \in Seq(Interrupts)
          /\ Len(d.queued) \in Nat /\ Len(d.queued) >= 1
          /\ Len(Tail(d.queued)) = Len(d.queued) - 1
          /\ \A i \in 1..Len(d.queued) - 1 : Tail(d.queued)[i] = d.queued[i + 1]
      BY <1>1, <1>2, <1>6
    <2>2. /\ next \in Drives /\ next.queued = Tail(d.queued)
      BY <1>2, <2>1 DEF Drives
    <2>3. /\ Head(d.queued).code \in Codes
          /\ Head(d.queued).response \in Seq(Items)
      BY <2>1 DEF Interrupts
    <2>4. /\ r \in Drives /\ r.flags = Head(d.queued).code /\ r.flags # {}
          /\ r.queued = Tail(d.queued)
      BY <2>2, <2>3, CodesAreBits DEF ActivateInterrupt, Drives
    <2>5. AckInterrupt(d, mask) = r
      BY <1>2, <1>6 DEF AckInterrupt
    <2>6. d.flags # {}
      BY <1>1, <1>2, <1>6 DEF Delivered
    <2>7. m # <<>> /\ Tail(m) = Waiting(d)
      BY <1>1, <2>6, MailType
    <2> HIDE DEF r, next, acked
    <2>8. n = Waiting(d)
      <3> DEFINE w == Waiting(r)
                 v == Waiting(d)
                 c == r.flags
                 len == Len(d.queued)
      <3>1. /\ w \in Seq(SUBSET Bits) /\ Len(w) = len - 1
            /\ \A i \in 1..len - 1 : w[i] = d.queued[i + 1].code
        <4>1. /\ Waiting(r) \in Seq(SUBSET Bits)
              /\ Len(Waiting(r)) = Len(r.queued)
              /\ \A i \in 1..Len(r.queued) : Waiting(r)[i] = r.queued[i].code
          BY <2>4, WaitingType
        <4>2. Len(r.queued) = Len(d.queued) - 1
          BY <2>1, <2>4
        <4>3. \A i \in 1..Len(d.queued) - 1 : r.queued[i] = d.queued[i + 1]
          BY <2>1, <2>4
        <4> QED BY <4>1, <4>2, <4>3
      <3>2. /\ v \in Seq(SUBSET Bits) /\ Len(v) = len
            /\ \A i \in 1..len : v[i] = d.queued[i].code
        BY <1>1, WaitingType
      <3>3. c \in SUBSET Bits /\ v[1] = c /\ len \in Nat /\ len >= 1
        BY <2>1, <2>3, <2>4, <3>2, CodesAreBits
      <3>4. n = <<c>> \o w
        BY <2>4, <2>5 DEF MailOf
      <3> HIDE DEF w, v, c, len
      <3>5. <<c>> \in Seq(SUBSET Bits)
        BY <3>3
      <3>6. /\ <<c>> \o w \in Seq(SUBSET Bits) /\ Len(<<c>> \o w) = 1 + (len - 1)
            /\ \A i \in 1..len : (<<c>> \o w)[i] = IF i <= 1 THEN c ELSE w[i - 1]
        BY <3>1, <3>3, <3>5, ConcatProperties
      <3>7. \A i \in 1..len : (<<c>> \o w)[i] = v[i]
        <4> TAKE i \in 1..len
        <4>1. CASE i <= 1
          BY <3>3, <3>6, <4>1
        <4>2. CASE i > 1
          <5>1. i - 1 \in 1..len - 1 /\ (i - 1) + 1 = i
            BY <3>3, <4>2
          <5>2. w[i - 1] = d.queued[i].code
            BY <3>1, <5>1
          <5> QED BY <3>2, <3>6, <4>2, <5>2
        <4>3. i <= 1 \/ i > 1
          BY <3>3
        <4> QED BY <4>1, <4>2, <4>3
      <3>8. <<c>> \o w = v
        BY <3>2, <3>3, <3>6, <3>7, SeqEqual
      <3> QED BY <3>4, <3>8 DEF v
    <2> HIDE DEF m, n
    <2>9. Acknowledges(m, n)
      BY <2>7, <2>8 DEF Acknowledges
    <2> QED BY <2>9 DEF m, n
  <1> QED BY <1>4, <1>5, <1>6

-----------------------------------------------------------------------------
(* Commands.                                                               *)

\* d and r differ in nothing the mailbox shows.
Alike(d, r) == Stable(r) /\ r.flags = d.flags /\ r.queued = d.queued

LEMMA StatusAnswers ==
  ASSUME NEW d, NEW r, Stable(d), Alike(d, r)
  PROVE  /\ Answers(MailOf(d), MailOf(QueueStatus(r, Ack)))
         /\ Answers(MailOf(d), MailOf(AckThenComplete(r)))
         /\ Answers(MailOf(d), MailOf(ErrorResponse(r)))
  <1>1. Stable(r) /\ MailOf(r) = MailOf(d)
    BY SameMail DEF Alike
  <1>2. MailOf(r) \in Seq(SUBSET Bits)
    BY <1>1, MailType DEF Stable
  <1>3. Stable(QueueStatus(r, Ack))
    BY <1>1, QueueStatusGood, CodesAreBits DEF Good
  <1>4. MailOf(QueueStatus(r, Ack)) = MailOf(d) \o <<Ack>>
    BY <1>1, QueueStatusMail, CodesAreBits
  <1>5. MailOf(AckThenComplete(r)) = (MailOf(d) \o <<Ack>>) \o <<Complete>>
    BY <1>3, <1>4, QueueStatusMail, CodesAreBits DEF AckThenComplete
  <1>6. (MailOf(d) \o <<Ack>>) \o <<Complete>> = MailOf(d) \o <<Ack, Complete>>
    BY <1>1, <1>2, TwoReplies, CodesAreBits
  <1>7. MailOf(ErrorResponse(r)) = MailOf(d) \o <<Error>>
    BY <1>1, ErrorResponseMail
  <1> QED BY <1>4, <1>5, <1>6, <1>7, RepliesAre DEF Answers

LEMMA AlikeItself == ASSUME NEW d, Stable(d) PROVE Alike(d, d)
  BY DEF Alike

LEMMA AckWithAnswers ==
  ASSUME NEW d, Stable(d), NEW item \in Items
  PROVE  Answers(MailOf(d), MailOf(AckWith(d, item)))
  <1>1. <<Status(DriveStatus(d)), item>> \in Seq(Items)
    BY DriveStatusBits, StatusIsItem
  <1> QED BY <1>1, QueueInterruptMail, CodesAreBits, RepliesAre DEF AckWith, Answers

LEMMA StartReadAnswers ==
  ASSUME NEW d, Stable(d)
  PROVE  Answers(MailOf(d), MailOf(StartRead(d)))
  <1> DEFINE r == [d EXCEPT !.reading = TRUE]
             q == QueueStatus(r, Ack)
             m == MailOf(d)
             n == MailOf(QueueCurrentSector(q))
  <1>1. Stable(r)
    BY StopsStable
  <1>2. r.flags = d.flags /\ r.queued = d.queued
    BY DEF Stable, Drives
  <1> HIDE DEF r
  <1>3. MailOf(r) = m /\ m \in Seq(SUBSET Bits)
    BY <1>2, SameMail, MailType DEF Stable
  <1>4. Stable(q) /\ MailOf(q) = m \o <<Ack>>
    BY <1>1, <1>3, QueueStatusGood, QueueStatusMail, CodesAreBits DEF Good
  <1> HIDE DEF q
  <1>5. n = (m \o <<Ack>>) \o <<DataReady>> \/ n = (m \o <<Ack>>) \o <<Error>>
    BY <1>4, QueueCurrentSectorMail
  <1>6. /\ (m \o <<Ack>>) \o <<DataReady>> = m \o <<Ack, DataReady>>
        /\ (m \o <<Ack>>) \o <<Error>> = m \o <<Ack, Error>>
    BY <1>3, TwoReplies, CodesAreBits
  <1> HIDE DEF m, n
  <1>7. Answers(m, n)
    BY <1>5, <1>6, RepliesAre DEF Answers
  <1>8. CASE d.disc = NoDisc
    BY <1>8, StatusAnswers, AlikeItself DEF StartRead, NeedsDisc
  <1>9. CASE d.disc # NoDisc
    BY <1>7, <1>9 DEF StartRead, NeedsDisc, r, q, m, n
  <1> QED BY <1>8, <1>9

LEMMA SeekAnswers ==
  ASSUME NEW d, Stable(d)
  PROVE  Answers(MailOf(d), MailOf(Seek(d)))
  <1> DEFINE stopped == [d EXCEPT !.reading = FALSE, !.data = <<>>]
             response == <<Status(DriveStatus(stopped) \union {"seek"})>>
             q == QueueInterrupt(stopped, Ack, response)
             m == MailOf(d)
  <1>1. Stable(stopped)
    BY StopsStable
  <1>2. stopped.flags = d.flags /\ stopped.queued = d.queued
    BY DEF Stable, Drives
  <1>3. response \in Seq(Items)
    BY DriveStatusBits, StatusIsItem
  <1> HIDE DEF stopped, response
  <1>4. MailOf(stopped) = m /\ m \in Seq(SUBSET Bits)
    BY <1>2, SameMail, MailType DEF Stable
  <1>5. Stable(q) /\ MailOf(q) = m \o <<Ack>>
    BY <1>1, <1>3, <1>4, QueueInterruptGood, QueueInterruptMail, CodesAreBits
       DEF Good
  <1> HIDE DEF q
  <1>6. MailOf(QueueStatus(q, Complete)) = (m \o <<Ack>>) \o <<Complete>>
    BY <1>5, QueueStatusMail, CodesAreBits
  <1>7. (m \o <<Ack>>) \o <<Complete>> = m \o <<Ack, Complete>>
    BY <1>4, TwoReplies, CodesAreBits
  <1>8. Answers(m, MailOf(QueueStatus(q, Complete)))
    BY <1>6, <1>7, RepliesAre DEF Answers
  <1>9. CASE d.disc = NoDisc
    BY <1>9, StatusAnswers, AlikeItself DEF Seek, NeedsDisc
  <1>10. CASE d.disc # NoDisc
    BY <1>8, <1>10 DEF Seek, NeedsDisc, stopped, response, q
  <1> QED BY <1>9, <1>10

LEMMA GetidAnswers ==
  ASSUME NEW d, Stable(d)
  PROVE  Answers(MailOf(d), MailOf(Getid(d)))
  <1> DEFINE response == <<Status(DriveStatus(d)), [id |-> "SCEA"]>>
             q == QueueStatus(d, Ack)
             m == MailOf(d)
  <1>1. Status(DriveStatus(d)) \in Items /\ [id |-> "SCEA"] \in Items
    BY DriveStatusBits, StatusIsItem DEF Items
  <1>2. response \in Seq(Items)
    BY <1>1
  <1>3. m \in Seq(SUBSET Bits)
    BY MailType DEF Stable
  <1>4. Stable(q) /\ MailOf(q) = m \o <<Ack>>
    BY QueueStatusGood, QueueStatusMail, CodesAreBits DEF Good
  <1> HIDE DEF response, q
  <1>5. MailOf(QueueInterrupt(q, Complete, response))
          = (m \o <<Ack>>) \o <<Complete>>
    BY <1>2, <1>4, QueueInterruptMail, CodesAreBits
  <1>6. (m \o <<Ack>>) \o <<Complete>> = m \o <<Ack, Complete>>
    BY <1>3, TwoReplies, CodesAreBits
  <1>7. Answers(m, MailOf(QueueInterrupt(q, Complete, response)))
    BY <1>5, <1>6, RepliesAre DEF Answers
  <1>8. CASE d.disc = NoDisc
    BY <1>8, StatusAnswers, AlikeItself DEF Getid, NeedsDisc
  <1>9. CASE d.disc # NoDisc
    BY <1>7, <1>9 DEF Getid, NeedsDisc, response, q
  <1> QED BY <1>8, <1>9

LEMMA PositionsAnswer ==
  ASSUME NEW d, Stable(d), NEW track \in 0..2
  PROVE  /\ Answers(MailOf(d), MailOf(Getloc(d)))
         /\ Answers(MailOf(d), MailOf(Gettd(d, track)))
  <1>1. \A lba \in Nat :
          Answers(MailOf(d), MailOf(QueueInterrupt(d, Ack, <<Position(lba)>>)))
    <2> TAKE lba \in Nat
    <2>1. <<Position(lba)>> \in Seq(Items)
      BY PositionIsItem
    <2> QED BY <2>1, QueueInterruptMail, CodesAreBits, RepliesAre DEF Answers
  <1>2. (IF d.last = None THEN d.loc ELSE d.last) \in Nat
    BY ConstantTypes DEF Stable, Drives
  <1>3. Answers(MailOf(d), MailOf(Getloc(d)))
    BY <1>1, <1>2 DEF Getloc
  <1>4. d.disc \in Nat
    <2>1. d.disc \in DiscSizes \union {0}
      BY DEF Stable, Drives, NoDisc
    <2> QED BY <2>1, ConstantTypes
  <1>5. /\ Answers(MailOf(d), MailOf(AckWith(d, Position(d.disc))))
        /\ Answers(MailOf(d), MailOf(AckWith(d, Position(0))))
    BY <1>4, PositionIsItem, AckWithAnswers
  <1>6. Answers(MailOf(d), MailOf(ErrorResponse(d)))
    BY StatusAnswers, AlikeItself
  <1> QED BY <1>3, <1>5, <1>6 DEF Gettd, NeedsDisc

\* What a command stops or sets before it answers is not in the mailbox.
LEMMA StopsAlike ==
  ASSUME NEW d, Stable(d)
  PROVE  /\ Alike(d, [d EXCEPT !.reading = FALSE])
         /\ Alike(d, [d EXCEPT !.reading = FALSE, !.data = <<>>])
         /\ Alike(d, [d EXCEPT !.mode = 0, !.reading = FALSE, !.data = <<>>])
         /\ Alike(d, [d EXCEPT !.muted = TRUE])
         /\ Alike(d, [d EXCEPT !.muted = FALSE])
  <1>1. d \in Drives
    BY DEF Stable
  <1> QED BY <1>1, StopsStable DEF Alike, Drives

LEMMA EffectAnswers ==
  ASSUME NEW d, Stable(d), NEW command, NEW r \in Effect(d, command)
  PROVE  Answers(MailOf(d), MailOf(r))
  <1>1. Alike(d, d)
    BY AlikeItself
  <1>2. CASE command \in {"Nop", "MotorOn"}
    BY <1>1, <1>2, StatusAnswers DEF Effect
  <1>3. CASE command \in {"Stop", "Pause", "Init", "Mute", "Demute"}
    BY <1>3, StopsAlike, StatusAnswers DEF Effect, Stop, Pause, InitDrive
  <1>4. CASE command \in {"Getparam", "Test"}
    <2>1. /\ [settings |-> <<d.mode, d.filter, d.muted>>] \in Items
          /\ [version |-> 0] \in Items
      BY DEF Items, Stable, Drives
    <2> QED BY <1>4, <2>1, AckWithAnswers DEF Effect
  <1>5. CASE command \in {"GetTN", "ReadTOC"}
    <2>1. [tracks |-> <<1, 1>>] \in Items
      BY DEF Items
    <2> QED BY <1>1, <1>5, <2>1, AckWithAnswers, StatusAnswers DEF Effect, NeedsDisc
  <1>6. CASE command \in {"Getloc", "GetTD"}
    BY <1>6, PositionsAnswer DEF Effect
  <1>7. CASE command = "Read"
    BY <1>7, StartReadAnswers DEF Effect
  <1>8. CASE command = "Seek"
    BY <1>8, SeekAnswers DEF Effect
  <1>9. CASE command = "GetID"
    BY <1>9, GetidAnswers DEF Effect
  <1>10. CASE command = "Setloc"
    <2>1. PICK position \in Positions : r = Setloc(d, position)
      BY <1>10 DEF Effect
    <2>2. Alike(d, [d EXCEPT !.loc = (position - Pregap) % LbaMod])
      <3>1. (position - Pregap) % LbaMod \in 0..LbaMod - 1
        BY CdromAssumption, ConstantTypes
      <3> QED BY <3>1 DEF Alike, Stable, Drives, Delivered, TailOfLast
    <2> QED BY <1>1, <2>1, <2>2, StatusAnswers DEF Setloc, NeedsParams
  <1>11. CASE command = "Setfilter"
    <2>1. PICK filter \in Filters : r = Setfilter(d, filter)
      BY <1>11 DEF Effect
    <2>2. Alike(d, [d EXCEPT !.filter = filter])
      BY DEF Alike, Stable, Drives, Delivered, TailOfLast
    <2> QED BY <1>1, <2>1, <2>2, StatusAnswers DEF Setfilter, NeedsParams
  <1>12. CASE command = "Setmode"
    <2>1. PICK mode \in Modes : r = Setmode(d, mode)
      BY <1>12 DEF Effect
    <2>2. Alike(d, [d EXCEPT !.mode = mode])
      BY DEF Alike, Stable, Drives, Delivered, TailOfLast
    <2> QED BY <1>1, <2>1, <2>2, StatusAnswers DEF Setmode, NeedsParams
  <1>13. CASE command \notin {"Nop", "Setloc", "Read", "MotorOn", "Stop", "Pause",
                              "Init", "Mute", "Demute", "Setfilter", "Setmode",
                              "Getparam", "Getloc", "GetTN", "GetTD", "Seek",
                              "Test", "GetID", "ReadTOC"}
    BY <1>1, <1>13, StatusAnswers DEF Effect
  <1> QED BY <1>2, <1>3, <1>4, <1>5, <1>6, <1>7, <1>8, <1>9, <1>10, <1>11,
             <1>12, <1>13

-----------------------------------------------------------------------------
(* The refinement.                                                         *)

LEMMA NextMail ==
  ASSUME Stable(drive), Next
  PROVE  Answers(Mail, Mail') \/ Streams(Mail, Mail') \/ Acknowledges(Mail, Mail')
  <1>1. PICK m, n : m = Mail /\ n = Mail'
    OBVIOUS
  <1>2. PICK d : d = drive'
    OBVIOUS
  <1>3. m = MailOf(drive) /\ n = MailOf(d)
    BY <1>1, <1>2 DEF Mail, MailOf, Waiting
  <1>4. SUFFICES Answers(m, n) \/ Streams(m, n) \/ Acknowledges(m, n)
    BY <1>1
  <1>5. drive \in Drives
    BY DEF Stable
  <1>6. CASE d.flags = drive.flags /\ d.queued = drive.queued
    <2>1. m = n
      BY <1>3, <1>6, SameMail
    <2> QED BY <2>1 DEF Streams
  <1>7. CASE \E c \in Commands : Command(c)
    BY <1>2, <1>3, <1>7, EffectAnswers DEF Command
  <1>8. CASE \E mask \in SUBSET Bits : WriteAck(mask)
    BY <1>2, <1>3, <1>8, AckInterruptMail DEF WriteAck
  <1>9. CASE ReadData
    BY <1>2, <1>3, <1>9, PopDataByteMail DEF ReadData
  <1>10. CASE DmaRead32
    <2>1. \A e : Stable(e) => /\ Stable(PopDataByte(e))
                              /\ Streams(MailOf(e), MailOf(PopDataByte(e)))
      BY PopDataByteGood, PopDataByteMail DEF Good
    <2> DEFINE a == PopDataByte(drive)
               b == PopDataByte(a)
               c == PopDataByte(b)
    <2>2. d = PopDataByte(c)
      BY <1>2, <1>10 DEF DmaRead32
    <2>3. Stable(a) /\ Streams(m, MailOf(a))
      BY <1>3, <2>1
    <2> HIDE DEF a
    <2>4. Stable(b) /\ Streams(MailOf(a), MailOf(b))
      BY <2>1, <2>3
    <2> HIDE DEF b
    <2>5. Stable(c) /\ Streams(MailOf(b), MailOf(c))
      BY <2>1, <2>4
    <2> HIDE DEF c
    <2>6. Streams(MailOf(c), n)
      BY <1>3, <2>1, <2>2, <2>5
    <2>7. Streams(m, MailOf(b))
      BY <2>3, <2>4, StreamsCompose
    <2>8. Streams(m, MailOf(c))
      BY <2>5, <2>7, StreamsCompose
    <2> QED BY <2>6, <2>8, StreamsCompose
  <1>11. CASE \/ \E i \in 0..3 : SelectIndex(i)
              \/ PushParam
              \/ \E bits \in EnableMasks : WriteEnable(bits)
    BY <1>2, <1>6, <1>11 DEF SelectIndex, PushParam, WriteEnable
  <1>12. CASE ReadResponse \/ (\E k \in DiscSizes : LoadDiscImage(k)) \/ EjectDisc
    <2>1. d.flags = drive.flags /\ d.queued = drive.queued
      BY <1>2, <1>5, <1>12 DEF ReadResponse, LoadDiscImage, EjectDisc, Drives
    <2> QED BY <1>6, <2>1
  <1> QED BY <1>7, <1>8, <1>9, <1>10, <1>11, <1>12 DEF Next

\* The controller implements the mailbox: for every program the guest runs,
\* whatever it acknowledges and whatever discs come and go, each reply is
\* delivered whole, in the order of the commands, one code at a time.
THEOREM ImplementsMailbox == Spec => MailboxSpec
  <1>1. Init => Mailbox!Init
    BY DEF Init, NewDrive, Mailbox!Init, Mail
  <1>2. CdromInv /\ [Next]_vars => [Mailbox!Next]_Mail
    <2>1. CdromInv => Stable(drive)
      BY DEF CdromInv, Good
    <2>2. UNCHANGED vars => UNCHANGED Mail
      BY DEF vars, Mail
    <2> QED BY <2>1, <2>2, NextMail, StepsOfMailbox
  <1> QED BY <1>1, <1>2, InvCorrect, PTL DEF Spec, MailboxSpec, Mailbox!Spec

-----------------------------------------------------------------------------
(* The interrupt line and I_STAT.                                           *)

\* What the handler still has to do, by the order it was entered for.
PlanFits ==
  /\ ~early => plan \in {<<>>, DeviceFirst, <<"device", "istat", "restore">>,
                         <<"istat", "restore">>, <<"restore">>}
  /\ early => plan \in {<<>>, IstatFirst, <<"istat", "device", "restore">>,
                        <<"device", "restore">>, <<"restore">>}

LEMMA PlanSteps ==
  ASSUME PlanFits, early \in BOOLEAN, plan # <<>>
  PROVE  /\ Head(plan) = "select" =>
              /\ ~early => Tail(plan) = <<"device", "istat", "restore">>
              /\ early => Tail(plan) = <<"istat", "device", "restore">>
         /\ Head(plan) = "device" =>
              /\ ~early => Tail(plan) = <<"istat", "restore">>
              /\ early => Tail(plan) = <<"restore">>
         /\ Head(plan) = "istat" =>
              /\ ~early => Tail(plan) = <<"restore">>
              /\ early => Tail(plan) = <<"device", "restore">>
         /\ Head(plan) = "restore" => plan = <<"restore">> /\ Tail(plan) = <<>>
  <1>1. /\ Head(DeviceFirst) = "select" /\ Head(IstatFirst) = "select"
        /\ Tail(DeviceFirst) = <<"device", "istat", "restore">>
        /\ Tail(IstatFirst) = <<"istat", "device", "restore">>
    BY DEF DeviceFirst, IstatFirst
  <1>2. \A a, b, c : /\ Head(<<a, b, c>>) = a /\ Tail(<<a, b, c>>) = <<b, c>>
                     /\ Head(<<a, b>>) = a /\ Tail(<<a, b>>) = <<b>>
                     /\ Head(<<a>>) = a /\ Tail(<<a>>) = <<>>
    OBVIOUS
  <1>3. CASE ~early
    <2>1. CASE plan = DeviceFirst
      BY <1>1, <1>3, <2>1
    <2>2. CASE plan = <<"device", "istat", "restore">>
      BY <1>2, <1>3, <2>2
    <2>3. CASE plan = <<"istat", "restore">>
      BY <1>2, <1>3, <2>3
    <2>4. CASE plan = <<"restore">>
      BY <1>2, <1>3, <2>4
    <2> QED BY <1>3, <2>1, <2>2, <2>3, <2>4 DEF PlanFits
  <1>4. CASE early
    <2>1. CASE plan = IstatFirst
      BY <1>1, <1>4, <2>1
    <2>2. CASE plan = <<"istat", "device", "restore">>
      BY <1>2, <1>4, <2>2
    <2>3. CASE plan = <<"device", "restore">>
      BY <1>2, <1>4, <2>3
    <2>4. CASE plan = <<"restore">>
      BY <1>2, <1>4, <2>4
    <2> QED BY <1>4, <2>1, <2>2, <2>3, <2>4 DEF PlanFits
  <1> QED BY <1>3, <1>4

\* The handler has not cleared I_STAT yet.
IstatLeft == \E i \in 1..Len(plan) : plan[i] = "istat"

LEMMA IstatIsLeft ==
  \/ plan = DeviceFirst
  \/ plan = <<"device", "istat", "restore">>
  \/ plan = <<"istat", "restore">>
  => IstatLeft
  <1>1. CASE plan = DeviceFirst
    <2>1. plan[3] = "istat" /\ 3 \in 1..Len(plan)
      BY <1>1 DEF DeviceFirst
    <2> QED BY <2>1 DEF IstatLeft
  <1>2. CASE plan = <<"device", "istat", "restore">>
    <2>1. plan[2] = "istat" /\ 2 \in 1..Len(plan)
      BY <1>2
    <2> QED BY <2>1 DEF IstatLeft
  <1>3. CASE plan = <<"istat", "restore">>
    <2>1. plan[1] = "istat" /\ 1 \in 1..Len(plan)
      BY <1>3
    <2> QED BY <2>1 DEF IstatLeft
  <1> QED BY <1>1, <1>2, <1>3

IrqInv ==
  /\ CdromInv
  /\ enable = Bits
  /\ istat \in BOOLEAN /\ early \in BOOLEAN
  /\ PlanFits
  /\ LineAndStatusAgree

LEMMA LineIsFlags ==
  ASSUME CdromInv, enable = Bits
  PROVE  InterruptPending <=> drive.flags # {}
  <1>1. drive.flags \subseteq Bits
    BY DEF CdromInv, TypeOK, Drives
  <1> QED BY <1>1 DEF InterruptPending

\* Every step of the guest is an access of the controller or leaves it alone.
LEMMA GuestSteps == IrqNext => [Next]_vars
  <1> SUFFICES ASSUME IrqNext PROVE [Next]_vars
    OBVIOUS
  <1>1. CASE EnterHandler \/ HandlerIstat
    BY <1>1 DEF EnterHandler, HandlerIstat
  <1>2. CASE HandlerSelect \/ HandlerRestore
    BY <1>2 DEF HandlerSelect, HandlerRestore, Next
  <1>3. CASE HandlerDevice
    BY <1>3 DEF HandlerDevice, Next
  <1>4. CASE (\E c \in Commands : MainCommand(c)) \/ MainAccess \/ Eject
    BY <1>4 DEF MainCommand, MainAccess, Eject, Next
  <1> QED BY <1>1, <1>2, <1>3, <1>4 DEF IrqNext, Handler

LEMMA EnableStays == ASSUME IrqNext PROVE UNCHANGED enable
  <1>1. CASE EnterHandler \/ HandlerIstat
    BY <1>1 DEF EnterHandler, HandlerIstat, vars
  <1>2. CASE HandlerSelect \/ HandlerRestore \/ HandlerDevice
    BY <1>2 DEF HandlerSelect, HandlerRestore, HandlerDevice, SelectIndex, WriteAck
  <1>3. CASE (\E c \in Commands : MainCommand(c)) \/ MainAccess \/ Eject
    BY <1>3 DEF MainCommand, MainAccess, Eject, Command, PushParam, ReadResponse,
                ReadData, DmaRead32, EjectDisc
  <1> QED BY <1>1, <1>2, <1>3 DEF IrqNext, Handler

\* Only an acknowledgement lowers the line.
LEMMA LineStaysUp ==
  ASSUME CdromInv, drive.flags # {},
         \/ \E c \in Commands : Command(c)
         \/ PushParam \/ ReadResponse \/ ReadData \/ DmaRead32
         \/ EjectDisc
         \/ UNCHANGED drive
  PROVE  drive'.flags # {}
  <1>1. drive \in Drives /\ Stable(drive)
    BY DEF CdromInv, Good, Stable
  <1>2. \A e, f : MailOf(e) # <<>> /\ Streams(MailOf(e), MailOf(f)) => f.flags # {}
    BY DEF Streams, MailOf
  <1>3. MailOf(drive) # <<>> /\ MailOf(drive) \in Seq(SUBSET Bits)
    BY <1>1, MailType
  <1>4. CASE \E c \in Commands : Command(c)
    <2>1. Answers(MailOf(drive), MailOf(drive'))
      BY <1>1, <1>4, EffectAnswers DEF Command
    <2>2. PICK reply \in Mailbox!Replies : MailOf(drive') = MailOf(drive) \o reply
      BY <2>1 DEF Answers
    <2>3. reply \in Seq(SUBSET Bits)
      <3>1. reply \in {<<Ack>>, <<Error>>, <<Ack, Complete>>, <<Ack, DataReady>>,
                       <<Ack, Error>>}
        BY RepliesAre
      <3>2. {Ack, Error, Complete, DataReady} \subseteq SUBSET Bits
        BY CodesAreBits
      <3>3. \A x, y \in SUBSET Bits :
              <<x>> \in Seq(SUBSET Bits) /\ <<x, y>> \in Seq(SUBSET Bits)
        OBVIOUS
      <3> QED BY <3>1, <3>2, <3>3
    <2>4. MailOf(drive') # <<>>
      BY <1>3, <2>2, <2>3
    <2> QED BY <2>4 DEF MailOf
  <1>5. CASE ReadData
    BY <1>1, <1>2, <1>3, <1>5, PopDataByteMail DEF ReadData
  <1>6. CASE DmaRead32
    <2>1. \A e : Stable(e) /\ MailOf(e) # <<>> =>
                   Stable(PopDataByte(e)) /\ MailOf(PopDataByte(e)) # <<>>
      <3>1. \A e : Stable(e) => /\ Stable(PopDataByte(e))
                                /\ Streams(MailOf(e), MailOf(PopDataByte(e)))
        BY PopDataByteGood, PopDataByteMail DEF Good
      <3> QED BY <3>1 DEF Streams
    <2>2. drive' = PopDataByte(PopDataByte(PopDataByte(PopDataByte(drive))))
      BY <1>6 DEF DmaRead32
    <2>3. MailOf(drive') # <<>>
      BY <1>1, <1>3, <2>1, <2>2
    <2> QED BY <2>3 DEF MailOf
  <1>7. CASE ReadResponse \/ EjectDisc
    BY <1>1, <1>7 DEF ReadResponse, EjectDisc, Drives
  <1>8. CASE PushParam \/ UNCHANGED drive
    BY <1>8 DEF PushParam
  <1> QED BY <1>4, <1>5, <1>6, <1>7, <1>8

LEMMA IrqInitInv == IrqInit => IrqInv
  <1> SUFFICES ASSUME IrqInit PROVE IrqInv
    OBVIOUS
  <1>1. PICK n \in DiscSizes : drive = [NewDrive EXCEPT !.disc = n]
    BY DEF IrqInit
  <1>2. /\ drive \in Drives /\ drive.flags = {} /\ drive.queued = <<>>
        /\ drive.data = <<>> /\ drive.reading = FALSE
    <2>1. NewDrive \in Drives
      BY ConstantTypes DEF NewDrive, Drives, None, NoDisc
    <2>2. /\ NewDrive.flags = {} /\ NewDrive.queued = <<>>
          /\ NewDrive.data = <<>> /\ NewDrive.reading = FALSE
      BY DEF NewDrive
    <2>3. drive \in Drives
      BY <1>1, <2>1 DEF Drives
    <2> QED BY <1>1, <2>1, <2>2, <2>3 DEF Drives
  <1>3. Good(drive)
    BY <1>2 DEF Good, Stable, Delivered, Running, TailOfLast
  <1>4. TypeOK
    BY <1>2, CdromAssumption DEF IrqInit, TypeOK, Bits
  <1>5. ~InterruptPending /\ ~istat
    BY <1>2 DEF InterruptPending, IrqInit
  <1> QED BY <1>3, <1>4, <1>5
          DEF IrqInit, IrqInv, CdromInv, PlanFits, LineAndStatusAgree

LEMMA HandlerKeeps ==
  ASSUME IrqInv, Handler
  PROVE  /\ istat' \in BOOLEAN /\ early' \in BOOLEAN /\ PlanFits'
         /\ LineAndStatusAgree'
  <1>1. istat \in BOOLEAN /\ early \in BOOLEAN /\ PlanFits
    BY DEF IrqInv
  <1>2. InterruptPending' \in BOOLEAN
    BY DEF InterruptPending
  <1>3. CASE EnterHandler
    <2>1. istat' = (istat \/ InterruptPending')
      BY <1>3 DEF EnterHandler, Tick
    <2>2. \/ plan' = DeviceFirst /\ early' = FALSE
          \/ plan' = IstatFirst /\ early' = TRUE
      BY <1>3 DEF EnterHandler
    <2>3. PlanFits' /\ early' \in BOOLEAN
      BY <2>2 DEF PlanFits
    <2>4. early' \/ IstatLeft'
      <3>1. (plan = DeviceFirst => IstatLeft)'
        BY IstatIsLeft, PTL
      <3> QED BY <2>2, <3>1
    <2> QED BY <1>1, <1>2, <2>1, <2>3, <2>4 DEF LineAndStatusAgree, IstatLeft
  <1>4. CASE HandlerSelect
    <2>1. istat' = (istat \/ InterruptPending')
      BY <1>4 DEF HandlerSelect, Tick
    <2>2. /\ early' = early
          /\ ~early => plan' = <<"device", "istat", "restore">>
          /\ early => plan' = <<"istat", "device", "restore">>
      BY <1>1, <1>4, PlanSteps DEF HandlerSelect, HandlerStep
    <2>3. PlanFits' /\ early' \in BOOLEAN
      BY <1>1, <2>2 DEF PlanFits
    <2>4. early' \/ IstatLeft'
      <3>1. (plan = <<"device", "istat", "restore">> => IstatLeft)'
        BY IstatIsLeft, PTL
      <3> QED BY <1>1, <2>2, <3>1
    <2> QED BY <1>1, <1>2, <2>1, <2>3, <2>4 DEF LineAndStatusAgree, IstatLeft
  <1>5. CASE HandlerDevice
    <2>1. istat' = (istat \/ InterruptPending')
      BY <1>5 DEF HandlerDevice, Tick
    <2>2. /\ early' = early
          /\ ~early => plan' = <<"istat", "restore">>
          /\ early => plan' = <<"restore">>
      BY <1>1, <1>5, PlanSteps DEF HandlerDevice, HandlerStep
    <2>3. PlanFits' /\ early' \in BOOLEAN
      BY <1>1, <2>2 DEF PlanFits
    <2>4. early' \/ IstatLeft'
      <3>1. (plan = <<"istat", "restore">> => IstatLeft)'
        BY IstatIsLeft, PTL
      <3> QED BY <1>1, <2>2, <3>1
    <2> QED BY <1>1, <1>2, <2>1, <2>3, <2>4 DEF LineAndStatusAgree, IstatLeft
  <1>6. CASE HandlerIstat
    <2>1. istat' = InterruptPending'
      BY <1>2, <1>6 DEF HandlerIstat, Tick
    <2>2. /\ early' = early
          /\ ~early => plan' = <<"restore">>
          /\ early => plan' = <<"device", "restore">>
      BY <1>1, <1>6, PlanSteps DEF HandlerIstat, HandlerStep
    <2>3. PlanFits' /\ early' \in BOOLEAN
      BY <1>1, <2>2 DEF PlanFits
    <2> QED BY <1>2, <2>1, <2>3 DEF LineAndStatusAgree
  <1>7. CASE HandlerRestore
    <2>1. /\ istat' = (istat \/ InterruptPending')
          /\ UNCHANGED <<drive, enable>>
      BY <1>7 DEF HandlerRestore, Tick, SelectIndex
    <2>2. early' = early /\ plan = <<"restore">> /\ plan' = <<>>
      BY <1>1, <1>7, PlanSteps DEF HandlerRestore, HandlerStep
    <2>3. PlanFits' /\ early' \in BOOLEAN
      BY <1>1, <2>2 DEF PlanFits
    <2>4. InterruptPending' = InterruptPending
      BY <2>1 DEF InterruptPending
    <2>5. ~ \E i \in 1..Len(plan) : plan[i] = "istat"
      BY <2>2
    <2>6. /\ InterruptPending => istat
          /\ istat /\ ~InterruptPending => early
      BY <2>5 DEF IrqInv, LineAndStatusAgree
    <2>7. istat' = istat
      BY <1>1, <1>2, <2>1, <2>4, <2>6
    <2> QED BY <1>1, <2>2, <2>3, <2>4, <2>6, <2>7 DEF LineAndStatusAgree
  <1> QED BY <1>3, <1>4, <1>5, <1>6, <1>7 DEF Handler

LEMMA MainKeeps ==
  ASSUME IrqInv, CdromInv', enable' = Bits,
         (\E c \in Commands : MainCommand(c)) \/ MainAccess \/ Eject
  PROVE  /\ istat' \in BOOLEAN /\ early' \in BOOLEAN /\ PlanFits'
         /\ LineAndStatusAgree'
  <1>1. /\ istat \in BOOLEAN /\ early \in BOOLEAN /\ PlanFits
        /\ CdromInv /\ enable = Bits /\ LineAndStatusAgree
    BY DEF IrqInv
  <1>2. UNCHANGED <<plan, early>>
    BY DEF MainCommand, MainAccess, Eject
  <1>3. /\ InterruptPending <=> drive.flags # {}
        /\ InterruptPending' <=> drive'.flags # {}
    <2>1. InterruptPending <=> drive.flags # {}
      BY <1>1, LineIsFlags
    <2>2. drive'.flags \subseteq Bits
      BY DEF CdromInv, TypeOK, Drives
    <2>3. InterruptPending' <=> drive'.flags # {}
      BY <2>2 DEF InterruptPending
    <2> QED BY <2>1, <2>3
  <1>4. drive.flags # {} => drive'.flags # {}
    <2>1. \/ \E c \in Commands : Command(c)
          \/ PushParam \/ ReadResponse \/ ReadData \/ DmaRead32
          \/ EjectDisc
      BY DEF MainCommand, MainAccess, Eject
    <2> QED BY <1>1, <2>1, LineStaysUp
  <1>5. istat' = (istat \/ InterruptPending')
    <2>1. CASE (\E c \in Commands : MainCommand(c)) \/ MainAccess
      BY <2>1 DEF MainCommand, MainAccess, Tick
    <2>2. CASE Eject
      <3>1. istat' = istat /\ drive'.flags = drive.flags
        BY <1>1, <2>2 DEF Eject, EjectDisc, CdromInv, TypeOK, Drives
      <3>2. InterruptPending' => istat
        BY <1>1, <1>3, <3>1 DEF LineAndStatusAgree
      <3> QED BY <1>1, <3>1, <3>2
    <2> QED BY <2>1, <2>2
  <1>6. istat' \in BOOLEAN /\ early' \in BOOLEAN /\ PlanFits'
    BY <1>1, <1>2, <1>5 DEF PlanFits, InterruptPending
  <1>7. istat' /\ ~InterruptPending' => istat /\ ~InterruptPending
    BY <1>3, <1>4, <1>5
  <1> QED BY <1>1, <1>2, <1>5, <1>6, <1>7 DEF LineAndStatusAgree

LEMMA IrqNextInv == IrqInv /\ [IrqNext]_irqVars => IrqInv'
  <1> SUFFICES ASSUME IrqInv, [IrqNext]_irqVars PROVE IrqInv'
    OBVIOUS
  <1>1. CASE IrqNext
    <2>1. CdromInv'
      BY <1>1, GuestSteps, NextInv DEF IrqInv
    <2>2. enable' = Bits
      BY <1>1, EnableStays DEF IrqInv
    <2>3. /\ istat' \in BOOLEAN /\ early' \in BOOLEAN /\ PlanFits'
          /\ LineAndStatusAgree'
      BY <1>1, <2>1, <2>2, HandlerKeeps, MainKeeps DEF IrqNext
    <2> QED BY <2>1, <2>2, <2>3 DEF IrqInv
  <1>2. CASE UNCHANGED irqVars
    <2>1. UNCHANGED vars /\ UNCHANGED <<istat, plan, early>>
      BY <1>2 DEF irqVars
    <2>2. CdromInv'
      BY <2>1, NextInv DEF IrqInv
    <2>3. enable' = Bits /\ InterruptPending' = InterruptPending
      BY <2>1 DEF IrqInv, vars, InterruptPending
    <2> QED BY <2>1, <2>2, <2>3 DEF IrqInv, PlanFits, LineAndStatusAgree
  <1> QED BY <1>1, <1>2

\* Whatever commands the main program gives, whichever order the handler
\* acknowledges in and whenever the host opens the tray: I_STAT hides no
\* interrupt of the controller, and a handler that acknowledges the
\* controller first is never entered for nothing.
THEOREM LineMeetsStatus == IrqSpec => []LineAndStatusAgree
  <1>1. IrqInv => LineAndStatusAgree
    BY DEF IrqInv
  <1> QED BY <1>1, IrqInitInv, IrqNextInv, PTL DEF IrqSpec
=============================================================================
