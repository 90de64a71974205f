----------------------------- MODULE CardProtocol -----------------------------
(***************************************************************************)
(* The memory card of src/ps1-core/src/joy.rs: what a card does with each  *)
(* byte of a transaction.  Operators only: MemoryCard.tla runs one card    *)
(* alone, JoySerial.tla puts cards and controllers on the serial bus.      *)
(*                                                                         *)
(* Sizes are parameters (128-byte sectors, 1024 of them, 8-bit bytes in    *)
(* the code).  What stays is the order of the bytes, the address made of   *)
(* two of them, the checksum, and the end of each dialogue.                *)
(***************************************************************************)
EXTENDS Integers, SequencesExt

CONSTANTS
    ByteMod,       \* 256 in the code
    SectorBytes,   \* MEMORY_CARD_SECTOR_SIZE
    Sectors,       \* MEMORY_CARD_SECTORS
    BitXor(_, _)   \* exclusive or of two bytes

CONSTANTS CmdRead, CmdGetId, CmdWrite   \* 0x52, 0x53, 0x57
CONSTANTS Good, BadSum, BadSector       \* 0x47, 0x4e, 0xff, the results

Bytes == 0..(ByteMod - 1)
Sector == 0..(Sectors - 1)
IdLength == 8

\* An answer: the byte, whether the device pulls /ACK for another one, and
\* whether it does so after the long delay of a sector read.
More(v)    == [value |-> v, ack |-> TRUE, slow |-> FALSE]
MoreLate(v) == [value |-> v, ack |-> TRUE, slow |-> TRUE]
Final(v)    == [value |-> v, ack |-> FALSE, slow |-> FALSE]

\* The constant bytes of the dialogue (0x5a, 0x5d, 0x5c, the flag) are not
\* told apart.
Filler == 0

NewCard(data) ==
    [data |-> data, fresh |-> TRUE, dirty |-> FALSE, command |-> 0,
     step |-> 0, previous |-> 0, address |-> 0, buffer |-> <<>>,
     result |-> Good]

ResetCard(c) ==
    [c EXCEPT !.command = 0, !.step = 0, !.previous = 0, !.address = 0,
              !.buffer = <<>>, !.result = Good]

ValidAddress(c) == c.address < Sectors

\* The checksum of a sequence of bytes on top of what was summed before.
XorSum(start, bytes) == FoldSeq(BitXor, start, bytes)

AddressSum(c) == BitXor(c.address \div ByteMod, c.address % ByteMod)
\* Faulty: the address is left out of the checksum.
ChecksumOfData(c, bytes) == XorSum(0, bytes)
ChecksumOf(c, bytes) == XorSum(AddressSum(c), bytes)

\* Faulty: the buffer reaches the card before its checksum is looked at;
\* a bad checksum is not reported; the image changes behind the flag.
StoreThenCheck(c, checksum) ==
    IF ~ValidAddress(c) THEN [c EXCEPT !.result = BadSector]
    ELSE [c EXCEPT !.data[c.address] = c.buffer, !.fresh = FALSE,
                   !.dirty = TRUE,
                   !.result = IF checksum = ChecksumOf(c, c.buffer)
                              THEN Good ELSE BadSum]
RejectSilently(c, checksum) ==
    IF ~ValidAddress(c) \/ checksum # ChecksumOf(c, c.buffer)
    THEN [c EXCEPT !.result = Good]
    ELSE [c EXCEPT !.data[c.address] = c.buffer, !.fresh = FALSE,
                   !.dirty = TRUE, !.result = Good]
StoreClean(c, checksum) ==
    IF ~ValidAddress(c) THEN [c EXCEPT !.result = BadSector]
    ELSE IF checksum # ChecksumOf(c, c.buffer)
    THEN [c EXCEPT !.result = BadSum]
    ELSE [c EXCEPT !.data[c.address] = c.buffer, !.fresh = FALSE,
                   !.result = Good]

FinishWrite(c, checksum) ==
    IF ~ValidAddress(c) THEN [c EXCEPT !.result = BadSector]
    ELSE IF \/ Len(c.buffer) # SectorBytes
            \/ checksum # ChecksumOf(c, c.buffer)
    THEN [c EXCEPT !.result = BadSum]
    ELSE [c EXCEPT !.data[c.address] = c.buffer, !.fresh = FALSE,
                   !.dirty = TRUE, !.result = Good]

-----------------------------------------------------------------------------
(* Each exchange gives the card afterwards and its answer.                 *)

Reply(c, answer) == [card |-> c, answer |-> answer]

\* Both dialogues take the address from their third and fourth bytes.
TakeHigh(c, v) == [c EXCEPT !.address = v * ByteMod]
TakeLow(c, v)  == [c EXCEPT !.address = @ + v]

ExchangeRead(c, v) ==
    LET s == c.step
        sum == 8 + SectorBytes
    IN  CASE s = 2 -> Reply(TakeHigh(c, v), More(Filler))
          [] s = 3 -> Reply(TakeLow(c, v), More(c.previous))
          [] s = 4 -> Reply(c, MoreLate(Filler))
          [] s = 6 -> Reply(c, More(IF ValidAddress(c)
                                    THEN c.address \div ByteMod
                                    ELSE BadSector))
          [] s = 7 -> Reply(c, IF ValidAddress(c)
                               THEN More(c.address % ByteMod)
                               ELSE Final(BadSector))
          [] s \in 8..(sum - 1) -> Reply(c, More(c.data[c.address][s - 7]))
          [] s = sum -> Reply(c, More(ChecksumOf(c, c.data[c.address])))
          [] s = sum + 1 -> Reply(c, Final(Good))
          [] s > sum + 1 -> Reply(c, Final(BadSector))
          [] OTHER -> Reply(c, More(Filler))

\* data[offset] beyond the image: the program panics.
Panics(c) ==
    /\ c.command = CmdRead
    /\ c.step \in 8..(7 + SectorBytes)
    /\ ~ValidAddress(c)

ExchangeWrite(c, v) ==
    LET s == c.step
        sum == 4 + SectorBytes
    IN  CASE s = 2 -> Reply(TakeHigh(c, v), More(Filler))
          [] s = 3 -> Reply(TakeLow(c, v), More(c.previous))
          [] s \in 4..(sum - 1) ->
                 Reply([c EXCEPT !.buffer = Append(@, v)], More(c.previous))
          [] s = sum -> Reply(FinishWrite(c, v), More(c.previous))
          [] s = sum + 3 -> Reply(c, Final(c.result))
          [] s > sum + 3 -> Reply(c, Final(BadSector))
          [] OTHER -> Reply(c, More(Filler))

ExchangeId(c) ==
    Reply(c, CASE c.step + 1 < IdLength -> More(Filler)
               [] c.step + 1 = IdLength -> Final(Filler)
               [] OTHER -> Final(BadSector))

ExchangeCommand(c, v) ==
    Reply([c EXCEPT !.command = v, !.step = 0, !.previous = v],
          IF v \in {CmdRead, CmdGetId, CmdWrite} THEN More(Filler)
                                                 ELSE Final(Filler))

CardExchange(c, v) ==
    IF c.command = 0 THEN ExchangeCommand(c, v)
    ELSE LET r == CASE c.command = CmdRead  -> ExchangeRead(c, v)
                    [] c.command = CmdGetId -> ExchangeId(c)
                    [] c.command = CmdWrite -> ExchangeWrite(c, v)
                    [] OTHER -> Reply(c, Final(BadSector))
         IN  [r EXCEPT !.card.previous = v, !.card.step = @ + 1]
=============================================================================
