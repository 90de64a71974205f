------------------------------ MODULE MemoryCard ------------------------------
(***************************************************************************)
(* One memory card and a guest that sends it any bytes: the card's half of *)
(* src/ps1-core/src/joy.rs.  A transaction starts when the card is         *)
(* selected and may be broken off after any byte.                          *)
(***************************************************************************)
EXTENDS CardProtocol

CONSTANTS
    MaxStep,       \* bound: bytes of one transaction after the command
    MaxWrites,     \* bound: sectors written while the card is inserted
    Image,         \* the image inserted
    InBytes        \* bound: address and data bytes the guest sends

ASSUME CardAssumption ==
    /\ ByteMod \in Nat \ {0} /\ SectorBytes \in Nat \ {0}
    /\ Sectors \in Nat \ {0} /\ MaxStep \in Nat /\ MaxWrites \in Nat
    /\ {CmdRead, CmdGetId, CmdWrite} \subseteq Bytes \ {0}
    /\ CmdRead # CmdGetId /\ CmdRead # CmdWrite /\ CmdGetId # CmdWrite
    /\ {Good, BadSum, BadSector} \subseteq Bytes
    /\ Image \in [Sector -> [1..SectorBytes -> Bytes]]
    /\ InBytes \subseteq Bytes
    /\ \A a, b \in Bytes : BitXor(a, b) \in Bytes

VARIABLES
    card,
    panicked,      \* the program indexed beyond the image and is gone
    \* Observations:
    sent,          \* bytes of this transaction, the command first
    got,           \* answers of this transaction
    before,        \* the image when this transaction began
    saved,         \* the image the host saved last
    writes         \* sectors written

cardVars == <<card, panicked, sent, got, before, saved, writes>>

\* Bound: the guest sends any command, and 0 afterwards except where its
\* bytes say something, as the address, the data and the checksum.
Sendable ==
    IF card.command = 0 THEN Bytes
    ELSE IF Len(sent) \in 3..(5 + SectorBytes) THEN InBytes
    ELSE {Filler}

\* The card sees a byte; the program dies on a read beyond the image.
Exchange(v) ==
    /\ ~panicked
    /\ card.step < MaxStep
    /\ IF Panics(card)
       THEN panicked' = TRUE /\ UNCHANGED <<card, sent, got, before, writes>>
       ELSE LET r == CardExchange(card, v) IN
            /\ r.card.data # card.data => writes < MaxWrites
            /\ writes' = writes + (IF r.card.data # card.data THEN 1 ELSE 0)
            /\ card' = r.card
            /\ sent' = IF card.command = 0 THEN <<v>>
                       ELSE Append(sent, v)
            /\ got' = IF card.command = 0 THEN <<r.answer>>
                      ELSE Append(got, r.answer)
            /\ UNCHANGED <<panicked, before>>
    /\ UNCHANGED saved

\* DTR drops, the port is changed or the card is selected again.
Deselect ==
    /\ ~panicked
    /\ card' = ResetCard(card)
    /\ sent' = <<>>
    /\ got' = <<>>
    /\ before' = card.data
    /\ UNCHANGED <<panicked, saved, writes>>

\* The host writes the image to its file and clears the dirty flag.
Save ==
    /\ ~panicked
    /\ saved' = card.data
    /\ card' = [card EXCEPT !.dirty = FALSE]
    /\ UNCHANGED <<panicked, sent, got, before, writes>>

CardInit ==
    /\ card = NewCard(Image)
    /\ panicked = FALSE
    /\ sent = <<>>
    /\ got = <<>>
    /\ before = Image
    /\ saved = Image
    /\ writes = 0

CardNext == (\E v \in Sendable : Exchange(v)) \/ Deselect \/ Save

CardSpec == CardInit /\ [][CardNext]_cardVars

-----------------------------------------------------------------------------
\* What the guest asked for, read off the bytes it sent.
AskedAddress == sent[4] * ByteMod + sent[5]
AskedBytes   == SubSeq(sent, 6, 5 + SectorBytes)
AskedSum     == sent[6 + SectorBytes]
ProperSum    ==
    XorSum(BitXor(sent[4], sent[5]), AskedBytes)
WriteAsked ==
    /\ Len(sent) >= 6 + SectorBytes
    /\ sent[1] = CmdWrite
ProperWrite ==
    WriteAsked /\ AskedAddress < Sectors /\ AskedSum = ProperSum

\* A sector is written whole or not at all: the image differs from what it
\* was when the transaction began exactly when all the bytes of a write to
\* an existing sector, and their checksum, have been sent; then it differs
\* in that sector, which holds those bytes.  A transaction broken off before
\* changes nothing.
WriteIsAtomic ==
    card.data = IF ProperWrite
                THEN [before EXCEPT ![AskedAddress] = AskedBytes]
                ELSE before

\* The last answer of a write tells the guest what happened: Good only for
\* sectors that were stored, and the right one of the two failures.
ResultIsTruthful ==
    WriteAsked /\ Len(got) >= 9 + SectorBytes =>
        got[9 + SectorBytes] =
            Final(IF ProperWrite THEN Good
                 ELSE IF AskedAddress < Sectors THEN BadSum ELSE BadSector)

\* A complete read hands out the sector asked for, and the checksum lets
\* the guest see it.
ReadIsVerifiable ==
    sent # <<>> /\ sent[1] = CmdRead /\ Len(got) = 11 + SectorBytes =>
        LET answer == [i \in 1..SectorBytes |-> got[9 + i].value]
        IN  /\ answer = card.data[AskedAddress]
            /\ got[10 + SectorBytes].value =
                   XorSum(BitXor(sent[4], sent[5]), answer)

\* The host can rely on the dirty flag, and the guest on the flag that says
\* the card was not written since it was inserted.
FlagsCoverChanges ==
    /\ ~card.dirty => card.data = saved
    /\ card.fresh => card.data = Image

\* A read of a sector that does not exist is answered
\* (docs/concepts/controllers-memory-cards.md:17, "invalid-sector
\* responses").  A guest that sends another byte after the answer takes the
\* program down.
NeverPanics == ~panicked
=============================================================================
