-------------------------------- MODULE Cdrom --------------------------------
(***************************************************************************)
(* The CD-ROM controller of ps1-core (src/ps1-core/src/cdrom.rs).          *)
(*                                                                         *)
(* The controller answers every command with one or two interrupts.  Each  *)
(* interrupt carries a response; the first is delivered at once (its code  *)
(* is put into interrupt_flags, its response into the response FIFO) and   *)
(* the others wait in queued_interrupts until the guest has acknowledged   *)
(* the one before.  A read delivers a whole sector into the data FIFO and  *)
(* goes on to the next sector by itself once the data FIFO is empty and no *)
(* interrupt is outstanding.                                               *)
(*                                                                         *)
(* The state of struct Cdrom is the record "drive"; its methods are        *)
(* operators from a drive to a drive, composed the way the methods call    *)
(* each other, and every register access of the guest is one action.       *)
(*                                                                         *)
(* Abstractions.  A sector is SectorBytes bytes, each named by its LBA and *)
(* its offset.  An interrupt code is the set of the bits it sets in        *)
(* interrupt_flags (bits 3 and 4 can never be set).  A response is its     *)
(* drive status followed by at most one item that stands for the bytes     *)
(* after it.  "params" counts the parameter bytes; what they say is the    *)
(* argument the command chooses.  seek_lba is never read and seek_active   *)
(* is FALSE between two register accesses (seek sets and clears it).       *)
(***************************************************************************)
EXTENDS Integers, Sequences

CONSTANTS
    SectorBytes,   \* bytes of one sector (2048 in the code)
    LbaMod,        \* loc_lba wraps at this value (2^32 in the code)
    Pregap,        \* SECTOR_PREGAP, the position of LBA 0 (150 in the code)
    DiscSizes,     \* sector counts of the discs the host may mount
    Positions,     \* absolute positions (m * 60 + s) * 75 + f that Setloc names
    Modes,         \* mode bytes that Setmode writes
    Filters,       \* file/channel pairs that Setfilter writes
    Commands,      \* the commands the guest issues
    EnableMasks,   \* the sets of bits the guest writes to interrupt_enable
    MaxQueued,     \* bound: interrupts that may wait in queued_interrupts
    MaxParams      \* bound: parameter bytes that may wait

ASSUME CdromAssumption ==
    /\ SectorBytes \in Nat \ {0}
    /\ LbaMod \in Nat \ {0}
    /\ Pregap \in Nat
    /\ DiscSizes \subseteq Nat \ {0}
    /\ Positions \subseteq Nat
    /\ EnableMasks \subseteq SUBSET {0, 1, 2}
    /\ MaxQueued \in Nat
    /\ MaxParams \in Nat

VARIABLES
    drive,         \* the fields of struct Cdrom that commands work on
    index,         \* index: the register bank the next access selects
    params,        \* how many bytes the parameter FIFO holds
    enable         \* interrupt_enable: the codes' bits that raise the IRQ line

vars == <<drive, index, params, enable>>

-----------------------------------------------------------------------------
(* Interrupt codes and drive status, as sets of bits.                      *)

DataReady == {0}
Complete  == {1}
Ack       == {0, 1}
Error     == {0, 2}
Bits      == {0, 1, 2}
Codes     == {DataReady, Complete, Ack, Error}

NoDisc    == 0     \* the sector count when disc is None
None      == -1    \* last_sector_lba is None

StatusBits == {"motor", "read", "seek", "error"}

DriveStatus(d) ==
    IF d.reading THEN {"motor", "read"} ELSE {"motor"}

SectorData(lba) == [i \in 1..SectorBytes |-> <<lba, i>>]

-----------------------------------------------------------------------------
(* The interrupt queue.                                                    *)

Interrupt(code, response) == [code |-> code, response |-> response]

ActivateInterrupt(d, i) ==
    [d EXCEPT !.responses = i.response, !.flags = i.code]

\* Faulty: a waiting interrupt overtakes those queued before it.
QueueNewestFirst(d, code, response) ==
    IF d.flags = {}
    THEN ActivateInterrupt(d, Interrupt(code, response))
    ELSE [d EXCEPT !.queued = <<Interrupt(code, response)>> \o @]

QueueInterrupt(d, code, response) ==
    IF d.flags = {}
    THEN ActivateInterrupt(d, Interrupt(code, response))
    ELSE [d EXCEPT !.queued = Append(@, Interrupt(code, response))]

Status(bits) == [status |-> bits]

QueueStatus(d, code) == QueueInterrupt(d, code, <<Status(DriveStatus(d))>>)

ErrorResponse(d) ==
    LET stopped == [d EXCEPT !.reading = FALSE]
    IN  QueueInterrupt(stopped, Error,
                       <<Status(DriveStatus(stopped) \union {"error"}),
                         [reason |-> "invalid"]>>)

-----------------------------------------------------------------------------
(* Sector delivery.                                                        *)

\* Faulty: a read that leaves the disc just stops.
EndSilently(d) ==
    IF d.loc < d.disc
    THEN QueueStatus([d EXCEPT !.data = SectorData(d.loc),
                               !.last = d.loc,
                               !.loc  = d.loc + 1],
                     DataReady)
    ELSE [d EXCEPT !.reading = FALSE]

QueueCurrentSector(d) ==
    IF d.loc < d.disc       \* a disc is mounted and the sector lies on it
    THEN QueueStatus([d EXCEPT !.data = SectorData(d.loc),
                               !.last = d.loc,
                               !.loc  = IF d.loc < LbaMod - 1
                                        THEN d.loc + 1 ELSE d.loc],
                     DataReady)
    ELSE ErrorResponse(d)

\* Faulty: the next sector does not wait for the FIFO to be empty.
ReadyWithData(d) ==
    /\ d.reading
    /\ d.flags = {}
    /\ d.queued = <<>>

ReadyForSector(d) ==
    /\ d.reading
    /\ d.data = <<>>
    /\ d.flags = {}
    /\ d.queued = <<>>

QueueNextSectorIfReady(d) ==
    IF ReadyForSector(d) THEN QueueCurrentSector(d) ELSE d

\* Faulty: taking the last byte does not go on with the read.
PopOnly(d) == IF d.data = <<>> THEN d ELSE [d EXCEPT !.data = Tail(@)]

PopDataByte(d) ==
    QueueNextSectorIfReady(
        IF d.data = <<>> THEN d ELSE [d EXCEPT !.data = Tail(@)])

\* Faulty: the next waiting interrupt, or the next sector, is left alone.
AckOnly(d, mask) == [d EXCEPT !.flags = @ \ mask]
AckThenQueueOnly(d, mask) ==
    LET acked == [d EXCEPT !.flags = @ \ mask]
    IN  IF acked.flags = {} /\ acked.queued # <<>>
        THEN ActivateInterrupt([acked EXCEPT !.queued = Tail(@)],
                               Head(acked.queued))
        ELSE acked

AckInterrupt(d, mask) ==
    LET acked == [d EXCEPT !.flags = @ \ mask]
    IN  IF acked.flags # {}
        THEN acked
        ELSE IF acked.queued # <<>>
             THEN ActivateInterrupt([acked EXCEPT !.queued = Tail(@)],
                                    Head(acked.queued))
             ELSE QueueNextSectorIfReady(acked)

-----------------------------------------------------------------------------
(* Commands: what each one does to the drive, given how many parameter     *)
(* bytes were waiting.                                                     *)

AckThenComplete(d) == QueueStatus(QueueStatus(d, Ack), Complete)

AckWith(d, item) == QueueInterrupt(d, Ack, <<Status(DriveStatus(d)), item>>)

\* lba_to_bcd_msf: the absolute position of a sector.
Position(lba) == [position |-> (lba + Pregap) % LbaMod]

NeedsDisc(d, result) == IF d.disc = NoDisc THEN ErrorResponse(d) ELSE result

NeedsParams(d, n, result) == IF params < n THEN ErrorResponse(d) ELSE result

Setloc(d, position) ==
    NeedsParams(d, 3, QueueStatus(
        [d EXCEPT !.loc = (position - Pregap) % LbaMod], Ack))

StartRead(d) ==
    NeedsDisc(d, QueueCurrentSector(
        QueueStatus([d EXCEPT !.reading = TRUE], Ack)))

Stop(d) == AckThenComplete([d EXCEPT !.reading = FALSE, !.data = <<>>])

Pause(d) == AckThenComplete([d EXCEPT !.reading = FALSE])

InitDrive(d) ==
    QueueStatus([d EXCEPT !.mode = 0, !.reading = FALSE, !.data = <<>>], Ack)

Setfilter(d, filter) ==
    NeedsParams(d, 2, QueueStatus([d EXCEPT !.filter = filter], Ack))

Setmode(d, mode) ==
    NeedsParams(d, 1, QueueStatus([d EXCEPT !.mode = mode], Ack))

\* GetlocL and GetlocP: the last sector read, or where Setloc points.
Getloc(d) ==
    LET lba == IF d.last = None THEN d.loc ELSE d.last
    IN  QueueInterrupt(d, Ack, <<Position(lba)>>)

Gettd(d, track) ==
    NeedsDisc(d, CASE track = 0 -> AckWith(d, Position(d.disc))
                   [] track = 1 -> AckWith(d, Position(0))
                   [] OTHER     -> ErrorResponse(d))

Seek(d) ==
    LET stopped == [d EXCEPT !.reading = FALSE, !.data = <<>>]
    IN  NeedsDisc(d, QueueStatus(
            QueueInterrupt(stopped, Ack,
                           <<Status(DriveStatus(stopped) \union {"seek"})>>),
            Complete))

Getid(d) ==
    NeedsDisc(d, QueueInterrupt(QueueStatus(d, Ack), Complete,
                                <<Status(DriveStatus(d)), [id |-> "SCEA"]>>))

\* The drives a command may leave behind: one for every value its parameter
\* bytes may have.
Effect(d, command) ==
    CASE command = "Nop"       -> {QueueStatus(d, Ack)}
      [] command = "Setloc"    -> {Setloc(d, p) : p \in Positions}
      [] command = "Read"      -> {StartRead(d)}
      [] command = "MotorOn"   -> {AckThenComplete(d)}
      [] command = "Stop"      -> {Stop(d)}
      [] command = "Pause"     -> {Pause(d)}
      [] command = "Init"      -> {InitDrive(d)}
      [] command = "Mute"      -> {QueueStatus([d EXCEPT !.muted = TRUE], Ack)}
      [] command = "Demute"    -> {QueueStatus([d EXCEPT !.muted = FALSE], Ack)}
      [] command = "Setfilter" -> {Setfilter(d, f) : f \in Filters}
      [] command = "Setmode"   -> {Setmode(d, m) : m \in Modes}
      [] command = "Getparam"  -> {AckWith(d, [settings |-> <<d.mode, d.filter, d.muted>>])}
      [] command = "Getloc"    -> {Getloc(d)}
      [] command = "GetTN"     -> {NeedsDisc(d, AckWith(d, [tracks |-> <<1, 1>>]))}
      [] command = "GetTD"     -> {Gettd(d, t) : t \in IF params = 0 THEN {0} ELSE 0..2}
      [] command = "Seek"      -> {Seek(d)}
      [] command = "Test"      -> {AckWith(d, [version |-> 0])}
      [] command = "GetID"     -> {Getid(d)}
      [] command = "ReadTOC"   -> {NeedsDisc(d, AckThenComplete(d))}
      [] OTHER                 -> {ErrorResponse(d)}

-----------------------------------------------------------------------------
(* Register accesses of the guest, and the host's disc tray.  Reading the  *)
(* status register or a flag register changes nothing and has no action.   *)

SelectIndex(i) ==
    /\ index' = i
    /\ UNCHANGED <<drive, params, enable>>

Command(command) ==
    /\ index = 0
    /\ Len(drive.queued) + 2 <= MaxQueued
    /\ drive' \in Effect(drive, command)
    /\ params' = 0
    /\ UNCHANGED <<index, enable>>

PushParam ==
    /\ index = 0
    /\ params < MaxParams
    /\ params' = params + 1
    /\ UNCHANGED <<drive, index, enable>>

WriteEnable(bits) ==
    /\ index = 1
    /\ enable' = bits
    /\ UNCHANGED <<drive, index, params>>

WriteAck(mask) ==
    /\ index \in {1, 3}
    /\ drive' = AckInterrupt(drive, mask)
    /\ UNCHANGED <<index, params, enable>>

ReadResponse ==
    /\ drive.responses # <<>>
    /\ drive' = [drive EXCEPT !.responses = Tail(@)]
    /\ UNCHANGED <<index, params, enable>>

ReadData ==
    /\ drive' = PopDataByte(drive)
    /\ UNCHANGED <<index, params, enable>>

DmaRead32 ==
    /\ drive' = PopDataByte(PopDataByte(PopDataByte(PopDataByte(drive))))
    /\ UNCHANGED <<index, params, enable>>

LoadDiscImage(sectors) ==
    /\ drive' = [drive EXCEPT !.disc = sectors, !.loc = 0, !.reading = FALSE,
                              !.last = None, !.data = <<>>]
    /\ UNCHANGED <<index, params, enable>>

\* Faulty: the data FIFO outlives the disc.
EjectKeepingData ==
    /\ drive' = [drive EXCEPT !.disc = NoDisc, !.reading = FALSE, !.last = None]
    /\ UNCHANGED <<index, params, enable>>

EjectDisc ==
    /\ drive' = [drive EXCEPT !.disc = NoDisc, !.reading = FALSE,
                              !.last = None, !.data = <<>>]
    /\ UNCHANGED <<index, params, enable>>

-----------------------------------------------------------------------------
NewDrive ==
    [flags |-> {}, responses |-> <<>>, queued |-> <<>>, data |-> <<>>,
     disc |-> NoDisc, loc |-> 0, last |-> None, reading |-> FALSE,
     mode |-> 0, filter |-> 0, muted |-> FALSE]

Init ==
    /\ drive = NewDrive
    /\ index = 0
    /\ params = 0
    /\ enable = {}

Next ==
    \/ \E i \in 0..3 : SelectIndex(i)
    \/ \E c \in Commands : Command(c)
    \/ PushParam
    \/ \E bits \in EnableMasks : WriteEnable(bits)
    \/ \E mask \in SUBSET Bits : WriteAck(mask)
    \/ ReadResponse
    \/ ReadData
    \/ DmaRead32
    \/ \E n \in DiscSizes : LoadDiscImage(n)
    \/ EjectDisc

Spec == Init /\ [][Next]_vars

InterruptPending == drive.flags \intersect enable # {}

-----------------------------------------------------------------------------
(* Types.                                                                  *)

Items ==
    [status : SUBSET StatusBits] \union [position : 0..LbaMod - 1]
    \union [reason : {"invalid"}] \union [id : {"SCEA"}]
    \union [tracks : {<<1, 1>>}] \union [version : {0}]
    \union [settings : (Modes \union {0}) \X (Filters \union {0}) \X BOOLEAN]

Interrupts == [code : Codes, response : Seq(Items)]

Drives ==
    [flags : SUBSET Bits, responses : Seq(Items), queued : Seq(Interrupts),
     data : Seq((0..LbaMod - 1) \X (1..SectorBytes)),
     disc : DiscSizes \union {NoDisc}, loc : 0..LbaMod - 1,
     last : (0..LbaMod - 1) \union {None}, reading : BOOLEAN,
     mode : Modes \union {0}, filter : Filters \union {0}, muted : BOOLEAN]

TypeOK ==
    /\ drive \in Drives
    /\ index \in 0..3
    /\ params \in 0..MaxParams
    /\ enable \in SUBSET Bits

-----------------------------------------------------------------------------
(* Safety of one drive.                                                    *)

\* No interrupt waits while none is outstanding: only an acknowledgement
\* that clears a code takes one out of queued_interrupts, so a waiting
\* interrupt behind a clear flag register would never be delivered.
NoStrandedInterrupt == drive.flags = {} => drive.queued = <<>>

\* A read never stalls: while the drive reads, either a sector waits in the
\* data FIFO or an interrupt is outstanding whose acknowledgement goes on
\* with the next sector.  (queue_next_sector_if_ready runs only after a pop
\* or an acknowledgement; nothing else would start the next sector.)
ReadNeverStalls == drive.reading => drive.data # <<>> \/ drive.flags # {}

\* The data FIFO holds a tail of the sector last_sector_lba of the mounted
\* disc, in order and without a gap: sectors never mix in it and nothing
\* of a disc that was taken out survives.
DataIsTailOfLastSector ==
    LET missing == SectorBytes - Len(drive.data)
    IN  drive.data # <<>> =>
            /\ drive.last \in 0..drive.disc - 1
            /\ missing >= 0
            /\ \A i \in 1..Len(drive.data) :
                   drive.data[i] = <<drive.last, missing + i>>

\* The mailbox the guest sees: the code outstanding, then the waiting ones.
Mail ==
    IF drive.flags = {} THEN <<>>
    ELSE <<drive.flags>> \o [i \in 1..Len(drive.queued) |-> drive.queued[i].code]

Mailbox == INSTANCE CdromMailbox WITH mail <- Mail

\* The controller implements CdromMailbox: every reply is delivered, whole
\* and in the order its command was given, one code at a time.
MailboxSpec == Mailbox!Spec

-----------------------------------------------------------------------------
(* What one access may never do.                                           *)

\* Bytes of the FIFO are lost only when the guest asks for it: a sector is
\* replaced by the next one only after its last byte was taken, unless the
\* guest issued a command or the disc was changed.
DiscChange == EjectDisc \/ \E n \in DiscSizes : LoadDiscImage(n)

SectorKeptUntilTaken ==
    [][ \/ \E c \in Commands : Command(c)
        \/ DiscChange
        \/ drive.data = <<>>
        \/ drive.data' = drive.data
        \/ ReadData /\ (Len(drive.data) > 1 => drive.data' = Tail(drive.data))
        \/ DmaRead32
             /\ (Len(drive.data) > 4 => drive.data' = SubSeq(drive.data, 5, Len(drive.data)))
      ]_vars

StopCommands == {"Pause", "Stop", "Init", "Seek"}

\* The access raises this interrupt, delivered at once or last in the queue.
Raised(code) ==
    \/ drive'.flags = code
    \/ drive'.queued # <<>> /\ drive'.queued[Len(drive'.queued)].code = code

\* The guest learns all that becomes of a read it started: the access that
\* puts a sector into the FIFO also announces it, and one that ends the read
\* is a command that says so, a disc change, or raises the error the guest
\* is waiting for (queue_current_sector).
ReadsAreReported ==
    [][ /\ drive'.last # drive.last /\ drive'.last # None => Raised(DataReady)
        /\ drive.reading /\ ~drive'.reading =>
              \/ \E c \in StopCommands \intersect Commands : Command(c)
              \/ DiscChange
              \/ Raised(Error)
      ]_vars
=============================================================================
