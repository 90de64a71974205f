------------------------------- MODULE JoySerial -------------------------------
(***************************************************************************)
(* The SIO0 serial bus: JoySerial of src/ps1-core/src/joy.rs with its two  *)
(* ports, the controllers and memory cards plugged into them, and the      *)
(* IRQ_JOY bit of I_STAT that Bus::tick sets.                              *)
(*                                                                         *)
(* Actions are the register accesses of the guest (any, in any order, with *)
(* any bytes), Bus::tick after a CPU step, and the host plugging devices.  *)
(* Times are scaled: the code has an /ACK 400 cycles after a byte, for 100 *)
(* cycles, and a receive FIFO of 8.                                        *)
(***************************************************************************)
EXTENDS CardProtocol

CONSTANTS
    AckDelay, AckPulse, ReadDelay,  \* ACK_DELAY_CYCLES, ..., _READ_DELAY_...
    BitCycles,     \* 8: cycles per byte for each cycle of the baud period
    Bauds, Factors,\* baud rates and the prescalers that mode selects
    RxSize,        \* 8, the size of the receive FIFO
    LastSwitch,    \* 2, the step of a poll that gives the last switches
    LastAxis,      \* 6, the step that gives the last axis
    Controls,      \* values written to JOY_CTRL
    InBytes,       \* bytes the guest sends
    TickCycles,    \* cycles of one CPU step
    Image,         \* the image of a card that is plugged in
    DualPorts,     \* bound: ports the host may plug a DualShock into
    MaxBytes       \* bound: bytes the guest sends

CONSTANTS SelectPad, SelectCard, CmdPoll    \* 0x01, 0x81, 0x42

\* What JOY_CTRL can hold: the port, the two acknowledgements that a write
\* asks for, and the bytes needed in the FIFO before its interrupt.
ControlWords ==
    [tx : BOOLEAN, dtr : BOOLEAN, force : BOOLEAN, ack : BOOLEAN,
     reset : BOOLEAN, txIrq : BOOLEAN, rxIrq : BOOLEAN, dsrIrq : BOOLEAN,
     port : {0, 1}, need : Nat]

ASSUME JoyAssumption ==
    /\ Controls \subseteq ControlWords
    /\ {AckDelay, AckPulse, BitCycles, RxSize} \subseteq Nat \ {0}
    /\ ReadDelay \in Nat /\ MaxBytes \in Nat
    /\ Bauds \subseteq Nat /\ Factors \subseteq Nat \ {0}
    /\ TickCycles \subseteq Nat \ {0}
    /\ InBytes \subseteq Bytes
    /\ LastSwitch \in Nat /\ LastAxis \in Nat /\ LastSwitch < LastAxis

VARIABLES
    joy,           \* the registers and counters of JoySerial
    pads,          \* per port: the controller, or nothing
    cards,         \* per port: the memory card, or nothing
    istat,         \* the IRQ_JOY bit of I_STAT
    \* Observations:
    sentBytes,     \* bytes written to JOY_DATA
    seen           \* the guest cleared I_STAT since the line last rose

vars == <<joy, pads, cards, istat, sentBytes, seen>>

Ports == {0, 1}
NoByte == <<>>
Absent == <<>>
NewPad(dual) ==
    <<[dual |-> dual, analog |-> dual, command |-> 0, step |-> 0]>>

-----------------------------------------------------------------------------
(* Controllers: the poll, and nothing else.                                *)

\* After the identifier and a constant come the switches, in two bytes, and
\* the four axes, to which an analog pad alone invites with /ACK.
PadAnswer(p) ==
    IF p.step > LastAxis THEN Final(BadSector)
    ELSE IF p.step = LastAxis \/ (p.step = LastSwitch /\ ~p.analog)
    THEN Final(Filler)
    ELSE More(Filler)

PadExchange(p, v) ==
    IF p.command = 0
    THEN [pad |-> [p EXCEPT !.command = v, !.step = 0],
          answer |-> IF v = CmdPoll THEN More(Filler) ELSE Final(BadSector)]
    ELSE IF p.command # CmdPoll
    THEN [pad |-> p, answer |-> Final(BadSector)]
    ELSE [pad |-> [p EXCEPT !.step = @ + 1], answer |-> PadAnswer(p)]

ResetPad(p) == [p EXCEPT !.command = 0, !.step = 0]

-----------------------------------------------------------------------------
(* Device selection.  bus gathers joy, pads and cards.                     *)

NoControl ==
    [tx |-> FALSE, dtr |-> FALSE, force |-> FALSE, ack |-> FALSE,
     reset |-> FALSE, txIrq |-> FALSE, rxIrq |-> FALSE, dsrIrq |-> FALSE,
     port |-> 0, need |-> 1]

\* The registers cleared by RESET.
ClearJoy(j) ==
    [j EXCEPT !.baud = 0, !.factor = 1, !.control = NoControl, !.rx = <<>>,
              !.lastRx = 0, !.pending = NoByte, !.left = 0, !.ackDelay = 0,
              !.ackPulse = 0, !.irq = FALSE]

NewJoy ==
    [baud |-> 0, factor |-> 1, control |-> NoControl, rx |-> <<>>,
     lastRx |-> 0, pending |-> NoByte, left |-> 0, ackDelay |-> 0,
     ackPulse |-> 0, irq |-> FALSE, selected |-> "none"]

Bus == [joy |-> joy, pads |-> pads, cards |-> cards]

ResetTransaction(b) ==
    [joy   |-> [b.joy EXCEPT !.selected = "none"],
     pads  |-> [p \in Ports |-> IF b.pads[p] = Absent THEN Absent
                                ELSE <<ResetPad(b.pads[p][1])>>],
     cards |-> [p \in Ports |-> IF b.cards[p] = Absent THEN Absent
                                ELSE <<ResetCard(b.cards[p][1])>>]]

Select(b, v, p) ==
    IF v = SelectPad /\ b.pads[p] # Absent
    THEN [bus |-> [b EXCEPT !.pads[p] = <<ResetPad(@[1])>>,
                            !.joy.selected = "pad"],
          answer |-> More(BadSector)]
    ELSE IF v = SelectCard /\ b.cards[p] # Absent
    THEN [bus |-> [b EXCEPT !.cards[p] = <<ResetCard(@[1])>>,
                            !.joy.selected = "card"],
          answer |-> More(BadSector)]
    ELSE [bus |-> b, answer |-> Final(BadSector)]

\* The selected device answers; one that is gone answers as an open bus.
BusExchange(b, v) ==
    LET p == b.joy.control.port IN
    IF b.joy.selected = "none" THEN Select(b, v, p)
    ELSE IF b.joy.selected = "pad" /\ b.pads[p] # Absent
    THEN LET r == PadExchange(b.pads[p][1], v) IN
         [bus |-> [b EXCEPT !.pads[p] = <<r.pad>>], answer |-> r.answer]
    ELSE IF b.joy.selected = "card" /\ b.cards[p] # Absent
    THEN LET r == CardExchange(b.cards[p][1], v) IN
         [bus |-> [b EXCEPT !.cards[p] = <<r.card>>], answer |-> r.answer]
    ELSE [bus |-> b, answer |-> Final(BadSector)]

-----------------------------------------------------------------------------
(* Transfers.                                                              *)

\* Faulty: a baud rate of 0 or 1 gives a byte no time at all.
ByteCyclesUnclamped(j) ==
    LET period == j.baud * j.factor IN (period - (period % 2)) * BitCycles

ByteCycles(j) ==
    LET period == j.baud * j.factor
        even   == period - (period % 2)
    IN  (IF even = 0 THEN 1 ELSE even) * BitCycles

\* A full FIFO loses its newest byte.
PushRx(rx, v) == Append(IF Len(rx) = RxSize THEN Front(rx) ELSE rx, v)

\* The result of raise_irq: the machine, and whether the line rose.
RaiseIrq(b) == [bus |-> [b EXCEPT !.joy.irq = TRUE], edge |-> ~b.joy.irq]

FinishTransfer(b) ==
    LET j == b.joy
        r == IF j.control.dtr THEN BusExchange(b, j.pending[1])
             ELSE [bus |-> b, answer |-> Final(BadSector)]
        received == j.control.dtr \/ j.control.force
        rx == IF received THEN PushRx(j.rx, r.answer.value) ELSE j.rx
        delay == AckDelay + (IF r.answer.slow THEN ReadDelay ELSE 0)
        done == [r.bus EXCEPT
                    !.joy.pending = NoByte,
                    !.joy.rx = rx,
                    !.joy.control.force = FALSE,
                    !.joy.ackDelay = IF r.answer.ack THEN delay ELSE @]
    IN  IF \/ j.control.txIrq
           \/ j.control.rxIrq /\ Len(rx) >= j.control.need
        THEN RaiseIrq(done)
        ELSE [bus |-> done, edge |-> FALSE]

Less(n, cycles) == IF n > cycles THEN n - cycles ELSE 0

\* The three counters of tick, in the order of the code.
PulsePart(b, cycles) ==
    [b EXCEPT !.joy.ackPulse = Less(@, cycles)]

AckPart(b, cycles) ==
    LET fires == b.joy.ackDelay # 0 /\ Less(b.joy.ackDelay, cycles) = 0
        c == [b EXCEPT !.joy.ackDelay = Less(@, cycles),
                       !.joy.ackPulse = IF fires THEN AckPulse ELSE @]
    IN  IF fires /\ b.joy.control.dsrIrq THEN RaiseIrq(c)
        ELSE [bus |-> c, edge |-> FALSE]

TransferPart(b, cycles) ==
    IF b.joy.pending = NoByte \/ ~b.joy.control.tx
    THEN [bus |-> b, edge |-> FALSE]
    ELSE LET c == [b EXCEPT !.joy.left = Less(@, cycles)] IN
         IF b.joy.left # 0 /\ c.joy.left = 0 THEN FinishTransfer(c)
         ELSE [bus |-> c, edge |-> FALSE]

\* Faulty: the transfer's edge replaces that of the /ACK.
LastEdge(ack, transfer) == transfer.edge
AnyEdge(ack, transfer) == ack.edge \/ transfer.edge

-----------------------------------------------------------------------------
(* Actions.                                                                *)

BecomeBus(b) == joy' = b.joy /\ pads' = b.pads /\ cards' = b.cards

Tick(cycles) ==
    LET ack == AckPart(PulsePart(Bus, cycles), cycles)
        transfer == TransferPart(ack.bus, cycles)
        edge == AnyEdge(ack, transfer)
    IN  /\ BecomeBus(transfer.bus)
        /\ istat' = (istat \/ edge)
        /\ seen' = (seen /\ (joy.irq \/ ~transfer.bus.joy.irq))
        /\ UNCHANGED sentBytes

\* Faulty: only dropping DTR ends the transaction.
EndsWithDtr(old, new) == old.dtr /\ ~new.dtr

\* A command that drops DTR or changes the port ends the transaction.
EndsTransaction(old, new) == old.dtr /\ (~new.dtr \/ old.port # new.port)

\* An acknowledgement is ignored while /ACK itself holds the interrupt.
ControlWritten(b, w) ==
    LET new == [w EXCEPT !.ack = FALSE, !.reset = FALSE]
        c == [b EXCEPT
                !.joy.control = new,
                !.joy.irq = IF w.ack /\ ~(w.dsrIrq /\ b.joy.ackPulse # 0)
                            THEN FALSE ELSE @]
    IN  IF EndsTransaction(b.joy.control, new) THEN ResetTransaction(c) ELSE c

WriteControl(w) ==
    /\ BecomeBus(IF w.reset
                 THEN ResetTransaction([Bus EXCEPT !.joy = ClearJoy(@)])
                 ELSE ControlWritten(Bus, w))
    /\ UNCHANGED <<istat, sentBytes, seen>>

WriteRate(baud, factor) ==
    /\ joy' = [joy EXCEPT !.baud = baud, !.factor = factor]
    /\ UNCHANGED <<pads, cards, istat, sentBytes, seen>>

\* A byte written over one that is still being sent replaces it.
WriteData(v) ==
    /\ sentBytes < MaxBytes
    /\ sentBytes' = sentBytes + 1
    /\ joy' = [joy EXCEPT !.pending = <<v>>, !.left = ByteCycles(joy)]
    /\ UNCHANGED <<pads, cards, istat, seen>>

PopRx(j) ==
    IF j.rx = <<>> THEN j
    ELSE [j EXCEPT !.lastRx = Head(j.rx), !.rx = Tail(j.rx)]

\* A byte, and a half word, take one byte out; a word takes four.
ReadData ==
    /\ joy.rx # <<>>
    /\ joy' \in {PopRx(joy), PopRx(PopRx(PopRx(PopRx(joy))))}
    /\ UNCHANGED <<pads, cards, istat, sentBytes, seen>>

AckIstat ==
    /\ istat
    /\ istat' = FALSE
    /\ seen' = TRUE
    /\ UNCHANGED <<joy, pads, cards, sentBytes>>

\* Whoever plugs or pulls a device ends the transaction.
SetController(p, pad) ==
    /\ BecomeBus(ResetTransaction([Bus EXCEPT !.pads[p] = pad]))
    /\ UNCHANGED <<istat, sentBytes, seen>>

\* The host turns the analog mode of a DualShock on or off, also while it is
\* being polled.
SetAnalogMode(p, enabled) ==
    /\ pads[p] # Absent
    /\ pads' = [pads EXCEPT ![p][1].analog = pads[p][1].dual /\ enabled]
    /\ UNCHANGED <<joy, cards, istat, sentBytes, seen>>

InsertCard(p) ==
    /\ cards[p] = Absent
    /\ BecomeBus(ResetTransaction([Bus EXCEPT !.cards[p] = <<NewCard(Image)>>]))
    /\ UNCHANGED <<istat, sentBytes, seen>>

RemoveCard(p) ==
    /\ cards[p] # Absent
    /\ BecomeBus(ResetTransaction([Bus EXCEPT !.cards[p] = Absent]))
    /\ UNCHANGED <<istat, sentBytes, seen>>

Init ==
    /\ joy = NewJoy
    /\ pads = [p \in Ports |-> IF p = 0 THEN NewPad(FALSE) ELSE Absent]
    /\ cards = [p \in Ports |-> Absent]
    /\ istat = FALSE
    /\ sentBytes = 0
    /\ seen = TRUE

Next ==
    \/ \E c \in TickCycles : Tick(c)
    \/ \E w \in Controls : WriteControl(w)
    \/ \E b \in Bauds, f \in Factors : WriteRate(b, f)
    \/ \E v \in InBytes : WriteData(v)
    \/ ReadData
    \/ AckIstat
    \/ \E p \in Ports, pad \in {Absent, NewPad(FALSE)} : SetController(p, pad)
    \/ \E p \in Ports \intersect DualPorts : SetController(p, NewPad(TRUE))
    \/ \E p \in Ports, enabled \in BOOLEAN : SetAnalogMode(p, enabled)
    \/ \E p \in Ports : InsertCard(p) \/ RemoveCard(p)

Spec == Init /\ [][Next]_vars

-----------------------------------------------------------------------------
\* A byte being sent has cycles left, whatever the rate, a byte written over
\* it, or transmission switched off and on: were there none, tick would
\* never finish it and the guest would wait for its answer for ever.
PendingHasTime == joy.pending # NoByte => joy.left > 0

\* A transaction lives only while DTR is up, with a device that is plugged
\* into the selected port; every other device waits for its first byte.
\* The guest changes ports and the host pulls devices at any time.
SelectionIsSound ==
    LET chosen(kind, p) == joy.selected = kind /\ joy.control.port = p IN
    /\ joy.selected # "none" =>
        /\ joy.control.dtr
        /\ joy.selected = "pad" => pads[joy.control.port] # Absent
        /\ joy.selected = "card" => cards[joy.control.port] # Absent
    /\ \A p \in Ports :
        /\ pads[p] # Absent /\ ~chosen("pad", p) => pads[p][1].command = 0
        /\ cards[p] # Absent /\ ~chosen("card", p) => cards[p][1].command = 0

\* No interrupt of the port is missed: while its line is up, I_STAT has the
\* bit or the guest has cleared it since the line rose.
IrqIsLatched == joy.irq => istat \/ seen
=============================================================================
