------------------------------ MODULE JoyProofs ------------------------------
(***************************************************************************)
(* Proofs about JoySerial: a byte being sent always has time left, a       *)
(* transaction always has its device, and every edge of the interrupt line *)
(* reaches I_STAT, for all rates, delays, control words and bytes.         *)
(*                                                                         *)
(* The operators of JoySerial take and give the machine without I_STAT, a  *)
(* record b.  What a byte holds is left open: it matters to no statement.  *)
(***************************************************************************)
EXTENDS JoySerial, TLAPS

-----------------------------------------------------------------------------
(* The invariant, as a predicate of such a record.                         *)

Names == {"baud", "factor", "control", "rx", "lastRx", "pending", "left",
          "ackDelay", "ackPulse", "irq", "selected"}

\* The record of all registers of j, which j has to be.
Whole(j) == [x \in Names |-> j[x]]

Registers(j) ==
    /\ j = Whole(j)
    /\ j.baud \in Nat /\ j.factor \in Nat \ {0}
    /\ j.left \in Nat /\ j.ackDelay \in Nat /\ j.ackPulse \in Nat
    /\ j.control \in ControlWords
    /\ j.irq \in BOOLEAN
    /\ j.selected \in {"none", "pad", "card"}

\* A socket is empty or holds a device, which knows its command.
Socket(d) == d # Absent => d = <<d[1]>> /\ "command" \in DOMAIN d[1]

Sockets(s) == s = [p \in Ports |-> s[p]] /\ \A p \in Ports : Socket(s[p])

Waits(d) == d # Absent => d[1].command = 0

\* SelectionIsSound of the machine b.
Selection(b) ==
    /\ b.joy.selected # "none" => b.joy.control.dtr
    /\ b.joy.selected = "pad" => b.pads[b.joy.control.port] # Absent
    /\ b.joy.selected = "card" => b.cards[b.joy.control.port] # Absent
    /\ \A p \in Ports :
        /\ ~(b.joy.selected = "pad" /\ b.joy.control.port = p) => Waits(b.pads[p])
        /\ ~(b.joy.selected = "card" /\ b.joy.control.port = p) => Waits(b.cards[p])

Timely(b) == b.joy.pending # NoByte => b.joy.left > 0

Machine(b) ==
    /\ b = [joy |-> b.joy, pads |-> b.pads, cards |-> b.cards]
    /\ Registers(b.joy)
    /\ Sockets(b.pads)
    /\ Sockets(b.cards)
    /\ Selection(b)

JoyInv ==
    /\ Machine(Bus) /\ Timely(Bus)
    /\ istat \in BOOLEAN /\ seen \in BOOLEAN
    /\ IrqIsLatched

-----------------------------------------------------------------------------
(* Devices: no exchange and no reset unplugs one, and a reset one waits.   *)

LEMMA ResetPadWaits ==
  ASSUME NEW d, Socket(d), d # Absent
  PROVE  Socket(<<ResetPad(d[1])>>) /\ Waits(<<ResetPad(d[1])>>)
  BY DEF Socket, Waits, ResetPad, Absent

LEMMA ResetCardWaits ==
  ASSUME NEW d, Socket(d), d # Absent
  PROVE  Socket(<<ResetCard(d[1])>>) /\ Waits(<<ResetCard(d[1])>>)
  BY DEF Socket, Waits, ResetCard, Absent

LEMMA PadStays ==
  ASSUME NEW d, Socket(d), d # Absent, NEW v
  PROVE  Socket(<<PadExchange(d[1], v).pad>>)
  BY DEF Socket, PadExchange, Absent

LEMMA CardStays ==
  ASSUME NEW d, Socket(d), d # Absent, NEW v
  PROVE  Socket(<<CardExchange(d[1], v).card>>)
  <1> DEFINE c == d[1]
  <1> "command" \in DOMAIN c
    BY DEF Socket
  <1> HIDE DEF c
  <1>1. "command" \in DOMAIN FinishWrite(c, v)
    BY DEF FinishWrite
  <1>2. \E e, a : ExchangeCommand(c, v) = Reply(e, a) /\ "command" \in DOMAIN e
    <2> DEFINE e == [c EXCEPT !.command = v, !.step = 0, !.previous = v]
    <2>1. "command" \in DOMAIN e
      OBVIOUS
    <2> QED BY <2>1 DEF ExchangeCommand
  <1>3. \E e, a : ExchangeRead(c, v) = Reply(e, a) /\ "command" \in DOMAIN e
    BY DEF ExchangeRead, TakeHigh, TakeLow
  <1>4. \E e, a : ExchangeWrite(c, v) = Reply(e, a) /\ "command" \in DOMAIN e
    BY <1>1 DEF ExchangeWrite, TakeHigh, TakeLow
  <1>5. \E e, a : ExchangeId(c) = Reply(e, a) /\ "command" \in DOMAIN e
    BY DEF ExchangeId
  <1>6. \A e, a : "command" \in DOMAIN e =>
          "command" \in DOMAIN [Reply(e, a) EXCEPT !.card.previous = v,
                                                   !.card.step = @ + 1].card
    BY DEF Reply
  <1>7. \A e, a : Reply(e, a).card = e
    BY DEF Reply
  <1>8. "command" \in DOMAIN CardExchange(c, v).card
    BY <1>2, <1>3, <1>4, <1>5, <1>6, <1>7 DEF CardExchange
  <1> QED BY <1>8 DEF Socket, c, Absent

-----------------------------------------------------------------------------
(* The machine.                                                            *)

LEMMA SocketsUpdate ==
  ASSUME NEW s, Sockets(s), NEW p \in Ports, NEW d, Socket(d)
  PROVE  /\ Sockets([s EXCEPT ![p] = d])
         /\ [s EXCEPT ![p] = d][p] = d
         /\ \A q \in Ports : q # p => [s EXCEPT ![p] = d][q] = s[q]
  <1> DEFINE t == [s EXCEPT ![p] = d]
  <1>1. /\ t[p] = d /\ \A q \in Ports : q # p => t[q] = s[q]
        /\ t = [q \in Ports |-> t[q]]
    BY DEF Sockets
  <1> HIDE DEF t
  <1>2. \A q \in Ports : Socket(t[q])
    BY <1>1 DEF Sockets
  <1> QED BY <1>1, <1>2 DEF Sockets, t

\* Two machines that differ in the registers only, and there not in what
\* selects a device, are sound together.
LEMMA SameSelection ==
  ASSUME NEW b, Machine(b), NEW j, Registers(j),
         j.selected = b.joy.selected, j.control.dtr = b.joy.control.dtr,
         j.control.port = b.joy.control.port
  PROVE  Machine([b EXCEPT !.joy = j])
  BY DEF Machine, Selection

LEMMA ResetTransactionSound ==
  ASSUME NEW b, b = [joy |-> b.joy, pads |-> b.pads, cards |-> b.cards],
         Registers(b.joy), Sockets(b.pads), Sockets(b.cards)
  PROVE  /\ Machine(ResetTransaction(b))
         /\ ResetTransaction(b).joy = [b.joy EXCEPT !.selected = "none"]
  <1> DEFINE r == ResetTransaction(b)
  <1>1. /\ r.joy = [b.joy EXCEPT !.selected = "none"]
        /\ r = [joy |-> r.joy, pads |-> r.pads, cards |-> r.cards]
    BY DEF ResetTransaction
  <1>2. \A p \in Ports : /\ Socket(r.pads[p]) /\ Waits(r.pads[p])
                        /\ Socket(r.cards[p]) /\ Waits(r.cards[p])
    <2> TAKE p \in Ports
    <2>1. Socket(r.pads[p]) /\ Waits(r.pads[p])
      <3>1. CASE b.pads[p] = Absent
        BY <3>1 DEF ResetTransaction, Socket, Waits
      <3>2. CASE b.pads[p] # Absent
        BY <3>2, ResetPadWaits DEF ResetTransaction, Sockets
      <3> QED BY <3>1, <3>2
    <2>2. Socket(r.cards[p]) /\ Waits(r.cards[p])
      <3>1. CASE b.cards[p] = Absent
        BY <3>1 DEF ResetTransaction, Socket, Waits
      <3>2. CASE b.cards[p] # Absent
        BY <3>2, ResetCardWaits DEF ResetTransaction, Sockets
      <3> QED BY <3>1, <3>2
    <2> QED BY <2>1, <2>2
  <1>3. r.pads = [p \in Ports |-> r.pads[p]] /\ r.cards = [p \in Ports |-> r.cards[p]]
    BY DEF ResetTransaction
  <1>4. Registers(r.joy) /\ r.joy.selected = "none"
    BY <1>1 DEF Registers, Whole, Names
  <1> HIDE DEF r
  <1>5. Selection(r)
    BY <1>2, <1>4 DEF Selection
  <1>6. Sockets(r.pads) /\ Sockets(r.cards)
    BY <1>2, <1>3 DEF Sockets
  <1> QED BY <1>1, <1>4, <1>5, <1>6 DEF Machine, r

\* An exchange while DTR is up touches the devices and the selection.
LEMMA SelectSound ==
  ASSUME NEW b, Machine(b), b.joy.control.dtr, b.joy.selected = "none", NEW v
  PROVE  LET r == Select(b, v, b.joy.control.port) IN
         /\ Machine(r.bus)
         /\ r.bus.joy = [b.joy EXCEPT !.selected = r.bus.joy.selected]
  <1> DEFINE p == b.joy.control.port
             r == Select(b, v, p)
  <1>1. p \in Ports
    BY DEF Machine, Registers, Whole, Names, ControlWords, Ports
  <1>2. CASE v = SelectPad /\ b.pads[p] # Absent
    <2> DEFINE d == <<ResetPad(b.pads[p][1])>>
    <2>1. Socket(d) /\ d # Absent
      BY <1>1, <1>2, ResetPadWaits DEF Machine, Sockets, Absent
    <2>2. r.bus = [joy |-> [b.joy EXCEPT !.selected = "pad"],
                   pads |-> [b.pads EXCEPT ![p] = d], cards |-> b.cards]
      BY <1>2 DEF Select, Machine
    <2> HIDE DEF d, r
    <2>3. Sockets(r.bus.pads) /\ r.bus.pads[p] # Absent
      BY <1>1, <2>1, <2>2, SocketsUpdate DEF Machine
    <2>4. Registers(r.bus.joy) /\ r.bus.joy.selected = "pad" /\ r.bus.joy.control = b.joy.control
      BY <2>2 DEF Machine, Registers, Whole, Names
    <2>5. \A q \in Ports : q # p => r.bus.pads[q] = b.pads[q]
      BY <2>2 DEF Machine, Sockets
    <2>6. Selection(r.bus)
      BY <1>1, <2>2, <2>3, <2>4, <2>5 DEF Machine, Selection
    <2> QED BY <2>2, <2>3, <2>4, <2>6 DEF Machine, r
  <1>3. CASE ~(v = SelectPad /\ b.pads[p] # Absent) /\ v = SelectCard /\ b.cards[p] # Absent
    <2> DEFINE d == <<ResetCard(b.cards[p][1])>>
    <2>1. Socket(d) /\ d # Absent
      BY <1>1, <1>3, ResetCardWaits DEF Machine, Sockets, Absent
    <2>2. r.bus = [joy |-> [b.joy EXCEPT !.selected = "card"],
                   pads |-> b.pads, cards |-> [b.cards EXCEPT ![p] = d]]
      BY <1>3 DEF Select, Machine
    <2> HIDE DEF d, r
    <2>3. Sockets(r.bus.cards) /\ r.bus.cards[p] # Absent
      BY <1>1, <2>1, <2>2, SocketsUpdate DEF Machine
    <2>4. Registers(r.bus.joy) /\ r.bus.joy.selected = "card" /\ r.bus.joy.control = b.joy.control
      BY <2>2 DEF Machine, Registers, Whole, Names
    <2>5. \A q \in Ports : q # p => r.bus.cards[q] = b.cards[q]
      BY <2>2 DEF Machine, Sockets
    <2>6. Selection(r.bus)
      BY <1>1, <2>2, <2>3, <2>4, <2>5 DEF Machine, Selection
    <2> QED BY <2>2, <2>3, <2>4, <2>6 DEF Machine, r
  <1>4. CASE /\ ~(v = SelectPad /\ b.pads[p] # Absent)
             /\ ~(v = SelectCard /\ b.cards[p] # Absent)
    <2>1. r.bus = b
      BY <1>4 DEF Select
    <2>2. b.joy = [b.joy EXCEPT !.selected = b.joy.selected]
      BY DEF Machine, Registers, Whole, Names
    <2> QED BY <2>1, <2>2
  <1> QED BY <1>2, <1>3, <1>4

LEMMA BusExchangeSound ==
  ASSUME NEW b, Machine(b), b.joy.control.dtr, NEW v
  PROVE  LET r == BusExchange(b, v) IN
         /\ Machine(r.bus)
         /\ r.bus.joy = [b.joy EXCEPT !.selected = r.bus.joy.selected]
  <1> DEFINE p == b.joy.control.port
             r == BusExchange(b, v)
  <1>1. p \in Ports
    BY DEF Machine, Registers, Whole, Names, ControlWords, Ports
  <1>2. b.joy = [b.joy EXCEPT !.selected = b.joy.selected]
    BY DEF Machine, Registers, Whole, Names
  <1>3. CASE b.joy.selected = "none"
    BY <1>3, SelectSound DEF BusExchange
  <1>4. CASE b.joy.selected = "pad" /\ b.pads[p] # Absent
    <2> DEFINE d == <<PadExchange(b.pads[p][1], v).pad>>
    <2>1. Socket(d) /\ d # Absent
      BY <1>1, <1>4, PadStays DEF Machine, Sockets, Absent
    <2>2. r.bus = [joy |-> b.joy, pads |-> [b.pads EXCEPT ![p] = d], cards |-> b.cards]
      BY <1>4 DEF BusExchange, Machine
    <2> HIDE DEF d, r
    <2>3. Sockets(r.bus.pads) /\ r.bus.pads[p] # Absent
      BY <1>1, <2>1, <2>2, SocketsUpdate DEF Machine
    <2>4. \A q \in Ports : q # p => r.bus.pads[q] = b.pads[q]
      BY <2>2 DEF Machine, Sockets
    <2>5. Selection(r.bus)
      BY <1>1, <1>4, <2>2, <2>3, <2>4 DEF Machine, Selection
    <2> QED BY <1>2, <2>2, <2>3, <2>5 DEF Machine, r
  <1>5. CASE b.joy.selected = "card" /\ b.cards[p] # Absent
    <2> DEFINE d == <<CardExchange(b.cards[p][1], v).card>>
    <2>1. Socket(d) /\ d # Absent
      BY <1>1, <1>5, CardStays DEF Machine, Sockets, Absent
    <2>2. r.bus = [joy |-> b.joy, pads |-> b.pads, cards |-> [b.cards EXCEPT ![p] = d]]
      BY <1>5 DEF BusExchange, Machine
    <2> HIDE DEF d, r
    <2>3. Sockets(r.bus.cards) /\ r.bus.cards[p] # Absent
      BY <1>1, <2>1, <2>2, SocketsUpdate DEF Machine
    <2>4. \A q \in Ports : q # p => r.bus.cards[q] = b.cards[q]
      BY <2>2 DEF Machine, Sockets
    <2>5. Selection(r.bus)
      BY <1>1, <1>5, <2>2, <2>3, <2>4 DEF Machine, Selection
    <2> QED BY <1>2, <2>2, <2>3, <2>5 DEF Machine, r
  <1>6. CASE /\ b.joy.selected # "none"
             /\ ~(b.joy.selected = "pad" /\ b.pads[p] # Absent)
             /\ ~(b.joy.selected = "card" /\ b.cards[p] # Absent)
    <2>1. r.bus = b
      BY <1>6 DEF BusExchange
    <2> QED BY <1>2, <2>1
  <1> QED BY <1>3, <1>4, <1>5, <1>6

-----------------------------------------------------------------------------
(* Transfers.  Carries: a part of tick leaves a sound machine, a byte in   *)
(* flight has time, and a line that rose reports its edge.                 *)

Carries(b, t) ==
    /\ Machine(t.bus)
    /\ Timely(b) => Timely(t.bus)
    /\ t.edge \in BOOLEAN
    /\ t.bus.joy.irq => b.joy.irq \/ t.edge

LEMMA RaiseIrqCarries ==
  ASSUME NEW b, Machine(b)
  PROVE  Carries(b, RaiseIrq(b))
  <1> DEFINE j == [b.joy EXCEPT !.irq = TRUE]
             t == RaiseIrq(b)
  <1>1. t.bus = [b EXCEPT !.joy = j] /\ t.edge = ~b.joy.irq
    BY DEF RaiseIrq, Machine
  <1>2. /\ Registers(j) /\ j.control = b.joy.control /\ j.selected = b.joy.selected
        /\ j.pending = b.joy.pending /\ j.left = b.joy.left
    <2>1. Registers(b.joy)
      BY DEF Machine
    <2>2. j = Whole(j)
      BY <2>1 DEF Registers, Whole
    <2>3. /\ j.irq = TRUE /\ j.baud = b.joy.baud /\ j.factor = b.joy.factor
          /\ j.left = b.joy.left /\ j.ackDelay = b.joy.ackDelay
          /\ j.ackPulse = b.joy.ackPulse /\ j.control = b.joy.control
          /\ j.selected = b.joy.selected /\ j.pending = b.joy.pending
      BY <2>1 DEF Registers, Whole, Names
    <2> HIDE DEF j
    <2> QED BY <2>1, <2>2, <2>3 DEF Registers
  <1> HIDE DEF j, t
  <1>3. Machine(t.bus)
    BY <1>1, <1>2, SameSelection
  <1>4. t.bus.joy = j
    BY <1>1 DEF Machine
  <1>5. t.edge \in BOOLEAN /\ (b.joy.irq \/ t.edge)
    BY <1>1 DEF Machine, Registers, Whole, Names
  <1> QED BY <1>2, <1>3, <1>4, <1>5 DEF Carries, Timely, t

\* A byte that ends leaves nothing in flight.
LEMMA FinishTransferCarries ==
  ASSUME NEW b, Machine(b)
  PROVE  Carries(b, FinishTransfer(b)) /\ Timely(FinishTransfer(b).bus)
  <1> DEFINE j == b.joy
             r == IF j.control.dtr THEN BusExchange(b, j.pending[1])
                  ELSE [bus |-> b, answer |-> Final(BadSector)]
             received == j.control.dtr \/ j.control.force
             rx == IF received THEN PushRx(j.rx, r.answer.value) ELSE j.rx
             delay == AckDelay + (IF r.answer.slow THEN ReadDelay ELSE 0)
             wait == IF r.answer.ack THEN delay ELSE r.bus.joy.ackDelay
             k == [r.bus.joy EXCEPT !.pending = NoByte, !.rx = rx,
                                    !.control.force = FALSE, !.ackDelay = wait]
             done == [r.bus EXCEPT !.joy = k]
  <1>1. Machine(r.bus) /\ r.bus.joy = [b.joy EXCEPT !.selected = r.bus.joy.selected]
    <2>1. CASE j.control.dtr
      BY <2>1, BusExchangeSound
    <2>2. CASE ~j.control.dtr
      BY <2>2 DEF Machine, Registers, Whole, Names
    <2> QED BY <2>1, <2>2
  <1>2. delay \in Nat
    BY JoyAssumption DEF JoyAssumption
  <1>3. FinishTransfer(b) \in {RaiseIrq(done), [bus |-> done, edge |-> FALSE]}
    <2>1. /\ r.bus = [joy |-> r.bus.joy, pads |-> r.bus.pads, cards |-> r.bus.cards]
          /\ Registers(r.bus.joy)
      BY <1>1 DEF Machine
    <2> DEFINE e == [r.bus EXCEPT
                    !.joy.pending = NoByte,
                    !.joy.rx = rx,
                    !.joy.control.force = FALSE,
                    !.joy.ackDelay = IF r.answer.ack THEN delay ELSE @]
    <2>2. FinishTransfer(b) \in {RaiseIrq(e), [bus |-> e, edge |-> FALSE]}
      BY DEF FinishTransfer
    <2> HIDE DEF r, rx, delay
    <2>3. e = done
      BY <2>1 DEF Registers, Whole, Names
    <2> QED BY <2>2, <2>3
  <1> HIDE DEF r, rx, delay
  <1>4. wait \in Nat
    BY <1>1, <1>2 DEF Machine, Registers, Whole, Names
  <1> HIDE DEF wait
  <1>5. /\ Registers(k) /\ k.selected = r.bus.joy.selected /\ k.pending = NoByte
        /\ k.control.dtr = r.bus.joy.control.dtr /\ k.control.port = r.bus.joy.control.port
        /\ k.irq = b.joy.irq
    <2>1. Registers(r.bus.joy) /\ r.bus.joy.irq = b.joy.irq
      BY <1>1 DEF Machine, Registers, Whole, Names
    <2> DEFINE w == [r.bus.joy.control EXCEPT !.force = FALSE]
    <2>2. /\ w \in ControlWords /\ w.port = r.bus.joy.control.port
          /\ w.dtr = r.bus.joy.control.dtr
      BY <2>1 DEF Registers, Whole, Names, ControlWords
    <2>3. k = Whole(k)
      BY <2>1 DEF Registers, Whole
    <2>4. /\ k.irq = r.bus.joy.irq /\ k.baud = r.bus.joy.baud
          /\ k.factor = r.bus.joy.factor /\ k.left = r.bus.joy.left
          /\ k.ackDelay = wait /\ k.ackPulse = r.bus.joy.ackPulse /\ k.control = w
          /\ k.selected = r.bus.joy.selected /\ k.pending = NoByte
      BY <2>1 DEF Registers, Whole, Names
    <2> HIDE DEF k, w
    <2> QED BY <1>4, <2>1, <2>2, <2>3, <2>4 DEF Registers
  <1> HIDE DEF k
  <1>6. Machine(done) /\ done.joy = k
    BY <1>1, <1>5, SameSelection DEF Machine
  <1> HIDE DEF done
  <1>7. Timely(done) /\ done.joy.irq = b.joy.irq
    BY <1>5, <1>6 DEF Timely
  <1>8. Carries(done, RaiseIrq(done))
    BY <1>6, RaiseIrqCarries
  <1>9. Carries(b, RaiseIrq(done)) /\ Timely(RaiseIrq(done).bus)
    BY <1>7, <1>8 DEF Carries
  <1>10. Carries(b, [bus |-> done, edge |-> FALSE])
    BY <1>6, <1>7 DEF Carries
  <1>11. CASE FinishTransfer(b) = RaiseIrq(done)
    BY <1>9, <1>11
  <1>12. CASE FinishTransfer(b) = [bus |-> done, edge |-> FALSE]
    BY <1>7, <1>10, <1>12
  <1> QED BY <1>3, <1>11, <1>12

LEMMA LessIsNat ==
  ASSUME NEW n \in Nat, NEW cycles \in Nat
  PROVE  Less(n, cycles) \in Nat
  BY DEF Less

LEMMA PulsePartSound ==
  ASSUME NEW b, Machine(b), NEW cycles \in Nat
  PROVE  /\ Machine(PulsePart(b, cycles)) /\ (Timely(b) => Timely(PulsePart(b, cycles)))
         /\ PulsePart(b, cycles).joy.irq = b.joy.irq
  <1> DEFINE n == Less(b.joy.ackPulse, cycles)
             j == [b.joy EXCEPT !.ackPulse = n]
  <1>1. n \in Nat
    BY LessIsNat DEF Machine, Registers, Whole, Names
  <1>2. PulsePart(b, cycles) = [b EXCEPT !.joy = j]
    BY DEF PulsePart, Machine
  <1> HIDE DEF n
  <1>3. /\ Registers(j) /\ j.control = b.joy.control /\ j.selected = b.joy.selected
        /\ j.pending = b.joy.pending /\ j.left = b.joy.left /\ j.irq = b.joy.irq
    BY <1>1 DEF Machine, Registers, Whole, Names
  <1> HIDE DEF j
  <1>4. Machine([b EXCEPT !.joy = j]) /\ [b EXCEPT !.joy = j].joy = j
    BY <1>3, SameSelection DEF Machine
  <1> QED BY <1>2, <1>3, <1>4 DEF Timely

LEMMA AckPartCarries ==
  ASSUME NEW b, Machine(b), NEW cycles \in Nat
  PROVE  Carries(b, AckPart(b, cycles))
  <1> DEFINE n == Less(b.joy.ackDelay, cycles)
             fires == b.joy.ackDelay # 0 /\ n = 0
             m == IF fires THEN AckPulse ELSE b.joy.ackPulse
             j == [b.joy EXCEPT !.ackDelay = n, !.ackPulse = m]
             c == [b EXCEPT !.joy = j]
  <1>1. n \in Nat
    BY LessIsNat DEF Machine, Registers, Whole, Names
  <1>2. m \in Nat
    BY JoyAssumption DEF JoyAssumption, Machine, Registers
  <1>3. AckPart(b, cycles) \in {RaiseIrq(c), [bus |-> c, edge |-> FALSE]}
    <2> DEFINE e == [b EXCEPT !.joy.ackDelay = Less(@, cycles),
                              !.joy.ackPulse = IF fires THEN AckPulse ELSE @]
    <2>1. AckPart(b, cycles) \in {RaiseIrq(e), [bus |-> e, edge |-> FALSE]}
      BY DEF AckPart
    <2>2. e = c
      BY DEF Machine
    <2> QED BY <2>1, <2>2
  <1> HIDE DEF n, m
  <1>4. /\ Registers(j) /\ j.control = b.joy.control /\ j.selected = b.joy.selected
        /\ j.pending = b.joy.pending /\ j.left = b.joy.left /\ j.irq = b.joy.irq
    <2>1. Registers(b.joy)
      BY DEF Machine
    <2>2. j = Whole(j)
      BY <2>1 DEF Registers, Whole
    <2>3. /\ j.irq = b.joy.irq /\ j.baud = b.joy.baud /\ j.factor = b.joy.factor
          /\ j.left = b.joy.left /\ j.ackDelay = n
          /\ j.ackPulse = m /\ j.control = b.joy.control
          /\ j.selected = b.joy.selected /\ j.pending = b.joy.pending
      BY <2>1 DEF Registers, Whole, Names
    <2> HIDE DEF j
    <2> QED BY <1>1, <1>2, <2>1, <2>2, <2>3 DEF Registers
  <1> HIDE DEF j
  <1>5. Machine(c) /\ c.joy = j
    BY <1>4, SameSelection DEF Machine
  <1> HIDE DEF c
  <1>6. Carries(c, RaiseIrq(c))
    BY <1>5, RaiseIrqCarries
  <1>7. Carries(b, RaiseIrq(c)) /\ Carries(b, [bus |-> c, edge |-> FALSE])
    BY <1>4, <1>5, <1>6 DEF Carries, Timely
  <1> QED BY <1>3, <1>7

LEMMA TransferPartCarries ==
  ASSUME NEW b, Machine(b), NEW cycles \in Nat
  PROVE  Carries(b, TransferPart(b, cycles))
  <1> DEFINE n == Less(b.joy.left, cycles)
             j == [b.joy EXCEPT !.left = n]
             c == [b EXCEPT !.joy = j]
  <1>1. n \in Nat
    BY LessIsNat DEF Machine, Registers, Whole, Names
  <1>2. c = [b EXCEPT !.joy.left = Less(@, cycles)]
    BY DEF Machine
  <1> HIDE DEF n
  <1>3. /\ Registers(j) /\ j.control = b.joy.control /\ j.selected = b.joy.selected
        /\ j.pending = b.joy.pending /\ j.left = n /\ j.irq = b.joy.irq
    BY <1>1 DEF Machine, Registers, Whole, Names
  <1> HIDE DEF j
  <1>4. Machine(c) /\ c.joy = j
    BY <1>3, SameSelection DEF Machine
  <1> HIDE DEF c
  <1>5. CASE b.joy.pending = NoByte \/ ~b.joy.control.tx
    BY <1>5 DEF TransferPart, Carries
  <1>6. CASE b.joy.pending # NoByte /\ b.joy.control.tx /\ b.joy.left # 0 /\ n = 0
    <2>1. TransferPart(b, cycles) = FinishTransfer(c)
      BY <1>2, <1>3, <1>4, <1>6 DEF TransferPart
    <2>2. Carries(c, FinishTransfer(c)) /\ Timely(FinishTransfer(c).bus)
      BY <1>4, FinishTransferCarries
    <2> QED BY <1>3, <1>4, <2>1, <2>2 DEF Carries
  <1>7. CASE b.joy.pending # NoByte /\ b.joy.control.tx /\ ~(b.joy.left # 0 /\ n = 0)
    <2>1. TransferPart(b, cycles) = [bus |-> c, edge |-> FALSE]
      BY <1>2, <1>3, <1>4, <1>7 DEF TransferPart
    <2>2. Timely(b) => Timely(c)
      BY <1>1, <1>3, <1>4, <1>7 DEF Timely
    <2> QED BY <1>3, <1>4, <2>1, <2>2 DEF Carries
  <1> QED BY <1>5, <1>6, <1>7

-----------------------------------------------------------------------------
(* Steps.                                                                  *)

\* The machine after the step.
Afterwards == [joy |-> joy', pads |-> pads', cards |-> cards']

LEMMA BecomesIs ==
  ASSUME NEW b, b = [joy |-> b.joy, pads |-> b.pads, cards |-> b.cards], BecomeBus(b)
  PROVE  Afterwards = b
  BY DEF Afterwards, BecomeBus

LEMMA InvPrime ==
  ASSUME Machine(Afterwards), Timely(Afterwards), istat' \in BOOLEAN, seen' \in BOOLEAN,
         joy'.irq => istat' \/ seen'
  PROVE  JoyInv'
  BY DEF JoyInv, Afterwards, Bus, IrqIsLatched

LEMMA InvNow ==
  ASSUME JoyInv
  PROVE  /\ Machine(Bus) /\ Timely(Bus) /\ Registers(joy) /\ Sockets(pads) /\ Sockets(cards)
         /\ Bus.joy = joy /\ Bus.pads = pads /\ Bus.cards = cards
  BY DEF JoyInv, Machine, Bus

LEMMA InitInv == Init => JoyInv
  <1> SUFFICES ASSUME Init
               PROVE  JoyInv
    OBVIOUS
  <1> DEFINE b == Bus
  <1>1. b = [joy |-> b.joy, pads |-> b.pads, cards |-> b.cards]
    BY DEF Bus
  <1>2. NoControl \in ControlWords
    BY DEF NoControl, ControlWords
  <1>3. NewJoy = Whole(NewJoy)
    BY DEF NewJoy, Whole, Names
  <1>4. Registers(b.joy) /\ b.joy.selected = "none" /\ b.joy.pending = NoByte /\ ~b.joy.irq
    <2>1. /\ NewJoy.baud = 0 /\ NewJoy.factor = 1 /\ NewJoy.control = NoControl
          /\ NewJoy.left = 0 /\ NewJoy.ackDelay = 0 /\ NewJoy.ackPulse = 0
          /\ NewJoy.irq = FALSE /\ NewJoy.selected = "none" /\ NewJoy.pending = NoByte
      BY DEF NewJoy
    <2>2. /\ NewJoy.baud \in Nat /\ NewJoy.factor \in Nat \ {0} /\ NewJoy.left \in Nat
          /\ NewJoy.ackDelay \in Nat /\ NewJoy.ackPulse \in Nat
      BY <2>1
    <2>3. NewJoy.control \in ControlWords /\ NewJoy.irq \in BOOLEAN
      BY <1>2, <2>1
    <2>4. Registers(NewJoy)
      BY <1>3, <2>1, <2>2, <2>3 DEF Registers
    <2> QED BY <2>1, <2>4 DEF Init, Bus
  <1>5. /\ b.pads = [p \in Ports |-> b.pads[p]] /\ b.cards = [p \in Ports |-> b.cards[p]]
        /\ \A p \in Ports : b.pads[p] \in {NewPad(FALSE), Absent} /\ b.cards[p] = Absent
    BY DEF Init, Bus
  <1>6. Socket(NewPad(FALSE)) /\ Waits(NewPad(FALSE)) /\ Socket(Absent) /\ Waits(Absent)
    BY DEF NewPad, Absent, Socket, Waits
  <1>7. Sockets(b.pads) /\ Sockets(b.cards)
    BY <1>5, <1>6 DEF Sockets
  <1>8. \A p \in Ports : Waits(b.pads[p]) /\ Waits(b.cards[p])
    BY <1>5, <1>6
  <1> HIDE DEF b
  <1>9. Selection(b)
    BY <1>4, <1>8 DEF Selection
  <1>10. Machine(b) /\ Timely(b)
    BY <1>1, <1>4, <1>7, <1>9 DEF Machine, Timely
  <1> QED BY <1>10 DEF JoyInv, Init, IrqIsLatched, b

\* While the line is up, tick keeps what the guest has seen; when it rises,
\* one of the two parts that raise it says so.
LEMMA TickKeeps ==
  ASSUME JoyInv, NEW c \in TickCycles, Tick(c)
  PROVE  JoyInv'
  <1> DEFINE p == PulsePart(Bus, c)
             ack == AckPart(p, c)
             transfer == TransferPart(ack.bus, c)
             edge == AnyEdge(ack, transfer)
  <1>1. c \in Nat
    BY JoyAssumption DEF JoyAssumption
  <1>2. Machine(p) /\ Timely(p) /\ p.joy.irq = joy.irq
    BY <1>1, InvNow, PulsePartSound
  <1>3. Carries(p, ack)
    BY <1>1, <1>2, AckPartCarries
  <1>4. Carries(ack.bus, transfer)
    BY <1>1, <1>3, TransferPartCarries DEF Carries
  <1>5. /\ BecomeBus(transfer.bus) /\ istat' = (istat \/ edge)
        /\ seen' = (seen /\ (joy.irq \/ ~transfer.bus.joy.irq))
    BY DEF Tick
  <1>6. edge = (ack.edge \/ transfer.edge)
    BY DEF AnyEdge
  <1> HIDE DEF p, ack, transfer, edge
  <1>7. Machine(transfer.bus) /\ Timely(transfer.bus)
    BY <1>2, <1>3, <1>4 DEF Carries
  <1>8. Afterwards = transfer.bus /\ joy' = transfer.bus.joy
    BY <1>5, <1>7, BecomesIs DEF Machine, BecomeBus
  <1>9. transfer.bus.joy.irq => joy.irq \/ edge
    BY <1>2, <1>3, <1>4, <1>6 DEF Carries
  <1>10. edge \in BOOLEAN
    BY <1>3, <1>4, <1>6 DEF Carries
  <1>11. istat' \in BOOLEAN /\ seen' \in BOOLEAN
    BY <1>5
  <1>12. joy'.irq => istat' \/ seen'
    <2>1. CASE joy.irq
      BY <1>5, <2>1 DEF JoyInv, IrqIsLatched
    <2>2. CASE ~joy.irq
      BY <1>5, <1>8, <1>9, <2>2
    <2> QED BY <2>1, <2>2
  <1> QED BY <1>7, <1>8, <1>11, <1>12, InvPrime

\* A step that leaves I_STAT alone and does not raise the line.
LEMMA QuietStep ==
  ASSUME JoyInv, NEW b, Machine(b), Timely(b), BecomeBus(b),
         b.joy.irq => joy.irq, UNCHANGED <<istat, seen>>
  PROVE  JoyInv'
  <1>1. Afterwards = b /\ joy' = b.joy
    BY BecomesIs DEF Machine, BecomeBus
  <1>2. joy'.irq => istat' \/ seen'
    BY <1>1 DEF JoyInv, IrqIsLatched
  <1> QED BY <1>1, <1>2, InvPrime DEF JoyInv

LEMMA WriteControlKeeps ==
  ASSUME JoyInv, NEW w \in Controls, WriteControl(w)
  PROVE  JoyInv'
  <1>1. w \in ControlWords
    BY JoyAssumption DEF JoyAssumption
  <1>2. CASE w.reset
    <2> DEFINE j == ClearJoy(joy)
               b == [Bus EXCEPT !.joy = ClearJoy(@)]
               t == ResetTransaction(b)
    <2>1. NoControl \in ControlWords
      BY DEF NoControl, ControlWords
    <2>2. j = Whole(j) /\ j.selected = joy.selected
      BY InvNow DEF ClearJoy, Registers, Whole, Names
    <2>3. /\ j.baud = 0 /\ j.factor = 1 /\ j.control = NoControl /\ j.pending = NoByte
          /\ j.left = 0 /\ j.ackDelay = 0 /\ j.ackPulse = 0 /\ j.irq = FALSE
      BY InvNow DEF ClearJoy, Registers, Whole, Names
    <2>4. /\ b = [joy |-> b.joy, pads |-> b.pads, cards |-> b.cards]
          /\ b.joy = j /\ b.pads = pads /\ b.cards = cards
      BY DEF Bus
    <2>5. BecomeBus(t)
      BY <1>2 DEF WriteControl
    <2> HIDE DEF j, b, t
    <2>6. Registers(j)
      <3>1. j.selected \in {"none", "pad", "card"}
        BY <2>2, InvNow DEF Registers
      <3>2. /\ j.baud \in Nat /\ j.factor \in Nat \ {0} /\ j.left \in Nat
            /\ j.ackDelay \in Nat /\ j.ackPulse \in Nat
        BY <2>3
      <3>3. j.control \in ControlWords /\ j.irq \in BOOLEAN
        BY <2>1, <2>3
      <3> QED BY <2>2, <3>1, <3>2, <3>3 DEF Registers
    <2>7. Machine(t) /\ t.joy = [j EXCEPT !.selected = "none"]
      BY <2>4, <2>6, ResetTransactionSound, InvNow DEF t
    <2>8. t.joy.pending = NoByte /\ t.joy.irq = FALSE
      BY <2>2, <2>3, <2>7 DEF Whole, Names
    <2> QED BY <2>5, <2>7, <2>8, QuietStep DEF Timely, WriteControl
  <1>3. CASE ~w.reset
    <2> DEFINE new == [w EXCEPT !.ack = FALSE, !.reset = FALSE]
               i == IF w.ack /\ ~(w.dsrIrq /\ joy.ackPulse # 0) THEN FALSE ELSE joy.irq
               j == [joy EXCEPT !.control = new, !.irq = i]
               c == [Bus EXCEPT !.joy = j]
    <2>1. new \in ControlWords
      BY <1>1 DEF ControlWords
    <2>2. i \in BOOLEAN /\ (i => joy.irq)
      BY InvNow DEF Registers
    <2>3. \/ EndsTransaction(joy.control, new) /\ BecomeBus(ResetTransaction(c))
          \/ ~EndsTransaction(joy.control, new) /\ BecomeBus(c)
      <3> DEFINE d == [Bus EXCEPT
                !.joy.control = new,
                !.joy.irq = IF w.ack /\ ~(w.dsrIrq /\ joy.ackPulse # 0)
                            THEN FALSE ELSE @]
      <3>1. d = c
        BY DEF Bus
      <3>2. \/ EndsTransaction(joy.control, new) /\ BecomeBus(ResetTransaction(d))
            \/ ~EndsTransaction(joy.control, new) /\ BecomeBus(d)
        BY <1>3, InvNow DEF WriteControl, ControlWritten
      <3> QED BY <3>1, <3>2
    <2> HIDE DEF new, i
    <2>4. j = Whole(j)
      BY InvNow DEF Registers, Whole
    <2>5. /\ j.control = new /\ j.irq = i /\ j.baud = joy.baud /\ j.factor = joy.factor
          /\ j.left = joy.left /\ j.ackDelay = joy.ackDelay /\ j.ackPulse = joy.ackPulse
          /\ j.selected = joy.selected /\ j.pending = joy.pending
      BY InvNow DEF Registers, Whole, Names
    <2>6. /\ c = [joy |-> c.joy, pads |-> c.pads, cards |-> c.cards]
          /\ c.joy = j /\ c.pads = pads /\ c.cards = cards
      BY DEF Bus
    <2> HIDE DEF j, c
    <2>7. Registers(j)
      BY <2>1, <2>2, <2>4, <2>5, InvNow DEF Registers
    <2>8. CASE EndsTransaction(joy.control, new) /\ BecomeBus(ResetTransaction(c))
      <3> DEFINE t == ResetTransaction(c)
      <3>1. Machine(t) /\ t.joy = [j EXCEPT !.selected = "none"]
        BY <2>6, <2>7, ResetTransactionSound, InvNow
      <3>2. t.joy.pending = joy.pending /\ t.joy.left = joy.left /\ t.joy.irq = i
        BY <2>4, <2>5, <3>1 DEF Whole, Names
      <3> HIDE DEF t
      <3>3. Timely(t)
        BY <3>2, InvNow DEF Timely
      <3> QED BY <2>2, <2>8, <3>1, <3>2, <3>3, QuietStep DEF WriteControl, t
    <2>9. CASE ~EndsTransaction(joy.control, new) /\ BecomeBus(c)
      <3>1. Selection(c)
        <4>1. Selection(Bus)
          BY InvNow DEF Machine
        <4>2. joy.selected # "none" => new.dtr /\ new.port = joy.control.port
          BY <2>9, <4>1, InvNow DEF Selection, EndsTransaction
        <4> QED BY <2>5, <2>6, <4>1, <4>2, InvNow DEF Selection, Registers
      <3>2. Machine(c)
        BY <2>6, <2>7, <3>1, InvNow DEF Machine
      <3>3. Timely(c)
        BY <2>5, <2>6, InvNow DEF Timely
      <3> QED BY <2>2, <2>5, <2>6, <2>9, <3>2, <3>3, QuietStep DEF WriteControl
    <2> QED BY <2>3, <2>8, <2>9
  <1> QED BY <1>2, <1>3

LEMMA WriteRateKeeps ==
  ASSUME JoyInv, NEW baud \in Bauds, NEW factor \in Factors, WriteRate(baud, factor)
  PROVE  JoyInv'
  <1> DEFINE j == [joy EXCEPT !.baud = baud, !.factor = factor]
             b == [Bus EXCEPT !.joy = j]
  <1>1. baud \in Nat /\ factor \in Nat \ {0}
    BY JoyAssumption DEF JoyAssumption
  <1>2. j = Whole(j)
    BY InvNow DEF Registers, Whole
  <1>3. /\ j.baud = baud /\ j.factor = factor /\ j.control = joy.control /\ j.irq = joy.irq
        /\ j.left = joy.left /\ j.ackDelay = joy.ackDelay /\ j.ackPulse = joy.ackPulse
        /\ j.selected = joy.selected /\ j.pending = joy.pending
    BY InvNow DEF Registers, Whole, Names
  <1>4. /\ b.joy = j /\ BecomeBus(b)
    BY DEF WriteRate, BecomeBus, Bus
  <1> HIDE DEF j
  <1>5. Registers(j)
    BY <1>1, <1>2, <1>3, InvNow DEF Registers
  <1>6. Machine(b)
    BY <1>3, <1>5, SameSelection, InvNow
  <1> HIDE DEF b
  <1>7. Timely(b)
    BY <1>3, <1>4, InvNow DEF Timely
  <1> QED BY <1>3, <1>4, <1>6, <1>7, QuietStep DEF WriteRate

\* Whatever the rate, a byte takes at least BitCycles.
LEMMA BytesTakeTime ==
  ASSUME Registers(joy)
  PROVE  ByteCycles(joy) \in Nat \ {0}
  <1> DEFINE period == joy.baud * joy.factor
             even == period - (period % 2)
             clamped == IF even = 0 THEN 1 ELSE even
  <1>1. period \in Nat
    BY DEF Registers
  <1> HIDE DEF period
  <1>2. even \in Nat
    BY <1>1
  <1> HIDE DEF even
  <1>3. clamped \in Nat \ {0}
    BY <1>2
  <1> HIDE DEF clamped
  <1>4. BitCycles \in Nat \ {0}
    BY JoyAssumption DEF JoyAssumption
  <1>5. clamped * BitCycles \in Nat \ {0}
    BY <1>3, <1>4
  <1> QED BY <1>5 DEF ByteCycles, clamped, even, period

LEMMA WriteDataKeeps ==
  ASSUME JoyInv, NEW v, WriteData(v)
  PROVE  JoyInv'
  <1> DEFINE n == ByteCycles(joy)
             j == [joy EXCEPT !.pending = <<v>>, !.left = n]
             b == [Bus EXCEPT !.joy = j]
  <1>1. n \in Nat \ {0}
    BY BytesTakeTime, InvNow
  <1>2. b.joy = j /\ BecomeBus(b)
    BY DEF WriteData, BecomeBus, Bus
  <1> HIDE DEF n
  <1>3. j = Whole(j)
    BY InvNow DEF Registers, Whole
  <1>4. /\ j.baud = joy.baud /\ j.factor = joy.factor /\ j.control = joy.control
        /\ j.irq = joy.irq /\ j.left = n /\ j.ackDelay = joy.ackDelay
        /\ j.ackPulse = joy.ackPulse /\ j.selected = joy.selected
    BY InvNow DEF Registers, Whole, Names
  <1> HIDE DEF j
  <1>5. Registers(j)
    BY <1>1, <1>3, <1>4, InvNow DEF Registers
  <1>6. Machine(b)
    BY <1>4, <1>5, SameSelection, InvNow
  <1> HIDE DEF b
  <1>7. Timely(b)
    BY <1>1, <1>2, <1>4 DEF Timely
  <1> QED BY <1>2, <1>4, <1>6, <1>7, QuietStep DEF WriteData

\* What j and k agree in when only received bytes were taken out.
SameButReceived(j, k) ==
    /\ k.baud = j.baud /\ k.factor = j.factor /\ k.control = j.control /\ k.irq = j.irq
    /\ k.left = j.left /\ k.ackDelay = j.ackDelay /\ k.ackPulse = j.ackPulse
    /\ k.selected = j.selected /\ k.pending = j.pending

LEMMA PopRxKeeps ==
  ASSUME NEW j, Registers(j)
  PROVE  Registers(PopRx(j)) /\ SameButReceived(j, PopRx(j))
  <1> DEFINE k == [j EXCEPT !.lastRx = Head(j.rx), !.rx = Tail(j.rx)]
  <1>1. k = Whole(k)
    BY DEF Registers, Whole
  <1>2. SameButReceived(j, k)
    BY DEF Registers, Whole, Names, SameButReceived
  <1>3. PopRx(j) \in {j, k}
    BY DEF PopRx
  <1> HIDE DEF k
  <1>4. Registers(k)
    BY <1>1, <1>2 DEF Registers, SameButReceived
  <1>5. SameButReceived(j, j)
    BY DEF SameButReceived
  <1> QED BY <1>2, <1>3, <1>4, <1>5

LEMMA ReadDataKeeps ==
  ASSUME JoyInv, ReadData
  PROVE  JoyInv'
  <1> DEFINE b == [Bus EXCEPT !.joy = joy']
             one == PopRx(joy)
             two == PopRx(one)
             three == PopRx(two)
             four == PopRx(three)
  <1>1. Registers(one) /\ SameButReceived(joy, one)
    BY PopRxKeeps, InvNow
  <1>2. joy' \in {one, four}
    BY DEF ReadData
  <1> HIDE DEF one
  <1>3. Registers(two) /\ SameButReceived(one, two)
    BY <1>1, PopRxKeeps
  <1> HIDE DEF two
  <1>4. Registers(three) /\ SameButReceived(two, three)
    BY <1>3, PopRxKeeps
  <1> HIDE DEF three
  <1>5. Registers(four) /\ SameButReceived(three, four)
    BY <1>4, PopRxKeeps
  <1> HIDE DEF four
  <1>6. SameButReceived(joy, four)
    BY <1>1, <1>3, <1>4, <1>5 DEF SameButReceived
  <1>7. Registers(joy') /\ SameButReceived(joy, joy')
    BY <1>1, <1>2, <1>5, <1>6
  <1>8. b.joy = joy' /\ BecomeBus(b)
    BY DEF ReadData, BecomeBus, Bus
  <1>9. Machine(b)
    BY <1>7, SameSelection, InvNow DEF SameButReceived
  <1> HIDE DEF b
  <1>10. Timely(b)
    BY <1>7, <1>8, InvNow DEF Timely, SameButReceived
  <1>11. b.joy.irq => joy.irq
    BY <1>7, <1>8 DEF SameButReceived
  <1> QED BY <1>8, <1>9, <1>10, <1>11, QuietStep DEF ReadData

\* The host changes what is plugged in and ends the transaction.
LEMMA PlugKeeps ==
  ASSUME JoyInv, NEW s, NEW t, Sockets(s), Sockets(t),
         BecomeBus(ResetTransaction([joy |-> joy, pads |-> s, cards |-> t])),
         UNCHANGED <<istat, seen>>
  PROVE  JoyInv'
  <1> DEFINE b == [joy |-> joy, pads |-> s, cards |-> t]
             r == ResetTransaction(b)
  <1>1. /\ b = [joy |-> b.joy, pads |-> b.pads, cards |-> b.cards]
        /\ b.joy = joy /\ b.pads = s /\ b.cards = t
    OBVIOUS
  <1>2. BecomeBus(r)
    OBVIOUS
  <1> HIDE DEF b
  <1>3. Machine(r) /\ r.joy = [joy EXCEPT !.selected = "none"]
    BY <1>1, ResetTransactionSound, InvNow
  <1> HIDE DEF r
  <1>4. r.joy.pending = joy.pending /\ r.joy.left = joy.left /\ r.joy.irq = joy.irq
    BY <1>3, InvNow DEF Registers, Whole, Names
  <1>5. Timely(r)
    BY <1>4, InvNow DEF Timely
  <1> QED BY <1>2, <1>3, <1>4, <1>5, QuietStep

LEMMA SetControllerKeeps ==
  ASSUME JoyInv, NEW p \in Ports, NEW d \in {Absent, NewPad(FALSE), NewPad(TRUE)},
         SetController(p, d)
  PROVE  JoyInv'
  <1> DEFINE s == [pads EXCEPT ![p] = d]
  <1>1. [Bus EXCEPT !.pads[p] = d] = [joy |-> joy, pads |-> s, cards |-> cards]
    BY DEF Bus
  <1>2. Socket(d)
    BY DEF Socket, NewPad, Absent
  <1>3. Sockets(s)
    BY <1>2, SocketsUpdate, InvNow
  <1> HIDE DEF s
  <1>4. /\ BecomeBus(ResetTransaction([joy |-> joy, pads |-> s, cards |-> cards]))
        /\ UNCHANGED <<istat, seen>>
    BY <1>1 DEF SetController
  <1> QED BY <1>3, <1>4, PlugKeeps, InvNow

\* The mode of a pad is not what selects it, nor its command.
LEMMA SetAnalogModeKeeps ==
  ASSUME JoyInv, NEW p \in Ports, NEW enabled \in BOOLEAN, SetAnalogMode(p, enabled)
  PROVE  JoyInv'
  <1> DEFINE mode == pads[p][1].dual /\ enabled
             d == <<[pads[p][1] EXCEPT !.analog = mode]>>
             s == [pads EXCEPT ![p] = d]
             b == [joy |-> joy, pads |-> s, cards |-> cards]
  <1>1. pads[p] # Absent /\ Socket(pads[p])
    BY InvNow DEF SetAnalogMode, Sockets
  <1>2. pads' = s /\ joy' = joy /\ cards' = cards /\ UNCHANGED <<istat, seen>>
    <2>1. pads[p] = <<pads[p][1]>>
      BY <1>1 DEF Socket
    <2> DEFINE e == [pads EXCEPT ![p][1].analog = mode]
    <2>2. /\ pads' = e /\ joy' = joy /\ cards' = cards
          /\ UNCHANGED <<istat, seen>>
      BY DEF SetAnalogMode
    <2> HIDE DEF mode
    <2>3. \A x, y : [<<x>> EXCEPT ![1] = y] = <<y>>
      OBVIOUS
    <2>4. [pads[p] EXCEPT ![1] = [pads[p][1] EXCEPT !.analog = mode]] = d
      BY <2>1, <2>3
    <2>5. e = [pads EXCEPT ![p] = [pads[p] EXCEPT ![1] = [pads[p][1] EXCEPT !.analog = mode]]]
      OBVIOUS
    <2>6. e = s
      BY <2>4, <2>5
    <2> QED BY <2>2, <2>6
  <1> HIDE DEF mode
  <1>3. Socket(d) /\ d # Absent /\ d[1].command = pads[p][1].command
    BY <1>1 DEF Socket, Absent
  <1> HIDE DEF d
  <1>4. /\ Sockets(s) /\ s[p] = d
        /\ \A q \in Ports : q # p => s[q] = pads[q]
    BY <1>3, SocketsUpdate, InvNow
  <1>5. BecomeBus(b) /\ b.joy = joy
    BY <1>2 DEF BecomeBus
  <1> HIDE DEF s
  <1>6. Selection(b)
    <2>1. \A q \in Ports : pads[q] # Absent => s[q] # Absent
      BY <1>1, <1>3, <1>4
    <2>2. \A q \in Ports : Waits(pads[q]) => Waits(s[q])
      BY <1>1, <1>3, <1>4 DEF Waits
    <2>3. joy.control.port \in Ports
      BY InvNow DEF Registers, ControlWords, Ports
    <2>4. /\ joy.selected # "none" => joy.control.dtr
          /\ joy.selected = "pad" => pads[joy.control.port] # Absent
          /\ joy.selected = "card" => cards[joy.control.port] # Absent
      BY InvNow DEF Machine, Selection
    <2>5. \A q \in Ports :
            /\ ~(joy.selected = "pad" /\ joy.control.port = q) => Waits(pads[q])
            /\ ~(joy.selected = "card" /\ joy.control.port = q) => Waits(cards[q])
      BY InvNow DEF Machine, Selection
    <2>6. b.joy = joy /\ b.pads = s /\ b.cards = cards
      OBVIOUS
    <2> HIDE DEF b
    <2>7. \A q \in Ports :
            /\ ~(joy.selected = "pad" /\ joy.control.port = q) => Waits(s[q])
            /\ ~(joy.selected = "card" /\ joy.control.port = q) => Waits(cards[q])
      BY <2>5, <2>2
    <2>8. joy.selected = "pad" => s[joy.control.port] # Absent
      BY <2>1, <2>3, <2>4
    <2> QED BY <2>4, <2>6, <2>7, <2>8 DEF Selection
  <1>7. Machine(b)
    BY <1>4, <1>6, InvNow DEF Machine
  <1>8. Timely(b)
    BY InvNow DEF Timely
  <1> HIDE DEF b
  <1> QED BY <1>2, <1>5, <1>7, <1>8, QuietStep

LEMMA CardsKeep ==
  ASSUME JoyInv, NEW p \in Ports, InsertCard(p) \/ RemoveCard(p)
  PROVE  JoyInv'
  <1>1. ASSUME NEW d, Socket(d),
               BecomeBus(ResetTransaction([Bus EXCEPT !.cards[p] = d])),
               UNCHANGED <<istat, seen>>
        PROVE  JoyInv'
    <2> DEFINE t == [cards EXCEPT ![p] = d]
    <2>1. [Bus EXCEPT !.cards[p] = d] = [joy |-> joy, pads |-> pads, cards |-> t]
      BY DEF Bus
    <2>2. Sockets(t)
      BY <1>1, SocketsUpdate, InvNow
    <2> HIDE DEF t
    <2> QED BY <1>1, <2>1, <2>2, PlugKeeps, InvNow
  <1>2. Socket(Absent)
    BY DEF Socket
  <1>3. Socket(<<NewCard(Image)>>)
    BY DEF Socket, NewCard
  <1>4. CASE InsertCard(p)
    BY <1>1, <1>3, <1>4 DEF InsertCard
  <1>5. CASE RemoveCard(p)
    BY <1>1, <1>2, <1>5 DEF RemoveCard
  <1> QED BY <1>4, <1>5

LEMMA StepInv == JoyInv /\ [Next]_vars => JoyInv'
  <1> SUFFICES ASSUME JoyInv, [Next]_vars
               PROVE  JoyInv'
    OBVIOUS
  <1>1. ASSUME NEW c \in TickCycles, Tick(c)
        PROVE  JoyInv'
    BY <1>1, TickKeeps
  <1>2. ASSUME NEW w \in Controls, WriteControl(w)
        PROVE  JoyInv'
    BY <1>2, WriteControlKeeps
  <1>3. ASSUME NEW b \in Bauds, NEW f \in Factors, WriteRate(b, f)
        PROVE  JoyInv'
    BY <1>3, WriteRateKeeps
  <1>4. ASSUME NEW v \in InBytes, WriteData(v)
        PROVE  JoyInv'
    BY <1>4, WriteDataKeeps
  <1>5. CASE ReadData
    BY <1>5, ReadDataKeeps
  <1>6. CASE AckIstat
    <2>1. Afterwards = Bus /\ joy' = joy
      BY <1>6 DEF AckIstat, Afterwards, Bus
    <2>2. istat' = FALSE /\ seen' = TRUE
      BY <1>6 DEF AckIstat
    <2> QED BY <2>1, <2>2, InvPrime, InvNow
  <1>7. ASSUME NEW p \in Ports,
               \/ \E d \in {Absent, NewPad(FALSE), NewPad(TRUE)} : SetController(p, d)
               \/ \E enabled \in BOOLEAN : SetAnalogMode(p, enabled)
               \/ InsertCard(p) \/ RemoveCard(p)
        PROVE  JoyInv'
    BY <1>7, SetControllerKeeps, SetAnalogModeKeeps, CardsKeep
  <1>8. CASE UNCHANGED vars
    BY <1>8 DEF vars, JoyInv, Bus, IrqIsLatched
  <1> QED BY <1>1, <1>2, <1>3, <1>4, <1>5, <1>6, <1>7, <1>8 DEF Next

-----------------------------------------------------------------------------
(* Results.                                                                *)

\* The registers have their types, a selected device is there and every other
\* one waits, a byte in flight has time, and the line is known to the guest.
THEOREM InvCorrect == Spec => []JoyInv
  BY InitInv, StepInv, PTL DEF Spec

\* A byte being sent is always finished by enough ticks: it has cycles left at
\* any rate, baud rate 0 included, and after any change of it.
THEOREM BytesEnd == Spec => []PendingHasTime
  <1>1. JoyInv => PendingHasTime
    BY DEF JoyInv, Timely, Bus, PendingHasTime
  <1> QED BY <1>1, InvCorrect, PTL

\* A transaction lives while DTR is up, with a device of the chosen port; all
\* others wait for their first byte, whatever is plugged when.
THEOREM SelectionTheorem == Spec => []SelectionIsSound
  <1>1. JoyInv => SelectionIsSound
    BY DEF JoyInv, Machine, Selection, Waits, Bus, SelectionIsSound
  <1> QED BY <1>1, InvCorrect, PTL

\* No edge of the interrupt line is lost between the device and I_STAT, also
\* when the /ACK and the end of the next byte fall into one tick.
THEOREM NoEdgeIsLost == Spec => []IrqIsLatched
  <1>1. JoyInv => IrqIsLatched
    BY DEF JoyInv
  <1> QED BY <1>1, InvCorrect, PTL
=============================================================================
