------------------------------- MODULE CpuProofs -------------------------------
(***************************************************************************)
(* Proofs about the processor: the interpreter, for every address space,   *)
(* register file, set of words, branch displacements and vectors; its      *)
(* instruction cache, for every size of RAM, of its mirrors and of the     *)
(* cache; and the geometry coprocessor, for all values of its registers.   *)
(***************************************************************************)
EXTENDS Cpu, ICache, Gte, FiniteSetTheorems, TLAPS

-----------------------------------------------------------------------------
(* The constants.                                                          *)

LEMMA ConstantTypes ==
  /\ AddrMod \in Nat /\ AddrMod > 0 /\ AddrMod % 4 = 0
  /\ 0 \in Regs /\ Link \in Regs /\ Link # 0
  /\ Values \subseteq Addresses /\ JumpTargets \subseteq Addresses
  /\ BadAddrs \subseteq Addresses
  /\ ResetVector \in Addresses /\ BootVector \in Addresses
  /\ RamVector \in Addresses
  /\ \A o \in Offsets : o \in Int
  BY CpuAssumption

LEMMA AddressIsInt == ASSUME NEW a \in Addresses PROVE a \in Int
  BY ConstantTypes DEF Addresses

LEMMA WrapType == ASSUME NEW a \in Int PROVE Wrap(a) \in Addresses
  BY ConstantTypes DEF Wrap, Addresses

LEMMA NextType == ASSUME NEW a \in Addresses PROVE Wrap(a + 4) \in Addresses
  BY WrapType, AddressIsInt

\* Four back from four on: the branch before its delay slot.
LEMMA WrapBack ==
  ASSUME NEW a \in Addresses PROVE Wrap(Wrap(a + 4) - 4) = a
  <1>1. AddrMod >= 4 /\ AddrMod \in Nat /\ a \in Nat /\ a < AddrMod
    BY ConstantTypes DEF Addresses
  <1>2. CASE a + 4 < AddrMod
    <2>1. Wrap(a + 4) = a + 4
      BY <1>1, <1>2 DEF Wrap
    <2> QED BY <2>1, <1>1 DEF Wrap
  <1>3. CASE a + 4 >= AddrMod
    <2>1. Wrap(a + 4) = a + 4 - AddrMod
      BY <1>1, <1>3 DEF Wrap
    <2>2. (a - AddrMod) % AddrMod = a
      BY <1>1
    <2> QED BY <2>1, <2>2, <1>1 DEF Wrap
  <1> QED BY <1>1, <1>2, <1>3

LEMMA NoLoadType ==
  ASSUME NEW l \in Loads, l # NoLoad
  PROVE  /\ l \in (Regs \ {0}) \X Addresses
         /\ l[1] \in Regs /\ l[1] # 0 /\ l[2] \in Addresses
  BY DEF Loads

LEMMA LoadType ==
  ASSUME NEW r \in Regs, r # 0, NEW v \in Addresses
  PROVE  /\ <<r, v>> \in Loads /\ <<r, v>> # NoLoad
         /\ <<r, v>>[1] = r /\ <<r, v>>[2] = v
  BY DEF Loads, NoLoad

-----------------------------------------------------------------------------
(* Exceptions.                                                             *)

LEMMA NewTypes == NewCpu \in Cpus /\ NoSlot \in Slots /\ NoLoad \in Loads
  <1>1. 0 \in Addresses
    BY ConstantTypes DEF Addresses
  <1>2. NoSlot \in Slots /\ NoLoad \in Loads
    BY <1>1 DEF NoSlot, Slots, NoLoad, Loads
  <1>3. NewCop0 \in Cop0s
    BY <1>1 DEF NewCop0, Cop0s, Lines, ExceptionCodes
  <1>4. [r \in Regs |-> 0] \in [Regs -> Addresses]
    BY <1>1
  <1> QED BY <1>2, <1>3, <1>4, NextType, ConstantTypes DEF NewCpu, Cpus

\* The line is latched into Cause and touches nothing else.
LEMMA SampledType ==
  ASSUME cpu \in Cpus, NEW p \in BOOLEAN
  PROVE  /\ Sampled(p) \in Cpus
         /\ Sampled(p).pc = cpu.pc /\ Sampled(p).nextPc = cpu.nextPc
         /\ Sampled(p).slot = cpu.slot /\ Sampled(p).regs = cpu.regs
         /\ Sampled(p).load = cpu.load
         /\ Sampled(p).cop0.ie = cpu.cop0.ie
  <1>1. cpu.cop0 \in Cop0s
    BY DEF Cpus
  <1>2. /\ SetInterruptPending(cpu.cop0, p) \in Cop0s
        /\ SetInterruptPending(cpu.cop0, p).ie = cpu.cop0.ie
    BY <1>1 DEF SetInterruptPending, Cop0s, Lines
  <1> QED BY <1>2 DEF Sampled, Cpus

LEMMA EnterType ==
  ASSUME NEW c \in Cop0s, NEW code \in ExceptionCodes, NEW epc \in Addresses,
         NEW slot \in Slots, NEW bad \in SUBSET Addresses
  PROVE  LET d == EnterException(c, code, epc, slot, bad) IN
         /\ d \in Cop0s
         /\ d.epc = EpcFor(epc, slot) /\ d.bd = slot.is
         /\ d.bt = (slot.is /\ slot.taken)
         /\ d.bt => d.tar = slot.target
         /\ d.ie = PushModes(c.ie)
  <1> DEFINE d == EnterException(c, code, epc, slot, bad)
             reported == IF bad = {} THEN c.badVaddr ELSE CHOOSE a \in bad : TRUE
             tar == IF slot.is /\ slot.taken THEN slot.target ELSE c.tar
  <1>1. reported \in Addresses
    BY DEF Cop0s
  <1>2. EpcFor(epc, slot) \in Addresses
    BY WrapType, AddressIsInt DEF EpcFor
  <1>3. slot.is \in BOOLEAN /\ slot.taken \in BOOLEAN /\ slot.target \in Addresses
    BY DEF Slots
  <1>4. PushModes(c.ie) \in BOOLEAN \X BOOLEAN \X BOOLEAN
    BY DEF PushModes, Cop0s
  <1>5. tar \in Addresses
    BY <1>3 DEF Cop0s
  <1>6. d = [c EXCEPT !.badVaddr = reported, !.epc = EpcFor(epc, slot),
                      !.code = code, !.bd = slot.is,
                      !.bt = slot.is /\ slot.taken, !.tar = tar,
                      !.ie = PushModes(c.ie)]
    BY DEF EnterException
  <1> HIDE DEF d, reported, tar
  <1>7. d \in Cop0s
    BY <1>1, <1>2, <1>3, <1>4, <1>5, <1>6 DEF Cop0s
  <1>8. /\ d.epc = EpcFor(epc, slot) /\ d.bd = slot.is
        /\ d.bt = (slot.is /\ slot.taken) /\ d.tar = tar
        /\ d.ie = PushModes(c.ie)
    BY <1>6 DEF Cop0s
  <1> QED BY <1>7, <1>8 DEF d, tar

\* The handler starts at its vector, with neither a slot nor a load pending.
LEMMA RaiseType ==
  ASSUME NEW c \in Cpus, NEW code \in ExceptionCodes, NEW epc \in Addresses,
         NEW slot \in Slots, NEW bad \in SUBSET Addresses
  PROVE  LET d == RaiseException(c, code, epc, slot, bad) IN
         /\ d \in Cpus
         /\ d.regs = c.regs /\ d.load = NoLoad /\ d.slot = NoSlot
         /\ d.nextPc = Wrap(d.pc + 4)
         /\ d.cop0 = EnterException(c.cop0, code, epc, slot, bad)
  <1> DEFINE cop0 == EnterException(c.cop0, code, epc, slot, bad)
             d == RaiseException(c, code, epc, slot, bad)
  <1>1. cop0 \in Cop0s
    BY EnterType DEF Cpus
  <1>2. Vector(cop0) \in Addresses
    BY ConstantTypes DEF Vector
  <1>3. Wrap(Vector(cop0) + 4) \in Addresses
    BY <1>2, NextType
  <1>4. d = [c EXCEPT !.pc = Vector(cop0), !.nextPc = Wrap(Vector(cop0) + 4),
                      !.slot = NoSlot, !.load = NoLoad, !.cop0 = cop0]
    BY DEF RaiseException
  <1> HIDE DEF d, cop0
  <1>5. /\ d \in Cpus /\ d.regs = c.regs /\ d.load = NoLoad /\ d.slot = NoSlot
        /\ d.pc = Vector(cop0) /\ d.nextPc = Wrap(Vector(cop0) + 4)
        /\ d.cop0 = cop0
    BY <1>1, <1>2, <1>3, <1>4, NewTypes DEF Cpus
  <1> QED BY <1>5 DEF d, cop0
-----------------------------------------------------------------------------
(* Executions: the operators an instruction is composed of.                *)

Executions ==
  [cpu : Cpus, at : Addresses, here : Slots, merge : Loads, mask : SUBSET Regs]

\* What is left alone by the operators that write registers.
SameFlow(c, d) ==
  /\ d.pc = c.pc /\ d.nextPc = c.nextPc /\ d.slot = c.slot
  /\ d.cop0 = c.cop0
SameFetch(e, f) == f.at = e.at /\ f.here = e.here /\ f.merge = e.merge

\* An instruction starts with the load in flight taken out.
LEMMA FetchedType ==
  ASSUME TypeOK, NEW op, NEW e \in Fetched(op)
  PROVE  /\ e \in Executions
         /\ e.at = cpu.pc /\ e.here = cpu.slot /\ e.merge = cpu.load
         /\ e.mask = {}
         /\ e.cpu.pc = cpu.nextPc /\ e.cpu.nextPc = Wrap(cpu.nextPc + 4)
         /\ e.cpu.slot = NoSlot /\ e.cpu.load = NoLoad
         /\ e.cpu.regs = cpu.regs /\ e.cpu.cop0.ie = cpu.cop0.ie
  <1>1. PICK p \in BOOLEAN : e = Begin(Sampled(p))
    BY DEF Fetched
  <1> DEFINE c == Sampled(p)
  <1>2. /\ c \in Cpus /\ c.pc = cpu.pc /\ c.nextPc = cpu.nextPc
        /\ c.slot = cpu.slot /\ c.regs = cpu.regs /\ c.load = cpu.load
        /\ c.cop0.ie = cpu.cop0.ie
    BY SampledType DEF TypeOK
  <1>3. e = Begin(c)
    BY <1>1
  <1> HIDE DEF c
  <1>4. c.nextPc \in Addresses /\ Wrap(c.nextPc + 4) \in Addresses
    BY <1>2, NextType DEF Cpus
  <1>5. /\ e.cpu \in Cpus
        /\ e.cpu.pc = c.nextPc /\ e.cpu.nextPc = Wrap(c.nextPc + 4)
        /\ e.cpu.slot = NoSlot /\ e.cpu.load = NoLoad
        /\ e.cpu.regs = c.regs /\ e.cpu.cop0 = c.cop0
    BY <1>2, <1>3, <1>4, NewTypes DEF Begin, Cpus
  <1>6. /\ e = [cpu |-> e.cpu, at |-> c.pc, here |-> c.slot,
                merge |-> c.load, mask |-> {}]
        /\ c.pc \in Addresses /\ c.slot \in Slots /\ c.load \in Loads
    BY <1>2, <1>3 DEF Begin, Cpus
  <1>7. e \in Executions
    BY <1>5, <1>6 DEF Executions
  <1> QED BY <1>2, <1>5, <1>6, <1>7

LEMMA SetRegType ==
  ASSUME NEW e \in Executions, NEW r \in Regs, NEW v \in Addresses
  PROVE  LET f == SetReg(e, r, v) IN
         /\ f \in Executions
         /\ SameFetch(e, f) /\ SameFlow(e.cpu, f.cpu)
         /\ f.cpu.load = e.cpu.load
         /\ f.cpu.regs = IF r = 0 THEN e.cpu.regs
                         ELSE [e.cpu.regs EXCEPT ![r] = v]
         /\ f.mask = IF r = 0 THEN e.mask ELSE e.mask \union {r}
  <1>1. CASE r = 0
    BY <1>1 DEF SetReg, SameFetch, SameFlow
  <1>2. CASE r # 0
    <2> DEFINE f == SetReg(e, r, v)
               c == [e.cpu EXCEPT !.regs[r] = v]
    <2>1. e.cpu \in Cpus
      BY DEF Executions
    <2>2. /\ c \in Cpus /\ SameFlow(e.cpu, c) /\ c.load = e.cpu.load
          /\ c.regs = [e.cpu.regs EXCEPT ![r] = v]
      BY <2>1 DEF Cpus, SameFlow
    <2>3. f = [e EXCEPT !.cpu = c, !.mask = e.mask \union {r}]
      BY <1>2 DEF SetReg, Executions
    <2> HIDE DEF f, c
    <2>4. f \in Executions /\ f.cpu = c /\ SameFetch(e, f)
          /\ f.mask = e.mask \union {r}
      BY <2>2, <2>3 DEF Executions, SameFetch
    <2> QED BY <1>2, <2>2, <2>4 DEF f
  <1> QED BY <1>1, <1>2

LEMMA SetLoadType ==
  ASSUME NEW e \in Executions, NEW r \in Regs, NEW v \in Addresses
  PROVE  LET f == SetLoad(e, r, v) IN
         /\ f \in Executions
         /\ SameFetch(e, f) /\ SameFlow(e.cpu, f.cpu)
         /\ f.cpu.regs = e.cpu.regs /\ f.mask = e.mask
         /\ f.cpu.load = IF r = 0 THEN e.cpu.load ELSE <<r, v>>
  <1>1. CASE r = 0
    BY <1>1 DEF SetLoad, SameFetch, SameFlow
  <1>2. CASE r # 0
    <2> DEFINE f == SetLoad(e, r, v)
               c == [e.cpu EXCEPT !.load = <<r, v>>]
    <2>1. e.cpu \in Cpus /\ <<r, v>> \in Loads
      BY <1>2, LoadType DEF Executions
    <2>2. /\ c \in Cpus /\ SameFlow(e.cpu, c) /\ c.regs = e.cpu.regs
          /\ c.load = <<r, v>>
      BY <2>1 DEF Cpus, SameFlow
    <2>3. f = [e EXCEPT !.cpu = c]
      BY <1>2 DEF SetLoad, Executions
    <2> HIDE DEF f, c
    <2>4. f \in Executions /\ f.cpu = c /\ SameFetch(e, f) /\ f.mask = e.mask
      BY <2>2, <2>3 DEF Executions, SameFetch
    <2> QED BY <1>2, <2>2, <2>4 DEF f
  <1> QED BY <1>1, <1>2

\* The registers after the load in flight has landed, if it does.
Landed(e) ==
  IF e.merge = NoLoad \/ Overtaken(e) THEN e.cpu.regs
  ELSE [e.cpu.regs EXCEPT ![e.merge[1]] = e.merge[2]]

LEMMA RetireType ==
  ASSUME NEW e \in Executions
  PROVE  /\ Retire(e) \in Cpus
         /\ SameFlow(e.cpu, Retire(e)) /\ Retire(e).load = e.cpu.load
         /\ Retire(e).regs = Landed(e)
         /\ e.cpu.regs[0] = 0 => Retire(e).regs[0] = 0
  <1>1. e.cpu \in Cpus /\ e.merge \in Loads
    BY DEF Executions
  <1>2. CASE e.merge = NoLoad \/ Overtaken(e)
    BY <1>1, <1>2 DEF Retire, Landed, SameFlow
  <1>3. CASE ~(e.merge = NoLoad \/ Overtaken(e))
    <2>1. e.merge[1] \in Regs /\ e.merge[1] # 0 /\ e.merge[2] \in Addresses
      BY <1>1, <1>3, NoLoadType
    <2>2. Retire(e) = [e.cpu EXCEPT !.regs[e.merge[1]] = e.merge[2]]
      BY <1>3 DEF Retire
    <2>3. Landed(e) = [e.cpu.regs EXCEPT ![e.merge[1]] = e.merge[2]]
      BY <1>3 DEF Landed
    <2>4. e.cpu.regs \in [Regs -> Addresses] /\ 0 \in Regs
      BY <1>1, ConstantTypes DEF Cpus
    <2>5. /\ Retire(e) \in Cpus
          /\ SameFlow(e.cpu, Retire(e)) /\ Retire(e).load = e.cpu.load
          /\ Retire(e).regs = Landed(e)
      BY <1>1, <2>1, <2>2, <2>3 DEF Cpus, SameFlow
    <2>6. e.cpu.regs[0] = 0 => Landed(e)[0] = 0
      BY <2>1, <2>3, <2>4
    <2> QED BY <2>5, <2>6
  <1> QED BY <1>2, <1>3
\* f is e after a control transfer, taken or not.
Transfers(e, f, taken) ==
  /\ f \in Executions
  /\ SameFetch(e, f) /\ f.mask = e.mask
  /\ f.cpu.pc = e.cpu.pc /\ f.cpu.regs = e.cpu.regs
  /\ f.cpu.load = e.cpu.load /\ f.cpu.cop0 = e.cpu.cop0
  /\ f.cpu.slot.is = TRUE /\ f.cpu.slot.taken = taken
  /\ IF taken THEN f.cpu.slot.target = f.cpu.nextPc
     ELSE f.cpu.slot.target = 0 /\ f.cpu.nextPc = e.cpu.nextPc

LEMMA TransferType ==
  ASSUME NEW e \in Executions, NEW f, NEW taken \in BOOLEAN,
         NEW next \in Addresses, NEW target \in Addresses,
         f = [e EXCEPT !.cpu.nextPc = next,
                       !.cpu.slot = [is |-> TRUE, taken |-> taken,
                                     target |-> target]],
         IF taken THEN next = target ELSE target = 0 /\ next = e.cpu.nextPc
  PROVE  Transfers(e, f, taken)
  <1> DEFINE slot == [is |-> TRUE, taken |-> taken, target |-> target]
             c == [e.cpu EXCEPT !.nextPc = next, !.slot = slot]
  <1>1. e.cpu \in Cpus
    BY DEF Executions
  <1>2. slot \in Slots /\ slot.is = TRUE /\ slot.taken = taken
        /\ slot.target = target
    BY DEF Slots
  <1>3. f = [e EXCEPT !.cpu = c]
    BY <1>1 DEF Executions, Cpus
  <1> HIDE DEF slot
  <1>4. /\ c \in Cpus /\ c.pc = e.cpu.pc /\ c.nextPc = next /\ c.slot = slot
        /\ c.regs = e.cpu.regs /\ c.load = e.cpu.load /\ c.cop0 = e.cpu.cop0
    BY <1>1, <1>2 DEF Cpus
  <1> HIDE DEF c
  <1>5. f \in Executions /\ f.cpu = c /\ SameFetch(e, f) /\ f.mask = e.mask
    BY <1>3, <1>4 DEF Executions, SameFetch
  <1> QED BY <1>2, <1>4, <1>5 DEF Transfers

LEMMA BranchType ==
  ASSUME NEW e \in Executions, NEW taken \in BOOLEAN, NEW o \in Offsets
  PROVE  Transfers(e, Branch(e, taken, o), taken)
  <1> DEFINE target == Wrap((IF e.here.is THEN e.cpu.pc ELSE e.at + 4) + o)
  <1>1. e.at \in Int /\ e.cpu.pc \in Int /\ o \in Int
    BY AddressIsInt, ConstantTypes DEF Executions, Cpus
  <1>2. target \in Addresses
    BY <1>1, WrapType
  <1>3. e.cpu.nextPc \in Addresses /\ 0 \in Addresses
    BY ConstantTypes DEF Executions, Cpus, Addresses
  <1>4. Branch(e, taken, o) =
          [e EXCEPT !.cpu.nextPc = IF taken THEN target ELSE e.cpu.nextPc,
                    !.cpu.slot = [is |-> TRUE, taken |-> taken,
                                  target |-> IF taken THEN target ELSE 0]]
    BY DEF Branch, Executions, Cpus
  <1> HIDE DEF target
  <1>5. CASE taken
    BY <1>2, <1>4, <1>5, TransferType
  <1>6. CASE ~taken
    BY <1>3, <1>4, <1>6, TransferType
  <1> QED BY <1>5, <1>6

LEMMA BranchToType ==
  ASSUME NEW e \in Executions, NEW t \in Addresses
  PROVE  Transfers(e, BranchTo(e, t), TRUE)
  BY TransferType DEF BranchTo

LEMMA RegType ==
  ASSUME NEW e \in Executions, NEW r \in Regs
  PROVE  Reg(e, r) \in Addresses
  BY DEF Reg, Executions, Cpus

LEMMA LinkType ==
  ASSUME NEW e \in Executions PROVE Wrap(e.cpu.pc + 4) \in Addresses
  BY NextType DEF Executions, Cpus

\* A fault inside an instruction: the handler follows, and nothing written.
LEMMA FaultType ==
  ASSUME NEW e \in Executions, NEW code \in ExceptionCodes,
         NEW bad \in SUBSET Addresses
  PROVE  LET f == Raise(e, code, bad) IN
         /\ f \in Executions
         /\ SameFetch(e, f) /\ f.mask = {}
         /\ f.cpu.regs = e.cpu.regs /\ f.cpu.load = NoLoad
         /\ f.cpu.slot = NoSlot /\ f.cpu.nextPc = Wrap(f.cpu.pc + 4)
         /\ f.cpu.cop0 = EnterException(e.cpu.cop0, code, e.at, e.here, bad)
  <1> DEFINE f == Raise(e, code, bad)
             c == RaiseException(e.cpu, code, e.at, e.here, bad)
  <1>1. /\ c \in Cpus
        /\ c.regs = e.cpu.regs /\ c.load = NoLoad /\ c.slot = NoSlot
        /\ c.nextPc = Wrap(c.pc + 4)
        /\ c.cop0 = EnterException(e.cpu.cop0, code, e.at, e.here, bad)
    BY RaiseType DEF Executions
  <1>2. f = [e EXCEPT !.cpu = c, !.mask = {}]
    BY DEF Raise
  <1> HIDE DEF f, c
  <1>3. f \in Executions /\ f.cpu = c /\ SameFetch(e, f) /\ f.mask = {}
    BY <1>1, <1>2 DEF Executions, SameFetch
  <1> QED BY <1>1, <1>3 DEF f

-----------------------------------------------------------------------------
(* The inductive invariant.                                                *)

\* The owner is the branch just before the delay slot.  A branch in a slot
\* has its own slot elsewhere, so nothing ties that one to pc.
OwnerInv ==
  /\ owner \in [is : BOOLEAN, taken : BOOLEAN, at : Addresses,
                chained : BOOLEAN]
  /\ owner.taken => owner.is
  /\ owner.is /\ ~owner.chained => cpu.pc = Wrap(owner.at + 4)

\* Status still holds the enables that the running handlers return to.
HandlersInv ==
  /\ handlers \in Seq(BOOLEAN) /\ Len(handlers) <= 2
  /\ Len(handlers) >= 1 => handlers[1] = cpu.cop0.ie[2]
  /\ Len(handlers) = 2 => handlers[2] = cpu.cop0.ie[3]

CpuInv == TypeOK /\ FlowIsConsistent /\ OwnerInv /\ HandlersInv

\* Steps after which the next instruction is nobody's delay slot.
LEMMA StraightFlow ==
  ASSUME cpu' \in Cpus, cpu'.regs[0] = 0, cpu'.slot = NoSlot,
         cpu'.nextPc = Wrap(cpu'.pc + 4), owner' = NoBranch
  PROVE  TypeOK' /\ FlowIsConsistent' /\ OwnerInv'
  <1>1. TypeOK'
    BY DEF TypeOK
  <1>2. FlowIsConsistent'
    BY DEF FlowIsConsistent, NoSlot, NoBranch
  <1>3. 0 \in Addresses
    BY ConstantTypes DEF Addresses
  <1>4. OwnerInv'
    BY <1>3 DEF OwnerInv, NoBranch
  <1> QED BY <1>1, <1>2, <1>4

LEMMA SameHandlers ==
  ASSUME HandlersInv, UNCHANGED handlers, cpu'.cop0.ie = cpu.cop0.ie
  PROVE  HandlersInv'
  BY DEF HandlersInv

\* f is what a branch or jump e makes of itself.
Branched(e, f, taken) ==
  /\ f \in Executions /\ SameFetch(e, f)
  /\ f.cpu.regs[0] = 0
  /\ f.cpu.pc = e.cpu.pc /\ f.cpu.cop0 = e.cpu.cop0
  /\ f.cpu.slot.is = TRUE /\ f.cpu.slot.taken = taken
  /\ IF taken THEN f.cpu.slot.target = f.cpu.nextPc
     ELSE f.cpu.slot.target = 0 /\ f.cpu.nextPc = e.cpu.nextPc

LEMMA BranchKeepsInv ==
  ASSUME CpuInv, NEW op, NEW e \in Fetched(op), NEW f, NEW taken \in BOOLEAN,
         Branched(e, f, taken), cpu' = Retire(f), Branching(e, taken)
  PROVE  CpuInv'
  <1>1. /\ e \in Executions
        /\ e.at = cpu.pc /\ e.here = cpu.slot
        /\ e.cpu.pc = cpu.nextPc /\ e.cpu.nextPc = Wrap(cpu.nextPc + 4)
        /\ e.cpu.cop0.ie = cpu.cop0.ie
    BY FetchedType DEF CpuInv
  <1>2. /\ cpu' \in Cpus /\ SameFlow(f.cpu, cpu')
        /\ cpu'.regs[0] = 0
    BY RetireType DEF Branched
  <1>3. /\ cpu'.pc = cpu.nextPc
        /\ cpu'.slot.is = TRUE /\ cpu'.slot.taken = taken
        /\ IF taken THEN cpu'.slot.target = cpu'.nextPc
           ELSE cpu'.slot.target = 0 /\ cpu'.nextPc = Wrap(cpu'.pc + 4)
        /\ cpu'.cop0.ie = cpu.cop0.ie
    BY <1>1, <1>2 DEF Branched, SameFlow
  <1>4. owner' = [is |-> TRUE, taken |-> taken, at |-> cpu.pc,
                  chained |-> cpu.slot.is]
        /\ UNCHANGED handlers
    BY <1>1 DEF Branching
  <1>5. TypeOK'
    BY <1>2 DEF TypeOK
  <1>6. FlowIsConsistent'
    BY <1>3, <1>4 DEF FlowIsConsistent
  <1>7. OwnerInv'
    <2>1. cpu.pc \in Addresses /\ cpu.slot.is \in BOOLEAN
      BY DEF CpuInv, TypeOK, Cpus, Slots
    <2>2. ~cpu.slot.is => cpu.nextPc = Wrap(cpu.pc + 4)
      BY DEF CpuInv, FlowIsConsistent, OwnerInv
    <2> QED BY <1>3, <1>4, <2>1, <2>2 DEF OwnerInv
  <1>8. HandlersInv'
    BY <1>3, <1>4, SameHandlers DEF CpuInv
  <1> QED BY <1>5, <1>6, <1>7, <1>8 DEF CpuInv

\* What an exception promises, of the step that takes it.
Restarts ==
  did'[1] \in {"trap", "fault"} /\ ~owner.chained =>
    /\ cpu'.cop0.epc = IF owner.is THEN owner.at ELSE cpu.pc
    /\ cpu'.cop0.bd = owner.is
    /\ cpu'.cop0.bt = owner.taken
    /\ cpu'.cop0.bt => cpu'.cop0.tar = cpu.nextPc

\* What a return promises.
Returns ==
  did'[1] = "rfe" /\ handlers # <<>> => cpu'.cop0.ie[1] = handlers[1]

\* EPC of the instruction at pc, with the slot it was found in.
LEMMA EpcIsRestart ==
  ASSUME CpuInv, ~owner.chained
  PROVE  EpcFor(cpu.pc, cpu.slot) = IF owner.is THEN owner.at ELSE cpu.pc
  <1>1. cpu.slot.is = owner.is /\ owner.is \in BOOLEAN /\ owner.at \in Addresses
    BY DEF CpuInv, FlowIsConsistent, OwnerInv
  <1>2. CASE owner.is
    <2>1. cpu.pc = Wrap(owner.at + 4)
      BY <1>2 DEF CpuInv, OwnerInv
    <2> QED BY <1>1, <1>2, <2>1, WrapBack DEF EpcFor
  <1>3. CASE ~owner.is
    BY <1>1, <1>3 DEF EpcFor
  <1> QED BY <1>2, <1>3

\* The program that was interrupted is the newest one to return to.
LEMMA EnterHandlers ==
  ASSUME CpuInv, NEW c \in Cpus, c.cop0.ie = cpu.cop0.ie,
         cpu'.cop0.ie = PushModes(c.cop0.ie), handlers' = Enter(c)
  PROVE  HandlersInv'
  <1>1. PICK a \in BOOLEAN, b \in BOOLEAN, o \in BOOLEAN :
          cpu.cop0.ie = <<a, b, o>>
    BY DEF CpuInv, TypeOK, Cpus, Cop0s
  <1>2. cpu'.cop0.ie[2] = a /\ cpu'.cop0.ie[3] = b
    BY <1>1 DEF PushModes
  <1>3. /\ handlers \in Seq(BOOLEAN)
        /\ Len(handlers) >= 1 => handlers[1] = b
    BY <1>1 DEF CpuInv, HandlersInv
  <1>4. CASE handlers = <<>>
    <2>1. handlers' = SubSeq(<<a>> \o handlers, 1, 1)
      BY <1>1, <1>4 DEF Enter
    <2>2. <<a>> \o handlers \in Seq(BOOLEAN) /\ Len(<<a>> \o handlers) = 1
          /\ (<<a>> \o handlers)[1] = a
      BY <1>3, <1>4
    <2>3. handlers' \in Seq(BOOLEAN) /\ Len(handlers') = 1 /\ handlers'[1] = a
      BY <2>1, <2>2
    <2> QED BY <2>3, <1>2 DEF HandlersInv
  <1>5. CASE handlers # <<>>
    <2>1. Len(handlers) >= 1
      BY <1>3, <1>5
    <2>2. handlers' = SubSeq(<<a>> \o handlers, 1, 2)
      BY <1>1, <1>5 DEF Enter
    <2>3. <<a>> \o handlers \in Seq(BOOLEAN) /\ Len(<<a>> \o handlers) >= 2
          /\ (<<a>> \o handlers)[1] = a /\ (<<a>> \o handlers)[2] = handlers[1]
      BY <1>3, <2>1
    <2>4. handlers' \in Seq(BOOLEAN) /\ Len(handlers') = 2
          /\ handlers'[1] = a /\ handlers'[2] = b
      BY <2>1, <2>2, <2>3, <1>3
    <2> QED BY <2>4, <1>2 DEF HandlersInv
  <1> QED BY <1>4, <1>5

\* Every exception: c is the machine it finds, at pc and its slot.
LEMMA ExceptionKeepsInv ==
  ASSUME CpuInv, NEW c \in Cpus, c.cop0.ie = cpu.cop0.ie,
         NEW code \in ExceptionCodes, NEW bad \in SUBSET Addresses,
         cpu' \in Cpus, cpu'.regs[0] = 0, cpu'.slot = NoSlot,
         cpu'.nextPc = Wrap(cpu'.pc + 4),
         cpu'.cop0 = EnterException(c.cop0, code, cpu.pc, cpu.slot, bad),
         owner' = NoBranch, handlers' = Enter(c),
         did' \in {<<"trap", 0, 0>>, <<"fault", 0, 0>>}
  PROVE  CpuInv' /\ Restarts /\ Returns
  <1>1. /\ cpu.pc \in Addresses /\ cpu.slot \in Slots /\ c.cop0 \in Cop0s
    BY DEF CpuInv, TypeOK, Cpus
  <1>2. /\ cpu'.cop0.epc = EpcFor(cpu.pc, cpu.slot)
        /\ cpu'.cop0.bd = cpu.slot.is
        /\ cpu'.cop0.bt = (cpu.slot.is /\ cpu.slot.taken)
        /\ cpu'.cop0.bt => cpu'.cop0.tar = cpu.slot.target
        /\ cpu'.cop0.ie = PushModes(c.cop0.ie)
    BY <1>1, EnterType
  <1>3. TypeOK' /\ FlowIsConsistent' /\ OwnerInv'
    BY StraightFlow
  <1>4. HandlersInv'
    BY <1>2, EnterHandlers
  <1>5. Restarts
    <2> SUFFICES ASSUME ~owner.chained
                 PROVE  /\ cpu'.cop0.epc = IF owner.is THEN owner.at ELSE cpu.pc
                        /\ cpu'.cop0.bd = owner.is
                        /\ cpu'.cop0.bt = owner.taken
                        /\ cpu'.cop0.bt => cpu'.cop0.tar = cpu.nextPc
      BY DEF Restarts
    <2>1. /\ cpu.slot.is = owner.is /\ cpu.slot.taken = owner.taken
          /\ cpu.slot.taken => cpu.slot.target = cpu.nextPc
          /\ owner.is \in BOOLEAN /\ owner.taken \in BOOLEAN
          /\ owner.taken => owner.is
      BY DEF CpuInv, FlowIsConsistent, OwnerInv
    <2>2. cpu'.cop0.epc = IF owner.is THEN owner.at ELSE cpu.pc
      BY <1>2, EpcIsRestart
    <2>3. /\ cpu'.cop0.bd = owner.is
          /\ cpu'.cop0.bt = owner.taken
          /\ cpu'.cop0.bt => cpu'.cop0.tar = cpu.nextPc
      BY <1>2, <2>1
    <2> QED BY <2>2, <2>3
  <1>6. Returns
    BY DEF Returns
  <1> QED BY <1>3, <1>4, <1>5, <1>6 DEF CpuInv

LEMMA TrapKeepsInv ==
  ASSUME CpuInv, NEW p \in BOOLEAN, NEW code \in ExceptionCodes,
         NEW bad \in SUBSET Addresses, Trap(Sampled(p), code, bad)
  PROVE  CpuInv' /\ Restarts /\ Returns
  <1>1. PICK c \in Cpus :
          /\ c = Sampled(p)
          /\ c.pc = cpu.pc /\ c.slot = cpu.slot /\ c.regs = cpu.regs
          /\ c.cop0.ie = cpu.cop0.ie
    BY SampledType DEF CpuInv, TypeOK
  <1>2. cpu' = RaiseException(c, code, cpu.pc, cpu.slot, bad)
        /\ did' = <<"trap", 0, 0>> /\ owner' = NoBranch /\ handlers' = Enter(c)
    BY <1>1 DEF Trap
  <1>3. cpu.pc \in Addresses /\ cpu.slot \in Slots /\ cpu.regs[0] = 0
    BY DEF CpuInv, TypeOK, Cpus
  <1>4. /\ cpu' \in Cpus /\ cpu'.regs = c.regs /\ cpu'.slot = NoSlot
        /\ cpu'.nextPc = Wrap(cpu'.pc + 4)
        /\ cpu'.cop0 = EnterException(c.cop0, code, cpu.pc, cpu.slot, bad)
    BY <1>2, <1>3, RaiseType
  <1> QED BY <1>1, <1>2, <1>3, <1>4, ExceptionKeepsInv

LEMMA FaultKeepsInv ==
  ASSUME CpuInv, NEW op, NEW e \in Fetched(op), NEW code \in ExceptionCodes,
         NEW bad \in SUBSET Addresses, Fault(e, code, bad)
  PROVE  CpuInv' /\ Restarts /\ Returns
  <1>1. /\ e \in Executions /\ e.cpu \in Cpus
        /\ e.at = cpu.pc /\ e.here = cpu.slot /\ e.cpu.regs = cpu.regs
        /\ e.cpu.cop0.ie = cpu.cop0.ie
    BY FetchedType DEF CpuInv, Executions
  <1>2. PICK f \in Executions :
        /\ f = Raise(e, code, bad)
        /\ f.cpu.regs = e.cpu.regs
        /\ f.cpu.slot = NoSlot /\ f.cpu.nextPc = Wrap(f.cpu.pc + 4)
        /\ f.cpu.cop0 = EnterException(e.cpu.cop0, code, e.at, e.here, bad)
    BY <1>1, FaultType
  <1>3. cpu' = Retire(f) /\ did' = <<"fault", 0, 0>>
        /\ owner' = NoBranch /\ handlers' = Enter(e.cpu)
    BY <1>2 DEF Fault, Finish
  <1>4. f.cpu.regs[0] = 0
    BY <1>1, <1>2 DEF CpuInv, TypeOK
  <1>5. /\ cpu' \in Cpus /\ cpu'.regs[0] = 0 /\ cpu'.slot = NoSlot
        /\ cpu'.nextPc = Wrap(cpu'.pc + 4)
        /\ cpu'.cop0 = EnterException(e.cpu.cop0, code, cpu.pc, cpu.slot, bad)
    BY <1>1, <1>2, <1>3, <1>4, RetireType DEF SameFlow
  <1> QED BY <1>1, <1>3, <1>5, ExceptionKeepsInv

-----------------------------------------------------------------------------
(* What each instruction makes of the machine it is fetched with: where it *)
(* goes (Branched, Straight) and what it writes (Wrote, Loaded).           *)

Straight(e, f) ==
  /\ f \in Executions
  /\ f.cpu.regs[0] = 0
  /\ f.cpu.slot = NoSlot /\ f.cpu.nextPc = Wrap(f.cpu.pc + 4)

\* r is register 0 for an instruction without a destination.
Wrote(e, f, r, v) ==
  /\ f.merge = e.merge /\ f.cpu.load = NoLoad
  /\ f.mask = IF r = 0 THEN {} ELSE {r}
  /\ f.cpu.regs = IF r = 0 THEN e.cpu.regs ELSE [e.cpu.regs EXCEPT ![r] = v]

Loaded(e, f, r, v) ==
  /\ f.merge = e.merge /\ f.mask = {} /\ f.cpu.regs = e.cpu.regs
  /\ f.cpu.load = IF r = 0 THEN NoLoad ELSE <<r, v>>

LEMMA AluRuns ==
  ASSUME TypeOK, NEW op, NEW e \in Fetched(op),
         NEW r \in Regs, NEW v \in Addresses
  PROVE  LET f == SetReg(e, r, v) IN
         /\ Straight(e, f) /\ Wrote(e, f, r, v) /\ SameFetch(e, f)
         /\ SameFlow(e.cpu, f.cpu)
  <1>1. /\ e \in Executions /\ e.mask = {} /\ e.cpu.load = NoLoad
        /\ e.cpu.slot = NoSlot /\ e.cpu.nextPc = Wrap(e.cpu.pc + 4)
        /\ e.cpu.regs[0] = 0 /\ e.cpu.regs \in [Regs -> Addresses]
    BY FetchedType DEF TypeOK, Executions, Cpus
  <1> DEFINE f == SetReg(e, r, v)
  <1>2. /\ f \in Executions
        /\ SameFetch(e, f) /\ SameFlow(e.cpu, f.cpu)
        /\ f.cpu.load = e.cpu.load
        /\ f.cpu.regs = IF r = 0 THEN e.cpu.regs
                        ELSE [e.cpu.regs EXCEPT ![r] = v]
        /\ f.mask = IF r = 0 THEN e.mask ELSE e.mask \union {r}
    <2>1. e \in Executions
      BY <1>1
    <2> QED BY <2>1, SetRegType
  <1> HIDE DEF f
  <1>3. f.cpu.regs[0] = 0
    BY <1>1, <1>2
  <1>4. Straight(e, f)
    BY <1>1, <1>2, <1>3 DEF Straight, SameFlow
  <1>5. Wrote(e, f, r, v)
    BY <1>1, <1>2 DEF Wrote, SameFetch
  <1> QED BY <1>2, <1>4, <1>5 DEF f

LEMMA LoadRuns ==
  ASSUME TypeOK, NEW op, NEW e \in Fetched(op),
         NEW r \in Regs, NEW v \in Addresses
  PROVE  LET f == SetLoad(e, r, v) IN
         Straight(e, f) /\ Loaded(e, f, r, v) /\ SameFlow(e.cpu, f.cpu)
  <1>1. /\ e \in Executions /\ e.mask = {} /\ e.cpu.load = NoLoad
        /\ e.cpu.slot = NoSlot /\ e.cpu.nextPc = Wrap(e.cpu.pc + 4)
        /\ e.cpu.regs[0] = 0
    BY FetchedType DEF TypeOK
  <1>2. PICK f \in Executions :
        /\ f = SetLoad(e, r, v)
        /\ SameFetch(e, f) /\ SameFlow(e.cpu, f.cpu)
        /\ f.cpu.regs = e.cpu.regs /\ f.mask = e.mask
        /\ f.cpu.load = IF r = 0 THEN e.cpu.load ELSE <<r, v>>
    BY <1>1, SetLoadType
  <1>3. Straight(e, f)
    BY <1>1, <1>2 DEF Straight, SameFlow
  <1>4. Loaded(e, f, r, v)
    BY <1>1, <1>2 DEF Loaded, SameFetch
  <1> QED BY <1>2, <1>3, <1>4

\* mtc0 and rfe.
LEMMA Cop0Runs ==
  ASSUME TypeOK, NEW op, NEW e \in Fetched(op), NEW d \in Cop0s
  PROVE  LET f == [e EXCEPT !.cpu.cop0 = d] IN
         Straight(e, f) /\ Wrote(e, f, 0, 0) /\ f.cpu.cop0 = d
  <1>1. /\ e \in Executions /\ e.mask = {} /\ e.cpu.load = NoLoad
        /\ e.cpu.slot = NoSlot /\ e.cpu.nextPc = Wrap(e.cpu.pc + 4)
        /\ e.cpu.regs[0] = 0 /\ e.cpu \in Cpus
    BY FetchedType DEF TypeOK, Executions
  <1> DEFINE c == [e.cpu EXCEPT !.cop0 = d]
             f == [e EXCEPT !.cpu.cop0 = d]
  <1>2. /\ c \in Cpus /\ c.cop0 = d /\ c.pc = e.cpu.pc
        /\ c.nextPc = e.cpu.nextPc /\ c.slot = e.cpu.slot
        /\ c.regs = e.cpu.regs /\ c.load = e.cpu.load
    BY <1>1 DEF Cpus
  <1>3. f = [e EXCEPT !.cpu = c]
    BY <1>1 DEF Executions
  <1> HIDE DEF f, c
  <1>4. f \in Executions /\ f.cpu = c /\ f.merge = e.merge /\ f.mask = e.mask
    BY <1>1, <1>2, <1>3 DEF Executions
  <1>5. Straight(e, f)
    BY <1>1, <1>2, <1>4 DEF Straight
  <1>6. Wrote(e, f, 0, 0)
    BY <1>1, <1>2, <1>4 DEF Wrote
  <1> QED BY <1>2, <1>4, <1>5, <1>6 DEF f

LEMMA FaultRuns ==
  ASSUME TypeOK, NEW op, NEW e \in Fetched(op), NEW code \in ExceptionCodes,
         NEW bad \in SUBSET Addresses
  PROVE  LET f == Raise(e, code, bad) IN
         f \in Executions /\ Wrote(e, f, 0, 0)
  <1>1. e \in Executions
    BY FetchedType
  <1> QED BY <1>1, FaultType DEF Wrote, SameFetch

LEMMA TransferRuns ==
  ASSUME TypeOK, NEW op, NEW e \in Fetched(op), NEW f, NEW taken \in BOOLEAN,
         Transfers(e, f, taken)
  PROVE  Branched(e, f, taken) /\ Wrote(e, f, 0, 0)
  <1>1. /\ e \in Executions /\ e.mask = {} /\ e.cpu.load = NoLoad
        /\ e.cpu.regs[0] = 0
    BY FetchedType DEF TypeOK
  <1>2. Branched(e, f, taken)
    BY <1>1 DEF Transfers, Branched
  <1>3. Wrote(e, f, 0, 0)
    BY <1>1 DEF Transfers, Wrote, SameFetch
  <1> QED BY <1>2, <1>3

LEMMA LinkThenTransfer ==
  ASSUME TypeOK, NEW op, NEW e \in Fetched(op), NEW f, NEW taken \in BOOLEAN,
         NEW r \in Regs, Transfers(LinkTo(e, r), f, taken)
  PROVE  Branched(e, f, taken) /\ Wrote(e, f, r, Wrap(e.cpu.pc + 4))
  <1>1. e \in Executions /\ Wrap(e.cpu.pc + 4) \in Addresses
    BY FetchedType, LinkType
  <1>2. PICK g : /\ g = LinkTo(e, r) /\ Straight(e, g)
                 /\ Wrote(e, g, r, Wrap(e.cpu.pc + 4))
                 /\ SameFetch(e, g) /\ SameFlow(e.cpu, g.cpu)
    BY <1>1, AluRuns DEF LinkTo
  <1>3. Transfers(g, f, taken)
    BY <1>2
  <1>4. Branched(e, f, taken)
    BY <1>2, <1>3 DEF Transfers, Branched, Straight, SameFetch, SameFlow
  <1>5. Wrote(e, f, r, Wrap(e.cpu.pc + 4))
    BY <1>2, <1>3 DEF Transfers, Wrote, SameFetch
  <1> QED BY <1>4, <1>5

LEMMA TransferThenLink ==
  ASSUME TypeOK, NEW op, NEW e \in Fetched(op), NEW g, NEW r \in Regs,
         Transfers(e, g, TRUE)
  PROVE  LET f == LinkTo(g, r) IN
         Branched(e, f, TRUE) /\ Wrote(e, f, r, Wrap(e.cpu.pc + 4))
  <1>1. /\ e \in Executions /\ e.mask = {} /\ e.cpu.load = NoLoad
        /\ e.cpu.regs[0] = 0 /\ e.cpu.regs \in [Regs -> Addresses]
    BY FetchedType DEF TypeOK, Executions, Cpus
  <1>2. Wrap(e.cpu.pc + 4) \in Addresses /\ g \in Executions
        /\ g.cpu.pc = e.cpu.pc
    BY <1>1, LinkType DEF Transfers
  <1> DEFINE f == LinkTo(g, r)
  <1>3. /\ f \in Executions
        /\ SameFetch(g, f) /\ SameFlow(g.cpu, f.cpu)
        /\ f.cpu.load = g.cpu.load
        /\ f.cpu.regs = IF r = 0 THEN g.cpu.regs
                        ELSE [g.cpu.regs EXCEPT ![r] = Wrap(e.cpu.pc + 4)]
        /\ f.mask = IF r = 0 THEN g.mask ELSE g.mask \union {r}
    BY <1>2, SetRegType DEF LinkTo
  <1> HIDE DEF f
  <1>4. f.cpu.regs[0] = 0
    BY <1>1, <1>3 DEF Transfers
  <1>5. Branched(e, f, TRUE)
    BY <1>3, <1>4 DEF Transfers, Branched, SameFetch, SameFlow
  <1>6. Wrote(e, f, r, Wrap(e.cpu.pc + 4))
    BY <1>1, <1>3 DEF Transfers, Wrote, SameFetch
  <1> QED BY <1>3, <1>5, <1>6 DEF f

-----------------------------------------------------------------------------
(* The program order view.                                                 *)

\* What the instruction after the next one reads: later of the view.
Later ==
  [r \in Regs |-> LoadMergeBase([cpu |-> cpu, merge |-> cpu.load], r)]

LEMMA LaterOf ==
  ASSUME NEW c, c.regs \in [Regs -> Addresses], c.load \in Loads
  PROVE  [r \in Regs |-> LoadMergeBase([cpu |-> c, merge |-> c.load], r)] =
           IF c.load = NoLoad THEN c.regs
           ELSE [c.regs EXCEPT ![c.load[1]] = c.load[2]]
  <1> DEFINE after == [r \in Regs |->
                         LoadMergeBase([cpu |-> c, merge |-> c.load], r)]
  <1> SUFFICES after = IF c.load = NoLoad THEN c.regs
                       ELSE [c.regs EXCEPT ![c.load[1]] = c.load[2]]
    OBVIOUS
  <1>1. \A r \in Regs :
          after[r] = IF c.load # NoLoad /\ c.load[1] = r
                     THEN c.load[2] ELSE c.regs[r]
    BY DEF LoadMergeBase, Reg
  <1>2. after = [r \in Regs |-> after[r]]
    OBVIOUS
  <1> HIDE DEF after
  <1>3. CASE c.load = NoLoad
    BY <1>1, <1>2, <1>3
  <1>4. CASE c.load # NoLoad
    <2>1. c.load[1] \in Regs /\ c.load[2] \in Addresses
      BY <1>4, NoLoadType
    <2> QED BY <1>1, <1>2, <1>4, <2>1
  <1> QED BY <1>3, <1>4

LEMMA LaterValue ==
  ASSUME TypeOK
  PROVE  /\ Later = IF cpu.load = NoLoad THEN cpu.regs
                    ELSE [cpu.regs EXCEPT ![cpu.load[1]] = cpu.load[2]]
         /\ Later \in [Regs -> Addresses]
  <1>1. cpu.regs \in [Regs -> Addresses] /\ cpu.load \in Loads
    BY DEF TypeOK, Cpus
  <1>2. Later = IF cpu.load = NoLoad THEN cpu.regs
                ELSE [cpu.regs EXCEPT ![cpu.load[1]] = cpu.load[2]]
    BY <1>1, LaterOf DEF Later
  <1>3. cpu.load # NoLoad => cpu.load[1] \in Regs /\ cpu.load[2] \in Addresses
    BY <1>1, NoLoadType
  <1> QED BY <1>1, <1>2, <1>3

LEMMA LaterNext ==
  ASSUME TypeOK'
  PROVE  Later' = IF cpu'.load = NoLoad THEN cpu'.regs
                  ELSE [cpu'.regs EXCEPT ![cpu'.load[1]] = cpu'.load[2]]
  <1>1. PICK c : c = cpu'
    OBVIOUS
  <1>2. c.regs \in [Regs -> Addresses] /\ c.load \in Loads
    BY <1>1 DEF TypeOK, Cpus
  <1>3. Later' = [r \in Regs |-> LoadMergeBase([cpu |-> c, merge |-> c.load], r)]
    BY <1>1 DEF Later
  <1> QED BY <1>1, <1>2, <1>3, LaterOf

\* A computed result is there for the next instruction, and stays.
LEMMA WroteView ==
  ASSUME TypeOK, TypeOK', NEW op, NEW e \in Fetched(op), NEW f \in Executions,
         NEW r \in Regs, NEW v, Wrote(e, f, r, v), cpu' = Retire(f)
  PROVE  /\ cpu'.regs = IF r = 0 THEN Later ELSE [Later EXCEPT ![r] = v]
         /\ Later' = cpu'.regs
  <1>1. /\ f.merge = cpu.load /\ f.cpu.load = NoLoad
        /\ f.mask = IF r = 0 THEN {} ELSE {r}
        /\ f.cpu.regs = IF r = 0 THEN cpu.regs ELSE [cpu.regs EXCEPT ![r] = v]
    BY FetchedType DEF Wrote
  <1>2. cpu'.regs = Landed(f) /\ cpu'.load = NoLoad
    BY <1>1, RetireType
  <1>3. Later' = cpu'.regs
    BY <1>2, LaterNext
  <1>4. /\ cpu.regs \in [Regs -> Addresses] /\ cpu.load \in Loads
        /\ Later = IF cpu.load = NoLoad THEN cpu.regs
                   ELSE [cpu.regs EXCEPT ![cpu.load[1]] = cpu.load[2]]
    BY LaterValue DEF TypeOK, Cpus
  <1>5. CASE cpu.load = NoLoad
    BY <1>1, <1>2, <1>3, <1>4, <1>5 DEF Landed
  <1>6. CASE cpu.load # NoLoad
    <2>1. cpu.load[1] \in Regs /\ cpu.load[1] # 0
      BY <1>4, <1>6, NoLoadType
    <2>2. Overtaken(f) <=> r = cpu.load[1]
      BY <1>1, <2>1 DEF Overtaken
    <2>3. CASE r = cpu.load[1]
      <3>1. cpu'.regs = [cpu.regs EXCEPT ![r] = v]
        BY <1>1, <1>2, <2>1, <2>2, <2>3 DEF Landed
      <3> QED BY <3>1, <1>3, <1>4, <1>6, <2>1, <2>3
    <2>4. CASE r # cpu.load[1]
      <3>1. cpu'.regs = [f.cpu.regs EXCEPT ![cpu.load[1]] = cpu.load[2]]
        BY <1>1, <1>2, <1>6, <2>2, <2>4 DEF Landed
      <3> QED BY <3>1, <1>1, <1>3, <1>4, <1>6, <2>1, <2>4
    <2> QED BY <2>3, <2>4
  <1> QED BY <1>3, <1>5, <1>6

\* A loaded word is there one instruction later.
LEMMA LoadedView ==
  ASSUME TypeOK, TypeOK', NEW op, NEW e \in Fetched(op), NEW f \in Executions,
         NEW r \in Regs, NEW v \in Addresses, r # 0,
         Loaded(e, f, r, v), cpu' = Retire(f)
  PROVE  /\ cpu'.regs = [Later EXCEPT ![r] = cpu.regs[r]]
         /\ Later' = [Later EXCEPT ![r] = v]
  <1>1. /\ f.merge = cpu.load /\ f.cpu.load = <<r, v>> /\ f.mask = {}
        /\ f.cpu.regs = cpu.regs
    BY FetchedType DEF Loaded
  <1>2. cpu'.regs = Landed(f) /\ cpu'.load = <<r, v>>
    BY <1>1, RetireType
  <1>3. <<r, v>> # NoLoad /\ <<r, v>>[1] = r /\ <<r, v>>[2] = v
    BY LoadType
  <1>4. Later' = [cpu'.regs EXCEPT ![r] = v]
    BY <1>2, <1>3, LaterNext
  <1>5. /\ cpu.regs \in [Regs -> Addresses] /\ cpu.load \in Loads
        /\ Later = IF cpu.load = NoLoad THEN cpu.regs
                   ELSE [cpu.regs EXCEPT ![cpu.load[1]] = cpu.load[2]]
    BY LaterValue DEF TypeOK, Cpus
  <1>6. cpu'.regs = [Later EXCEPT ![r] = cpu.regs[r]]
    <2>1. CASE cpu.load = NoLoad
      BY <1>1, <1>2, <1>5, <2>1 DEF Landed
    <2>2. CASE cpu.load # NoLoad
      <3>1. cpu.load[1] \in Regs /\ cpu.load[1] # 0
        BY <1>5, <2>2, NoLoadType
      <3>2. Overtaken(f) <=> r = cpu.load[1]
        BY <1>1, <1>3 DEF Overtaken
      <3>3. Landed(f) = IF r = cpu.load[1] THEN cpu.regs
                        ELSE [cpu.regs EXCEPT ![cpu.load[1]] = cpu.load[2]]
        BY <1>1, <2>2, <3>2 DEF Landed
      <3> QED BY <1>2, <1>5, <2>2, <3>1, <3>3
    <2> QED BY <2>1, <2>2
  <1>7. [cpu'.regs EXCEPT ![r] = v] = [Later EXCEPT ![r] = v]
    BY <1>6, LaterValue
  <1> QED BY <1>4, <1>6, <1>7

-----------------------------------------------------------------------------
(* Steps.                                                                  *)

\* Everything a step promises: the invariant, a restart point, a return,
\* and a step of the view, but for the load that an exception drops.
Good == CpuInv' /\ Restarts /\ Returns /\ (View!Next \/ LoadIsDropped)

\* Words of an address space are merged lane by lane.
LEMMA MergeType ==
  ASSUME NEW b \in Addresses, NEW w \in Addresses
  PROVE  View!MergeUpper(b, w) \in Addresses /\ View!MergeLower(b, w) \in Addresses
  <1>1. AddrMod \in Nat /\ AddrMod % 4 = 0 /\ b \in 0..(AddrMod - 1)
        /\ w \in 0..(AddrMod - 1)
    BY ConstantTypes DEF Addresses
  <1> QED BY <1>1 DEF View!MergeUpper, View!MergeLower, Addresses

LEMMA OtherIsView ==
  ASSUME did'[1] \notin {"trap", "reset"}, did'[2] = 0,
         cpu'.regs = Later, Later' = Later
  PROVE  View!Next
  BY DEF View!Next, View!Other, Later

LEMMA WriteIsView ==
  ASSUME NEW r \in Regs, NEW v \in Addresses, did' = Did("write", r, v),
         cpu'.regs = IF r = 0 THEN Later ELSE [Later EXCEPT ![r] = v],
         Later' = cpu'.regs
  PROVE  View!Next
  <1>1. CASE r = 0
    <2>1. did' = <<"none", 0, 0>>
      BY <1>1 DEF Did
    <2> QED BY <1>1, <2>1, OtherIsView
  <1>2. CASE r # 0
    <2>1. did' = <<"write", r, v>>
      BY <1>2 DEF Did
    <2>2. View!Write(r, v)
      BY <1>2, <2>1 DEF View!Write, View!Arrive, Later
    <2> QED BY <1>2, <2>2 DEF View!Next
  <1> QED BY <1>1, <1>2

\* A load of any kind leaves v to arrive in r.
LEMMA LoadIsView ==
  ASSUME NEW r \in Regs, NEW w \in Addresses, NEW v, r # 0,
         cpu'.regs = [Later EXCEPT ![r] = cpu.regs[r]],
         Later' = [Later EXCEPT ![r] = v],
         \/ did' = <<"load", r, w>> /\ v = w
         \/ did' = <<"lwl", r, w>> /\ v = View!MergeUpper(Later[r], w)
         \/ did' = <<"lwr", r, w>> /\ v = View!MergeLower(Later[r], w)
  PROVE  View!Next
  <1>1. View!Arrive(r, cpu.regs[r], v)
    BY DEF View!Arrive, Later
  <1>2. CASE did' = <<"load", r, w>> /\ v = w
    BY <1>1, <1>2 DEF View!Next, View!Load
  <1>3. CASE did' = <<"lwl", r, w>> /\ v = View!MergeUpper(Later[r], w)
    BY <1>1, <1>3 DEF View!Next, View!LoadUpper, Later
  <1>4. CASE did' = <<"lwr", r, w>> /\ v = View!MergeLower(Later[r], w)
    BY <1>1, <1>4 DEF View!Next, View!LoadLower, Later
  <1> QED BY <1>2, <1>3, <1>4

\* An instruction that writes at most one register and does not branch.
LEMMA StraightKeepsInv ==
  ASSUME CpuInv, NEW op, NEW e \in Fetched(op), NEW f, Straight(e, f),
         cpu' = Retire(f), owner' = NoBranch
  PROVE  /\ TypeOK' /\ FlowIsConsistent' /\ OwnerInv'
         /\ cpu'.cop0 = f.cpu.cop0
  <1>1. /\ cpu' \in Cpus /\ SameFlow(f.cpu, cpu') /\ cpu'.regs[0] = 0
    BY RetireType DEF Straight
  <1> QED BY <1>1, StraightFlow DEF Straight, SameFlow

LEMMA QuietPromises ==
  ASSUME did'[1] \notin {"trap", "fault", "rfe"} PROVE Restarts /\ Returns
  BY DEF Restarts, Returns

LEMMA BranchIsGood ==
  ASSUME CpuInv, NEW op, NEW e \in Fetched(op), NEW f, NEW taken \in BOOLEAN,
         NEW r \in Regs, NEW v \in Addresses,
         Branched(e, f, taken), Wrote(e, f, r, v), cpu' = Retire(f),
         Branching(e, taken), did' = Did("write", r, v)
  PROVE  Good
  <1>1. CpuInv'
    BY BranchKeepsInv
  <1>2. View!Next
    <2>1. TypeOK /\ TypeOK' /\ f \in Executions
      BY <1>1 DEF CpuInv, Branched
    <2>2. /\ cpu'.regs = IF r = 0 THEN Later ELSE [Later EXCEPT ![r] = v]
          /\ Later' = cpu'.regs
      BY <2>1, WroteView
    <2> QED BY <2>2, WriteIsView
  <1>3. did'[1] \notin {"trap", "fault", "rfe"}
    BY DEF Did
  <1> QED BY <1>1, <1>2, <1>3, QuietPromises DEF Good

\* A step that keeps an invariant and writes nothing, whatever else it does.
LEMMA NothingWritten ==
  ASSUME TypeOK, TypeOK', NEW op, NEW e \in Fetched(op), NEW f \in Executions,
         Wrote(e, f, 0, 0), cpu' = Retire(f),
         did'[1] \notin {"trap", "reset"}, did'[2] = 0
  PROVE  View!Next
  <1>1. cpu'.regs = Later /\ Later' = cpu'.regs
    BY WroteView, ConstantTypes
  <1> QED BY <1>1, OtherIsView

LEMMA AluIsGood == ASSUME CpuInv, Alu PROVE Good
  <1>1. TypeOK
    BY DEF CpuInv
  <1>2. PICK e \in Fetched("alu"), r \in Regs, v \in Values :
          Finish(SetReg(e, r, v), Did("write", r, v)) /\ Plain
    BY DEF Alu
  <1>3. v \in Addresses
    BY <1>2, ConstantTypes
  <1> DEFINE f == SetReg(e, r, v)
  <1>4. /\ Straight(e, f) /\ Wrote(e, f, r, v) /\ SameFlow(e.cpu, f.cpu)
        /\ cpu' = Retire(f) /\ did' = Did("write", r, v)
        /\ owner' = NoBranch /\ UNCHANGED handlers
    BY <1>1, <1>2, <1>3, AluRuns DEF Finish, Plain
  <1> HIDE DEF f
  <1>5. /\ TypeOK' /\ FlowIsConsistent' /\ OwnerInv'
        /\ cpu'.cop0 = f.cpu.cop0
    BY <1>4, StraightKeepsInv
  <1>6. HandlersInv'
    <2>1. e.cpu.cop0.ie = cpu.cop0.ie
      BY <1>1, FetchedType
    <2> QED BY <2>1, <1>4, <1>5, SameHandlers DEF SameFlow, CpuInv
  <1>7. View!Next
    <2>1. /\ cpu'.regs = IF r = 0 THEN Later ELSE [Later EXCEPT ![r] = v]
          /\ Later' = cpu'.regs
      BY <1>1, <1>4, <1>5, WroteView DEF Straight
    <2> QED BY <1>3, <1>4, <2>1, WriteIsView
  <1>8. Restarts /\ Returns
    BY <1>4, QuietPromises DEF Did
  <1> QED BY <1>5, <1>6, <1>7, <1>8 DEF Good, CpuInv

\* The three kinds of load.
LEMMA LoadIsGood ==
  ASSUME CpuInv, NEW op, NEW e \in Fetched(op), NEW r \in Regs,
         NEW w \in Addresses, NEW v \in Addresses, NEW what,
         Finish(SetLoad(e, r, v), Did(what, r, w)), Plain,
         \/ what = "load" /\ v = w
         \/ what = "lwl" /\ v = View!MergeUpper(LoadMergeBase(e, r), w)
         \/ what = "lwr" /\ v = View!MergeLower(LoadMergeBase(e, r), w)
  PROVE  Good
  <1>1. TypeOK
    BY DEF CpuInv
  <1> DEFINE f == SetLoad(e, r, v)
  <1>2. /\ Straight(e, f) /\ Loaded(e, f, r, v) /\ SameFlow(e.cpu, f.cpu)
        /\ cpu' = Retire(f) /\ did' = Did(what, r, w)
        /\ owner' = NoBranch /\ UNCHANGED handlers
    BY <1>1, LoadRuns DEF Finish, Plain
  <1> HIDE DEF f
  <1>3. /\ TypeOK' /\ FlowIsConsistent' /\ OwnerInv'
        /\ cpu'.cop0 = f.cpu.cop0
    BY <1>2, StraightKeepsInv
  <1>4. HandlersInv'
    <2>1. e.cpu.cop0.ie = cpu.cop0.ie
      BY <1>1, FetchedType
    <2> QED BY <2>1, <1>2, <1>3, SameHandlers DEF SameFlow, CpuInv
  <1>5. did'[1] \notin {"trap", "fault", "rfe", "reset"}
    BY <1>2 DEF Did
  <1>6. View!Next
    <2>1. CASE r = 0
      <3>1. Wrote(e, f, 0, 0) /\ f \in Executions
        BY <1>2, <2>1 DEF Loaded, Wrote, Straight
      <3>2. did'[2] = 0
        BY <1>2, <2>1 DEF Did
      <3> QED BY <1>1, <1>2, <1>3, <1>5, <3>1, <3>2, NothingWritten
    <2>2. CASE r # 0
      <3>1. /\ cpu'.regs = [Later EXCEPT ![r] = cpu.regs[r]]
            /\ Later' = [Later EXCEPT ![r] = v]
        BY <1>1, <1>2, <1>3, <2>2, LoadedView DEF Straight
      <3>2. LoadMergeBase(e, r) = Later[r]
        BY <1>1, FetchedType DEF Later, LoadMergeBase, Reg
      <3>3. did' = <<what, r, w>>
        BY <1>2, <2>2 DEF Did
      <3> QED BY <2>2, <3>1, <3>2, <3>3, LoadIsView
    <2> QED BY <2>1, <2>2
  <1> QED BY <1>3, <1>4, <1>5, <1>6, QuietPromises DEF Good, CpuInv

LEMMA LoadsAreGood == ASSUME CpuInv, Load \/ Lwl \/ Lwr PROVE Good
  <1>1. \A e \in Fetched("merge"), r \in Regs :
          LoadMergeBase(e, r) \in Addresses
    <2> SUFFICES ASSUME NEW e \in Fetched("merge"), NEW r \in Regs
                 PROVE  LoadMergeBase(e, r) \in Addresses
      OBVIOUS
    <2>1. e \in Executions
      BY FetchedType DEF CpuInv
    <2>2. CASE e.merge = NoLoad
      BY <2>1, <2>2, RegType DEF LoadMergeBase
    <2>3. CASE e.merge # NoLoad
      <3>1. e.merge[2] \in Addresses
        BY <2>1, <2>3, NoLoadType DEF Executions
      <3> QED BY <2>1, <3>1, RegType DEF LoadMergeBase
    <2> QED BY <2>2, <2>3
  <1>2. CASE Load
    <2>1. PICK e \in Fetched("load"), r \in Regs, v \in Values :
            Finish(SetLoad(e, r, v), Did("load", r, v)) /\ Plain
      BY <1>2 DEF Load
    <2>2. v \in Addresses
      BY ConstantTypes
    <2> QED BY <2>1, <2>2, LoadIsGood
  <1>3. CASE Lwl
    <2>1. PICK e \in Fetched("merge"), r \in Regs, w \in Values :
            /\ Finish(SetLoad(e, r, View!MergeUpper(LoadMergeBase(e, r), w)),
                      Did("lwl", r, w))
            /\ Plain
      BY <1>3 DEF Lwl
    <2>2. PICK v \in Addresses : v = View!MergeUpper(LoadMergeBase(e, r), w)
      BY <1>1, MergeType, ConstantTypes
    <2>3. w \in Addresses /\ Finish(SetLoad(e, r, v), Did("lwl", r, w))
      BY <2>1, <2>2, ConstantTypes
    <2> QED BY <2>1, <2>2, <2>3, LoadIsGood
  <1>4. CASE Lwr
    <2>1. PICK e \in Fetched("merge"), r \in Regs, w \in Values :
            /\ Finish(SetLoad(e, r, View!MergeLower(LoadMergeBase(e, r), w)),
                      Did("lwr", r, w))
            /\ Plain
      BY <1>4 DEF Lwr
    <2>2. PICK v \in Addresses : v = View!MergeLower(LoadMergeBase(e, r), w)
      BY <1>1, MergeType, ConstantTypes
    <2>3. w \in Addresses /\ Finish(SetLoad(e, r, v), Did("lwr", r, w))
      BY <2>1, <2>2, ConstantTypes
    <2> QED BY <2>1, <2>2, <2>3, LoadIsGood
  <1> QED BY <1>2, <1>3, <1>4

LEMMA BranchesAreGood ==
  ASSUME CpuInv, CondBranch \/ BranchAndLink PROVE Good
  <1>1. TypeOK /\ 0 \in Regs /\ 0 \in Addresses /\ Link \in Regs
    BY ConstantTypes DEF CpuInv, Addresses
  <1>2. CASE CondBranch
    <2>1. PICK e \in Fetched("branch"), taken \in BOOLEAN, o \in Offsets :
            Finish(Branch(e, taken, o), Nothing) /\ Branching(e, taken)
      BY <1>2 DEF CondBranch
    <2> DEFINE f == Branch(e, taken, o)
    <2>2. cpu' = Retire(f) /\ did' = Did("write", 0, 0)
      BY <2>1 DEF Finish, Did, Nothing
    <2>3. e \in Executions
      BY <1>1, FetchedType
    <2>4. Transfers(e, f, taken)
      BY <2>3, BranchType
    <2> HIDE DEF f
    <2>5. Branched(e, f, taken) /\ Wrote(e, f, 0, 0)
      BY <1>1, <2>4, TransferRuns
    <2> QED BY <1>1, <2>1, <2>2, <2>5, BranchIsGood
  <1>3. CASE BranchAndLink
    <2>1. PICK e \in Fetched("branch"), taken \in BOOLEAN, o \in Offsets :
            /\ Finish(Branch(LinkTo(e, Link), taken, o),
                      Did("write", Link, Wrap(e.cpu.pc + 4)))
            /\ Branching(e, taken)
      BY <1>3 DEF BranchAndLink
    <2> DEFINE f == Branch(LinkTo(e, Link), taken, o)
    <2>2. cpu' = Retire(f) /\ did' = Did("write", Link, Wrap(e.cpu.pc + 4))
      BY <2>1 DEF Finish
    <2>3. e \in Executions /\ Wrap(e.cpu.pc + 4) \in Addresses
      BY <1>1, FetchedType, LinkType
    <2>4. LinkTo(e, Link) \in Executions
      BY <1>1, <2>3, SetRegType DEF LinkTo
    <2>5. Transfers(LinkTo(e, Link), f, taken)
      BY <2>4, BranchType
    <2> HIDE DEF f
    <2>6. Branched(e, f, taken) /\ Wrote(e, f, Link, Wrap(e.cpu.pc + 4))
      BY <1>1, <2>5, LinkThenTransfer
    <2> QED BY <1>1, <2>1, <2>2, <2>3, <2>6, BranchIsGood
  <1> QED BY <1>2, <1>3

LEMMA JumpsAreGood ==
  ASSUME CpuInv, JumpTo \/ JumpAndLink PROVE Good
  <1>1. TypeOK /\ 0 \in Regs /\ 0 \in Addresses /\ Link \in Regs
    BY ConstantTypes DEF CpuInv, Addresses
  <1>2. CASE JumpTo
    <2>1. PICK e \in Fetched("jump"), t \in JumpTargets :
            Finish(Jump(e, t), Nothing) /\ Branching(e, TRUE)
      BY <1>2 DEF JumpTo
    <2> DEFINE f == Jump(e, t)
    <2>2. cpu' = Retire(f) /\ did' = Did("write", 0, 0)
      BY <2>1 DEF Finish, Did, Nothing
    <2>3. e \in Executions /\ t \in Addresses
      BY <1>1, FetchedType, ConstantTypes
    <2>4. Transfers(e, f, TRUE)
      BY <2>3, BranchToType DEF Jump
    <2> HIDE DEF f
    <2>5. Branched(e, f, TRUE) /\ Wrote(e, f, 0, 0)
      BY <1>1, <2>4, TransferRuns
    <2> QED BY <1>1, <2>1, <2>2, <2>5, BranchIsGood
  <1>3. CASE JumpAndLink
    <2>1. PICK e \in Fetched("jump"), t \in JumpTargets :
            /\ Finish(Jump(LinkTo(e, Link), t),
                      Did("write", Link, Wrap(e.cpu.pc + 4)))
            /\ Branching(e, TRUE)
      BY <1>3 DEF JumpAndLink
    <2> DEFINE f == Jump(LinkTo(e, Link), t)
    <2>2. cpu' = Retire(f) /\ did' = Did("write", Link, Wrap(e.cpu.pc + 4))
      BY <2>1 DEF Finish
    <2>3. e \in Executions /\ Wrap(e.cpu.pc + 4) \in Addresses
          /\ t \in Addresses
      BY <1>1, FetchedType, LinkType, ConstantTypes
    <2>4. LinkTo(e, Link) \in Executions
      BY <1>1, <2>3, SetRegType DEF LinkTo
    <2>5. Transfers(LinkTo(e, Link), f, TRUE)
      BY <2>3, <2>4, BranchToType DEF Jump
    <2> HIDE DEF f
    <2>6. Branched(e, f, TRUE) /\ Wrote(e, f, Link, Wrap(e.cpu.pc + 4))
      BY <1>1, <2>5, LinkThenTransfer
    <2> QED BY <1>1, <2>1, <2>2, <2>3, <2>6, BranchIsGood
  <1> QED BY <1>2, <1>3

LEMMA RegisterJumpsAreGood ==
  ASSUME CpuInv, Jr \/ Jalr PROVE Good
  <1>1. TypeOK /\ 0 \in Regs /\ 0 \in Addresses /\ Link \in Regs
    BY ConstantTypes DEF CpuInv, Addresses
  <1>2. CASE Jr
    <2>1. PICK e \in Fetched("jr"), rs \in Regs :
            Finish(JumpRegister(e, rs), Nothing) /\ Branching(e, TRUE)
      BY <1>2 DEF Jr
    <2> DEFINE f == JumpRegister(e, rs)
    <2>2. cpu' = Retire(f) /\ did' = Did("write", 0, 0)
      BY <2>1 DEF Finish, Did, Nothing
    <2>3. e \in Executions
      BY <1>1, FetchedType
    <2>4. Transfers(e, f, TRUE)
      BY <2>3, RegType, BranchToType DEF JumpRegister
    <2> HIDE DEF f
    <2>5. Branched(e, f, TRUE) /\ Wrote(e, f, 0, 0)
      BY <1>1, <2>4, TransferRuns
    <2> QED BY <1>1, <2>1, <2>2, <2>5, BranchIsGood
  <1>3. CASE Jalr
    <2>1. PICK e \in Fetched("jr"), rs \in Regs, rd \in Regs :
            /\ Finish(JumpAndLinkRegister(e, rs, rd),
                      Did("write", IF rd = 0 THEN Link ELSE rd,
                          Wrap(e.cpu.pc + 4)))
            /\ Branching(e, TRUE)
      BY <1>3 DEF Jalr
    <2>2. PICK r \in Regs : r = IF rd = 0 THEN Link ELSE rd
      BY <1>1
    <2> DEFINE f == LinkTo(BranchTo(e, Reg(e, rs)), r)
    <2>3. cpu' = Retire(f) /\ did' = Did("write", r, Wrap(e.cpu.pc + 4))
      BY <2>1, <2>2 DEF Finish, JumpAndLinkRegister
    <2>4. e \in Executions /\ Wrap(e.cpu.pc + 4) \in Addresses
      BY <1>1, FetchedType, LinkType
    <2>5. Transfers(e, BranchTo(e, Reg(e, rs)), TRUE)
      BY <2>4, RegType, BranchToType
    <2>6. Branched(e, f, TRUE) /\ Wrote(e, f, r, Wrap(e.cpu.pc + 4))
      BY <1>1, <2>5, TransferThenLink
    <2> HIDE DEF f
    <2> QED BY <2>1, <2>3, <2>4, <2>6, BranchIsGood
  <1> QED BY <1>2, <1>3

\* A write of COP0 or an rfe, once its handlers are settled.
LEMMA Cop0IsGood ==
  ASSUME CpuInv, NEW op, NEW e \in Fetched(op), NEW d \in Cop0s,
         cpu' = Retire([e EXCEPT !.cpu.cop0 = d]), owner' = NoBranch,
         did' \in {Nothing, <<"rfe", 0, 0>>},
         cpu'.cop0 = d => HandlersInv' /\ Returns
  PROVE  Good
  <1>1. TypeOK
    BY DEF CpuInv
  <1> DEFINE f == [e EXCEPT !.cpu.cop0 = d]
  <1>2. Straight(e, f) /\ Wrote(e, f, 0, 0) /\ f.cpu.cop0 = d
    BY <1>1, Cop0Runs
  <1>3. cpu' = Retire(f)
    OBVIOUS
  <1> HIDE DEF f
  <1>4. /\ TypeOK' /\ FlowIsConsistent' /\ OwnerInv' /\ cpu'.cop0 = d
    BY <1>2, <1>3, StraightKeepsInv
  <1>5. did'[1] \notin {"trap", "fault", "reset"} /\ did'[2] = 0
    BY DEF Nothing
  <1>6. View!Next
    BY <1>1, <1>2, <1>3, <1>4, <1>5, NothingWritten DEF Straight
  <1>7. Restarts
    BY <1>5 DEF Restarts
  <1> QED BY <1>4, <1>6, <1>7 DEF Good, CpuInv

LEMMA Mtc0IsGood ==
  ASSUME CpuInv, Mtc0Status \/ Mtc0Other PROVE Good
  <1>1. \A op : \A e \in Fetched(op) :
          e \in Executions /\ e.cpu.cop0 \in Cop0s
          /\ e.cpu.cop0.ie = cpu.cop0.ie
    BY FetchedType DEF CpuInv, Executions, Cpus
  <1>2. CASE Mtc0Status
    <2>1. PICK e \in Fetched("mtc0"), s \in Statuses :
            /\ Finish(WriteCop0(e, "status", s), Nothing)
            /\ owner' = NoBranch
            /\ handlers' = <<>>
      BY <1>2 DEF Mtc0Status
    <2>2. PICK d \in Cop0s : d = WithStatus(e.cpu.cop0, s)
      <3>1. s \in StatusValues /\ e.cpu.cop0 \in Cop0s
        BY <1>1, CpuAssumption
      <3> QED BY <3>1 DEF WithStatus, StatusValues, Cop0s
    <2>3. /\ cpu' = Retire([e EXCEPT !.cpu.cop0 = d]) /\ did' = Nothing
      BY <2>1, <2>2 DEF Finish, WriteCop0
    <2>4. HandlersInv' /\ Returns
      BY <2>1, <2>3 DEF HandlersInv, Returns, Nothing
    <2> QED BY <2>1, <2>3, <2>4, Cop0IsGood
  <1>3. CASE Mtc0Other
    <2>1. PICK e \in Fetched("mtc0") :
            /\ \/ \E ip \in {{}, {"sw"}} :
                    Finish(WriteCop0(e, "cause", ip), Nothing)
               \/ \E a \in JumpTargets :
                    Finish(WriteCop0(e, "epc", a), Nothing)
            /\ Plain
      BY <1>3 DEF Mtc0Other
    <2>2. PICK d \in Cop0s :
            /\ cpu' = Retire([e EXCEPT !.cpu.cop0 = d]) /\ did' = Nothing
            /\ d.ie = cpu.cop0.ie
      <3>1. CASE \E ip \in {{}, {"sw"}} :
                   Finish(WriteCop0(e, "cause", ip), Nothing)
        <4>1. PICK ip \in SUBSET Lines :
                     Finish(WriteCop0(e, "cause", ip), Nothing)
          BY <3>1 DEF Lines
        <4> DEFINE d == WithSoftware(e.cpu.cop0, ip)
        <4>2. d \in Cop0s /\ d.ie = cpu.cop0.ie
          BY <1>1 DEF WithSoftware, Cop0s, Lines
        <4>3. cpu' = Retire([e EXCEPT !.cpu.cop0 = d]) /\ did' = Nothing
          BY <4>1 DEF Finish, WriteCop0
        <4> HIDE DEF d
        <4> QED BY <4>2, <4>3
      <3>2. CASE \E a \in JumpTargets : Finish(WriteCop0(e, "epc", a), Nothing)
        <4>1. PICK a \in Addresses : Finish(WriteCop0(e, "epc", a), Nothing)
          BY <3>2, ConstantTypes
        <4> DEFINE d == WithEpc(e.cpu.cop0, a)
        <4>2. d \in Cop0s /\ d.ie = cpu.cop0.ie
          BY <1>1 DEF WithEpc, Cop0s
        <4>3. cpu' = Retire([e EXCEPT !.cpu.cop0 = d]) /\ did' = Nothing
          BY <4>1 DEF Finish, WriteCop0
        <4> HIDE DEF d
        <4> QED BY <4>2, <4>3
      <3> QED BY <2>1, <3>1, <3>2
    <2>3. cpu'.cop0 = d => HandlersInv' /\ Returns
      BY <2>1, <2>2, SameHandlers DEF CpuInv, Plain, Returns, Nothing
    <2> QED BY <2>1, <2>2, <2>3, Cop0IsGood DEF Plain
  <1> QED BY <1>2, <1>3

LEMMA RfeIsGood == ASSUME CpuInv, ReturnFromException PROVE Good
  <1>1. PICK e \in Fetched("rfe") :
          /\ Finish([e EXCEPT !.cpu.cop0 = Rfe(@)], <<"rfe", 0, 0>>)
          /\ owner' = NoBranch
          /\ handlers' = IF handlers = <<>> THEN <<>> ELSE Tail(handlers)
    BY DEF ReturnFromException
  <1>2. e.cpu.cop0 \in Cop0s /\ e.cpu.cop0.ie = cpu.cop0.ie
    BY FetchedType DEF CpuInv, Executions, Cpus
  <1> DEFINE d == Rfe(e.cpu.cop0)
  <1>3. d \in Cop0s /\ d.ie = PopModes(cpu.cop0.ie)
    <2>1. PopModes(e.cpu.cop0.ie) \in BOOLEAN \X BOOLEAN \X BOOLEAN
      BY <1>2 DEF PopModes, Cop0s
    <2> QED BY <1>2, <2>1 DEF Rfe, Cop0s
  <1>4. cpu' = Retire([e EXCEPT !.cpu.cop0 = d]) /\ did' = <<"rfe", 0, 0>>
    BY <1>1 DEF Finish
  <1> HIDE DEF d
  <1>5. ASSUME cpu'.cop0 = d PROVE HandlersInv' /\ Returns
    <2>1. /\ cpu'.cop0.ie[1] = cpu.cop0.ie[2]
          /\ cpu'.cop0.ie[2] = cpu.cop0.ie[3]
      BY <1>3, <1>5 DEF PopModes
    <2>2. /\ handlers \in Seq(BOOLEAN) /\ Len(handlers) <= 2
          /\ Len(handlers) >= 1 => handlers[1] = cpu.cop0.ie[2]
          /\ Len(handlers) = 2 => handlers[2] = cpu.cop0.ie[3]
      BY DEF CpuInv, HandlersInv
    <2>3. CASE handlers = <<>>
      BY <1>1, <2>3 DEF HandlersInv, Returns
    <2>4. CASE handlers # <<>>
      <3>1. Len(handlers) = 1 \/ Len(handlers) = 2
        <4>1. Len(handlers) \in Nat /\ Len(handlers) >= 1
          BY <2>2, <2>4
        <4>2. Len(handlers) <= 2
          BY <2>2
        <4>3. \A n \in Nat : n >= 1 /\ n <= 2 => n = 1 \/ n = 2
          OBVIOUS
        <4> QED BY <4>1, <4>2, <4>3
      <3>2. /\ handlers' \in Seq(BOOLEAN) /\ Len(handlers') = Len(handlers) - 1
            /\ Len(handlers) = 2 => handlers'[1] = handlers[2]
        BY <1>1, <2>2, <2>4, <3>1
      <3>3. HandlersInv'
        BY <2>1, <2>2, <3>1, <3>2 DEF HandlersInv
      <3>4. Returns
        BY <2>1, <2>2, <3>1 DEF Returns
      <3> QED BY <3>3, <3>4
    <2> QED BY <2>3, <2>4
  <1> QED BY <1>1, <1>3, <1>4, <1>5, Cop0IsGood

LEMMA FaultIsGood ==
  ASSUME CpuInv, NEW op, NEW e \in Fetched(op), NEW code \in ExceptionCodes,
         NEW bad \in SUBSET Addresses, Fault(e, code, bad)
  PROVE  Good
  <1>1. CpuInv' /\ Restarts /\ Returns
    BY FaultKeepsInv
  <1>2. TypeOK /\ TypeOK'
    BY <1>1 DEF CpuInv
  <1> DEFINE f == Raise(e, code, bad)
  <1>3. f \in Executions /\ Wrote(e, f, 0, 0)
    BY <1>2, FaultRuns
  <1>4. cpu' = Retire(f) /\ did' = <<"fault", 0, 0>>
    BY DEF Fault, Finish
  <1> HIDE DEF f
  <1>5. View!Next
    BY <1>2, <1>3, <1>4, NothingWritten
  <1> QED BY <1>1, <1>5 DEF Good

LEMMA FaultsAreGood ==
  ASSUME CpuInv, TrapInstruction \/ AddressError \/ DataBusError PROVE Good
  <1>1. CASE TrapInstruction
    <2>1. PICK e \in Fetched("trap"), code \in Codes : Fault(e, code, {})
      BY <1>1 DEF TrapInstruction
    <2>2. code \in ExceptionCodes /\ {} \in SUBSET Addresses
      BY DEF ExceptionCodes
    <2> QED BY <2>1, <2>2, FaultIsGood
  <1>2. CASE AddressError
    <2>1. PICK e \in Fetched("memory"), a \in BadAddrs,
               code \in {"AddressLoad", "AddressStore"} : Fault(e, code, {a})
      BY <1>2 DEF AddressError
    <2>2. code \in ExceptionCodes /\ {a} \in SUBSET Addresses
      BY ConstantTypes DEF ExceptionCodes
    <2> QED BY <2>1, <2>2, FaultIsGood
  <1>3. CASE DataBusError
    <2>1. PICK e \in Fetched("memory") : Fault(e, "DataBusError", {})
      BY <1>3 DEF DataBusError
    <2>2. "DataBusError" \in ExceptionCodes /\ {} \in SUBSET Addresses
      BY DEF ExceptionCodes
    <2> QED BY <2>1, <2>2, FaultIsGood
  <1> QED BY <1>1, <1>2, <1>3

\* The handler sees the registers as they were; what was in flight, if
\* anything was, is gone.
LEMMA TrapIsGood ==
  ASSUME CpuInv, NEW p \in BOOLEAN, NEW code \in ExceptionCodes,
         NEW bad \in SUBSET Addresses, Trap(Sampled(p), code, bad)
  PROVE  Good
  <1>1. CpuInv' /\ Restarts /\ Returns
    BY TrapKeepsInv
  <1>2. cpu'.regs = cpu.regs /\ cpu'.load = NoLoad /\ did' = <<"trap", 0, 0>>
    <2>1. PICK c \in Cpus :
            /\ c = Sampled(p)
            /\ c.pc = cpu.pc /\ c.slot = cpu.slot /\ c.regs = cpu.regs
      BY SampledType DEF CpuInv, TypeOK
    <2>2. cpu' = RaiseException(c, code, cpu.pc, cpu.slot, bad)
          /\ did' = <<"trap", 0, 0>>
      BY <2>1 DEF Trap
    <2>3. cpu.pc \in Addresses /\ cpu.slot \in Slots
      BY DEF CpuInv, TypeOK, Cpus
    <2> QED BY <2>1, <2>2, <2>3, RaiseType
  <1>3. Later' = cpu'.regs
    BY <1>1, <1>2, LaterNext DEF CpuInv
  <1>4. CASE cpu.load = NoLoad
    <2>1. Later = cpu.regs
      BY <1>4, LaterValue DEF CpuInv
    <2>2. View!Trap
      BY <1>2, <1>3, <2>1 DEF View!Trap, Later
    <2> QED BY <1>1, <2>2 DEF Good, View!Next
  <1>5. CASE cpu.load # NoLoad
    BY <1>1, <1>2, <1>5 DEF Good, LoadIsDropped
  <1> QED BY <1>4, <1>5

LEMMA TrapsAreGood ==
  ASSUME CpuInv, Interrupt \/ MisalignedFetch \/ FetchError PROVE Good
  <1>1. CASE Interrupt
    <2>1. PICK p \in BOOLEAN : Trap(Sampled(p), "Interrupt", {})
      BY <1>1 DEF Interrupt
    <2>2. "Interrupt" \in ExceptionCodes /\ {} \in SUBSET Addresses
      BY DEF ExceptionCodes
    <2> QED BY <2>1, <2>2, TrapIsGood
  <1>2. CASE MisalignedFetch
    <2>1. PICK p \in BOOLEAN : Trap(Sampled(p), "AddressLoad", {cpu.pc})
      BY <1>2 DEF MisalignedFetch
    <2>2. "AddressLoad" \in ExceptionCodes /\ {cpu.pc} \in SUBSET Addresses
      BY DEF ExceptionCodes, CpuInv, TypeOK, Cpus
    <2> QED BY <2>1, <2>2, TrapIsGood
  <1>3. CASE FetchError
    <2>1. PICK p \in BOOLEAN : Trap(Sampled(p), "InstructionBusError", {})
      BY <1>3 DEF FetchError
    <2>2. "InstructionBusError" \in ExceptionCodes /\ {} \in SUBSET Addresses
      BY DEF ExceptionCodes
    <2> QED BY <2>1, <2>2, TrapIsGood
  <1> QED BY <1>1, <1>2, <1>3

LEMMA ResetIsGood == ASSUME CpuInv, Reset PROVE Good
  <1>1. /\ cpu' = NewCpu /\ did' = <<"reset", 0, 0>> /\ owner' = NoBranch
        /\ handlers' = <<>>
    BY DEF Reset
  <1>2. /\ NewCpu \in Cpus /\ NewCpu.regs = [r \in Regs |-> 0]
        /\ NewCpu.slot = NoSlot /\ NewCpu.load = NoLoad
        /\ NewCpu.nextPc = Wrap(NewCpu.pc + 4) /\ NewCpu.regs[0] = 0
    BY NewTypes, ConstantTypes DEF NewCpu
  <1>3. TypeOK' /\ FlowIsConsistent' /\ OwnerInv'
    BY <1>1, <1>2, StraightFlow
  <1>4. HandlersInv'
    BY <1>1 DEF HandlersInv
  <1>5. Restarts /\ Returns
    BY <1>1, QuietPromises
  <1>6. Later' = cpu'.regs
    BY <1>1, <1>2, <1>3, LaterNext
  <1>7. View!Next
    BY <1>1, <1>2, <1>6 DEF View!Next, View!Reset, Later
  <1> QED BY <1>3, <1>4, <1>5, <1>7 DEF Good, CpuInv

LEMMA StepIsGood == ASSUME CpuInv, Next PROVE Good
  <1>1. CASE Interrupt \/ MisalignedFetch \/ FetchError
    BY <1>1, TrapsAreGood
  <1>2. CASE Reset
    BY <1>2, ResetIsGood
  <1>3. CASE Alu
    BY <1>3, AluIsGood
  <1>4. CASE Load \/ Lwl \/ Lwr
    BY <1>4, LoadsAreGood
  <1>5. CASE CondBranch \/ BranchAndLink
    BY <1>5, BranchesAreGood
  <1>6. CASE JumpTo \/ JumpAndLink
    BY <1>6, JumpsAreGood
  <1>7. CASE Jr \/ Jalr
    BY <1>7, RegisterJumpsAreGood
  <1>8. CASE Mtc0Status \/ Mtc0Other
    BY <1>8, Mtc0IsGood
  <1>9. CASE ReturnFromException
    BY <1>9, RfeIsGood
  <1>10. CASE TrapInstruction \/ AddressError \/ DataBusError
    BY <1>10, FaultsAreGood
  <1> QED BY <1>1, <1>2, <1>3, <1>4, <1>5, <1>6, <1>7, <1>8, <1>9, <1>10
          DEF Next, Execute

LEMMA InitIsGood == ASSUME Init PROVE CpuInv /\ View!Init
  <1>1. /\ NewCpu \in Cpus /\ NewCpu.regs = [r \in Regs |-> 0]
        /\ NewCpu.slot = NoSlot /\ NewCpu.load = NoLoad
        /\ NewCpu.nextPc = Wrap(NewCpu.pc + 4)
    BY NewTypes DEF NewCpu
  <1>2. /\ cpu \in Cpus /\ cpu.regs = [r \in Regs |-> 0]
        /\ cpu.slot = NoSlot /\ cpu.load = NoLoad
        /\ cpu.nextPc = Wrap(cpu.pc + 4)
    <2>1. CASE cpu = NewCpu
      BY <1>1, <2>1
    <2>2. CASE \E t \in JumpTargets : cpu = SetPc(NewCpu, t)
      <3>1. PICK t \in Addresses : cpu = SetPc(NewCpu, t)
        BY <2>2, ConstantTypes
      <3>2. Wrap(t + 4) \in Addresses
        BY NextType
      <3>3. cpu = [NewCpu EXCEPT !.pc = t, !.nextPc = Wrap(t + 4),
                                 !.slot = NoSlot, !.load = NoLoad]
        BY <3>1 DEF SetPc
      <3> QED BY <1>1, <3>2, <3>3, NewTypes DEF Cpus
    <2> QED BY <2>1, <2>2 DEF Init
  <1>3. cpu.regs[0] = 0
    BY <1>2, ConstantTypes
  <1>4. /\ did = <<"none", 0, 0>> /\ owner = NoBranch /\ handlers = <<>>
    BY DEF Init, Nothing
  <1>5. TypeOK
    BY <1>2, <1>3 DEF TypeOK
  <1>6. FlowIsConsistent
    BY <1>2, <1>4 DEF FlowIsConsistent, NoSlot, NoBranch
  <1>7. OwnerInv
    BY <1>4, ConstantTypes DEF OwnerInv, NoBranch, Addresses
  <1>8. HandlersInv
    BY <1>4 DEF HandlersInv
  <1>9. Later = cpu.regs
    BY <1>2, LaterValue, <1>5
  <1>10. View!Init
    BY <1>2, <1>4, <1>9 DEF View!Init, Later
  <1> QED BY <1>5, <1>6, <1>7, <1>8, <1>10 DEF CpuInv

LEMMA StutterKeepsInv ==
  ASSUME CpuInv, UNCHANGED vars PROVE CpuInv'
  BY DEF CpuInv, TypeOK, FlowIsConsistent, OwnerInv, HandlersInv, vars

-----------------------------------------------------------------------------
(* Theorems.                                                               *)

\* The inductive invariant of Cpu::step: types, the two records of a control
\* transfer, the branch that owns the slot, and Status holding the enables
\* that the handlers in progress return to.
THEOREM InvariantHolds == Spec => []CpuInv
  <1>1. Init => CpuInv
    BY InitIsGood
  <1>2. CpuInv /\ [Next]_vars => CpuInv'
    BY StepIsGood, StutterKeepsInv DEF Good
  <1> QED BY <1>1, <1>2, PTL DEF Spec

\* Every register, pc and COP0 field stays a word of the address space, the
\* load in flight is for a real register, and $0 reads zero, whatever
\* program and whatever interrupts Cpu::step runs.
THEOREM CpuTypes == Spec => []TypeOK
  <1>1. CpuInv => TypeOK
    BY DEF CpuInv
  <1> QED BY <1>1, InvariantHolds, PTL

\* pc, next_pc and next_is_delay_slot tell the same story of a branch after
\* every step: no exception, return or jump leaves a stale delay slot.
THEOREM FlowStaysConsistent == Spec => []FlowIsConsistent
  <1>1. CpuInv => FlowIsConsistent
    BY DEF CpuInv
  <1> QED BY <1>1, InvariantHolds, PTL

\* EPC, BD, BT and TAR of every exception name the point to restart from,
\* at every address, the wrap of pc around the address space included.
THEOREM ExceptionsRestart == Spec => RestartPoint
  <1>1. CpuInv /\ [Next]_vars => [Restarts]_vars
    BY StepIsGood DEF Good
  <1>2. Restarts =>
          (did'[1] \in {"trap", "fault"} /\ ~owner.chained =>
             /\ cpu'.cop0.epc = IF owner.is THEN owner.at ELSE cpu.pc
             /\ cpu'.cop0.bd = owner.is
             /\ cpu'.cop0.bt = owner.taken
             /\ cpu'.cop0.bt => cpu'.cop0.tar = cpu.nextPc)
    BY DEF Restarts
  <1> QED BY <1>1, <1>2, InvariantHolds, PTL DEF Spec, RestartPoint

\* rfe gives the interrupted program its own interrupt enable back, through
\* two levels of handlers, whatever happens between.
THEOREM ReturnsRestoreEnable == Spec => RfeReturns
  <1>1. CpuInv => handlers \in Seq(BOOLEAN)
    BY DEF CpuInv, HandlersInv
  <1>2. handlers \in Seq(BOOLEAN) /\ Returns =>
          (did'[1] = "rfe" /\ handlers # <<>> =>
             cpu'.cop0.ie[1] = Head(handlers))
    BY DEF Returns
  <1>3. CpuInv /\ [Next]_vars =>
          [did'[1] = "rfe" /\ handlers # <<>> =>
             cpu'.cop0.ie[1] = Head(handlers)]_vars
    BY <1>1, <1>2, StepIsGood DEF Good
  <1> QED BY <1>3, InvariantHolds, PTL DEF Spec, RfeReturns

\* Every step leaves the registers as program order and the load delay say,
\* but an exception between two instructions, which drops the load it finds
\* in flight and nothing else: for every register file, every set of words
\* and every program (set_reg, set_load, raise_exception, step).
THEOREM DelayKept == Spec => DelayIsKept
  <1>1. CpuInv /\ [Next]_vars => [View!Next \/ LoadIsDropped]_vars
    BY StepIsGood DEF Good
  <1> QED BY <1>1, InvariantHolds, PTL DEF Spec, DelayIsKept

\* A program none of whose loads is interrupted sees exactly the documented
\* load delay: then the interpreter implements the program order view.
THEOREM ImplementsView == Spec /\ [][~LoadIsDropped]_vars => ViewSpec
  <1>1. Init => View!Init
    BY InitIsGood
  <1>2. CpuInv /\ [Next]_vars /\ [~LoadIsDropped]_vars
          => [View!Next]_<<cpu.regs, Later, did>>
    <2>1. UNCHANGED vars => UNCHANGED <<cpu.regs, Later, did>>
      BY DEF vars, Later
    <2> QED BY <2>1, StepIsGood DEF Good
  <1> QED BY <1>1, <1>2, InvariantHolds, PTL DEF Spec, ViewSpec, View!Spec, Later

-----------------------------------------------------------------------------
(* The instruction cache.                                                   *)

LEMMA CacheConstants ==
  /\ RamPages \in Nat /\ RamPages > 0
  /\ MirroredPages \in Nat /\ 0 \in 0..(MirroredPages - 1)
  /\ Touched \subseteq RamAddresses
  /\ TagBits \subseteq SUBSET WordSlots
  /\ MaxStores \in Nat
  BY CacheAssumption, TouchedAssumption

LEMMA CellType ==
  ASSUME NEW a \in RamAddresses
  PROVE  Cell(a) \in Cells
  <1>1. a.page \in Int /\ a.line \in CacheLines /\ a.slot \in WordSlots
    BY CacheConstants DEF RamAddresses
  <1>2. a.page % RamPages \in 0..(RamPages - 1)
    BY <1>1, CacheConstants
  <1> QED
    BY <1>1, <1>2 DEF Cell, Cells

LEMMA AddressType ==
  ASSUME NEW a \in RamAddresses
  PROVE  a.line \in CacheLines /\ a.slot \in WordSlots /\ a.page \in 0..(MirroredPages - 1)
  BY DEF RamAddresses

-----------------------------------------------------------------------------
(* The inductive invariant: types, and every word the cache would return   *)
(* is one that its address may show.                                       *)

CacheIInv == CacheTypeOK /\ CacheIsVisible

LEMMA CacheInitInv == CacheInit => CacheIInv
  <1> SUFFICES ASSUME CacheInit
               PROVE  CacheIInv
    OBVIOUS
  <1>1. \A a \in RamAddresses : Cell(a) \in Cells
    BY CellType
  <1>2. CacheTypeOK
    <2>1. ram \in [Cells -> 0..MaxStores] /\ stores \in 0..MaxStores
      BY CacheConstants DEF CacheInit
    <2>2. words \in [CacheLines -> [WordSlots -> 0..MaxStores]]
      BY CacheConstants DEF CacheInit
    <2>3. tags \in [CacheLines -> [physical : BOOLEAN, page : 0..(MirroredPages - 1),
                              valid : SUBSET WordSlots]]
      BY CacheConstants DEF CacheInit
    <2>4. /\ cache_control \in [is1 : BOOLEAN, tag : BOOLEAN, iblksz : {0, 1}]
          /\ isolated \in BOOLEAN
      BY DEF CacheInit
    <2>5. visible \in [RamAddresses -> SUBSET (0..MaxStores)]
      BY <1>1, <2>1 DEF CacheInit
    <2> QED
      BY <2>1, <2>2, <2>3, <2>4, <2>5 DEF CacheTypeOK
  <1>3. CacheIsVisible
    BY AddressType DEF CacheInit, CacheIsVisible, Hit
  <1> QED
    BY <1>2, <1>3 DEF CacheIInv

-----------------------------------------------------------------------------
(* Stores and isolated writes.                                             *)

LEMMA WriteRamKeepsIInv ==
  ASSUME CacheIInv, NEW a \in RamAddresses, WriteRam(a)
  PROVE  CacheIInv'
  <1>1. stores + 1 \in 0..MaxStores
    BY CacheConstants DEF WriteRam, CacheIInv, CacheTypeOK
  <1>2. \A b \in RamAddresses : Cell(b) \in Cells
    BY CellType
  <1>3. CacheTypeOK'
    <2>1. visible' \in [RamAddresses -> SUBSET (0..MaxStores)]
      BY <1>1 DEF WriteRam, CacheIInv, CacheTypeOK
    <2> QED
      BY <1>1, <2>1 DEF WriteRam, CacheIInv, CacheTypeOK
  <1>4. ASSUME NEW b \in RamAddresses
        PROVE  /\ ram'[Cell(b)] \in visible'[b]
               /\ Hit(b)' => words'[b.line][b.slot] \in visible'[b]
    <2>1. visible[b] \subseteq visible'[b]
      BY DEF WriteRam
    <2>2. ram'[Cell(b)] \in visible'[b]
      BY <1>2 DEF WriteRam, CacheIInv, CacheTypeOK, CacheIsVisible
    <2>3. Hit(b)' => Hit(b)
      BY DEF WriteRam, Hit, TagMatches
    <2> QED
      BY <2>1, <2>2, <2>3 DEF WriteRam, CacheIInv, CacheIsVisible
  <1> QED
    BY <1>3, <1>4 DEF CacheIInv, CacheIsVisible

LEMMA WriteTagKeepsIInv ==
  ASSUME CacheIInv, NEW seg \in Segments, NEW a \in RamAddresses,
         NEW valid \in SUBSET WordSlots, WriteTag(seg, a, valid)
  PROVE  CacheIInv'
  <1>1. \A b \in RamAddresses : Cell(b) \in Cells
    BY CellType
  <1>2. a.line \in CacheLines /\ a.page \in 0..(MirroredPages - 1)
    BY AddressType
  <1>3. CacheTypeOK'
    <2>1. tags' \in [CacheLines -> [physical : BOOLEAN, page : 0..(MirroredPages - 1),
                               valid : SUBSET WordSlots]]
      BY <1>2 DEF WriteTag, CacheIInv, CacheTypeOK
    <2>2. \A b \in RamAddresses : visible'[b] \subseteq 0..MaxStores
      BY <1>1, AddressType DEF WriteTag, CacheIInv, CacheTypeOK
    <2>3. visible' \in [RamAddresses -> SUBSET (0..MaxStores)]
      BY <2>2 DEF WriteTag
    <2> QED
      BY <2>1, <2>3 DEF WriteTag, CacheIInv, CacheTypeOK
  <1>4. ASSUME NEW b \in RamAddresses
        PROVE  /\ ram'[Cell(b)] \in visible'[b]
               /\ Hit(b)' => words'[b.line][b.slot] \in visible'[b]
    <2>1. ram'[Cell(b)] \in visible'[b]
      BY DEF WriteTag, CacheIInv, CacheIsVisible
    <2>2. CASE b.line # a.line
      <3>1. Hit(b)' => Hit(b)
        BY <2>2, <1>2, AddressType DEF WriteTag, Hit, TagMatches, CacheIInv, CacheTypeOK
      <3> QED
        BY <2>1, <2>2, <3>1 DEF WriteTag, CacheIInv, CacheIsVisible
    <2>3. CASE b.line = a.line
      <3>1. Hit(b)' => seg = "kuseg" /\ b.page = a.page /\ b.slot \in valid
        BY <2>3, <1>2 DEF WriteTag, Hit, TagMatches, CacheIInv, CacheTypeOK
      <3> QED
        BY <2>1, <2>3, <3>1 DEF WriteTag
    <2> QED
      BY <2>2, <2>3
  <1> QED
    BY <1>3, <1>4 DEF CacheIInv, CacheIsVisible

LEMMA WriteWordKeepsIInv ==
  ASSUME CacheIInv, NEW a \in RamAddresses, WriteWord(a)
  PROVE  CacheIInv'
  <1>1. stores + 1 \in 0..MaxStores
    BY CacheConstants DEF WriteWord, CacheIInv, CacheTypeOK
  <1>2. a.line \in CacheLines /\ a.slot \in WordSlots
    BY AddressType
  <1>3. CacheTypeOK'
    <2>1. words' \in [CacheLines -> [WordSlots -> 0..MaxStores]]
      BY <1>1, <1>2 DEF WriteWord, CacheIInv, CacheTypeOK
    <2>2. visible' \in [RamAddresses -> SUBSET (0..MaxStores)]
      BY <1>1 DEF WriteWord, CacheIInv, CacheTypeOK
    <2> QED
      BY <1>1, <2>1, <2>2 DEF WriteWord, CacheIInv, CacheTypeOK
  <1>4. ASSUME NEW b \in RamAddresses
        PROVE  /\ ram'[Cell(b)] \in visible'[b]
               /\ Hit(b)' => words'[b.line][b.slot] \in visible'[b]
    <2>1. visible[b] \subseteq visible'[b]
      BY DEF WriteWord
    <2>2. Hit(b)' = Hit(b)
      BY DEF WriteWord, Hit, TagMatches
    <2>3. ASSUME Hit(b)
          PROVE  words'[b.line][b.slot] \in visible'[b]
      <3>1. CASE b.line = a.line /\ b.slot = a.slot
        <4>1. words'[b.line][b.slot] = stores + 1
          BY <3>1, <1>2 DEF WriteWord, CacheIInv, CacheTypeOK
        <4> QED
          BY <3>1, <4>1, <2>3 DEF WriteWord
      <3>2. CASE ~(b.line = a.line /\ b.slot = a.slot)
        <4>1. words'[b.line][b.slot] = words[b.line][b.slot]
          BY <3>2, <1>2, AddressType DEF WriteWord, CacheIInv, CacheTypeOK
        <4> QED
          BY <4>1, <2>1, <2>3 DEF CacheIInv, CacheIsVisible
      <3> QED
        BY <3>1, <3>2
    <2> QED
      BY <2>1, <2>2, <2>3 DEF WriteWord, CacheIInv, CacheIsVisible
  <1> QED
    BY <1>3, <1>4 DEF CacheIInv, CacheIsVisible

-----------------------------------------------------------------------------
(* Fetches.                                                                *)

\* What a fill leaves in the line: a slot that is valid for its page was
\* read from memory just now, or was valid before and is as it was.
LEMMA FillEffect ==
  ASSUME CacheTypeOK, NEW a \in RamAddresses, FillLine(a), NEW b \in RamAddresses, Hit(b)'
  PROVE  \/ words'[b.line][b.slot] = ram[Cell(b)]
         \/ Hit(b) /\ words'[b.line][b.slot] = words[b.line][b.slot]
  <1> DEFINE filled == FilledSlots(a.slot)
             old == IF TagMatches(a) THEN tags[a.line].valid ELSE {}
  <1>1. /\ a.line \in CacheLines /\ a.slot \in WordSlots
        /\ b.line \in CacheLines /\ b.slot \in WordSlots
    BY AddressType
  <1>2. \A l \in CacheLines \ {a.line} : words'[l] = words[l] /\ tags'[l] = tags[l]
    BY DEF FillLine, CacheTypeOK
  <1>3. /\ tags'[a.line] = [physical |-> TRUE, page |-> a.page,
                            valid |-> old \cup filled]
        /\ \A s \in WordSlots : words'[a.line][s] =
             IF s \in filled THEN ram[Cell([a EXCEPT !.slot = s])]
                             ELSE words[a.line][s]
    BY <1>1 DEF FillLine, CacheTypeOK
  <1> HIDE DEF filled, old
  <1>4. CASE b.line # a.line
    BY <1>1, <1>2, <1>4 DEF Hit, TagMatches
  <1>5. CASE b.line = a.line
    <2>1. b.page = a.page /\ b.slot \in old \cup filled
      BY <1>3, <1>5 DEF Hit, TagMatches
    <2>2. b = [a EXCEPT !.slot = b.slot]
      BY <1>5, <2>1 DEF RamAddresses
    <2>3. CASE b.slot \in filled
      BY <1>1, <1>3, <1>5, <2>2, <2>3
    <2>4. CASE b.slot \notin filled
      <3>1. b.slot \in old
        BY <2>1, <2>4
      <3>2. Hit(b)
        BY <3>1, <2>1, <1>5 DEF old, Hit, TagMatches
      <3> QED
        BY <1>1, <1>3, <1>5, <2>4, <3>2
    <2> QED
      BY <2>3, <2>4
  <1> QED
    BY <1>4, <1>5

\* A cached fetch returns a word its address may show.
LEMMA FetchIsVisible ==
  ASSUME CacheIInv, NEW seg \in Segments, NEW a \in RamAddresses, FetchCached(seg, a)
  PROVE  /\ CacheTypeOK'
         /\ words'[a.line][a.slot] \in visible[a]
         /\ \A b \in RamAddresses : Hit(b)' => words'[b.line][b.slot] \in visible[b]
  <1>1. a.line \in CacheLines /\ a.slot \in WordSlots /\ a.page \in 0..(MirroredPages - 1)
    BY AddressType
  <1>2. \A b \in RamAddresses : Cell(b) \in Cells
    BY CellType
  <1>3. ASSUME NEW b \in RamAddresses, Hit(b)'
        PROVE  words'[b.line][b.slot] \in visible[b]
    <2>1. CASE Hit(a)
      <3>1. Hit(b) /\ words' = words
        BY <1>3, <2>1 DEF FetchCached, Hit, TagMatches
      <3> QED
        BY <3>1 DEF CacheIInv, CacheIsVisible
    <2>2. CASE ~Hit(a)
      BY <1>3, <2>2, FillEffect DEF FetchCached, CacheIInv, CacheIsVisible
    <2> QED
      BY <2>1, <2>2
  <1>4. /\ words' \in [CacheLines -> [WordSlots -> 0..MaxStores]]
        /\ tags' \in [CacheLines -> [physical : BOOLEAN, page : 0..(MirroredPages - 1),
                                valid : SUBSET WordSlots]]
        /\ Hit(a)'
    <2>1. CASE Hit(a)
      BY <2>1 DEF FetchCached, CacheIInv, CacheTypeOK, Hit, TagMatches
    <2>2. CASE ~Hit(a)
      <3>1. a.slot \in FilledSlots(a.slot) /\ FilledSlots(a.slot) \subseteq WordSlots
        BY <1>1 DEF FilledSlots, WordSlots
      <3>2. FillLine(a)
        BY <2>2 DEF FetchCached
      <3>3. \A s \in WordSlots : ram[Cell([a EXCEPT !.slot = s])] \in 0..MaxStores
        <4> SUFFICES ASSUME NEW s \in WordSlots
                     PROVE  ram[Cell([a EXCEPT !.slot = s])] \in 0..MaxStores
          OBVIOUS
        <4>1. [a EXCEPT !.slot = s] \in RamAddresses
          BY DEF RamAddresses
        <4> QED
          BY <4>1, <1>2 DEF CacheIInv, CacheTypeOK
      <3>4. words' \in [CacheLines -> [WordSlots -> 0..MaxStores]]
        BY <1>1, <3>2, <3>3 DEF FillLine, CacheIInv, CacheTypeOK
      <3>5. tags' \in [CacheLines -> [physical : BOOLEAN, page : 0..(MirroredPages - 1),
                                 valid : SUBSET WordSlots]]
        BY <1>1, <3>1, <3>2 DEF FillLine, CacheIInv, CacheTypeOK
      <3>6. Hit(a)'
        BY <1>1, <3>1, <3>2 DEF FillLine, CacheIInv, CacheTypeOK, Hit, TagMatches
      <3> QED
        BY <3>4, <3>5, <3>6
    <2> QED
      BY <2>1, <2>2
  <1>5. words'[a.line][a.slot] \in visible[a]
    BY <1>3, <1>4
  <1>6. visible' \in [RamAddresses -> SUBSET (0..MaxStores)]
    <2>1. ram[Cell(a)] \in 0..MaxStores
      BY <1>2 DEF CacheIInv, CacheTypeOK
    <2> QED
      BY <2>1 DEF FetchCached, Shows, CacheIInv, CacheTypeOK
  <1> QED
    BY <1>3, <1>4, <1>5, <1>6 DEF FetchCached, CacheIInv, CacheTypeOK

LEMMA FetchKeepsIInv ==
  ASSUME CacheIInv, NEW seg \in Segments, NEW a \in RamAddresses, FetchCached(seg, a)
  PROVE  CacheIInv'
  <1> DEFINE word == words'[a.line][a.slot]
  <1>1. /\ CacheTypeOK'
        /\ word \in visible[a]
        /\ \A b \in RamAddresses : Hit(b)' => words'[b.line][b.slot] \in visible[b]
    BY FetchIsVisible
  <1>2. /\ ram' = ram
        /\ visible' = [visible EXCEPT ![a] = {w \in visible[a] : w >= word}
                                                 \cup {ram[Cell(a)]}]
    BY DEF FetchCached, Shows
  <1>3. word \in Int
    BY <1>1 DEF CacheIInv, CacheTypeOK
  <1>4. ASSUME NEW b \in RamAddresses
        PROVE  /\ ram'[Cell(b)] \in visible'[b]
               /\ Hit(b)' => words'[b.line][b.slot] \in visible'[b]
    <2>1. CASE b = a
      <3>1. visible'[b] = {w \in visible[a] : w >= word} \cup {ram[Cell(a)]}
        BY <1>2, <2>1 DEF CacheIInv, CacheTypeOK
      <3>2. word >= word
        BY <1>3
      <3> QED
        BY <1>1, <1>2, <2>1, <3>1, <3>2
    <2>2. CASE b # a
      <3>1. visible'[b] = visible[b]
        BY <1>2, <2>2 DEF CacheIInv, CacheTypeOK
      <3> QED
        BY <1>1, <1>2, <3>1 DEF CacheIInv, CacheIsVisible
    <2> QED
      BY <2>1, <2>2
  <1> QED
    BY <1>1, <1>4 DEF CacheIInv, CacheIsVisible

-----------------------------------------------------------------------------
(* Every step, and the theorems.                                           *)

LEMMA NextKeepsIInv == CacheIInv /\ [CacheNext]_cacheVars => CacheIInv'
  <1> SUFFICES ASSUME CacheIInv, [CacheNext]_cacheVars
               PROVE  CacheIInv'
    OBVIOUS
  <1> USE CacheConstants
  <1>1. CASE SetCacheControl
    BY <1>1 DEF SetCacheControl, CacheIInv, CacheTypeOK, CacheIsVisible, Hit, TagMatches
  <1>2. CASE SetIsolated
    BY <1>2 DEF SetIsolated, CacheIInv, CacheTypeOK, CacheIsVisible, Hit, TagMatches
  <1>3. CASE \E a \in Touched : Store(a) \/ DmaStore(a)
    BY <1>3, WriteRamKeepsIInv DEF Store, DmaStore
  <1>4. ASSUME NEW a \in Touched, NEW seg \in Segments, IsolatedStore(seg, a)
        PROVE  CacheIInv'
    BY <1>4, WriteTagKeepsIInv, WriteWordKeepsIInv DEF IsolatedStore
  <1>5. ASSUME NEW a \in Touched, NEW seg \in Segments, FetchCached(seg, a)
        PROVE  CacheIInv'
    BY <1>5, FetchKeepsIInv
  <1>6. ASSUME NEW a \in Touched, NEW seg \in Segments, FetchUncached(seg, a)
        PROVE  CacheIInv'
    BY <1>6 DEF FetchUncached, CacheIInv, CacheTypeOK, CacheIsVisible, Hit, TagMatches
  <1>7. CASE UNCHANGED cacheVars
    BY <1>7 DEF cacheVars, CacheIInv, CacheTypeOK, CacheIsVisible, Hit, TagMatches
  <1> QED
    BY <1>1, <1>2, <1>3, <1>4, <1>5, <1>6, <1>7 DEF CacheNext

\* Whatever the cache would return is a word its address may show: no fill,
\* eviction, mirror or partly valid line breaks it (fill_icache_line).
THEOREM CacheIsVisibleTheorem == CacheSpec => []CacheIsVisible
  <1>1. CacheIInv => CacheIsVisible
    BY DEF CacheIInv
  <1> QED
    BY <1>1, CacheInitInv, NextKeepsIInv, PTL DEF CacheSpec

\* The promise divides addresses as the cache does.
LEMMA SameAddresses ==
  /\ Promise!Cells = Cells
  /\ Promise!RamAddresses = RamAddresses
  /\ \A a : Promise!Cell(a) = Cell(a)
  BY DEF Promise!Cells, Cells, Promise!RamAddresses, RamAddresses, Promise!WordSlots,
         WordSlots, Promise!Cell, Cell

LEMMA StoreIsPromised ==
  ASSUME CacheIInv, NEW a \in RamAddresses, WriteRam(a)
  PROVE  Promise!Stored
  <1>1. Cell(a) \in Cells
    BY CellType
  <1>2. /\ ram'[Cell(a)] = stores + 1
        /\ ram' = [ram EXCEPT ![Cell(a)] = ram'[Cell(a)]]
    BY <1>1 DEF WriteRam, CacheIInv, CacheTypeOK
  <1>3. visible' = [b \in RamAddresses |-> IF Cell(b) = Cell(a)
                        THEN visible[b] \cup {ram'[Cell(a)]} ELSE visible[b]]
    BY <1>2 DEF WriteRam
  <1>4. event' = <<"store", Cell(a)>>
    BY DEF WriteRam
  <1> QED
    BY <1>1, <1>2, <1>3, <1>4, SameAddresses DEF Promise!Stored

LEMMA TagIsPromised ==
  ASSUME CacheIInv, NEW seg \in Segments, NEW a \in RamAddresses,
         NEW valid \in SUBSET WordSlots, WriteTag(seg, a, valid)
  PROVE  Promise!Flushed \/ Promise!Poked
  <1>1. a.line \in CacheLines
    BY AddressType
  <1>2. CASE valid = {}
    <2>1. ASSUME NEW b \in RamAddresses
          PROVE  visible'[b] = IF b.line = a.line THEN {ram[Cell(b)]} ELSE visible[b]
      BY <1>2 DEF WriteTag
    <2>2. visible' = [b \in RamAddresses |-> IF b.line = a.line
                          THEN {ram[Cell(b)]} ELSE visible[b]]
      BY <2>1 DEF WriteTag
    <2>3. event' = <<"flush", a.line>> /\ ram' = ram
      BY <1>2 DEF WriteTag
    <2> QED
      BY <1>1, <2>2, <2>3, SameAddresses DEF Promise!Flushed
  <1>3. CASE valid # {}
    <2>1. ASSUME NEW b \in RamAddresses
          PROVE  IF b.line = a.line THEN ram[Cell(b)] \in visible'[b]
                                    ELSE visible'[b] = visible[b]
      BY DEF WriteTag
    <2>2. visible' = [b \in RamAddresses |-> visible'[b]]
      BY DEF WriteTag
    <2>3. event' = <<"poke", a.line>> /\ ram' = ram
      BY <1>3 DEF WriteTag
    <2> QED
      BY <1>1, <2>1, <2>2, <2>3, SameAddresses DEF Promise!Poked
  <1> QED
    BY <1>2, <1>3

LEMMA WordIsPromised ==
  ASSUME CacheIInv, NEW a \in RamAddresses, WriteWord(a)
  PROVE  Promise!Poked
  <1>1. a.line \in CacheLines
    BY AddressType
  <1>2. ASSUME NEW b \in RamAddresses
        PROVE  IF b.line = a.line THEN ram[Cell(b)] \in visible'[b]
                                  ELSE visible'[b] = visible[b]
    BY DEF WriteWord, CacheIInv, CacheIsVisible
  <1>3. visible' = [b \in RamAddresses |-> visible'[b]]
    BY DEF WriteWord
  <1>4. event' = <<"poke", a.line>> /\ ram' = ram
    BY DEF WriteWord
  <1> QED
    BY <1>1, <1>2, <1>3, <1>4, SameAddresses DEF Promise!Poked

LEMMA FetchIsPromised ==
  ASSUME CacheIInv, NEW seg \in Segments, NEW a \in RamAddresses, FetchCached(seg, a)
  PROVE  Promise!Fetched
  <1> DEFINE word == words'[a.line][a.slot]
  <1>1. word \in visible[a]
    BY FetchIsVisible
  <1>2. /\ event' = <<"fetch", a, word>>
        /\ visible' = [visible EXCEPT ![a] = {w \in @ : w >= word}
                                                 \cup {ram[Cell(a)]}]
        /\ ram' = ram
    BY DEF FetchCached, Shows
  <1> HIDE DEF word
  <1> QED
    BY <1>1, <1>2, SameAddresses DEF Promise!Fetched

LEMMA StepIsPromised == CacheIInv /\ [CacheNext]_cacheVars => [Promise!PromiseNext]_(Promise!promises)
  <1> SUFFICES ASSUME CacheIInv, [CacheNext]_cacheVars
               PROVE  [Promise!PromiseNext]_(Promise!promises)
    OBVIOUS
  <1> USE CacheConstants DEF Promise!PromiseNext
  <1>1. CASE SetCacheControl \/ SetIsolated
    BY <1>1 DEF SetCacheControl, SetIsolated, Promise!Nothing
  <1>2. CASE \E a \in Touched : Store(a) \/ DmaStore(a)
    BY <1>2, StoreIsPromised DEF Store, DmaStore
  <1>3. ASSUME NEW a \in Touched, NEW seg \in Segments, IsolatedStore(seg, a)
        PROVE  Promise!Flushed \/ Promise!Poked
    BY <1>3, TagIsPromised, WordIsPromised DEF IsolatedStore
  <1>4. ASSUME NEW a \in Touched, NEW seg \in Segments, FetchCached(seg, a)
        PROVE  Promise!Fetched
    BY <1>4, FetchIsPromised
  <1>5. ASSUME NEW a \in Touched, NEW seg \in Segments, FetchUncached(seg, a)
        PROVE  Promise!FetchedUncached
    BY <1>5, SameAddresses DEF FetchUncached, Promise!FetchedUncached
  <1>6. CASE UNCHANGED cacheVars
    BY <1>6 DEF cacheVars, Promise!promises
  <1> QED
    BY <1>1, <1>2, <1>3, <1>4, <1>5, <1>6 DEF CacheNext

\* The cache implements stale memory, whatever the sizes and the program: a
\* fetch returns a word that its address has held since the last flush of
\* its line, or one poked there, and never goes back to an older one than
\* it returned before (fetch32, isolated_cache_write32).
THEOREM MemorySpecTheorem == CacheSpec => MemorySpec
  <1>1. CacheInit => Promise!PromiseInit
    BY SameAddresses DEF CacheInit, Promise!PromiseInit
  <1> QED
    BY <1>1, CacheInitInv, NextKeepsIInv, StepIsPromised, PTL
       DEF CacheSpec, MemorySpec, Promise!PromiseSpec


-----------------------------------------------------------------------------
(* The division.                                                           *)

LEMMA DivBounds ==
    ASSUME NEW n \in Int, NEW d \in Int, d \in {128, 256, 4096, 65536}
    PROVE  /\ n \div d \in Int
           /\ d * (n \div d) <= n
           /\ n < d * (n \div d) + d
<1>1. CASE d = 128
  BY <1>1, SMT
<1>2. CASE d = 256
  BY <1>2, SMT
<1>3. CASE d = 4096
  BY <1>3, SMT
<1>4. CASE d = 65536
  BY <1>4, SMT
<1> QED
  BY <1>1, <1>2, <1>3, <1>4, SMT

\* A depth other than 0 can be scaled to sixteen bits.
LEMMA ScaleFits ==
    ASSUME NEW sz3 \in UHalves, sz3 # 0
    PROVE  /\ ScaleOf(sz3) \in Scales
           /\ 32768 <= sz3 * ScaleOf(sz3) /\ sz3 * ScaleOf(sz3) <= 65535
<1> DEFINE Fits(s) == 32768 <= sz3 * s /\ sz3 * s <= 65535
<1>1. \E s \in Scales : Fits(s)
  <2>1. SUFFICES ASSUME \A s \in Scales : ~Fits(s) PROVE FALSE
    BY SMT
  <2>2. sz3 \in Int /\ 1 <= sz3 /\ sz3 <= 65535
    BY SMT DEF UHalves, Between
  <2>3. /\ ~Fits(1) /\ ~Fits(2) /\ ~Fits(4) /\ ~Fits(8)
        /\ ~Fits(16) /\ ~Fits(32) /\ ~Fits(64) /\ ~Fits(128)
        /\ ~Fits(256) /\ ~Fits(512) /\ ~Fits(1024) /\ ~Fits(2048)
        /\ ~Fits(4096) /\ ~Fits(8192) /\ ~Fits(16384) /\ ~Fits(32768)
    <3> HIDE DEF Fits
    <3> QED
      BY <2>1, SMT DEF Scales
  <2> QED
    BY <2>2, <2>3, SMT
<1>2. /\ ScaleOf(sz3) \in Scales
      /\ Fits(ScaleOf(sz3))
  <2> DEFINE FitsIn(s) == sz3 * s \in Between(32768, 65535)
  <2>1. \A s \in Scales : FitsIn(s) <=> Fits(s)
    BY SMT DEF UHalves, Between, Scales
  <2>2. ScaleOf(sz3) = CHOOSE s \in Scales : FitsIn(s)
    BY SMT DEF ScaleOf
  <2> HIDE DEF FitsIn, Fits
  <2> QED
    BY <1>1, <2>1, <2>2, SMT
<1> QED
  BY <1>2, SMT DEF UHalves, Between, Scales


\* What the table holds for an index: 2^17 / (index + 256), rounded, but for
\* its last entry.
LEMMA ReciprocalBounds ==
    ASSUME NEW m \in Int, 256 <= m, m <= 512
    PROVE  /\ Reciprocal(m - 256) \in Int
           /\ 257 <= Reciprocal(m - 256) /\ Reciprocal(m - 256) <= 512
           /\ m < 512 => /\ -m <= 2 * (Reciprocal(m - 256) * m - 131072)
                         /\ 2 * (Reciprocal(m - 256) * m - 131072) <= m
           /\ m = 512 => Reciprocal(m - 256) = 257
<1> DEFINE whole == 262144 \div m
           half == (whole + 1) \div 2
<1>1. whole \in Int /\ whole * m <= 262144 /\ 262144 < whole * m + m
  BY SMT
<1>2. Reciprocal(m - 256) = (IF half > 257 THEN half - 257 ELSE 0) + 257
  <2>1. m - 256 + 256 = m
    BY SMT
  <2> QED
    BY <2>1, SMT DEF Reciprocal
<1>3. whole \in Int /\ 512 <= whole /\ whole <= 1024
  <2>1. whole >= 512
    <3>1. SUFFICES ASSUME whole <= 511 PROVE FALSE
      BY <1>1, SMT
    <3>2. whole * m <= 511 * m
      BY <1>1, <3>1, SMT
    <3> QED
      BY <1>1, <3>2, SMT
  <2>2. whole <= 1024
    <3>1. SUFFICES ASSUME whole >= 1025 PROVE FALSE
      BY <1>1, SMT
    <3>2. whole * m >= 1025 * m
      BY <1>1, <3>1, SMT
    <3> QED
      BY <1>1, <3>2, SMT
  <2> QED
    BY <1>1, <2>1, <2>2, SMT
<1>4. half \in Int /\ 256 <= half /\ half <= 512 /\ 2 * half >= whole /\ 2 * half <= whole + 1
  <2> HIDE DEF whole
  <2> QED
    BY <1>3, SMT
<1> HIDE DEF half
<1>5. 2 * half * m >= whole * m /\ 2 * half * m <= whole * m + m
  <2> HIDE DEF whole
  <2>1. (2 * half) * m >= whole * m
    BY <1>3, <1>4, SMT
  <2>2. (2 * half) * m <= (whole + 1) * m
    BY <1>3, <1>4, SMT
  <2> QED
    BY <1>3, <1>4, <2>1, <2>2, SMT
<1>6. -m <= 2 * (half * m - 131072) /\ 2 * (half * m - 131072) <= m
  <2> HIDE DEF whole
  <2>1. half * m \in Int /\ whole * m \in Int
    BY <1>3, <1>4, SMT
  <2>2. 2 * half * m = 2 * (half * m)
    BY <1>4, SMT
  <2> QED
    BY <1>1, <1>5, <2>1, <2>2, SMT
<1>7. CASE half > 256
  <2>1. Reciprocal(m - 256) = half
    BY <1>2, <1>4, <1>7, SMT
  <2>2. m = 512 => half <= 256
    BY <1>4, <1>6, SMT
  <2> QED
    BY <1>4, <1>6, <1>7, <2>1, <2>2, SMT
<1>8. CASE half = 256
  <2>1. whole = 512
    BY <1>3, <1>4, <1>8, SMT
  <2>2. m = 512
    BY <1>1, <2>1, SMT
  <2> QED
    BY <1>2, <1>8, <2>2, SMT
<1> QED
  BY <1>4, <1>7, <1>8, SMT

\* The scaled divisor is its table entry's place and at most 64 more or less,
\* and times the entry it is 2^24, a 256th more or less.
LEMMA Residue ==
    ASSUME NEW d \in Int, 32768 <= d, d <= 65535
    PROVE  /\ TableIndex(d) \in Int /\ 0 <= TableIndex(d) /\ TableIndex(d) <= 256
           /\ Reciprocal(TableIndex(d)) \in Int
           /\ 257 <= Reciprocal(TableIndex(d)) /\ Reciprocal(TableIndex(d)) <= 512
           /\ -65536 <= 16777216 - d * Reciprocal(TableIndex(d))
           /\ 16777216 - d * Reciprocal(TableIndex(d)) <= 65536
<1> DEFINE m == TableIndex(d) + 256
           r == Reciprocal(TableIndex(d))
           f == d - 128 * m
<1>1. /\ m \in Int /\ 256 <= m /\ m <= 512
      /\ f \in Int /\ -64 <= f /\ f <= 63
      /\ TableIndex(d) = m - 256
  <2>1. /\ TableIndex(d) \in Int
        /\ 128 * TableIndex(d) <= d - 32704
        /\ d - 32704 < 128 * TableIndex(d) + 128
    BY DivBounds, SMT DEF TableIndex
  <2> QED
    BY <2>1, SMT
<1>2. d = 128 * m + f
  BY <1>1, SMT
<1> HIDE DEF m, f
<1>3. /\ r \in Int /\ 257 <= r /\ r <= 512
      /\ m < 512 => /\ -m <= 2 * (r * m - 131072)
                    /\ 2 * (r * m - 131072) <= m
      /\ m = 512 => r = 257
  BY <1>1, ReciprocalBounds, SMT
<1> HIDE DEF r
<1>4. d * r = 128 * (r * m) + f * r
  BY <1>1, <1>2, <1>3, SMT
<1>5. CASE m = 512
  <2>1. d * r = d * 257 /\ d >= 65472
    BY <1>1, <1>2, <1>3, <1>5, SMT
  <2> QED
    BY <1>1, <1>3, <1>5, <2>1, SMT DEF r
<1>6. CASE m < 512
  <2>1. r * m \in Int /\ m * m \in Int /\ f * r \in Int
    BY <1>1, <1>3, SMT
  <2>2. -64 * r <= f * r /\ f * r <= 64 * r
    BY <1>1, <1>3, SMT
  <2>3. (m - 256) * (512 - m) >= 0
    BY <1>1, SMT
  <2>4. m * m <= 768 * m - 131072
    BY <1>1, <2>3, SMT
  <2>5. 2 * (r * m) <= 262144 + m
    BY <1>1, <1>3, <1>6, <2>1, SMT
  <2>6. 2 * (r * m + m * m) <= 1537 * m
    BY <1>1, <2>1, <2>4, <2>5, SMT
  <2>7. 2 * (r + m) <= 1537
    <3>1. SUFFICES ASSUME 2 * (r + m) >= 1538 PROVE FALSE
      BY <1>1, <1>3, SMT
    <3>2. (2 * (r + m)) * m >= 1538 * m
      BY <1>1, <1>3, <3>1, SMT
    <3>3. (2 * (r + m)) * m = 2 * (r * m + m * m)
      BY <1>1, <1>3, SMT
    <3>4. 1538 * m <= 1537 * m
      BY <1>1, <1>3, <2>1, <2>6, <3>2, <3>3, SMT
    <3> QED
      BY <1>1, <3>4, SMT
  <2> QED
    BY <1>1, <1>3, <1>4, <1>6, <2>1, <2>2, <2>5, <2>7, SMT DEF r
<1> QED
  BY <1>1, <1>3, <1>5, <1>6, SMT DEF r

\* One step of Newton's method: the reciprocal of the divisor, in units of
\* 2^-32, is off by less than 2 * 2^-15 of itself.
LEMMA RefinedBounds ==
    ASSUME NEW d \in Int, 32768 <= d, d <= 65535
    PROVE  LET D == Refined(d, Reciprocal(TableIndex(d)))
           IN  /\ D \in Int /\ 65535 <= D /\ D <= 131076
               /\ -131200 <= D * d - 4294967296
               /\ D * d - 4294967296 <= 131200
<1> DEFINE r == Reciprocal(TableIndex(d))
           a == 16777216 - d * r
           u == (33554560 - d * r) \div 256
           D == (128 + u * r) \div 256
<1>1. /\ r \in Int /\ 257 <= r /\ r <= 512
      /\ a \in Int /\ -65536 <= a /\ a <= 65536
  BY Residue, SMT
<1>2. d * r = 16777216 - a
  BY <1>1, SMT
<1>3. /\ u \in Int
      /\ 256 * u <= 16777344 + a
      /\ 16777344 + a < 256 * u + 256
  <2>1. 33554560 - d * r = 16777344 + a
    BY <1>1, <1>2, SMT
  <2> HIDE DEF a
  <2> QED
    BY <1>1, <2>1, DivBounds, SMT
<1> HIDE DEF u
<1>4. u * r \in Int
  BY <1>1, <1>3, SMT
<1>5. /\ D \in Int
      /\ 256 * D <= 128 + u * r
      /\ 128 + u * r < 256 * D + 256
  <2> HIDE DEF r
  <2> QED
    BY <1>4, DivBounds, SMT
<1> HIDE DEF r, a, D
<1> DEFINE e == 256 * u - 16777216 - a
           c == 256 * D - u * r
<1>6. e \in Int /\ -128 <= e /\ e <= 128 /\ c \in Int /\ -128 <= c /\ c <= 128
  BY <1>1, <1>3, <1>4, <1>5, SMT
<1>7. 256 * u = 16777216 + a + e /\ 256 * D = u * r + c
  BY <1>1, <1>3, <1>4, <1>5, <1>6, SMT
<1> HIDE DEF e, c
<1>8. 65536 * (D * d) = (16777216 + a + e) * (16777216 - a) + 256 * (c * d)
  <2>1. 65536 * (D * d) = 256 * ((256 * D) * d)
    BY <1>5, SMT
  <2>2. (256 * D) * d = u * (d * r) + c * d
    <3>1. (u * r + c) * d = u * (d * r) + c * d
      BY <1>1, <1>3, <1>6, SMT
    <3> QED
      BY <1>7, <3>1, SMT
  <2>3. 256 * (u * (d * r)) = (256 * u) * (d * r)
    BY <1>1, <1>3, SMT
  <2>4. (256 * u) * (d * r) = (16777216 + a + e) * (16777216 - a)
    BY <1>2, <1>7, SMT
  <2>5. u * (d * r) \in Int /\ c * d \in Int
    BY <1>1, <1>3, <1>6, SMT
  <2> QED
    BY <2>1, <2>2, <2>3, <2>4, <2>5, SMT
<1>9. (16777216 + a + e) * (16777216 - a)
        = 281474976710656 - a * a + 16777216 * e - e * a
  BY <1>1, <1>6, SMT
<1>10. 0 <= a * a /\ a * a <= 4294967296
  <2>1. (65536 - a) * (65536 + a) >= 0 /\ (65536 - a) * (65536 + a) = 4294967296 - a * a
    BY <1>1, SMT
  <2>2. a * a >= 0 /\ a * a \in Int
    BY <1>1, SMT
  <2> QED
    BY <2>1, <2>2, SMT
<1>11. -8388608 <= e * a /\ e * a <= 8388608
  <2>1. (128 - e) * (65536 - a) >= 0 /\ (128 + e) * (65536 + a) >= 0
    BY <1>1, <1>6, SMT
  <2>2. (128 - e) * (65536 + a) >= 0 /\ (128 + e) * (65536 - a) >= 0
    BY <1>1, <1>6, SMT
  <2> QED
    BY <1>1, <1>6, <2>1, <2>2, SMT
<1>12. -8388480 <= c * d /\ c * d <= 8388480
  <2>1. -128 * d <= c * d /\ c * d <= 128 * d
    BY <1>6, SMT
  <2> QED
    BY <1>6, <2>1, SMT
<1>13. /\ a * a \in Int /\ e * a \in Int /\ c * d \in Int /\ D * d \in Int
  BY <1>1, <1>5, <1>6, SMT
<1>14. -131200 <= D * d - 4294967296 /\ D * d - 4294967296 <= 131200
  BY <1>6, <1>8, <1>9, <1>10, <1>11, <1>12, <1>13, SMT
<1>15. 65535 <= D
  <2>1. SUFFICES ASSUME D <= 65534 PROVE FALSE
    BY <1>5, SMT
  <2>2. D * d <= 65534 * d
    BY <1>5, <2>1, SMT
  <2> QED
    BY <1>13, <1>14, <2>2, SMT
<1>16. D <= 131076
  <2>1. SUFFICES ASSUME D >= 131077 PROVE FALSE
    BY <1>5, SMT
  <2>2. D * d >= 131077 * d
    BY <1>5, <2>1, SMT
  <2> QED
    BY <1>13, <1>14, <2>2, SMT
<1>17. D = Refined(d, Reciprocal(TableIndex(d)))
  BY SMT DEF D, u, r, Refined
<1> QED
  BY <1>5, <1>14, <1>15, <1>16, <1>17, SMT

-----------------------------------------------------------------------------
(* Divide.                                                                 *)

\* With depth and distance scaled, what Quotient returns.
LEMMA QuotientBounds ==
    ASSUME NEW d \in Int, 32768 <= d, d <= 65535,
           NEW n \in Int, 0 <= n, n < 2 * d
    PROVE  /\ Quotient(n, d) \in Int /\ 0 <= Quotient(n, d) /\ Quotient(n, d) <= 131071
           /\ -5 * d <= Quotient(n, d) * d - 65536 * n
           /\ Quotient(n, d) * d - 65536 * n <= 5 * d
<1> DEFINE D == Refined(d, Reciprocal(TableIndex(d)))
           q == (n * D + 32768) \div 65536
           e == D * d - 4294967296
<1>1. /\ D \in Int /\ 65535 <= D /\ D <= 131076
      /\ -131200 <= e /\ e <= 131200
  BY RefinedBounds, SMT
<1>2. Quotient(n, d) = Clamp(q, 0, 131071)
  BY SMT DEF Quotient
<1> HIDE DEF D
<1>3. /\ n * D \in Int /\ 0 <= n * D
      /\ D * d \in Int /\ e \in Int
  BY <1>1, SMT
<1>4. /\ q \in Int
      /\ 65536 * q <= n * D + 32768
      /\ n * D + 32768 < 65536 * q + 65536
  BY <1>3, DivBounds, SMT
<1> HIDE DEF q
<1>5. (n * D) * d = 4294967296 * n + n * e
  <2>1. (n * D) * d = n * (D * d) /\ D * d = 4294967296 + e
    BY <1>1, <1>3, SMT
  <2> HIDE DEF e
  <2>2. n * (4294967296 + e) = 4294967296 * n + n * e
    BY <1>3, SMT
  <2> QED
    BY <2>1, <2>2, SMT
<1> HIDE DEF e
<1>6. -262400 * d <= n * e /\ n * e <= 262400 * d
  <2>1. -131200 * n <= n * e /\ n * e <= 131200 * n
    BY <1>1, <1>3, SMT
  <2> QED
    BY <1>3, <2>1, SMT
<1>7. -32768 * d <= 65536 * (q * d) - (n * D) * d /\ 65536 * (q * d) - (n * D) * d <= 32768 * d
  <2>1. (65536 * q) * d <= (n * D + 32768) * d
    BY <1>3, <1>4, SMT
  <2>2. (n * D + 32768) * d <= (65536 * q + 65536) * d
    BY <1>3, <1>4, SMT
  <2>3. /\ (65536 * q) * d = 65536 * (q * d)
        /\ (65536 * q + 65536) * d = 65536 * (q * d) + 65536 * d
        /\ (n * D + 32768) * d = (n * D) * d + 32768 * d
    BY <1>3, <1>4, SMT
  <2>4. q * d \in Int /\ (n * D) * d \in Int
    BY <1>3, <1>4, SMT
  <2> QED
    BY <2>1, <2>2, <2>3, <2>4, SMT
<1>8. -5 * d <= q * d - 65536 * n /\ q * d - 65536 * n <= 5 * d
  <2>1. q * d \in Int /\ n * e \in Int
    BY <1>3, <1>4, SMT
  <2> QED
    BY <1>3, <1>5, <1>6, <1>7, <2>1, SMT
<1>9. 0 <= q
  BY <1>3, <1>4, SMT
<1>10. CASE q <= 131071
  <2>1. Quotient(n, d) = q
    BY <1>2, <1>4, <1>9, <1>10, SMT DEF Clamp
  <2> QED
    BY <1>4, <1>8, <1>9, <1>10, <2>1, SMT
<1>11. CASE q > 131071
  <2>1. Quotient(n, d) = 131071
    BY <1>2, <1>4, <1>11, SMT DEF Clamp
  <2>2. 131071 * d <= q * d
    BY <1>4, <1>11, SMT
  <2>3. q * d \in Int
    BY <1>4, SMT
  <2>4. 131071 * d - 65536 * n <= 5 * d
    BY <1>8, <2>2, <2>3, SMT
  <2> QED
    BY <2>1, <2>4, SMT
<1> QED
  BY <1>4, <1>10, <1>11, SMT

-----------------------------------------------------------------------------
(* Every command maps registers to registers.                              *)

FlagOK(S) == "ERROR" \in S <=> S \cap Summary # {}
Registers == {g \in Gtes : FlagOK(g.flag)}

LEMMA RaiseFlagType ==
    ASSUME NEW g \in Registers, NEW b \in Writable
    PROVE  /\ RaiseFlag(g, {b}) \in Registers
           /\ RaiseFlag(g, {b}) = [g EXCEPT !.flag = RaiseFlag(g, {b}).flag]
           /\ g.flag \subseteq RaiseFlag(g, {b}).flag
           /\ b \in RaiseFlag(g, {b}).flag
<1> DEFINE S == NormalizeFlag(g.flag \cup {b})
<1>1. g \in Gtes /\ FlagOK(g.flag)
  BY DEF Registers
<1>2. g.flag \in SUBSET (Writable \cup {"ERROR"})
  BY <1>1 DEF Gtes
<1>3. S \in SUBSET (Writable \cup {"ERROR"}) /\ g.flag \subseteq S /\ b \in S
  BY <1>2 DEF NormalizeFlag
<1>4. FlagOK(S)
  <2>1. "ERROR" \notin Summary /\ "ERROR" \notin Writable
    BY DEF Summary, Writable
  <2> QED
    BY <1>1, <2>1 DEF FlagOK, NormalizeFlag
<1>5. RaiseFlag(g, {b}) = [g EXCEPT !.flag = S]
  BY DEF RaiseFlag
<1> HIDE DEF S
<1>6. [g EXCEPT !.flag = S] \in Gtes /\ [g EXCEPT !.flag = S].flag = S
  BY <1>1, <1>3, SMT DEF Gtes
<1> QED
  BY <1>3, <1>4, <1>5, <1>6 DEF Registers

LEMMA RaiseIfType ==
    ASSUME NEW g \in Registers, NEW c \in BOOLEAN, NEW b \in Writable
    PROVE  /\ RaiseIf(g, c, b) \in Registers
           /\ RaiseIf(g, c, b) = [g EXCEPT !.flag = RaiseIf(g, c, b).flag]
           /\ g.flag \subseteq RaiseIf(g, c, b).flag
           /\ c => b \in RaiseIf(g, c, b).flag
<1>1. CASE c
  BY <1>1, RaiseFlagType DEF RaiseIf
<1>2. CASE ~c
  <2>1. g = [g EXCEPT !.flag = g.flag]
    BY SMT DEF Registers, Gtes
  <2> QED
    BY <1>2, <2>1 DEF RaiseIf
<1> QED
  BY <1>1, <1>2

LEMMA RaiseTwoType ==
    ASSUME NEW g \in Registers, NEW c \in BOOLEAN, NEW b \in Writable,
           NEW c2 \in BOOLEAN, NEW b2 \in Writable
    PROVE  LET r == RaiseIf(RaiseIf(g, c, b), c2, b2)
           IN  /\ r \in Registers
               /\ r = [g EXCEPT !.flag = r.flag]
               /\ g.flag \subseteq r.flag
<1> DEFINE h == RaiseIf(g, c, b)
           r == RaiseIf(h, c2, b2)
<1>1. /\ h \in Registers
      /\ h = [g EXCEPT !.flag = h.flag]
      /\ g.flag \subseteq h.flag
  BY RaiseIfType
<1> HIDE DEF h
<1>2. /\ r \in Registers
      /\ r = [h EXCEPT !.flag = r.flag]
      /\ h.flag \subseteq r.flag
  BY <1>1, RaiseIfType
<1> HIDE DEF r
<1>3. r = [g EXCEPT !.flag = r.flag]
  BY <1>1, <1>2 DEF Registers, Gtes
<1> QED
  BY <1>1, <1>2, <1>3 DEF h, r

LEMMA Wrap32Type ==
    ASSUME NEW x \in Int
    PROVE  Wrap32(x) \in Words
BY SMT DEF Wrap32, Words, Between

LEMMA ClampType ==
    ASSUME NEW x \in Int, NEW low \in Int, NEW high \in Int, low <= high
    PROVE  Clamp(x, low, high) \in Between(low, high)
BY SMT DEF Clamp, Between

LEMMA SetMacType ==
    ASSUME NEW g \in Registers, NEW i \in Axes, NEW x \in Int
    PROVE  /\ SetMac(g, i, x) \in Registers
           /\ SetMac(g, i, x).ir = g.ir
           /\ SetMac(g, i, x).mac = [g.mac EXCEPT ![i] = Wrap32(x)]
           /\ g.flag \subseteq SetMac(g, i, x).flag
<1>1. MacPos[i] \in Writable /\ MacNeg[i] \in Writable
  BY SMT DEF MacPos, MacNeg, Writable, Summary, Axes
<1> DEFINE c == x > MaxMac
           c2 == x < -MaxMac - 1
           r == RaiseIf(RaiseIf(g, c, MacPos[i]), c2, MacNeg[i])
<1>2. c \in BOOLEAN /\ c2 \in BOOLEAN
  BY SMT DEF MaxMac
<1>3. SetMac(g, i, x) = [r EXCEPT !.mac[i] = Wrap32(x)]
  BY DEF SetMac
<1> HIDE DEF c, c2
<1>4. /\ r \in Registers
      /\ r = [g EXCEPT !.flag = r.flag]
      /\ g.flag \subseteq r.flag
  BY <1>1, <1>2, RaiseTwoType
<1> HIDE DEF r
<1>5. r.ir = g.ir /\ r.mac = g.mac
  BY <1>4 DEF Registers, Gtes
<1>6. i \in 0..3
  BY SMT DEF Axes
<1>7. [r EXCEPT !.mac[i] = Wrap32(x)] \in Gtes
  BY <1>4, <1>6, Wrap32Type, SMT DEF Registers, Gtes
<1> QED
  BY <1>3, <1>4, <1>5, <1>7, SMT DEF Registers, Gtes

LEMMA SetMac0Type ==
    ASSUME NEW g \in Registers, NEW x \in Int
    PROVE  /\ SetMac0(g, x) \in Registers
           /\ SetMac0(g, x).ir = g.ir
           /\ SetMac0(g, x).mac = [g.mac EXCEPT ![0] = Wrap32(x)]
           /\ g.flag \subseteq SetMac0(g, x).flag
<1>1. "MAC0_POS" \in Writable /\ "MAC0_NEG" \in Writable
  BY DEF Writable, Summary
<1> DEFINE c == x > 2147483647
           c2 == x < -2147483648
           r == RaiseIf(RaiseIf(g, c, "MAC0_POS"), c2, "MAC0_NEG")
<1>2. c \in BOOLEAN /\ c2 \in BOOLEAN
  BY SMT
<1>3. SetMac0(g, x) = [r EXCEPT !.mac[0] = Wrap32(x)]
  BY SMT DEF SetMac0
<1> HIDE DEF c, c2
<1>4. /\ r \in Registers
      /\ r = [g EXCEPT !.flag = r.flag]
      /\ g.flag \subseteq r.flag
  BY <1>1, <1>2, RaiseTwoType, SMT
<1> HIDE DEF r
<1>5. r.ir = g.ir /\ r.mac = g.mac
  BY <1>4, SMT DEF Registers, Gtes
<1>7. [r EXCEPT !.mac[0] = Wrap32(x)] \in Gtes
  BY <1>4, Wrap32Type, SMT DEF Registers, Gtes
<1> QED
  BY <1>3, <1>4, <1>5, <1>7, SMT DEF Registers, Gtes

\* When IR is not flagged as cut, it holds the value itself.
LEMMA LimitIrType ==
    ASSUME NEW g \in Registers, NEW i \in Axes, NEW x \in Int,
           NEW lm \in BOOLEAN, NEW sf \in BOOLEAN
    PROVE  LET r == LimitIr(g, i, x, lm, sf)
           IN  /\ r \in Registers
               /\ r.mac = g.mac
               /\ \A j \in Axes \ {i} : r.ir[j] = g.ir[j]
               /\ g.flag \subseteq r.flag
               /\ sf /\ IrSat[i] \notin r.flag =>
                      r.ir[i] = x /\ -32768 <= x /\ x <= 32767
<1> DEFINE low == IF lm THEN 0 ELSE -32768
           checked == IF sf THEN x ELSE x \div 4096
           c == checked < low \/ checked > 32767
           r == RaiseIf(g, c, IrSat[i])
           l == LimitIr(g, i, x, lm, sf)
<1>1. IrSat[i] \in Writable
  BY SMT DEF IrSat, Writable, Summary, Axes
<1>2. c \in BOOLEAN
  BY SMT
<1>3. l = [r EXCEPT !.ir[i] = Clamp(x, low, 32767)]
  BY DEF LimitIr
<1>4. ~c /\ sf => low <= x /\ x <= 32767
  BY SMT
<1> HIDE DEF c
<1>5. /\ r \in Registers
      /\ r = [g EXCEPT !.flag = r.flag]
      /\ g.flag \subseteq r.flag
      /\ c => IrSat[i] \in r.flag
  BY <1>1, <1>2, RaiseIfType
<1>6. low \in Int /\ -32768 <= low /\ low <= 0
  BY SMT
<1> HIDE DEF r, low, l
<1>7. Clamp(x, low, 32767) \in Halves
  BY <1>6, SMT DEF Clamp, Halves, Between
<1>8. i \in 0..3
  BY SMT DEF Axes
<1>9. r.mac = g.mac /\ r.ir = g.ir
  BY <1>5, SMT DEF Registers, Gtes
<1>10. l \in Gtes
  BY <1>3, <1>5, <1>7, <1>8, SMT DEF Registers, Gtes
<1>11. /\ l.mac = g.mac /\ l.flag = r.flag
       /\ l.ir = [g.ir EXCEPT ![i] = Clamp(x, low, 32767)]
  BY <1>3, <1>5, <1>9, SMT DEF Registers, Gtes
<1>12. \A j \in Axes \ {i} : l.ir[j] = g.ir[j]
  BY <1>11, SMT DEF Registers, Gtes
<1>13. ASSUME sf, IrSat[i] \notin l.flag
       PROVE  l.ir[i] = x /\ -32768 <= x /\ x <= 32767
  <2>1. low <= x /\ x <= 32767
    BY <1>2, <1>4, <1>5, <1>11, <1>13
  <2>2. Clamp(x, low, 32767) = x
    BY <1>6, <2>1, SMT DEF Clamp
  <2>3. g.ir \in [0..3 -> Halves]
    BY SMT DEF Registers, Gtes
  <2> QED
    BY <1>6, <1>8, <1>11, <2>1, <2>2, <2>3, SMT
<1> QED
  BY <1>5, <1>10, <1>11, <1>12, <1>13 DEF Registers, l

\* r is g with row i written.
RowDone(g, r, i, sf) ==
    /\ r \in Registers
    /\ g.flag \subseteq r.flag
    /\ \A j \in Axes \ {i} : r.ir[j] = g.ir[j] /\ r.mac[j] = g.mac[j]
    /\ sf /\ IrSat[i] \notin r.flag => r.ir[i] = r.mac[i]

LEMMA SetRowType ==
    ASSUME NEW g \in Registers, NEW i \in Axes, NEW x \in Int,
           NEW lm \in BOOLEAN, NEW sf \in BOOLEAN
    PROVE  RowDone(g, SetRow(g, i, x, lm, sf), i, sf)
<1> DEFINE m == SetMac(g, i, x)
           r == LimitIr(m, i, x, lm, sf)
<1>1. /\ m \in Registers /\ m.ir = g.ir /\ g.flag \subseteq m.flag
      /\ m.mac = [g.mac EXCEPT ![i] = Wrap32(x)]
  BY SetMacType
<1> HIDE DEF m
<1>2. /\ r \in Registers /\ r.mac = m.mac /\ m.flag \subseteq r.flag
      /\ \A j \in Axes \ {i} : r.ir[j] = m.ir[j]
      /\ sf /\ IrSat[i] \notin r.flag => r.ir[i] = x /\ -32768 <= x /\ x <= 32767
  BY <1>1, LimitIrType
<1> HIDE DEF r
<1>3. g.mac \in [0..3 -> Words] /\ i \in 0..3 /\ Axes \subseteq 0..3
  BY SMT DEF Registers, Gtes, Axes
<1>4. \A j \in Axes \ {i} : r.mac[j] = g.mac[j]
  BY <1>1, <1>2, <1>3
<1>5. -32768 <= x /\ x <= 32767 => Wrap32(x) = x
  BY SMT DEF Wrap32
<1>6. r.mac[i] = Wrap32(x)
  BY <1>1, <1>2, <1>3
<1> QED
  BY <1>1, <1>2, <1>4, <1>5, <1>6 DEF RowDone, SetRow, m, r

\* The rows IR and MAC hold the same numbers, but for those flagged.
Exact(g) == \A i \in Axes : IrSat[i] \notin g.flag => g.ir[i] = g.mac[i]
KeepsRows(g, r) ==
    /\ r \in Registers
    /\ g.flag \subseteq r.flag
    /\ \A i \in Axes : r.ir[i] = g.ir[i] /\ r.mac[i] = g.mac[i]

LEMMA ExactKept ==
    ASSUME NEW g, NEW r, Exact(g), KeepsRows(g, r)
    PROVE  Exact(r)
BY DEF Exact, KeepsRows

LEMMA RowsKept ==
    ASSUME NEW g, NEW r, NEW s, KeepsRows(g, r), KeepsRows(r, s)
    PROVE  KeepsRows(g, s)
BY DEF KeepsRows

LEMMA SetRowsType ==
    ASSUME NEW g \in Registers, NEW x \in [Axes -> Int],
           NEW lm \in BOOLEAN, NEW sf \in BOOLEAN
    PROVE  /\ SetRows(g, x, lm, sf) \in Registers
           /\ sf => Exact(SetRows(g, x, lm, sf))
<1> DEFINE a == SetRow(g, 1, x[1], lm, sf)
           b == SetRow(a, 2, x[2], lm, sf)
           r == SetRow(b, 3, x[3], lm, sf)
<1>1. /\ 1 \in Axes /\ 2 \in Axes /\ 3 \in Axes
      /\ 1 # 2 /\ 1 # 3 /\ 2 # 3
      /\ x[1] \in Int /\ x[2] \in Int /\ x[3] \in Int
      /\ \A i \in Axes : i = 1 \/ i = 2 \/ i = 3
  BY SMT DEF Axes
<1>2. RowDone(g, a, 1, sf)
  BY <1>1, SetRowType
<1> HIDE DEF a
<1>3. RowDone(a, b, 2, sf)
  <2>1. a \in Registers
    BY <1>2 DEF RowDone
  <2> QED
    BY <1>1, <2>1, SetRowType
<1> HIDE DEF b
<1>4. RowDone(b, r, 3, sf)
  <2>1. b \in Registers
    BY <1>3 DEF RowDone
  <2> QED
    BY <1>1, <2>1, SetRowType
<1> HIDE DEF r
<1>5. sf => Exact(r)
  BY <1>1, <1>2, <1>3, <1>4 DEF Exact, RowDone
<1> QED
  BY <1>4, <1>5 DEF SetRows, RowDone, a, b, r

LEMMA SetMacsType ==
    ASSUME NEW g \in Registers, NEW x \in [Axes -> Int]
    PROVE  SetMacs(g, x) \in Registers
<1>1. /\ 1 \in Axes /\ 2 \in Axes /\ 3 \in Axes
      /\ x[1] \in Int /\ x[2] \in Int /\ x[3] \in Int
  BY SMT DEF Axes
<1>2. SetMac(g, 1, x[1]) \in Registers
  BY <1>1, SetMacType
<1>3. SetMac(SetMac(g, 1, x[1]), 2, x[2]) \in Registers
  BY <1>1, <1>2, SetMacType
<1> QED
  BY <1>1, <1>3, SetMacType DEF SetMacs

LEMMA SetMac0Keeps ==
    ASSUME NEW g \in Registers, NEW x \in Int
    PROVE  KeepsRows(g, SetMac0(g, x))
<1>1. g.mac \in [0..3 -> Words] /\ Axes \subseteq 0..3 /\ 0 \notin Axes
  BY SMT DEF Registers, Gtes, Axes
<1> QED
  BY <1>1, SetMac0Type DEF KeepsRows

LEMMA LimitIr0Keeps ==
    ASSUME NEW g \in Registers, NEW x \in Int
    PROVE  KeepsRows(g, LimitIr0(g, x))
<1> DEFINE c == x \notin Between(0, 4096)
           r == RaiseIf(g, c, "IR0_SAT")
           l == [r EXCEPT !.ir[0] = Clamp(x, 0, 4096)]
<1>1. LimitIr0(g, x) = l
  BY DEF LimitIr0
<1>2. c \in BOOLEAN /\ "IR0_SAT" \in Writable
  BY DEF Writable
<1> HIDE DEF c
<1>3. /\ r \in Registers
      /\ r = [g EXCEPT !.flag = r.flag]
      /\ g.flag \subseteq r.flag
  BY <1>2, RaiseIfType
<1> HIDE DEF r
<1>4. Clamp(x, 0, 4096) \in Halves
  BY SMT DEF Clamp, Halves, Between
<1>5. l \in Gtes /\ l.flag = r.flag /\ l.mac = g.mac
  BY <1>3, <1>4, SMT DEF Registers, Gtes
<1>6. l.ir = [g.ir EXCEPT ![0] = Clamp(x, 0, 4096)]
  BY <1>3, SMT DEF Registers, Gtes
<1>7. g.ir \in [0..3 -> Halves] /\ Axes \subseteq 0..3 /\ 0 \notin Axes
  BY SMT DEF Registers, Gtes, Axes
<1>8. \A i \in Axes : l.ir[i] = g.ir[i]
  BY <1>6, <1>7
<1> HIDE DEF l
<1>9. l \in Registers
  BY <1>3, <1>5 DEF Registers
<1> QED
  BY <1>1, <1>3, <1>5, <1>8, <1>9 DEF KeepsRows

LEMMA PushSxyKeeps ==
    ASSUME NEW g \in Registers, NEW point \in ScreenPoints
    PROVE  KeepsRows(g, PushSxy(g, point))
<1> DEFINE sxy == [k \in 0..2 |-> IF k = 2 THEN point ELSE g.sxy[k + 1]]
<1>1. sxy \in [0..2 -> ScreenPoints]
  BY SMT DEF Registers, Gtes
<1>2. PushSxy(g, point) = [g EXCEPT !.sxy = sxy]
  BY DEF PushSxy
<1> HIDE DEF sxy
<1> QED
  BY <1>1, <1>2, SMT DEF KeepsRows, Registers, Gtes

LEMMA PushSzKeeps ==
    ASSUME NEW g \in Registers, NEW depth \in Int
    PROVE  KeepsRows(g, PushSz(g, depth))
<1> DEFINE c == depth \notin UHalves
           r == RaiseIf(g, c, "OTZ_SAT")
           z == Clamp(depth, 0, 65535)
           sz == [k \in 0..3 |-> IF k = 3 THEN z ELSE r.sz[k + 1]]
<1>1. PushSz(g, depth) = [r EXCEPT !.sz = sz]
  BY DEF PushSz
<1>2. c \in BOOLEAN /\ "OTZ_SAT" \in Writable
  BY DEF Writable, Summary
<1>3. z \in UHalves
  BY SMT DEF Clamp, UHalves, Between
<1> HIDE DEF c, z
<1>4. /\ r \in Registers
      /\ r = [g EXCEPT !.flag = r.flag]
      /\ g.flag \subseteq r.flag
  BY <1>2, RaiseIfType
<1> HIDE DEF r
<1>5. sz \in [0..3 -> UHalves]
  BY <1>3, <1>4, SMT DEF Registers, Gtes
<1> HIDE DEF sz
<1> QED
  BY <1>1, <1>4, <1>5, SMT DEF KeepsRows, Registers, Gtes

LEMMA RaiseColourKeeps ==
    ASSUME NEW g \in Registers, NEW i \in Axes, NEW x \in [Axes -> Int]
    PROVE  /\ KeepsRows(g, RaiseColour(g, i, x))
           /\ RaiseColour(g, i, x) \in Registers
<1> DEFINE c == x[i] \div 16 \notin Bytes
<1>1. c \in BOOLEAN
  OBVIOUS
<1>2. RgbSat[i] \in Writable
  BY SMT DEF RgbSat, Writable, Axes
<1>3. RaiseColour(g, i, x) = RaiseIf(g, c, RgbSat[i])
  BY DEF RaiseColour
<1> HIDE DEF c
<1> DEFINE r == RaiseIf(g, c, RgbSat[i])
<1>4. r \in Registers /\ r = [g EXCEPT !.flag = r.flag] /\ g.flag \subseteq r.flag
  BY <1>1, <1>2, RaiseIfType
<1> HIDE DEF r
<1>5. r.ir = g.ir /\ r.mac = g.mac
  BY <1>4, SMT DEF Registers, Gtes
<1> QED
  BY <1>3, <1>4, <1>5 DEF KeepsRows, r

LEMMA PushColourKeeps ==
    ASSUME NEW g \in Registers, NEW x \in [Axes -> Int]
    PROVE  KeepsRows(g, PushColour(g, x))
<1> DEFINE colour == [rgb |-> [i \in Axes |-> Clamp(x[i] \div 16, 0, 255)],
                      code |-> g.rgbc.code]
           a == RaiseColour(g, 1, x)
           b == RaiseColour(a, 2, x)
           r == RaiseColour(b, 3, x)
           rgb == [k \in 0..2 |-> IF k = 2 THEN colour ELSE r.rgb[k + 1]]
<1>1. PushColour(g, x) = [r EXCEPT !.rgb = rgb]
  BY DEF PushColour
<1>2. colour \in Colours
  <2>1. \A i \in Axes : Clamp(x[i] \div 16, 0, 255) \in Bytes
    <3>1. TAKE i \in Axes
    <3>2. x[i] \div 16 \in Int
      BY SMT
    <3> QED
      BY <3>2, ClampType, SMT DEF Bytes
  <2>2. g.rgbc.code \in Bytes
    BY SMT DEF Registers, Gtes, Colours
  <2> QED
    BY <2>1, <2>2 DEF Colours
<1> HIDE DEF colour
<1>3. 1 \in Axes /\ 2 \in Axes /\ 3 \in Axes
  BY SMT DEF Axes
<1>4. a \in Registers /\ KeepsRows(g, a)
  BY <1>3, RaiseColourKeeps
<1> HIDE DEF a
<1>5. b \in Registers /\ KeepsRows(a, b)
  BY <1>3, <1>4, RaiseColourKeeps
<1> HIDE DEF b
<1>6. r \in Registers /\ KeepsRows(b, r)
  BY <1>3, <1>5, RaiseColourKeeps
<1> HIDE DEF r
<1>7. rgb \in [0..2 -> Colours]
  BY <1>2, <1>6, SMT DEF Registers, Gtes
<1> HIDE DEF rgb
<1>8. KeepsRows(r, [r EXCEPT !.rgb = rgb])
  BY <1>6, <1>7, SMT DEF KeepsRows, Registers, Gtes
<1> QED
  BY <1>1, <1>4, <1>5, <1>6, <1>8, RowsKept

-----------------------------------------------------------------------------
(* The commands.                                                           *)

LEMMA ShiftType ==
    ASSUME NEW x \in Int, NEW sf \in BOOLEAN
    PROVE  Shift(x, sf) \in Int
BY SMT DEF Shift

LEMMA ShiftAllType ==
    ASSUME NEW x \in [Axes -> Int], NEW sf \in BOOLEAN
    PROVE  ShiftAll(x, sf) \in [Axes -> Int]
BY ShiftType DEF ShiftAll

LEMMA HalfInt == \A x \in Halves : x \in Int /\ -32768 <= x /\ x <= 32767
BY SMT DEF Halves, Between
LEMMA UHalfInt == \A x \in UHalves : x \in Int /\ 0 <= x /\ x <= 65535
BY SMT DEF UHalves, Between
LEMMA WordInt == \A x \in Words : x \in Int /\ -2147483648 <= x /\ x <= 2147483647
BY SMT DEF Words, Between
LEMMA ByteInt == \A x \in Bytes : x \in Int /\ 0 <= x /\ x <= 255
BY SMT DEF Bytes, Between

\* A product of numbers within bounds, at the bounds the commands need.
LEMMA HalfProduct ==
    ASSUME NEW x \in Halves, NEW y \in Halves
    PROVE  x * y \in Int /\ -1073741824 <= x * y /\ x * y <= 1073741824
<1>1. /\ x \in Int /\ -32768 <= x /\ x <= 32767
      /\ y \in Int /\ -32768 <= y /\ y <= 32767
  BY HalfInt
<1>2. (32768 - x) * (32768 + y) >= 0 /\ (32768 + x) * (32768 - y) >= 0
  BY <1>1, SMT
<1>3. (32768 - x) * (32768 - y) >= 0 /\ (32768 + x) * (32768 + y) >= 0
  BY <1>1, SMT
<1> QED
  BY <1>1, <1>2, <1>3, SMT

LEMMA PositiveProduct ==
    ASSUME NEW x \in Halves, NEW n \in Int, 0 <= n, n <= 262140
    PROVE  x * n \in Int /\ -8589934592 <= x * n /\ x * n <= 8589934592
<1>1. x \in Int /\ -32768 <= x /\ x <= 32767
  BY HalfInt
<1>2. -32768 * n <= x * n /\ x * n <= 32767 * n
  BY <1>1, SMT
<1> QED
  BY <1>1, <1>2, SMT

\* A row of a matrix times a vector.
LEMMA DotBounds ==
    ASSUME NEW m \in Matrices, NEW v \in HalfVectors, NEW i \in Axes
    PROVE  /\ Dot(m, v, i) \in Int
           /\ -3221225472 <= Dot(m, v, i) /\ Dot(m, v, i) <= 3221225472
<1>2. 1 \in Axes /\ 2 \in Axes /\ 3 \in Axes
  BY SMT DEF Axes
<1>3. /\ m[i][1] \in Halves /\ m[i][2] \in Halves /\ m[i][3] \in Halves
      /\ v[1] \in Halves /\ v[2] \in Halves /\ v[3] \in Halves
  BY <1>2 DEF Matrices, HalfVectors
<1> DEFINE p == m[i][1] * v[1]  q == m[i][2] * v[2]  r == m[i][3] * v[3]
<1>4. /\ p \in Int /\ -1073741824 <= p /\ p <= 1073741824
      /\ q \in Int /\ -1073741824 <= q /\ q <= 1073741824
      /\ r \in Int /\ -1073741824 <= r /\ r <= 1073741824
  BY <1>3, HalfProduct
<1>5. Dot(m, v, i) = p + q + r
  BY DEF Dot
<1> HIDE DEF p, q, r
<1> QED
  BY <1>4, <1>5, SMT

Accumulators == Between(-17592186044416, 17592186044416)
\* What the colour commands start from.
Bases == Between(-134217728, 134217728)

LEMMA AccumulatorInt == Accumulators \subseteq Int /\ Bases \subseteq Int
BY SMT DEF Accumulators, Bases, Between

\* The registers, one by one.
LEMMA Fields ==
    ASSUME NEW g \in Gtes
    PROVE  /\ g.v \in [0..2 -> HalfVectors] /\ g.matrix \in [0..2 -> Matrices]
           /\ g.vector \in [0..2 -> WordVectors] /\ g.ir \in [0..3 -> Halves]
           /\ g.mac \in [0..3 -> Words] /\ g.sz \in [0..3 -> UHalves]
           /\ g.sxy \in [0..2 -> ScreenPoints] /\ g.rgbc \in Colours
           /\ g.rgb \in [0..2 -> Colours]
           /\ g.ofx \in Words /\ g.ofy \in Words /\ g.h \in UHalves
           /\ g.dqa \in Halves /\ g.dqb \in Words
           /\ g.zsf3 \in Halves /\ g.zsf4 \in Halves
BY SMT DEF Gtes

LEMMA VectorRow ==
    ASSUME NEW g \in Gtes, NEW k \in 0..2, NEW i \in Axes
    PROVE  g.vector[k][i] \in Words
BY Fields DEF WordVectors

LEMMA IrVectorType ==
    ASSUME NEW g \in Gtes
    PROVE  /\ IrVector(g) \in HalfVectors
           /\ \A i \in Axes : IrVector(g)[i] = g.ir[i] /\ g.ir[i] \in Halves
<1>1. Axes \subseteq 0..3
  BY SMT DEF Axes
<1> QED
  BY <1>1, Fields DEF IrVector, HalfVectors

\* A row of a translation and a row of a product.
LEMMA RowFits ==
    ASSUME NEW t \in Words, NEW m \in Matrices, NEW v \in HalfVectors, NEW i \in Axes
    PROVE  /\ 4096 * t + Dot(m, v, i) \in Accumulators
           /\ Dot(m, v, i) \in Accumulators
BY WordInt, DotBounds, SMT DEF Accumulators, Between

LEMMA RotatedFits ==
    ASSUME NEW g \in Gtes, NEW k \in 0..2, NEW i \in Axes
    PROVE  /\ RotatedValue(g, k, i) \in Accumulators
           /\ LightValue(g, k, i) \in Accumulators
           /\ LightColourValue(g, i) \in Accumulators
<1>1. 0 \in 0..2 /\ 1 \in 0..2 /\ 2 \in 0..2
  BY SMT
<1>2. g.v[k] \in HalfVectors /\ g.matrix[0] \in Matrices /\ g.matrix[1] \in Matrices
      /\ g.matrix[2] \in Matrices
  BY <1>1, Fields
<1>3. g.vector[0][i] \in Words /\ g.vector[1][i] \in Words
  BY <1>1, VectorRow
<1>4. IrVector(g) \in HalfVectors
  BY IrVectorType
<1> QED
  BY <1>2, <1>3, <1>4, RowFits DEF RotatedValue, LightValue, LightColourValue

LEMMA MatrixOfType ==
    ASSUME NEW g \in Gtes, NEW mx \in 0..3
    PROVE  MatrixOf(g, mx) \in Matrices
<1>1. CASE mx \in 0..2
  BY <1>1, Fields DEF MatrixOf
<1>2. CASE mx \notin 0..2
  <2>1. 0 \in 0..2 /\ 1 \in Axes /\ 2 \in Axes /\ 3 \in Axes /\ 0 \in 0..3
    BY SMT DEF Axes
  <2>2. g.matrix[0][1][3] \in Halves /\ g.matrix[0][2][2] \in Halves /\ g.ir[0] \in Halves
    BY <2>1, Fields DEF Matrices, HalfVectors
  <2>3. g.rgbc.rgb[1] \in Bytes
    BY <2>1, Fields DEF Colours
  <2>4. -g.rgbc.rgb[1] * 16 \in Halves /\ g.rgbc.rgb[1] * 16 \in Halves
    BY <2>3, ByteInt, SMT DEF Halves, Between
  <2> DEFINE a == [i \in Axes |-> CASE i = 1 -> -g.rgbc.rgb[1] * 16
                                    [] i = 2 -> g.rgbc.rgb[1] * 16
                                    [] i = 3 -> g.ir[0]]
             b == [i \in Axes |-> g.matrix[0][1][3]]
             c == [i \in Axes |-> g.matrix[0][2][2]]
  <2>5. a \in HalfVectors
    BY <2>2, <2>4, SMT DEF HalfVectors, Axes
  <2>6. b \in HalfVectors /\ c \in HalfVectors
    BY <2>2 DEF HalfVectors
  <2>7. MatrixOf(g, mx) = <<a, b, c>>
    BY <1>2 DEF MatrixOf
  <2> HIDE DEF a, b, c
  <2> QED
    BY <2>5, <2>6, <2>7, SMT DEF Matrices, Axes
<1> QED
  BY <1>1, <1>2

LEMMA MvmvaFits ==
    ASSUME NEW g \in Gtes, NEW mx \in 0..3, NEW v \in 0..3, NEW cv \in 0..3, NEW i \in Axes
    PROVE  MvmvaValue(g, mx, v, cv, i) \in Accumulators
<1> DEFINE m == MatrixOf(g, mx)
           x == VectorOf(g, v)
<1>1. m \in Matrices
  BY MatrixOfType
<1>2. x \in HalfVectors
  BY Fields, IrVectorType DEF VectorOf
<1>3. MvmvaValue(g, mx, v, cv, i)
        = CASE cv = 2 -> m[i][2] * x[2] + m[i][3] * x[3]
            [] cv = 3 -> Dot(m, x, i)
            [] cv \in 0..1 -> 4096 * g.vector[cv][i] + Dot(m, x, i)
  BY DEF MvmvaValue
<1> HIDE DEF m, x
<1>4. CASE cv = 2
  <2>1. 2 \in Axes /\ 3 \in Axes
    BY SMT DEF Axes
  <2>2. m[i][2] \in Halves /\ x[2] \in Halves /\ m[i][3] \in Halves /\ x[3] \in Halves
    BY <1>1, <1>2, <2>1 DEF Matrices, HalfVectors
  <2> DEFINE p == m[i][2] * x[2]  q == m[i][3] * x[3]
  <2>3. /\ p \in Int /\ -1073741824 <= p /\ p <= 1073741824
        /\ q \in Int /\ -1073741824 <= q /\ q <= 1073741824
    BY <2>2, HalfProduct
  <2>4. MvmvaValue(g, mx, v, cv, i) = p + q
    BY <1>3, <1>4, SMT
  <2> HIDE DEF p, q
  <2> QED
    BY <2>3, <2>4, SMT DEF Accumulators, Between
<1>5. CASE cv = 3
  <2>1. MvmvaValue(g, mx, v, cv, i) = Dot(m, x, i)
    BY <1>3, <1>5, SMT
  <2>2. 0 \in Words
    BY SMT DEF Words, Between
  <2> QED
    BY <1>1, <1>2, <2>1, <2>2, RowFits
<1>6. CASE cv \in 0..1
  <2>1. MvmvaValue(g, mx, v, cv, i) = 4096 * g.vector[cv][i] + Dot(m, x, i)
    BY <1>3, <1>6, SMT
  <2>2. g.vector[cv][i] \in Words
    BY <1>6, VectorRow, SMT
  <2> QED
    BY <1>1, <1>2, <2>1, <2>2, RowFits
<1> QED
  BY <1>4, <1>5, <1>6, SMT

LEMMA SpreadProduct ==
    ASSUME NEW x \in Halves, NEW n \in Int, -131072 <= n, n <= 131072
    PROVE  x * n \in Int /\ -4294967296 <= x * n /\ x * n <= 4294967296
<1>1. x \in Int /\ -32768 <= x /\ x <= 32767
  BY HalfInt
<1>2. (32768 - x) * (131072 + n) >= 0 /\ (32768 + x) * (131072 - n) >= 0
  BY <1>1, SMT
<1>3. (32768 - x) * (131072 - n) >= 0 /\ (32768 + x) * (131072 + n) >= 0
  BY <1>1, SMT
<1> QED
  BY <1>1, <1>2, <1>3, SMT

LEMMA IrHalf ==
    ASSUME NEW g \in Gtes, NEW i \in 0..3
    PROVE  g.ir[i] \in Halves
BY Fields

LEMMA PointHalves ==
    ASSUME NEW g \in Gtes, NEW k \in 0..2
    PROVE  g.sxy[k].x \in Halves /\ g.sxy[k].y \in Halves
<1>1. g.sxy[k] \in ScreenPoints
  BY Fields
<1> QED
  BY <1>1 DEF ScreenPoints

LEMMA NclipFits ==
    ASSUME NEW g \in Gtes
    PROVE  NclipValue(g) \in Accumulators
<1> DEFINE x(k) == g.sxy[k].x
           y(k) == g.sxy[k].y
<1>1. 0 \in 0..2 /\ 1 \in 0..2 /\ 2 \in 0..2
  BY SMT
<1>2. /\ x(0) \in Halves /\ x(1) \in Halves /\ x(2) \in Halves
      /\ y(0) \in Halves /\ y(1) \in Halves /\ y(2) \in Halves
  BY <1>1, PointHalves
<1> DEFINE a == y(1) - y(2)  b == y(2) - y(0)  c == y(0) - y(1)
<1>3. NclipValue(g) = x(0) * a + x(1) * b + x(2) * c
  BY DEF NclipValue
<1> HIDE DEF x, y
<1>4. /\ a \in Int /\ -131072 <= a /\ a <= 131072
      /\ b \in Int /\ -131072 <= b /\ b <= 131072
      /\ c \in Int /\ -131072 <= c /\ c <= 131072
  BY <1>2, HalfInt, SMT
<1> HIDE DEF a, b, c
<1> DEFINE p == x(0) * a  q == x(1) * b  r == x(2) * c
<1>5. /\ p \in Int /\ -4294967296 <= p /\ p <= 4294967296
      /\ q \in Int /\ -4294967296 <= q /\ q <= 4294967296
      /\ r \in Int /\ -4294967296 <= r /\ r <= 4294967296
  BY <1>2, <1>4, SpreadProduct
<1>6. NclipValue(g) = p + q + r
  BY <1>3
<1> HIDE DEF p, q, r
<1> QED
  BY <1>5, <1>6, SMT DEF Accumulators, Between

LEMMA AverageFits ==
    ASSUME NEW g \in Gtes
    PROVE  Avsz3Value(g) \in Accumulators /\ Avsz4Value(g) \in Accumulators
<1>1. g.sz[0] \in UHalves /\ g.sz[1] \in UHalves /\ g.sz[2] \in UHalves
      /\ g.sz[3] \in UHalves /\ g.zsf3 \in Halves /\ g.zsf4 \in Halves
  BY Fields, SMT
<1> DEFINE three == g.sz[1] + g.sz[2] + g.sz[3]
           four == g.sz[0] + g.sz[1] + g.sz[2] + g.sz[3]
<1>2. /\ three \in Int /\ 0 <= three /\ three <= 262140
      /\ four \in Int /\ 0 <= four /\ four <= 262140
  BY <1>1, UHalfInt, SMT
<1> HIDE DEF three, four
<1> DEFINE p == g.zsf3 * three  q == g.zsf4 * four
<1>3. /\ p \in Int /\ -8589934592 <= p /\ p <= 8589934592
      /\ q \in Int /\ -8589934592 <= q /\ q <= 8589934592
  BY <1>1, <1>2, PositiveProduct
<1>4. three * g.zsf3 = p /\ four * g.zsf4 = q
  BY <1>1, <1>2, HalfInt, SMT
<1>5. Avsz3Value(g) = p /\ Avsz4Value(g) = q
  BY <1>4 DEF Avsz3Value, Avsz4Value, three, four
<1> HIDE DEF p, q
<1> QED
  BY <1>3, <1>5, SMT DEF Accumulators, Between

\* What is added to an offset, on the screen and of the depth cue.
LEMMA ScreenFits ==
    ASSUME NEW g \in Gtes, NEW quotient \in Int, 0 <= quotient, quotient <= 131071
    PROVE  /\ g.ofx + g.ir[1] * quotient \in Accumulators
           /\ g.ofy + g.ir[2] * quotient \in Accumulators
           /\ DepthCueValue(g, quotient) \in Accumulators
<1> DEFINE p == g.ir[1] * quotient  q == g.ir[2] * quotient  r == g.dqa * quotient
<1>1. g.ir[1] \in Halves /\ g.ir[2] \in Halves /\ g.dqa \in Halves
  BY IrHalf, Fields, SMT
<1>2. 0 <= quotient /\ quotient <= 262140
  BY SMT
<1>3. /\ p \in Int /\ -8589934592 <= p /\ p <= 8589934592
      /\ q \in Int /\ -8589934592 <= q /\ q <= 8589934592
      /\ r \in Int /\ -8589934592 <= r /\ r <= 8589934592
  BY <1>1, <1>2, PositiveProduct
<1>4. /\ g.ofx \in Int /\ -2147483648 <= g.ofx /\ g.ofx <= 2147483647
      /\ g.ofy \in Int /\ -2147483648 <= g.ofy /\ g.ofy <= 2147483647
      /\ g.dqb \in Int /\ -2147483648 <= g.dqb /\ g.dqb <= 2147483647
  BY Fields, WordInt
<1>5. DepthCueValue(g, quotient) = g.dqb + r
  BY DEF DepthCueValue
<1> HIDE DEF p, q, r
<1>6. /\ g.ofx + p \in Accumulators /\ g.ofy + q \in Accumulators
      /\ g.dqb + r \in Accumulators
  BY <1>3, <1>4, SMT DEF Accumulators, Between
<1> QED
  BY <1>5, <1>6 DEF p, q

LEMMA ScreenInt ==
    ASSUME NEW g \in Registers, NEW quotient \in Int, 0 <= quotient, quotient <= 131071
    PROVE  /\ g.ofx + g.ir[1] * quotient \in Int
           /\ g.ofy + g.ir[2] * quotient \in Int
           /\ DepthCueValue(g, quotient) \in Int
<1>1. g \in Gtes
  BY DEF Registers
<1>2. /\ g.ofx + g.ir[1] * quotient \in Accumulators
      /\ g.ofy + g.ir[2] * quotient \in Accumulators
      /\ DepthCueValue(g, quotient) \in Accumulators
  BY <1>1, ScreenFits
<1> DEFINE x == g.ofx + g.ir[1] * quotient
           y == g.ofy + g.ir[2] * quotient
           z == DepthCueValue(g, quotient)
<1>3. x \in Accumulators /\ y \in Accumulators /\ z \in Accumulators
  BY <1>2
<1> HIDE DEF x, y, z
<1>4. x \in Int /\ y \in Int /\ z \in Int
  BY <1>3, AccumulatorInt
<1> QED
  BY <1>4 DEF x, y, z

LEMMA OpFits ==
    ASSUME NEW g \in Gtes, NEW i \in Axes
    PROVE  OpValues(g)[i] \in Accumulators
<1> DEFINE d == [j \in Axes |-> g.matrix[0][j][j]]
<1>1. /\ 1 \in Axes /\ 2 \in Axes /\ 3 \in Axes /\ 0 \in 0..2 /\ 1 \in 0..3 /\ 2 \in 0..3
      /\ 3 \in 0..3 /\ (i = 1 \/ i = 2 \/ i = 3)
  BY SMT DEF Axes
<1>2. \A j \in Axes : d[j] \in Halves
  BY <1>1, Fields DEF Matrices, HalfVectors
<1>3. /\ g.ir[1] \in Halves /\ g.ir[2] \in Halves /\ g.ir[3] \in Halves
      /\ d[1] \in Halves /\ d[2] \in Halves /\ d[3] \in Halves
  BY <1>1, <1>2, IrHalf
<1>4. OpValues(g) = <<g.ir[3] * d[2] - g.ir[2] * d[3], g.ir[1] * d[3] - g.ir[3] * d[1],
                      g.ir[2] * d[1] - g.ir[1] * d[2]>>
  BY DEF OpValues
<1> HIDE DEF d
<1>5. ASSUME NEW a \in Halves, NEW b \in Halves, NEW x \in Halves, NEW y \in Halves
      PROVE  a * b - x * y \in Accumulators
  BY HalfProduct, SMT DEF Accumulators, Between
<1> DEFINE p == g.ir[3] * d[2] - g.ir[2] * d[3]
           q == g.ir[1] * d[3] - g.ir[3] * d[1]
           r == g.ir[2] * d[1] - g.ir[1] * d[2]
<1>6. p \in Accumulators /\ q \in Accumulators /\ r \in Accumulators
  BY <1>3, <1>5
<1>7. OpValues(g) = <<p, q, r>>
  BY <1>4
<1> HIDE DEF p, q, r
<1> QED
  BY <1>1, <1>6, <1>7, SMT

LEMMA ProductsFit ==
    ASSUME NEW g \in Gtes, NEW i \in Axes, NEW sf \in BOOLEAN
    PROVE  /\ SqrValues(g)[i] \in Accumulators
           /\ GpfValues(g)[i] \in Accumulators
           /\ GplValues(g, sf)[i] \in Accumulators
<1>1. i \in 0..3 /\ 0 \in 0..3
  BY SMT DEF Axes
<1>2. g.ir[i] \in Halves /\ g.ir[0] \in Halves
  BY <1>1, IrHalf
<1> DEFINE p == g.ir[i] * g.ir[i]  q == g.ir[i] * g.ir[0]
           m == IF sf THEN 4096 * g.mac[i] ELSE g.mac[i]
<1>3. /\ p \in Int /\ -1073741824 <= p /\ p <= 1073741824
      /\ q \in Int /\ -1073741824 <= q /\ q <= 1073741824
  BY <1>2, HalfProduct
<1>4. g.mac[i] \in Int /\ -2147483648 <= g.mac[i] /\ g.mac[i] <= 2147483647
  BY <1>1, Fields, WordInt
<1>5. m \in Int /\ -8796093022208 <= m /\ m <= 8796093022208
  BY <1>4, SMT
<1>6. SqrValues(g)[i] = p /\ GpfValues(g)[i] = q /\ GplValues(g, sf)[i] = m + q
  BY DEF SqrValues, GpfValues, GplValues
<1> HIDE DEF p, q, m
<1> QED
  BY <1>3, <1>5, <1>6, SMT DEF Accumulators, Between

\* What the colours are mixed from, and mixed.
LEMMA BasesFit ==
    ASSUME NEW g \in Gtes
    PROVE  /\ Product(g) \in [Axes -> Bases]
           /\ Scaled(g.rgbc.rgb, 65536) \in [Axes -> Bases]
           /\ Scaled(g.rgb[0].rgb, 65536) \in [Axes -> Bases]
           /\ Scaled(IrVector(g), 4096) \in [Axes -> Bases]
<1>1. ASSUME NEW n \in Bytes PROVE 65536 * n \in Bases
  BY ByteInt, SMT DEF Bases, Between
<1>2. ASSUME NEW n \in Bytes, NEW x \in Halves PROVE 16 * (n * x) \in Bases
  <2>1. n \in Int /\ 0 <= n /\ n <= 255 /\ x \in Int /\ -32768 <= x /\ x <= 32767
    BY ByteInt, HalfInt
  <2>2. -32768 * n <= n * x /\ n * x <= 32767 * n
    BY <2>1, SMT
  <2>3. n * x \in Int
    BY <2>1, SMT
  <2> QED
    BY <2>1, <2>2, <2>3, SMT DEF Bases, Between
<1>3. ASSUME NEW x \in Halves PROVE 4096 * x \in Bases
  BY HalfInt, SMT DEF Bases, Between
<1>4. /\ \A i \in Axes : g.rgbc.rgb[i] \in Bytes /\ g.rgb[0].rgb[i] \in Bytes
      /\ \A i \in Axes : g.ir[i] \in Halves /\ IrVector(g)[i] \in Halves
  <2>1. g.rgbc \in Colours /\ g.rgb[0] \in Colours
    BY Fields, SMT
  <2> QED
    BY <2>1, IrVectorType DEF Colours
<1> QED
  BY <1>1, <1>2, <1>3, <1>4 DEF Product, Scaled

LEMMA MixFits ==
    ASSUME NEW g \in Gtes, NEW i \in Axes, NEW base \in Bases
    PROVE  /\ FarDelta(g, i, base) \in Accumulators
           /\ MixedValue(g, i, base) \in Accumulators
<1>1. i \in 0..3 /\ 0 \in 0..3 /\ 2 \in 0..2
  BY SMT DEF Axes
<1> DEFINE p == g.ir[i] * g.ir[0]
<1>2. p \in Int /\ -1073741824 <= p /\ p <= 1073741824
  BY <1>1, IrHalf, HalfProduct
<1>3. /\ g.vector[2][i] \in Int
      /\ -2147483648 <= g.vector[2][i] /\ g.vector[2][i] <= 2147483647
  BY <1>1, VectorRow, WordInt
<1>4. base \in Int /\ -134217728 <= base /\ base <= 134217728
  BY SMT DEF Bases, Between
<1>5. MixedValue(g, i, base) = base + p /\ FarDelta(g, i, base) = 4096 * g.vector[2][i] - base
  BY DEF MixedValue, FarDelta
<1> HIDE DEF p
<1> QED
  BY <1>2, <1>3, <1>4, <1>5, SMT DEF Accumulators, Between

-----------------------------------------------------------------------------
(* What each command leaves in the registers.                              *)

LEMMA KeptType ==
    ASSUME NEW g, NEW r, KeepsRows(g, r)
    PROVE  r \in Registers
BY DEF KeepsRows

LEMMA RaiseIfKeeps ==
    ASSUME NEW g \in Registers, NEW c \in BOOLEAN, NEW b \in Writable
    PROVE  KeepsRows(g, RaiseIf(g, c, b))
<1> DEFINE r == RaiseIf(g, c, b)
<1>1. r \in Registers /\ r = [g EXCEPT !.flag = r.flag] /\ g.flag \subseteq r.flag
  BY RaiseIfType
<1> HIDE DEF r
<1>2. r.ir = g.ir /\ r.mac = g.mac
  BY <1>1, SMT DEF Registers, Gtes
<1> QED
  BY <1>1, <1>2 DEF KeepsRows, r

LEMMA AverageZType ==
    ASSUME NEW g \in Registers, NEW x \in Int
    PROVE  AverageZ(g, x) \in Registers
<1> DEFINE average == x \div 4096
           c == average \notin UHalves
           m == SetMac0(g, x)
           r == RaiseIf(m, c, "OTZ_SAT")
<1>1. average \in Int
  BY DivBounds, SMT
<1>2. c \in BOOLEAN /\ "OTZ_SAT" \in Writable
  BY DEF Writable, Summary
<1>3. m \in Registers
  BY SetMac0Type
<1>4. AverageZ(g, x) = [r EXCEPT !.otz = Clamp(average, 0, 65535)]
  BY DEF AverageZ
<1>5. Clamp(average, 0, 65535) \in UHalves
  BY <1>1, SMT DEF Clamp, UHalves, Between
<1> HIDE DEF c, m, average
<1>6. r \in Registers
  BY <1>2, <1>3, RaiseIfType
<1> HIDE DEF r
<1> QED
  BY <1>4, <1>5, <1>6, SMT DEF Registers, Gtes

LEMMA ProjectKeeps ==
    ASSUME NEW g \in Registers, NEW quotient \in Int, 0 <= quotient, quotient <= 131071
    PROVE  KeepsRows(g, Project(g, quotient))
<1> DEFINE x == ScreenX(g, quotient)
           y == ScreenY(g, quotient)
           c == x \notin Between(-1024, 1023)
           c2 == y \notin Between(-1024, 1023)
           point == [x |-> Clamp(x, -1024, 1023), y |-> Clamp(y, -1024, 1023)]
           r == RaiseIf(g, c, "SX2_SAT")
           s == RaiseIf(r, c2, "SY2_SAT")
<1>2. x \in Int /\ y \in Int
  <2>1. /\ g.ofx + g.ir[1] * quotient \in Int
        /\ g.ofy + g.ir[2] * quotient \in Int
    BY ScreenInt
  <2> QED
    BY <2>1, DivBounds, SMT DEF ScreenX, ScreenY
<1>3. Project(g, quotient) = PushSxy(s, point)
  BY DEF Project
<1>4. c \in BOOLEAN /\ c2 \in BOOLEAN /\ "SX2_SAT" \in Writable /\ "SY2_SAT" \in Writable
  BY DEF Writable, Summary
<1> HIDE DEF x, y, c, c2
<1>5. point \in ScreenPoints
  <2>1. /\ Clamp(x, -1024, 1023) \in Halves
        /\ Clamp(y, -1024, 1023) \in Halves
    BY <1>2, SMT DEF Clamp, Halves, Between
  <2> QED
    BY <2>1 DEF ScreenPoints
<1> HIDE DEF point
<1>6. KeepsRows(g, r) /\ r \in Registers
  BY <1>4, RaiseIfKeeps, KeptType
<1> HIDE DEF r
<1>7. KeepsRows(r, s) /\ s \in Registers
  BY <1>4, <1>6, RaiseIfKeeps, KeptType
<1> HIDE DEF s
<1>8. KeepsRows(s, PushSxy(s, point))
  BY <1>5, <1>7, PushSxyKeeps
<1> QED
  BY <1>3, <1>6, <1>7, <1>8, RowsKept

LEMMA DepthCueKeeps ==
    ASSUME NEW g \in Registers, NEW x \in Int
    PROVE  KeepsRows(g, DepthCue(g, x))
<1> DEFINE m == SetMac0(g, x)
<1>1. KeepsRows(g, m) /\ m \in Registers
  BY SetMac0Keeps, KeptType
<1>2. x \div 4096 \in Int
  BY DivBounds, SMT
<1>3. KeepsRows(m, LimitIr0(m, x \div 4096))
  BY <1>1, <1>2, LimitIr0Keeps
<1> QED
  BY <1>1, <1>3, RowsKept DEF DepthCue

LEMMA DivideType ==
    ASSUME NEW h \in UHalves, NEW sz3 \in UHalves
    PROVE  Divide(h, sz3) \in Int /\ 0 <= Divide(h, sz3) /\ Divide(h, sz3) <= 131071
<1>1. CASE DivideOverflows(h, sz3)
  BY <1>1, SMT DEF Divide
<1>2. CASE ~DivideOverflows(h, sz3)
  <2> DEFINE s == ScaleOf(sz3)
  <2>1. h \in Int /\ 0 <= h /\ sz3 \in Int /\ 0 < sz3 /\ h < sz3 * 2
    BY <1>2, UHalfInt, SMT DEF DivideOverflows
  <2>2. s \in Int /\ 1 <= s /\ 32768 <= sz3 * s /\ sz3 * s <= 65535
    <3>1. s \in Scales /\ 32768 <= sz3 * s /\ sz3 * s <= 65535
      BY <2>1, ScaleFits, SMT
    <3> HIDE DEF s
    <3> QED
      BY <3>1, SMT DEF Scales
  <2>3. Divide(h, sz3) = Quotient(h * s, sz3 * s)
    BY <1>2 DEF Divide
  <2> HIDE DEF s
  <2>4. h * s \in Int /\ sz3 * s \in Int /\ 0 <= h * s /\ h * s < 2 * (sz3 * s)
    BY <2>1, <2>2, SMT
  <2> QED
    BY <2>2, <2>3, <2>4, QuotientBounds
<1> QED
  BY <1>1, <1>2

LEMMA DivideOverflowsType ==
    ASSUME NEW h, NEW sz3
    PROVE  DivideOverflows(h, sz3) \in BOOLEAN
BY DEF DivideOverflows

LEMMA RotatedType ==
    ASSUME NEW g \in Registers, NEW k \in 0..2, NEW sf \in BOOLEAN
    PROVE  Rotated(g, k, sf) \in [Axes -> Int]
<1>1. ASSUME NEW i \in Axes PROVE Shift(RotatedValue(g, k, i), sf) \in Int
  <2>1. RotatedValue(g, k, i) \in Int
    BY RotatedFits, AccumulatorInt DEF Registers
  <2> QED
    BY <2>1, ShiftType
<1> QED
  BY <1>1 DEF Rotated

\* r is in the registers, its rows exact if they must be.
Done(r, exact) == r \in Registers /\ (exact => Exact(r))

LEMMA DoneKept ==
    ASSUME NEW g, NEW r, NEW exact, Done(g, exact), KeepsRows(g, r)
    PROVE  Done(r, exact)
BY ExactKept DEF Done, KeepsRows

LEMMA TransformVertexType ==
    ASSUME NEW g \in Registers, NEW k \in 0..2, NEW sf \in BOOLEAN, NEW lm \in BOOLEAN
    PROVE  Done(TransformVertex(g, k, sf, lm), sf)
<1> DEFINE x == Rotated(g, k, sf)
           set == SetRows(g, x, lm, sf)
           depth == IF sf THEN x[3] ELSE x[3] \div 4096
           rotated == PushSz(set, depth)
           quotient == Divide(rotated.h, rotated.sz[3])
           overflows == DivideOverflows(rotated.h, rotated.sz[3])
           divided == RaiseIf(rotated, overflows, "DIV_OVERFLOW")
           projected == Project(divided, quotient)
           value == DepthCueValue(projected, quotient)
<1>1. TransformVertex(g, k, sf, lm) = DepthCue(projected, value)
  BY DEF TransformVertex
<1>2. x \in [Axes -> Int]
  BY RotatedType
<1> HIDE DEF x
<1>3. Done(set, sf) /\ set \in Registers
  BY <1>2, SetRowsType DEF Done
<1> HIDE DEF set
<1>4. depth \in Int
  <2>1. x[3] \in Int
    BY <1>2, SMT DEF Axes
  <2> QED
    BY <2>1, DivBounds, SMT
<1> HIDE DEF depth
<1>5. KeepsRows(set, rotated) /\ rotated \in Registers
  BY <1>3, <1>4, PushSzKeeps, KeptType
<1> HIDE DEF rotated
<1>6. rotated.h \in UHalves /\ rotated.sz[3] \in UHalves
  BY <1>5, Fields, SMT DEF Registers
<1>7. quotient \in Int /\ 0 <= quotient /\ quotient <= 131071
  BY <1>6, DivideType
<1> HIDE DEF quotient
<1>8. overflows \in BOOLEAN /\ "DIV_OVERFLOW" \in Writable
  BY DivideOverflowsType DEF Writable, Summary
<1> HIDE DEF overflows
<1>9. KeepsRows(rotated, divided) /\ divided \in Registers
  BY <1>5, <1>8, RaiseIfKeeps, KeptType
<1> HIDE DEF divided
<1>10. KeepsRows(divided, projected) /\ projected \in Registers
  BY <1>7, <1>9, ProjectKeeps, KeptType
<1> HIDE DEF projected
<1>11. value \in Int
  BY <1>7, <1>10, ScreenInt
<1> HIDE DEF value
<1>12. KeepsRows(projected, DepthCue(projected, value))
  BY <1>10, <1>11, DepthCueKeeps
<1> QED
  BY <1>1, <1>3, <1>5, <1>9, <1>10, <1>12, RowsKept, DoneKept

LEMMA SetColourType ==
    ASSUME NEW g \in Registers, NEW x \in [Axes -> Int], NEW lm \in BOOLEAN
    PROVE  Done(SetColour(g, x, lm), TRUE)
<1> DEFINE r == SetRows(g, x, lm, TRUE)
<1>1. Done(r, TRUE) /\ r \in Registers
  BY SetRowsType DEF Done
<1> HIDE DEF r
<1>2. KeepsRows(r, PushColour(r, x))
  BY <1>1, PushColourKeeps
<1>3. SetColour(g, x, lm) = PushColour(r, x)
  BY DEF SetColour, r
<1> QED
  BY <1>1, <1>2, <1>3, DoneKept

LEMMA LimitIrKept ==
    ASSUME NEW g \in Registers, NEW i \in Axes, NEW x \in Int,
           NEW lm \in BOOLEAN, NEW sf \in BOOLEAN
    PROVE  LimitIr(g, i, x, lm, sf) \in Registers
<1> DEFINE r == LimitIr(g, i, x, lm, sf)
<1>1. /\ r \in Registers
      /\ r.mac = g.mac
      /\ \A j \in Axes \ {i} : r.ir[j] = g.ir[j]
      /\ g.flag \subseteq r.flag
      /\ sf /\ IrSat[i] \notin r.flag => r.ir[i] = x /\ -32768 <= x /\ x <= 32767
  BY LimitIrType
<1> QED
  BY <1>1

LEMMA MixType ==
    ASSUME NEW g \in Registers, NEW i \in Axes, NEW base \in Bases, NEW sf \in BOOLEAN
    PROVE  Mix(g, i, base, sf) \in Registers
<1> DEFINE m == SetMac(g, i, base)
           x == Shift(FarDelta(g, i, base), sf)
           moved == LimitIr(m, i, x, FALSE, TRUE)
           v == MixedValue(moved, i, base)
<1>1. base \in Int
  BY AccumulatorInt
<1>2. m \in Registers
  BY <1>1, SetMacType
<1> HIDE DEF m
<1>3. x \in Int
  <2>1. FarDelta(g, i, base) \in Int
    BY MixFits, AccumulatorInt DEF Registers
  <2> QED
    BY <2>1, ShiftType
<1> HIDE DEF x
<1>4. moved \in Registers
  <2>1. LimitIr(m, i, x, FALSE, TRUE) \in Registers
    BY <1>2, <1>3, LimitIrKept
  <2> QED
    BY <2>1
<1>5. Mix(g, i, base, sf) = SetMac(moved, i, v)
  BY DEF Mix, m, x
<1> HIDE DEF moved
<1>6. v \in Int
  BY <1>4, MixFits, AccumulatorInt DEF Registers
<1> HIDE DEF v
<1> QED
  BY <1>4, <1>5, <1>6, SetMacType

LEMMA InterpolateType ==
    ASSUME NEW g \in Registers, NEW base \in [Axes -> Bases],
           NEW sf \in BOOLEAN, NEW lm \in BOOLEAN
    PROVE  Done(InterpolateFarColour(g, base, sf, lm), TRUE)
<1> DEFINE a == Mix(g, 1, base[1], sf)
           b == Mix(a, 2, base[2], sf)
           mixed == Mix(b, 3, base[3], sf)
           x == [i \in Axes |-> Shift(MixedValue(mixed, i, base[i]), sf)]
<1>1. 1 \in Axes /\ 2 \in Axes /\ 3 \in Axes
  BY SMT DEF Axes
<1>2. \A i \in Axes : base[i] \in Bases
  OBVIOUS
<1>3. base[1] \in Bases /\ base[2] \in Bases /\ base[3] \in Bases
  BY <1>1, <1>2
<1>4. InterpolateFarColour(g, base, sf, lm) = SetColour(mixed, x, lm)
  BY DEF InterpolateFarColour
<1>5. a \in Registers
  BY <1>1, <1>3, MixType
<1> HIDE DEF a
<1>6. b \in Registers
  BY <1>1, <1>3, <1>5, MixType
<1> HIDE DEF b
<1>7. mixed \in Registers
  BY <1>1, <1>3, <1>6, MixType
<1> HIDE DEF mixed
<1>8. x \in [Axes -> Int]
  <2>1. ASSUME NEW i \in Axes PROVE Shift(MixedValue(mixed, i, base[i]), sf) \in Int
    <3>1. MixedValue(mixed, i, base[i]) \in Int
      BY <1>2, <1>7, MixFits, AccumulatorInt DEF Registers
    <3> QED
      BY <3>1, ShiftType
  <2> QED
    BY <2>1
<1> HIDE DEF x
<1> QED
  BY <1>4, <1>7, <1>8, SetColourType

LEMMA LightSourceType ==
    ASSUME NEW g \in Registers, NEW k \in 0..2, NEW sf \in BOOLEAN, NEW lm \in BOOLEAN
    PROVE  LightSource(g, k, sf, lm) \in Registers
<1> DEFINE x == [i \in Axes |-> Shift(LightValue(g, k, i), sf)]
<1>1. x \in [Axes -> Int]
  <2>1. ASSUME NEW i \in Axes PROVE Shift(LightValue(g, k, i), sf) \in Int
    <3>1. LightValue(g, k, i) \in Int
      BY RotatedFits, AccumulatorInt DEF Registers
    <3> QED
      BY <3>1, ShiftType
  <2> QED
    BY <2>1
<1>2. LightSource(g, k, sf, lm) = SetRows(g, x, lm, TRUE)
  BY DEF LightSource
<1> HIDE DEF x
<1> QED
  BY <1>1, <1>2, SetRowsType

LEMMA LightColourValuesType ==
    ASSUME NEW g \in Registers, NEW sf \in BOOLEAN
    PROVE  LightColourValues(g, sf) \in [Axes -> Int]
<1>1. ASSUME NEW i \in Axes PROVE Shift(LightColourValue(g, i), sf) \in Int
  <2>1. 0 \in 0..2
    BY SMT
  <2>2. LightColourValue(g, i) \in Int
    BY <2>1, RotatedFits, AccumulatorInt DEF Registers
  <2> QED
    BY <2>2, ShiftType
<1> QED
  BY <1>1 DEF LightColourValues

LEMMA LightColourType ==
    ASSUME NEW g \in Registers, NEW sf \in BOOLEAN, NEW lm \in BOOLEAN
    PROVE  LightColour(g, sf, lm) \in Registers
BY LightColourValuesType, SetRowsType DEF LightColour

LEMMA ColourProductType ==
    ASSUME NEW g \in Registers, NEW sf \in BOOLEAN, NEW lm \in BOOLEAN
    PROVE  /\ Done(ColourProduct(g, sf, lm), TRUE)
           /\ Done(CuedProduct(g, sf, lm), TRUE)
<1> DEFINE x == Product(g)
           m == SetMacs(g, x)
<1>1. x \in [Axes -> Bases]
  BY BasesFit DEF Registers
<1>2. ColourProduct(g, sf, lm) = SetColour(m, ShiftAll(x, sf), lm)
  BY DEF ColourProduct
<1>3. CuedProduct(g, sf, lm) = InterpolateFarColour(m, x, sf, lm)
  BY DEF CuedProduct
<1> HIDE DEF x
<1>4. x \in [Axes -> Int]
  BY <1>1, AccumulatorInt
<1>5. m \in Registers
  BY <1>4, SetMacsType
<1> HIDE DEF m
<1>6. ShiftAll(x, sf) \in [Axes -> Int]
  BY <1>4, ShiftAllType
<1>7. Done(SetColour(m, ShiftAll(x, sf), lm), TRUE)
  BY <1>5, <1>6, SetColourType
<1>8. Done(InterpolateFarColour(m, x, sf, lm), TRUE)
  BY <1>1, <1>5, InterpolateType
<1> QED
  BY <1>2, <1>3, <1>7, <1>8

LEMMA NormalColourType ==
    ASSUME NEW g \in Registers, NEW k \in 0..2, NEW sf \in BOOLEAN, NEW lm \in BOOLEAN
    PROVE  /\ Done(NormalColour(g, k, sf, lm), TRUE)
           /\ Done(NormalColourProduct(g, k, sf, lm), TRUE)
           /\ Done(NormalCuedProduct(g, k, sf, lm), TRUE)
<1> DEFINE lit == LightSource(g, k, sf, lm)
           coloured == LightColour(lit, sf, lm)
           x == LightColourValues(lit, sf)
<1>1. lit \in Registers
  BY LightSourceType
<1>2. /\ NormalColour(g, k, sf, lm) = SetColour(lit, x, lm)
      /\ NormalColourProduct(g, k, sf, lm) = ColourProduct(coloured, sf, lm)
      /\ NormalCuedProduct(g, k, sf, lm) = CuedProduct(coloured, sf, lm)
  BY DEF NormalColour, NormalColourProduct, NormalCuedProduct
<1> HIDE DEF lit
<1>3. coloured \in Registers
  BY <1>1, LightColourType
<1>4. x \in [Axes -> Int]
  BY <1>1, LightColourValuesType
<1> HIDE DEF coloured, x
<1>5. Done(SetColour(lit, x, lm), TRUE)
  BY <1>1, <1>4, SetColourType
<1>6. /\ Done(ColourProduct(coloured, sf, lm), TRUE)
      /\ Done(CuedProduct(coloured, sf, lm), TRUE)
  BY <1>3, ColourProductType
<1> QED
  BY <1>2, <1>5, <1>6

LEMMA CueFifoType ==
    ASSUME NEW g \in Registers, NEW sf \in BOOLEAN, NEW lm \in BOOLEAN
    PROVE  Done(CueFifo(g, sf, lm), TRUE)
<1> DEFINE base == Scaled(g.rgb[0].rgb, 65536)
<1>1. base \in [Axes -> Bases]
  BY BasesFit DEF Registers
<1>2. CueFifo(g, sf, lm) = InterpolateFarColour(g, base, sf, lm)
  BY DEF CueFifo
<1> HIDE DEF base
<1> QED
  BY <1>1, <1>2, InterpolateType

LEMMA CueType ==
    ASSUME NEW g \in Registers, NEW sf \in BOOLEAN, NEW lm \in BOOLEAN
    PROVE  Done(CueColour(g, sf, lm), TRUE) /\ Done(CueIr(g, sf, lm), TRUE)
<1> DEFINE x == Scaled(g.rgbc.rgb, 65536)
           y == Scaled(IrVector(g), 4096)
<1>1. x \in [Axes -> Bases] /\ y \in [Axes -> Bases]
  BY BasesFit DEF Registers
<1>2. /\ CueColour(g, sf, lm) = InterpolateFarColour(g, x, sf, lm)
      /\ CueIr(g, sf, lm) = InterpolateFarColour(g, y, sf, lm)
  BY DEF CueColour, CueIr
<1> HIDE DEF x, y
<1> QED
  BY <1>1, <1>2, InterpolateType

LEMMA DoneType ==
    ASSUME NEW r, NEW exact, Done(r, exact)
    PROVE  r \in Registers
BY DEF Done

\* The commands that do the same for each of three vertices.
LEMMA ThriceType ==
    ASSUME NEW g \in Registers, NEW sf \in BOOLEAN, NEW lm \in BOOLEAN
    PROVE  /\ Done(TransformVertex(TransformVertex(TransformVertex(
                       g, 0, sf, lm), 1, sf, lm), 2, sf, lm), sf)
           /\ Done(NormalColour(NormalColour(NormalColour(
                       g, 0, sf, lm), 1, sf, lm), 2, sf, lm), TRUE)
           /\ Done(NormalColourProduct(NormalColourProduct(NormalColourProduct(
                       g, 0, sf, lm), 1, sf, lm), 2, sf, lm), TRUE)
           /\ Done(NormalCuedProduct(NormalCuedProduct(NormalCuedProduct(
                       g, 0, sf, lm), 1, sf, lm), 2, sf, lm), TRUE)
           /\ Done(CueFifo(CueFifo(CueFifo(g, sf, lm), sf, lm), sf, lm), TRUE)
<1>0. 0 \in 0..2 /\ 1 \in 0..2 /\ 2 \in 0..2
  BY SMT
<1>1. Done(TransformVertex(TransformVertex(TransformVertex(
               g, 0, sf, lm), 1, sf, lm), 2, sf, lm), sf)
  BY <1>0, TransformVertexType, DoneType
<1>2. Done(NormalColour(NormalColour(NormalColour(
               g, 0, sf, lm), 1, sf, lm), 2, sf, lm), TRUE)
  BY <1>0, NormalColourType, DoneType
<1>3. Done(NormalColourProduct(NormalColourProduct(NormalColourProduct(
               g, 0, sf, lm), 1, sf, lm), 2, sf, lm), TRUE)
  BY <1>0, NormalColourType, DoneType
<1>4. Done(NormalCuedProduct(NormalCuedProduct(NormalCuedProduct(
               g, 0, sf, lm), 1, sf, lm), 2, sf, lm), TRUE)
  BY <1>0, NormalColourType, DoneType
<1>5. Done(CueFifo(CueFifo(CueFifo(g, sf, lm), sf, lm), sf, lm), TRUE)
  BY CueFifoType, DoneType
<1> QED
  BY <1>1, <1>2, <1>3, <1>4, <1>5

LEMMA SetRowsDone ==
    ASSUME NEW g \in Registers, NEW x \in [Axes -> Int],
           NEW lm \in BOOLEAN, NEW sf \in BOOLEAN
    PROVE  Done(SetRows(g, x, lm, sf), sf)
BY SetRowsType DEF Done

LEMMA ValuesType ==
    ASSUME NEW g \in Gtes, NEW sf \in BOOLEAN
    PROVE  /\ OpValues(g) \in [Axes -> Int] /\ SqrValues(g) \in [Axes -> Int]
           /\ GpfValues(g) \in [Axes -> Int] /\ GplValues(g, sf) \in [Axes -> Int]
<1>1. \A i \in Axes : /\ OpValues(g)[i] \in Int /\ SqrValues(g)[i] \in Int
                      /\ GpfValues(g)[i] \in Int /\ GplValues(g, sf)[i] \in Int
  <2>1. TAKE i \in Axes
  <2>2. OpValues(g)[i] \in Accumulators
    BY OpFits
  <2>3. /\ SqrValues(g)[i] \in Accumulators /\ GpfValues(g)[i] \in Accumulators
        /\ GplValues(g, sf)[i] \in Accumulators
    BY ProductsFit
  <2> QED
    BY <2>2, <2>3, AccumulatorInt
<1>2. /\ SqrValues(g) = [i \in Axes |-> SqrValues(g)[i]]
      /\ GpfValues(g) = [i \in Axes |-> GpfValues(g)[i]]
      /\ GplValues(g, sf) = [i \in Axes |-> GplValues(g, sf)[i]]
  BY DEF SqrValues, GpfValues, GplValues
<1>3. OpValues(g) = [i \in Axes |-> OpValues(g)[i]]
  BY SMT DEF OpValues, Axes
<1> HIDE DEF OpValues, SqrValues, GpfValues, GplValues
<1> QED
  BY <1>1, <1>2, <1>3

LEMMA MvmvaType ==
    ASSUME NEW g \in Gtes, NEW c \in Commands
    PROVE  MvmvaValues(g, c) \in [Axes -> Int]
<1>1. c.mx \in 0..3 /\ c.v \in 0..3 /\ c.cv \in 0..3 /\ c.sf \in BOOLEAN
  BY DEF Commands
<1>2. ASSUME NEW i \in Axes PROVE Shift(MvmvaValue(g, c.mx, c.v, c.cv, i), c.sf) \in Int
  <2>1. MvmvaValue(g, c.mx, c.v, c.cv, i) \in Int
    BY <1>1, MvmvaFits, AccumulatorInt
  <2> QED
    BY <1>1, <2>1, ShiftType
<1> QED
  BY <1>2 DEF MvmvaValues

\* What can be said of any command's result.
LEMMA ResultType ==
    ASSUME NEW g \in Registers, NEW c \in Commands
    PROVE  Done(Result(g, c), /\ c.name \notin ScreenCommands
                              /\ c.name \in RotatingCommands => c.sf)
<1> DEFINE sf == c.sf
           lm == c.lm
           exact == /\ c.name \notin ScreenCommands
                    /\ c.name \in RotatingCommands => c.sf
<1>0. sf \in BOOLEAN /\ lm \in BOOLEAN /\ c.name \in DOMAIN Cycles
  BY DEF Commands
<1>1. 0 \in 0..2 /\ 1 \in 0..2 /\ 2 \in 0..2
  BY SMT
<1>2. g \in Gtes
  BY DEF Registers
<1>3. /\ OpValues(g) \in [Axes -> Int] /\ SqrValues(g) \in [Axes -> Int]
      /\ GpfValues(g) \in [Axes -> Int] /\ GplValues(g, sf) \in [Axes -> Int]
  BY <1>0, <1>2, ValuesType
<1>4. MvmvaValues(g, c) \in [Axes -> Int]
  BY <1>2, MvmvaType
<1>5. /\ Done(Nclip(g), FALSE) /\ Done(AverageZ(g, Avsz3Value(g)), FALSE)
      /\ Done(AverageZ(g, Avsz4Value(g)), FALSE)
  <2>1. NclipValue(g) \in Int /\ Avsz3Value(g) \in Int /\ Avsz4Value(g) \in Int
    BY <1>2, NclipFits, AverageFits, AccumulatorInt
  <2> QED
    BY <2>1, SetMac0Type, AverageZType DEF Nclip, Done
<1>6. CASE c.name = "RTPS"
  <2>1. Result(g, c) = TransformVertex(g, 0, sf, lm)
    BY <1>6, SMT DEF Result
  <2>2. Done(TransformVertex(g, 0, sf, lm), sf)
    BY <1>0, <1>1, TransformVertexType
  <2>3. exact => sf
    BY <1>6 DEF ScreenCommands, RotatingCommands
  <2> QED
    BY <2>1, <2>2, <2>3 DEF Done
<1>7. CASE c.name = "RTPT"
  <2>1. Result(g, c) = TransformVertex(TransformVertex(TransformVertex(g, 0, sf, lm), 1, sf, lm), 2, sf, lm)
    BY <1>7, SMT DEF Result
  <2>2. Done(TransformVertex(TransformVertex(TransformVertex(g, 0, sf, lm), 1, sf, lm), 2, sf, lm), sf)
    BY <1>0, ThriceType
  <2>3. exact => sf
    BY <1>7 DEF ScreenCommands, RotatingCommands
  <2> QED
    BY <2>1, <2>2, <2>3 DEF Done
<1>8. CASE c.name = "DPCT"
  <2>1. Result(g, c) = CueFifo(CueFifo(CueFifo(g, sf, lm), sf, lm), sf, lm)
    BY <1>8, SMT DEF Result
  <2>2. Done(CueFifo(CueFifo(CueFifo(g, sf, lm), sf, lm), sf, lm), TRUE)
    BY <1>0, ThriceType
  <2>3. exact => TRUE
    BY <1>8 DEF ScreenCommands, RotatingCommands
  <2> QED
    BY <2>1, <2>2, <2>3 DEF Done
<1>9. CASE c.name = "DCPL"
  <2>1. Result(g, c) = CuedProduct(g, sf, lm)
    BY <1>9, SMT DEF Result
  <2>2. Done(CuedProduct(g, sf, lm), TRUE)
    BY <1>0, ColourProductType
  <2>3. exact => TRUE
    BY <1>9 DEF ScreenCommands, RotatingCommands
  <2> QED
    BY <2>1, <2>2, <2>3 DEF Done
<1>10. CASE c.name = "CC"
  <2>1. Result(g, c) = ColourProduct(LightColour(g, sf, lm), sf, lm)
    BY <1>10, SMT DEF Result
  <2>2. Done(ColourProduct(LightColour(g, sf, lm), sf, lm), TRUE)
    BY <1>0, LightColourType, ColourProductType
  <2>3. exact => TRUE
    BY <1>10 DEF ScreenCommands, RotatingCommands
  <2> QED
    BY <2>1, <2>2, <2>3 DEF Done
<1>11. CASE c.name = "CDP"
  <2>1. Result(g, c) = CuedProduct(LightColour(g, sf, lm), sf, lm)
    BY <1>11, SMT DEF Result
  <2>2. Done(CuedProduct(LightColour(g, sf, lm), sf, lm), TRUE)
    BY <1>0, LightColourType, ColourProductType
  <2>3. exact => TRUE
    BY <1>11 DEF ScreenCommands, RotatingCommands
  <2> QED
    BY <2>1, <2>2, <2>3 DEF Done
<1>12. CASE c.name = "NCS"
  <2>1. Result(g, c) = NormalColour(g, 0, sf, lm)
    BY <1>12, SMT DEF Result
  <2>2. Done(NormalColour(g, 0, sf, lm), TRUE)
    BY <1>0, <1>1, NormalColourType
  <2>3. exact => TRUE
    BY <1>12 DEF ScreenCommands, RotatingCommands
  <2> QED
    BY <2>1, <2>2, <2>3 DEF Done
<1>13. CASE c.name = "NCT"
  <2>1. Result(g, c) = NormalColour(NormalColour(NormalColour(g, 0, sf, lm), 1, sf, lm), 2, sf, lm)
    BY <1>13, SMT DEF Result
  <2>2. Done(NormalColour(NormalColour(NormalColour(g, 0, sf, lm), 1, sf, lm), 2, sf, lm), TRUE)
    BY <1>0, ThriceType
  <2>3. exact => TRUE
    BY <1>13 DEF ScreenCommands, RotatingCommands
  <2> QED
    BY <2>1, <2>2, <2>3 DEF Done
<1>14. CASE c.name = "NCCS"
  <2>1. Result(g, c) = NormalColourProduct(g, 0, sf, lm)
    BY <1>14, SMT DEF Result
  <2>2. Done(NormalColourProduct(g, 0, sf, lm), TRUE)
    BY <1>0, <1>1, NormalColourType
  <2>3. exact => TRUE
    BY <1>14 DEF ScreenCommands, RotatingCommands
  <2> QED
    BY <2>1, <2>2, <2>3 DEF Done
<1>15. CASE c.name = "NCCT"
  <2>1. Result(g, c) = NormalColourProduct(NormalColourProduct(NormalColourProduct(
                      g, 0, sf, lm), 1, sf, lm), 2, sf, lm)
    BY <1>15, SMT DEF Result
  <2>2. Done(NormalColourProduct(NormalColourProduct(NormalColourProduct(
                      g, 0, sf, lm), 1, sf, lm), 2, sf, lm), TRUE)
    BY <1>0, ThriceType
  <2>3. exact => TRUE
    BY <1>15 DEF ScreenCommands, RotatingCommands
  <2> QED
    BY <2>1, <2>2, <2>3 DEF Done
<1>16. CASE c.name = "NCDS"
  <2>1. Result(g, c) = NormalCuedProduct(g, 0, sf, lm)
    BY <1>16, SMT DEF Result
  <2>2. Done(NormalCuedProduct(g, 0, sf, lm), TRUE)
    BY <1>0, <1>1, NormalColourType
  <2>3. exact => TRUE
    BY <1>16 DEF ScreenCommands, RotatingCommands
  <2> QED
    BY <2>1, <2>2, <2>3 DEF Done
<1>17. CASE c.name = "NCDT"
  <2>1. Result(g, c) = NormalCuedProduct(NormalCuedProduct(NormalCuedProduct(
                      g, 0, sf, lm), 1, sf, lm), 2, sf, lm)
    BY <1>17, SMT DEF Result
  <2>2. Done(NormalCuedProduct(NormalCuedProduct(NormalCuedProduct(
                      g, 0, sf, lm), 1, sf, lm), 2, sf, lm), TRUE)
    BY <1>0, ThriceType
  <2>3. exact => TRUE
    BY <1>17 DEF ScreenCommands, RotatingCommands
  <2> QED
    BY <2>1, <2>2, <2>3 DEF Done
<1>18. CASE c.name = "DPCS"
  <2>1. Result(g, c) = CueColour(g, sf, lm)
    BY <1>18, SMT DEF Result
  <2>2. Done(CueColour(g, sf, lm), TRUE)
    BY <1>0, CueType
  <2>3. exact => TRUE
    BY <1>18 DEF ScreenCommands, RotatingCommands
  <2> QED
    BY <2>1, <2>2, <2>3 DEF Done
<1>19. CASE c.name = "INTPL"
  <2>1. Result(g, c) = CueIr(g, sf, lm)
    BY <1>19, SMT DEF Result
  <2>2. Done(CueIr(g, sf, lm), TRUE)
    BY <1>0, CueType
  <2>3. exact => TRUE
    BY <1>19 DEF ScreenCommands, RotatingCommands
  <2> QED
    BY <2>1, <2>2, <2>3 DEF Done
<1>20. CASE c.name = "GPF"
  <2>1. Result(g, c) = SetColour(g, ShiftAll(GpfValues(g), sf), lm)
    BY <1>20, SMT DEF Result
  <2>2. Done(SetColour(g, ShiftAll(GpfValues(g), sf), lm), TRUE)
    BY <1>0, <1>3, ShiftAllType, SetColourType
  <2>3. exact => TRUE
    BY <1>20 DEF ScreenCommands, RotatingCommands
  <2> QED
    BY <2>1, <2>2, <2>3 DEF Done
<1>21. CASE c.name = "GPL"
  <2>1. Result(g, c) = SetColour(g, ShiftAll(GplValues(g, sf), sf), lm)
    BY <1>21, SMT DEF Result
  <2>2. Done(SetColour(g, ShiftAll(GplValues(g, sf), sf), lm), TRUE)
    BY <1>0, <1>3, ShiftAllType, SetColourType
  <2>3. exact => TRUE
    BY <1>21 DEF ScreenCommands, RotatingCommands
  <2> QED
    BY <2>1, <2>2, <2>3 DEF Done
<1>22. CASE c.name = "OP"
  <2>1. Result(g, c) = SetRows(g, ShiftAll(OpValues(g), sf), lm, TRUE)
    BY <1>22, SMT DEF Result
  <2>2. Done(SetRows(g, ShiftAll(OpValues(g), sf), lm, TRUE), TRUE)
    BY <1>0, <1>3, ShiftAllType, SetRowsDone
  <2>3. exact => TRUE
    BY <1>22 DEF ScreenCommands, RotatingCommands
  <2> QED
    BY <2>1, <2>2, <2>3 DEF Done
<1>23. CASE c.name = "SQR"
  <2>1. Result(g, c) = SetRows(g, ShiftAll(SqrValues(g), sf), TRUE, TRUE)
    BY <1>23, SMT DEF Result
  <2>2. Done(SetRows(g, ShiftAll(SqrValues(g), sf), TRUE, TRUE), TRUE)
    BY <1>0, <1>3, ShiftAllType, SetRowsDone
  <2>3. exact => TRUE
    BY <1>23 DEF ScreenCommands, RotatingCommands
  <2> QED
    BY <2>1, <2>2, <2>3 DEF Done
<1>24. CASE c.name = "MVMVA"
  <2>1. Result(g, c) = SetRows(g, MvmvaValues(g, c), lm, sf)
    BY <1>24, SMT DEF Result
  <2>2. Done(SetRows(g, MvmvaValues(g, c), lm, sf), sf)
    BY <1>0, <1>4, SetRowsDone
  <2>3. exact => sf
    BY <1>24 DEF ScreenCommands, RotatingCommands
  <2> QED
    BY <2>1, <2>2, <2>3 DEF Done
<1>25. CASE c.name = "NCLIP"
  <2>1. Result(g, c) = Nclip(g)
    BY <1>25, SMT DEF Result
  <2>2. Done(Nclip(g), FALSE)
    BY <1>0, <1>5
  <2>3. exact => FALSE
    BY <1>25 DEF ScreenCommands, RotatingCommands
  <2> QED
    BY <2>1, <2>2, <2>3 DEF Done
<1>26. CASE c.name = "AVSZ3"
  <2>1. Result(g, c) = AverageZ(g, Avsz3Value(g))
    BY <1>26, SMT DEF Result
  <2>2. Done(AverageZ(g, Avsz3Value(g)), FALSE)
    BY <1>0, <1>5
  <2>3. exact => FALSE
    BY <1>26 DEF ScreenCommands, RotatingCommands
  <2> QED
    BY <2>1, <2>2, <2>3 DEF Done
<1>27. CASE c.name = "AVSZ4"
  <2>1. Result(g, c) = AverageZ(g, Avsz4Value(g))
    BY <1>27, SMT DEF Result
  <2>2. Done(AverageZ(g, Avsz4Value(g)), FALSE)
    BY <1>0, <1>5
  <2>3. exact => FALSE
    BY <1>27 DEF ScreenCommands, RotatingCommands
  <2> QED
    BY <2>1, <2>2, <2>3 DEF Done
<1>28. CASE c.name = "none"
  <2>1. Result(g, c) = g
    BY <1>28, SMT DEF Result
  <2>2. Done(g, FALSE)
    BY DEF Done
  <2>3. exact => FALSE
    BY <1>28 DEF ScreenCommands, RotatingCommands
  <2> QED
    BY <2>1, <2>2, <2>3 DEF Done
<1>29. \/ c.name = "RTPS" \/ c.name = "RTPT" \/ c.name = "DPCT"
       \/ c.name = "DCPL" \/ c.name = "CC" \/ c.name = "CDP"
       \/ c.name = "NCS" \/ c.name = "NCT" \/ c.name = "NCCS"
       \/ c.name = "NCCT" \/ c.name = "NCDS" \/ c.name = "NCDT"
       \/ c.name = "DPCS" \/ c.name = "INTPL" \/ c.name = "GPF"
       \/ c.name = "GPL" \/ c.name = "OP" \/ c.name = "SQR"
       \/ c.name = "MVMVA" \/ c.name = "NCLIP" \/ c.name = "AVSZ3"
       \/ c.name = "AVSZ4" \/ c.name = "none"
  BY <1>0 DEF Cycles
<1> QED
  BY <1>6, <1>7, <1>8, <1>9, <1>10, <1>11, <1>12, <1>13, <1>14, <1>15,
     <1>16, <1>17, <1>18, <1>19, <1>20, <1>21, <1>22, <1>23, <1>24, <1>25,
     <1>26, <1>27, <1>28, <1>29

-----------------------------------------------------------------------------
(* The registers under every step.                                         *)

LEMMA LeadingSignBitsType ==
    ASSUME NEW n \in Int
    PROVE  LeadingSignBits(n) \in Between(0, 32)
<1> DEFINE m == IF n >= 0 THEN n ELSE -1 - n
           S == {k \in 0..30 : m < 2^k}
<1>1. IsFiniteSet(0..30) /\ Cardinality(0..30) = 31
  <2>1. 0 \in Int /\ 30 \in Int
    BY SMT
  <2>2. /\ IsFiniteSet(0..30)
        /\ Cardinality(0..30) = IF 0 > 30 THEN 0 ELSE 30 - 0 + 1
    BY <2>1, FS_Interval, ZenonT(30)
  <2> QED
    BY <2>2, SMT
<1>2. S \subseteq 0..30
  OBVIOUS
<1>3. LeadingSignBits(n) = 1 + Cardinality(S)
  BY DEF LeadingSignBits
<1> HIDE DEF S
<1>4. IsFiniteSet(S) /\ Cardinality(S) <= 31
  BY <1>1, <1>2, FS_Subset
<1>5. Cardinality(S) \in Nat
  BY <1>4, FS_CardinalityType
<1> QED
  BY <1>3, <1>4, <1>5, SMT DEF Between

LEMMA WriteIrgbType ==
    ASSUME NEW g \in Registers, NEW rgb \in [Axes -> Between(0, 31)]
    PROVE  WriteIrgb(g, rgb) \in Registers
<1> DEFINE ir == [i \in 0..3 |-> IF i = 0 THEN g.ir[0] ELSE 128 * rgb[i]]
<1>1. ASSUME NEW i \in 0..3
      PROVE  (IF i = 0 THEN g.ir[0] ELSE 128 * rgb[i]) \in Halves
  <2>2. CASE i = 0
    BY <2>2, Fields DEF Registers
  <2>3. CASE i # 0
    <3>0. i \in Axes
      BY <2>3, SMT DEF Axes
    <3>1. rgb[i] \in Between(0, 31)
      BY <3>0
    <3>2. 128 * rgb[i] \in Halves
      BY <3>1, SMT DEF Between, Halves
    <3> QED
      BY <2>3, <3>2
  <2> QED
    BY <2>2, <2>3
<1>3. ir \in [0..3 -> Halves]
  BY <1>1
<1>2. WriteIrgb(g, rgb) = [g EXCEPT !.ir = ir]
  BY DEF WriteIrgb
<1> HIDE DEF ir
<1> QED
  BY <1>2, <1>3, SMT DEF Registers, Gtes

LEMMA SetVType ==
    ASSUME NEW g \in Registers, NEW k \in 0..2, NEW i \in Axes, NEW x \in Halves
    PROVE  SetV(g, k, i, x) \in Registers
<1>1. g \in Gtes /\ FlagOK(g.flag)
  BY DEF Registers
<1>2. SetV(g, k, i, x) \in Gtes /\ SetV(g, k, i, x).flag = g.flag
  BY <1>1, SMT DEF SetV, Gtes, HalfVectors
<1> QED
  BY <1>1, <1>2 DEF Registers

LEMMA SetMatrixType ==
    ASSUME NEW g \in Registers, NEW m \in 0..2, NEW i \in Axes, NEW j \in Axes,
           NEW x \in Halves
    PROVE  SetMatrix(g, m, i, j, x) \in Registers
<1>1. g \in Gtes /\ FlagOK(g.flag)
  BY DEF Registers
<1> DEFINE f == [g.matrix EXCEPT ![m][i][j] = x]
<1>2. f \in [0..2 -> Matrices]
  <2>1. g.matrix \in [0..2 -> Matrices]
    BY <1>1, Fields
  <2> QED
    BY <2>1, SMT DEF Matrices, HalfVectors
<1>3. SetMatrix(g, m, i, j, x) = [g EXCEPT !.matrix = f]
  BY DEF SetMatrix
<1> HIDE DEF f
<1> QED
  BY <1>1, <1>2, <1>3, SMT DEF Registers, Gtes

\* Every move writes registers.
Writes == \E g \in Registers : Elapse(g)

LEMMA MoveToWrites ==
    ASSUME gte \in Registers, MoveTo
    PROVE  Writes
<1>0. 1 \in Axes /\ 2 \in Axes /\ 3 \in Axes
  BY SMT DEF Axes
<1>1. gte \in Gtes /\ FlagOK(gte.flag)
  BY DEF Registers
<1>2. ASSUME NEW k \in 0..2, NEW x \in Halves, NEW y \in Halves,
             Elapse(SetV(SetV(gte, k, 1, x), k, 2, y))
      PROVE  Writes
  <2> DEFINE g == SetV(SetV(gte, k, 1, x), k, 2, y)
  <2>1. g \in Registers
    BY <1>0, SetVType
  <2>6. Elapse(g)
    BY <1>2
  <2> HIDE DEF g
  <2> QED
    BY <2>1, <2>6 DEF Writes
<1>3. ASSUME NEW k \in 0..2, NEW z \in Halves,
             Elapse(SetV(gte, k, 3, z))
      PROVE  Writes
  <2> DEFINE g == SetV(gte, k, 3, z)
  <2>1. g \in Registers
    BY <1>0, SetVType
  <2>6. Elapse(g)
    BY <1>3
  <2> HIDE DEF g
  <2> QED
    BY <2>1, <2>6 DEF Writes
<1>4. ASSUME NEW colour \in Colours,
             Elapse([gte EXCEPT !.rgbc = colour])
      PROVE  Writes
  <2> DEFINE g == [gte EXCEPT !.rgbc = colour]
  <2>1. g \in Gtes /\ g.flag = gte.flag
    BY <1>1, SMT DEF Gtes
  <2>2. g \in Registers
    BY <1>1, <2>1 DEF Registers
  <2>6. Elapse(g)
    BY <1>4
  <2> HIDE DEF g
  <2> QED
    BY <2>2, <2>6 DEF Writes
<1>5. ASSUME NEW z \in UHalves,
             Elapse([gte EXCEPT !.otz = z])
      PROVE  Writes
  <2> DEFINE g == [gte EXCEPT !.otz = z]
  <2>1. g \in Gtes /\ g.flag = gte.flag
    BY <1>1, SMT DEF Gtes
  <2>2. g \in Registers
    BY <1>1, <2>1 DEF Registers
  <2>6. Elapse(g)
    BY <1>5
  <2> HIDE DEF g
  <2> QED
    BY <2>2, <2>6 DEF Writes
<1>6. ASSUME NEW k \in 0..3, NEW x \in Halves,
             Elapse([gte EXCEPT !.ir[k] = x])
      PROVE  Writes
  <2> DEFINE g == [gte EXCEPT !.ir[k] = x]
  <2>1. g \in Gtes /\ g.flag = gte.flag
    BY <1>1, SMT DEF Gtes
  <2>2. g \in Registers
    BY <1>1, <2>1 DEF Registers
  <2>6. Elapse(g)
    BY <1>6
  <2> HIDE DEF g
  <2> QED
    BY <2>2, <2>6 DEF Writes
<1>7. ASSUME NEW k \in 0..2, NEW point \in ScreenPoints,
             Elapse([gte EXCEPT !.sxy[k] = point])
      PROVE  Writes
  <2> DEFINE g == [gte EXCEPT !.sxy[k] = point]
  <2>1. g \in Gtes /\ g.flag = gte.flag
    BY <1>1, SMT DEF Gtes
  <2>2. g \in Registers
    BY <1>1, <2>1 DEF Registers
  <2>6. Elapse(g)
    BY <1>7
  <2> HIDE DEF g
  <2> QED
    BY <2>2, <2>6 DEF Writes
<1>8. ASSUME NEW point \in ScreenPoints,
             Elapse(PushSxy(gte, point))
      PROVE  Writes
  <2> DEFINE g == PushSxy(gte, point)
  <2>1. g \in Registers
    BY PushSxyKeeps, KeptType
  <2>6. Elapse(g)
    BY <1>8
  <2> HIDE DEF g
  <2> QED
    BY <2>1, <2>6 DEF Writes
<1>9. ASSUME NEW k \in 0..3, NEW z \in UHalves,
             Elapse([gte EXCEPT !.sz[k] = z])
      PROVE  Writes
  <2> DEFINE g == [gte EXCEPT !.sz[k] = z]
  <2>1. g \in Gtes /\ g.flag = gte.flag
    BY <1>1, SMT DEF Gtes
  <2>2. g \in Registers
    BY <1>1, <2>1 DEF Registers
  <2>6. Elapse(g)
    BY <1>9
  <2> HIDE DEF g
  <2> QED
    BY <2>2, <2>6 DEF Writes
<1>10. ASSUME NEW k \in 0..2, NEW colour \in Colours,
             Elapse([gte EXCEPT !.rgb[k] = colour])
      PROVE  Writes
  <2> DEFINE g == [gte EXCEPT !.rgb[k] = colour]
  <2>1. g \in Gtes /\ g.flag = gte.flag
    BY <1>1, SMT DEF Gtes
  <2>2. g \in Registers
    BY <1>1, <2>1 DEF Registers
  <2>6. Elapse(g)
    BY <1>10
  <2> HIDE DEF g
  <2> QED
    BY <2>2, <2>6 DEF Writes
<1>11. ASSUME NEW k \in 0..3, NEW x \in Words,
             Elapse([gte EXCEPT !.mac[k] = x])
      PROVE  Writes
  <2> DEFINE g == [gte EXCEPT !.mac[k] = x]
  <2>1. g \in Gtes /\ g.flag = gte.flag
    BY <1>1, SMT DEF Gtes
  <2>2. g \in Registers
    BY <1>1, <2>1 DEF Registers
  <2>6. Elapse(g)
    BY <1>11
  <2> HIDE DEF g
  <2> QED
    BY <2>2, <2>6 DEF Writes
<1>12. ASSUME NEW rgb \in [Axes -> Between(0, 31)],
             Elapse(WriteIrgb(gte, rgb))
      PROVE  Writes
  <2> DEFINE g == WriteIrgb(gte, rgb)
  <2>1. g \in Registers
    BY WriteIrgbType
  <2>6. Elapse(g)
    BY <1>12
  <2> HIDE DEF g
  <2> QED
    BY <2>1, <2>6 DEF Writes
<1>13. ASSUME NEW n \in Words,
             Elapse([gte EXCEPT !.lzcs = n, !.lzcr = LeadingSignBits(n)])
      PROVE  Writes
  <2> DEFINE bits == LeadingSignBits(n)
  <2> DEFINE g == [gte EXCEPT !.lzcs = n, !.lzcr = bits]
  <2>1. n \in Int
    BY WordInt
  <2>2. bits \in Between(0, 32)
    BY <2>1, LeadingSignBitsType
  <2>6. Elapse(g)
    BY <1>13
  <2> HIDE DEF bits
  <2> DEFINE h == [gte EXCEPT !.lzcs = n]
  <2>7. h \in Gtes /\ h.flag = gte.flag
    BY <1>1, SMT DEF Gtes
  <2>8. g = [h EXCEPT !.lzcr = bits]
    OBVIOUS
  <2> HIDE DEF g, h
  <2>3. g \in Gtes /\ g.flag = gte.flag
    BY <2>2, <2>7, <2>8, SMT DEF Gtes
  <2>4. g \in Registers
    BY <1>1, <2>3 DEF Registers
  <2> HIDE DEF g
  <2> QED
    BY <2>4, <2>6 DEF Writes
<1> QED
  BY <1>2, <1>3, <1>4, <1>5, <1>6, <1>7, <1>8, <1>9, <1>10, <1>11, <1>12,
     <1>13 DEF MoveTo

LEMMA ControlToWrites ==
    ASSUME gte \in Registers, ControlTo
    PROVE  Writes
<1>0. 1 \in Axes /\ 2 \in Axes /\ 3 \in Axes
  BY SMT DEF Axes
<1>1. gte \in Gtes /\ FlagOK(gte.flag)
  BY DEF Registers
<1>2. ASSUME NEW m \in 0..2, NEW x \in Halves, NEW y \in Halves,
             Elapse(SetMatrix(SetMatrix(gte, m, 1, 1, x), m, 1, 2, y))
      PROVE  Writes
  <2> DEFINE g == SetMatrix(SetMatrix(gte, m, 1, 1, x), m, 1, 2, y)
  <2>1. g \in Registers
    BY <1>0, SetMatrixType
  <2>6. Elapse(g)
    BY <1>2
  <2> HIDE DEF g
  <2> QED
    BY <2>1, <2>6 DEF Writes
<1>3. ASSUME NEW m \in 0..2, NEW x \in Halves, NEW y \in Halves,
             Elapse(SetMatrix(SetMatrix(gte, m, 1, 3, x), m, 2, 1, y))
      PROVE  Writes
  <2> DEFINE g == SetMatrix(SetMatrix(gte, m, 1, 3, x), m, 2, 1, y)
  <2>1. g \in Registers
    BY <1>0, SetMatrixType
  <2>6. Elapse(g)
    BY <1>3
  <2> HIDE DEF g
  <2> QED
    BY <2>1, <2>6 DEF Writes
<1>4. ASSUME NEW m \in 0..2, NEW x \in Halves, NEW y \in Halves,
             Elapse(SetMatrix(SetMatrix(gte, m, 2, 2, x), m, 2, 3, y))
      PROVE  Writes
  <2> DEFINE g == SetMatrix(SetMatrix(gte, m, 2, 2, x), m, 2, 3, y)
  <2>1. g \in Registers
    BY <1>0, SetMatrixType
  <2>6. Elapse(g)
    BY <1>4
  <2> HIDE DEF g
  <2> QED
    BY <2>1, <2>6 DEF Writes
<1>5. ASSUME NEW m \in 0..2, NEW x \in Halves, NEW y \in Halves,
             Elapse(SetMatrix(SetMatrix(gte, m, 3, 1, x), m, 3, 2, y))
      PROVE  Writes
  <2> DEFINE g == SetMatrix(SetMatrix(gte, m, 3, 1, x), m, 3, 2, y)
  <2>1. g \in Registers
    BY <1>0, SetMatrixType
  <2>6. Elapse(g)
    BY <1>5
  <2> HIDE DEF g
  <2> QED
    BY <2>1, <2>6 DEF Writes
<1>6. ASSUME NEW m \in 0..2, NEW x \in Halves,
             Elapse(SetMatrix(gte, m, 3, 3, x))
      PROVE  Writes
  <2> DEFINE g == SetMatrix(gte, m, 3, 3, x)
  <2>1. g \in Registers
    BY <1>0, SetMatrixType
  <2>6. Elapse(g)
    BY <1>6
  <2> HIDE DEF g
  <2> QED
    BY <2>1, <2>6 DEF Writes
<1>7. ASSUME NEW m \in 0..2, NEW i \in Axes, NEW x \in Words,
             Elapse([gte EXCEPT !.vector[m][i] = x])
      PROVE  Writes
  <2> DEFINE g == [gte EXCEPT !.vector[m][i] = x]
  <2>1. g \in Gtes /\ g.flag = gte.flag
    BY <1>1, SMT DEF Gtes, WordVectors, Axes
  <2>2. g \in Registers
    BY <1>1, <2>1 DEF Registers
  <2>6. Elapse(g)
    BY <1>7
  <2> HIDE DEF g
  <2> QED
    BY <2>2, <2>6 DEF Writes
<1>8. ASSUME NEW x \in Words,
             Elapse([gte EXCEPT !.ofx = x])
      PROVE  Writes
  <2> DEFINE g == [gte EXCEPT !.ofx = x]
  <2>1. g \in Gtes /\ g.flag = gte.flag
    BY <1>1, SMT DEF Gtes
  <2>2. g \in Registers
    BY <1>1, <2>1 DEF Registers
  <2>6. Elapse(g)
    BY <1>8
  <2> HIDE DEF g
  <2> QED
    BY <2>2, <2>6 DEF Writes
<1>9. ASSUME NEW x \in Words,
             Elapse([gte EXCEPT !.ofy = x])
      PROVE  Writes
  <2> DEFINE g == [gte EXCEPT !.ofy = x]
  <2>1. g \in Gtes /\ g.flag = gte.flag
    BY <1>1, SMT DEF Gtes
  <2>2. g \in Registers
    BY <1>1, <2>1 DEF Registers
  <2>6. Elapse(g)
    BY <1>9
  <2> HIDE DEF g
  <2> QED
    BY <2>2, <2>6 DEF Writes
<1>10. ASSUME NEW x \in Words,
             Elapse([gte EXCEPT !.dqb = x])
      PROVE  Writes
  <2> DEFINE g == [gte EXCEPT !.dqb = x]
  <2>1. g \in Gtes /\ g.flag = gte.flag
    BY <1>1, SMT DEF Gtes
  <2>2. g \in Registers
    BY <1>1, <2>1 DEF Registers
  <2>6. Elapse(g)
    BY <1>10
  <2> HIDE DEF g
  <2> QED
    BY <2>2, <2>6 DEF Writes
<1>11. ASSUME NEW x \in UHalves,
             Elapse([gte EXCEPT !.h = x])
      PROVE  Writes
  <2> DEFINE g == [gte EXCEPT !.h = x]
  <2>1. g \in Gtes /\ g.flag = gte.flag
    BY <1>1, SMT DEF Gtes
  <2>2. g \in Registers
    BY <1>1, <2>1 DEF Registers
  <2>6. Elapse(g)
    BY <1>11
  <2> HIDE DEF g
  <2> QED
    BY <2>2, <2>6 DEF Writes
<1>12. ASSUME NEW x \in Halves,
             Elapse([gte EXCEPT !.dqa = x])
      PROVE  Writes
  <2> DEFINE g == [gte EXCEPT !.dqa = x]
  <2>1. g \in Gtes /\ g.flag = gte.flag
    BY <1>1, SMT DEF Gtes
  <2>2. g \in Registers
    BY <1>1, <2>1 DEF Registers
  <2>6. Elapse(g)
    BY <1>12
  <2> HIDE DEF g
  <2> QED
    BY <2>2, <2>6 DEF Writes
<1>13. ASSUME NEW x \in Halves,
             Elapse([gte EXCEPT !.zsf3 = x])
      PROVE  Writes
  <2> DEFINE g == [gte EXCEPT !.zsf3 = x]
  <2>1. g \in Gtes /\ g.flag = gte.flag
    BY <1>1, SMT DEF Gtes
  <2>2. g \in Registers
    BY <1>1, <2>1 DEF Registers
  <2>6. Elapse(g)
    BY <1>13
  <2> HIDE DEF g
  <2> QED
    BY <2>2, <2>6 DEF Writes
<1>14. ASSUME NEW x \in Halves,
             Elapse([gte EXCEPT !.zsf4 = x])
      PROVE  Writes
  <2> DEFINE g == [gte EXCEPT !.zsf4 = x]
  <2>1. g \in Gtes /\ g.flag = gte.flag
    BY <1>1, SMT DEF Gtes
  <2>2. g \in Registers
    BY <1>1, <2>1 DEF Registers
  <2>6. Elapse(g)
    BY <1>14
  <2> HIDE DEF g
  <2> QED
    BY <2>2, <2>6 DEF Writes
<1>15. ASSUME NEW S \in SUBSET Writable,
             Elapse([gte EXCEPT !.flag = NormalizeFlag(S)])
      PROVE  Writes
  <2> DEFINE F == NormalizeFlag(S)
  <2> DEFINE g == [gte EXCEPT !.flag = F]
  <2>1. F \in SUBSET (Writable \cup {"ERROR"})
    BY DEF NormalizeFlag
  <2>2. FlagOK(F)
    <3>1. "ERROR" \notin Summary /\ "ERROR" \notin Writable
      BY DEF Summary, Writable
    <3> QED
      BY <3>1 DEF FlagOK, NormalizeFlag
  <2>6. Elapse(g)
    BY <1>15
  <2> HIDE DEF F
  <2>3. g \in Gtes /\ g.flag = F
    BY <1>1, <2>1, SMT DEF Gtes
  <2>4. g \in Registers
    BY <2>2, <2>3 DEF Registers
  <2> HIDE DEF g
  <2> QED
    BY <2>4, <2>6 DEF Writes
<1> QED
  BY <1>2, <1>3, <1>4, <1>5, <1>6, <1>7, <1>8, <1>9, <1>10, <1>11, <1>12,
     <1>13, <1>14, <1>15 DEF ControlTo

IInv ==
    /\ gte \in Registers
    /\ busy \in Nat /\ charged \in Nat /\ latency \in Nat
    /\ LatencyIsCharged

LEMMA InitInv ==
    ASSUME GteInit
    PROVE  IInv
<1> DEFINE zero == [i \in Axes |-> 0]
           black == [rgb |-> zero, code |-> 0]
<1>1. 0 \in Halves /\ 0 \in UHalves /\ 0 \in Words /\ 0 \in Bytes /\ 0 \in Between(0, 32)
  BY SMT DEF Halves, UHalves, Words, Bytes, Between
<1>2. zero \in HalfVectors /\ zero \in WordVectors /\ zero \in [Axes -> Bytes]
  BY <1>1 DEF HalfVectors, WordVectors
<1> HIDE DEF zero
<1>3. black \in Colours
  BY <1>1, <1>2 DEF Colours
<1> HIDE DEF black
<1> DEFINE v == [k \in 0..2 |-> zero]
           sxy == [k \in 0..2 |-> [x |-> 0, y |-> 0]]
           ir == [k \in 0..3 |-> 0]
           rgb == [k \in 0..2 |-> black]
           matrix == [k \in 0..2 |-> [i \in Axes |-> zero]]
<1>4. /\ v \in [0..2 -> HalfVectors] /\ v \in [0..2 -> WordVectors]
      /\ sxy \in [0..2 -> ScreenPoints]
      /\ ir \in [0..3 -> Halves] /\ ir \in [0..3 -> UHalves] /\ ir \in [0..3 -> Words]
      /\ rgb \in [0..2 -> Colours] /\ matrix \in [0..2 -> Matrices]
  BY <1>1, <1>2, <1>3 DEF ScreenPoints, Matrices
<1>5. NewGte = [v |-> v, rgbc |-> black, otz |-> 0, ir |-> ir, sxy |-> sxy, sz |-> ir,
                rgb |-> rgb, mac |-> ir, lzcs |-> 0, lzcr |-> 0, matrix |-> matrix,
                vector |-> v, ofx |-> 0, ofy |-> 0, h |-> 0, dqa |-> 0, dqb |-> 0,
                zsf3 |-> 0, zsf4 |-> 0, flag |-> {}]
  BY DEF NewGte, zero, black
<1> HIDE DEF v, sxy, ir, rgb, matrix
<1>6. NewGte \in Gtes /\ NewGte.flag = {}
  BY <1>1, <1>3, <1>4, <1>5, SMT DEF Gtes
<1>7. FlagOK({})
  BY DEF FlagOK
<1>8. gte \in Registers
  BY <1>6, <1>7 DEF GteInit, Registers
<1>9. busy = 0 /\ charged = 0 /\ latency = 0
  BY DEF GteInit
<1> QED
  BY <1>8, <1>9, SMT DEF IInv, LatencyIsCharged

LEMMA CyclesType ==
    ASSUME NEW name \in DOMAIN Cycles
    PROVE  Cycles[name] \in Nat
BY SMT DEF Cycles

LEMMA ExecuteType ==
    ASSUME IInv, NEW c \in Commands, ExecuteCommand(c)
    PROVE  /\ IInv'
           /\ Done(gte', /\ c.name \notin ScreenCommands
                         /\ c.name \in RotatingCommands => c.sf)
<1> DEFINE g == [gte EXCEPT !.flag = {}]
           n == Cycles[c.name]
           exact == /\ c.name \notin ScreenCommands
                    /\ c.name \in RotatingCommands => c.sf
<1>1. g \in Registers
  <2>1. gte \in Gtes
    BY DEF IInv, Registers
  <2>2. g \in Gtes /\ g.flag = {}
    BY <2>1, SMT DEF Gtes
  <2> QED
    BY <2>2 DEF Registers, FlagOK
<1>2. gte' = Result(g, c)
  BY DEF ExecuteCommand
<1>3. busy' = (IF n > 2 THEN n - 2 ELSE 0) /\ charged' = 2 /\ latency' = n
  BY DEF ExecuteCommand, Tick
<1>4. n \in Nat
  BY CyclesType DEF Commands
<1> HIDE DEF g, n
<1>5. Done(gte', exact)
  BY <1>1, <1>2, ResultType
<1>6. gte' \in Registers
  BY <1>5 DEF Done
<1>7. IInv'
  BY <1>3, <1>4, <1>6, SMT DEF IInv, LatencyIsCharged
<1> QED
  BY <1>5, <1>7

LEMMA NextInv ==
    ASSUME IInv, [GteNext]_gteVars
    PROVE  IInv'
<1>1. ASSUME NEW g \in Registers, Elapse(g)
      PROVE  IInv'
  <2>1. /\ gte' \in Registers /\ charged' = charged + 2 /\ latency' = latency
        /\ busy' = IF busy > 2 THEN busy - 2 ELSE 0
    BY <1>1 DEF Elapse, Tick
  <2>2. /\ busy \in Nat /\ charged \in Nat /\ latency \in Nat
        /\ charged + busy >= latency
        /\ busy > 0 => charged + busy = latency
    BY DEF IInv, LatencyIsCharged
  <2> QED
    BY <2>1, <2>2, SMT DEF IInv, LatencyIsCharged
<1>2. gte \in Registers
  BY DEF IInv
<1>3. CASE MoveTo
  BY <1>1, <1>2, <1>3, MoveToWrites DEF Writes
<1>4. CASE ControlTo
  BY <1>1, <1>2, <1>4, ControlToWrites DEF Writes
<1>5. CASE MoveFrom
  <2>1. /\ busy' = 0 /\ charged' = charged + busy + 2
        /\ gte' = gte /\ latency' = latency
    <3>1. busy' = IF 0 > 2 THEN 0 - 2 ELSE 0
      BY <1>5 DEF MoveFrom, Tick
    <3> QED
      BY <1>5, <3>1, SMT DEF MoveFrom
  <2>2. /\ busy \in Nat /\ charged \in Nat /\ latency \in Nat
        /\ charged + busy >= latency
    BY DEF IInv, LatencyIsCharged
  <2> QED
    BY <1>2, <2>1, <2>2, SMT DEF IInv, LatencyIsCharged
<1>6. CASE Other
  BY <1>1, <1>2, <1>6 DEF Other
<1>7. CASE \E c \in Commands : ExecuteCommand(c)
  BY <1>7, ExecuteType
<1>8. CASE UNCHANGED gteVars
  BY <1>8 DEF gteVars, IInv, LatencyIsCharged
<1> QED
  BY <1>3, <1>4, <1>5, <1>6, <1>7, <1>8 DEF GteNext

LEMMA InvHolds == GteSpec => []IInv
<1>1. GteInit => IInv
  BY InitInv
<1>2. IInv /\ [GteNext]_gteVars => IInv'
  BY NextInv
<1> QED
  BY <1>1, <1>2, PTL DEF GteSpec

\* Whatever is written and commanded, every register holds a number of its
\* width, and bit 31 of FLAG is the summary of its bits (set_flag,
\* normalize_flag).
THEOREM RegistersTheorem == GteSpec => [](GteTypeOK /\ ErrorIsSummary)
<1>1. IInv => GteTypeOK /\ ErrorIsSummary
  BY DEF IInv, Registers, FlagOK, GteTypeOK, ErrorIsSummary
<1> QED
  BY <1>1, InvHolds, PTL

\* Nobody reads a result before its command's cycles were charged, and
\* waiting charges no more than those (Cpu::step, take_busy_cycles).
THEOREM LatencyTheorem == GteSpec => []LatencyIsCharged
<1>1. IInv => LatencyIsCharged
  BY DEF IInv
<1> QED
  BY <1>1, InvHolds, PTL

\* After a vector command, IR and MAC hold the same number in each row that
\* FLAG does not say was cut (set_vector_result, limit_ir).
THEOREM UnflaggedTheorem == GteSpec => UnflaggedIsExact
<1> DEFINE Step == \A c \in Commands :
               /\ ExecuteCommand(c)
               /\ c.name \notin ScreenCommands
               /\ c.name \in RotatingCommands => c.sf
               => \A i \in Axes : IrSat[i] \notin gte'.flag => gte'.ir[i] = gte'.mac[i]
<1>1. IInv /\ [GteNext]_gteVars => [Step]_gteVars
  <2>1. SUFFICES ASSUME IInv, NEW c \in Commands, ExecuteCommand(c),
                        c.name \notin ScreenCommands,
                        c.name \in RotatingCommands => c.sf
                 PROVE  Exact(gte')
    BY DEF Exact
  <2>2. Done(gte', /\ c.name \notin ScreenCommands
                   /\ c.name \in RotatingCommands => c.sf)
    BY <2>1, ExecuteType
  <2> QED
    BY <2>1, <2>2 DEF Done
<1>2. UnflaggedIsExact <=> [][Step]_gteVars
  BY PTL DEF UnflaggedIsExact
<1> QED
  BY <1>1, <1>2, InvHolds, PTL DEF GteSpec

-----------------------------------------------------------------------------
(* Arithmetic that cannot go wrong.                                        *)

\* The sums the commands form stay far within the 64 bits of the code's
\* accumulators, so that computing them without width loses nothing
\* (transform_vertex, mvmva, light_color_matrix, interpolate_far_color, ...).
THEOREM AccumulatorsTheorem ==
    ASSUME NEW g \in Gtes, NEW i \in Axes, NEW sf \in BOOLEAN
    PROVE  /\ \A k \in 0..2 : /\ RotatedValue(g, k, i) \in Accumulators
                              /\ LightValue(g, k, i) \in Accumulators
           /\ LightColourValue(g, i) \in Accumulators
           /\ \A mx, v, cv \in 0..3 : MvmvaValue(g, mx, v, cv, i) \in Accumulators
           /\ \A base \in Bases : /\ FarDelta(g, i, base) \in Accumulators
                                  /\ MixedValue(g, i, base) \in Accumulators
           /\ OpValues(g)[i] \in Accumulators /\ SqrValues(g)[i] \in Accumulators
           /\ GpfValues(g)[i] \in Accumulators /\ GplValues(g, sf)[i] \in Accumulators
           /\ NclipValue(g) \in Accumulators
           /\ Avsz3Value(g) \in Accumulators /\ Avsz4Value(g) \in Accumulators
           /\ \A h, sz3 \in UHalves : DepthCueValue(g, Divide(h, sz3)) \in Accumulators
<1>1. \A k \in 0..2 : /\ RotatedValue(g, k, i) \in Accumulators
                      /\ LightValue(g, k, i) \in Accumulators
  BY RotatedFits
<1>2. LightColourValue(g, i) \in Accumulators
  <2>1. 0 \in 0..2
    BY SMT
  <2> QED
    BY <2>1, RotatedFits
<1>3. \A mx, v, cv \in 0..3 : MvmvaValue(g, mx, v, cv, i) \in Accumulators
  BY MvmvaFits
<1>4. \A base \in Bases : /\ FarDelta(g, i, base) \in Accumulators
                          /\ MixedValue(g, i, base) \in Accumulators
  BY MixFits
<1>5. /\ SqrValues(g)[i] \in Accumulators
      /\ GpfValues(g)[i] \in Accumulators /\ GplValues(g, sf)[i] \in Accumulators
  BY ProductsFit
<1>6. \A h, sz3 \in UHalves : DepthCueValue(g, Divide(h, sz3)) \in Accumulators
  <2>1. TAKE h, sz3 \in UHalves
  <2> DEFINE quotient == Divide(h, sz3)
  <2>2. quotient \in Int /\ 0 <= quotient /\ quotient <= 131071
    BY DivideType
  <2> HIDE DEF quotient
  <2>3. DepthCueValue(g, quotient) \in Accumulators
    BY <2>2, ScreenFits
  <2> QED
    BY <2>3 DEF quotient
<1> QED
  BY <1>1, <1>2, <1>3, <1>4, <1>5, <1>6, OpFits, NclipFits, AverageFits

\* The division's unsigned steps never go below zero, and its index stays
\* within the table (divide).
THEOREM DivideTheorem ==
    ASSUME NEW sz3 \in UHalves, sz3 # 0
    PROVE  LET d == sz3 * ScaleOf(sz3)
           IN  /\ d >= 32704
               /\ 0 <= TableIndex(d) /\ TableIndex(d) <= 256
               /\ 33554560 - d * Reciprocal(TableIndex(d)) >= 0
               /\ Refined(d, Reciprocal(TableIndex(d))) \in Between(65535, 131076)
<1> DEFINE d == sz3 * ScaleOf(sz3)
           p == d * Reciprocal(TableIndex(d))
           D == Refined(d, Reciprocal(TableIndex(d)))
<1>1. d \in Int /\ 32768 <= d /\ d <= 65535
  <2>1. sz3 \in Int
    BY UHalfInt
  <2>2. /\ ScaleOf(sz3) \in Scales
        /\ 32768 <= sz3 * ScaleOf(sz3) /\ sz3 * ScaleOf(sz3) <= 65535
    BY ScaleFits
  <2>3. ScaleOf(sz3) \in Int
    BY <2>2, SMT DEF Scales
  <2> QED
    BY <2>1, <2>2, <2>3, SMT
<1> HIDE DEF d
<1>2. /\ TableIndex(d) \in Int /\ 0 <= TableIndex(d) /\ TableIndex(d) <= 256
      /\ Reciprocal(TableIndex(d)) \in Int /\ -65536 <= 16777216 - p
  BY <1>1, Residue, SMT
<1>3. p \in Int
  BY <1>1, <1>2, SMT
<1> HIDE DEF p
<1>4. 33554560 - p >= 0
  BY <1>2, <1>3, SMT
<1>5. D \in Int /\ 65535 <= D /\ D <= 131076
  BY <1>1, RefinedBounds, SMT
<1> HIDE DEF D
<1>6. D \in Between(65535, 131076)
  BY <1>5 DEF Between
<1> QED
  BY <1>1, <1>2, <1>4, <1>6, SMT DEF d, p, D

\* Where it does not overflow, the table and one step of refinement find the
\* quotient of distance and depth to 5 units of its last bit (divide).
THEOREM DivideIsClose ==
    ASSUME NEW h \in UHalves, NEW sz3 \in UHalves, ~DivideOverflows(h, sz3)
    PROVE  /\ -5 * sz3 <= Divide(h, sz3) * sz3 - 65536 * h
           /\ Divide(h, sz3) * sz3 - 65536 * h <= 5 * sz3
<1> DEFINE s == ScaleOf(sz3)
           q == Divide(h, sz3)
<1>1. h \in Int /\ 0 <= h /\ sz3 \in Int /\ 0 < sz3 /\ h < sz3 * 2
  BY UHalfInt, SMT DEF DivideOverflows
<1>2. s \in Int /\ 1 <= s /\ 32768 <= sz3 * s /\ sz3 * s <= 65535
  <2>1. s \in Scales /\ 32768 <= sz3 * s /\ sz3 * s <= 65535
    BY <1>1, ScaleFits, SMT
  <2> HIDE DEF s
  <2> QED
    BY <2>1, SMT DEF Scales
<1>3. q = Quotient(h * s, sz3 * s)
  BY DEF Divide
<1> HIDE DEF s, q
<1> DEFINE n == h * s  d == sz3 * s
<1>4. n \in Int /\ d \in Int /\ 0 <= n /\ n < 2 * d /\ 32768 <= d /\ d <= 65535
  BY <1>1, <1>2, SMT
<1>5. q = Quotient(n, d)
  BY <1>3
<1> HIDE DEF n, d
<1>6. q \in Int /\ -5 * d <= q * d - 65536 * n /\ q * d - 65536 * n <= 5 * d
  BY <1>4, <1>5, QuotientBounds, SMT
<1> DEFINE e == q * sz3 - 65536 * h
<1>7. e \in Int
  BY <1>1, <1>6, SMT
<1>8. e * s = q * d - 65536 * n
  <2>1. q * d = (q * sz3) * s
    BY <1>1, <1>2, <1>6, SMT DEF d
  <2>2. q * sz3 \in Int
    BY <1>1, <1>6, SMT
  <2>3. (q * sz3 - 65536 * h) * s = (q * sz3) * s - 65536 * (h * s)
    BY <1>1, <1>2, <2>2, SMT
  <2> QED
    BY <2>1, <2>3 DEF n
<1> HIDE DEF e
<1>9. -5 * (sz3 * s) <= e * s /\ e * s <= 5 * (sz3 * s)
  BY <1>6, <1>8 DEF d
<1>10. e <= 5 * sz3
  <2>1. SUFFICES ASSUME e >= 5 * sz3 + 1 PROVE FALSE
    BY <1>1, <1>7, SMT
  <2>2. (5 * sz3 + 1) * s <= e * s
    BY <1>1, <1>2, <1>7, <2>1, SMT
  <2>3. (5 * sz3 + 1) * s = 5 * (sz3 * s) + s
    BY <1>1, <1>2, SMT
  <2>4. e * s \in Int /\ sz3 * s \in Int
    BY <1>1, <1>2, <1>7, SMT
  <2> QED
    BY <1>2, <1>9, <2>2, <2>3, <2>4, SMT
<1>11. -5 * sz3 <= e
  <2>1. SUFFICES ASSUME e <= -5 * sz3 - 1 PROVE FALSE
    BY <1>1, <1>7, SMT
  <2>2. e * s <= (-5 * sz3 - 1) * s
    BY <1>1, <1>2, <1>7, <2>1, SMT
  <2>3. (-5 * sz3 - 1) * s = -5 * (sz3 * s) - s
    BY <1>1, <1>2, SMT
  <2>4. e * s \in Int /\ sz3 * s \in Int
    BY <1>1, <1>2, <1>7, SMT
  <2> QED
    BY <1>2, <1>9, <2>2, <2>3, <2>4, SMT
<1> QED
  BY <1>10, <1>11 DEF e, q

\* What is written to IRGB is what ORGB reads (expand_irgb, pack_orgb).
THEOREM IrgbReadsBack ==
    ASSUME NEW g \in Gtes, NEW rgb \in [Axes -> Between(0, 31)]
    PROVE  Orgb(WriteIrgb(g, rgb)) = rgb
<1> DEFINE w == WriteIrgb(g, rgb)
<1>1. ASSUME NEW n \in Between(0, 31)
      PROVE  Clamp((128 * n) \div 128, 0, 31) = n
  <2>1. n \in Int /\ 0 <= n /\ n <= 31
    BY SMT DEF Between
  <2>2. (128 * n) \div 128 = n
    BY <2>1, SMT
  <2> QED
    BY <2>1, <2>2, SMT DEF Clamp
<1>2. \A i \in Axes : i \in 0..3 /\ i # 0
  BY SMT DEF Axes
<1>3. \A i \in Axes : w.ir[i] = 128 * rgb[i]
  BY <1>2, SMT DEF WriteIrgb, Gtes
<1>4. Orgb(w) = [i \in Axes |-> Clamp(w.ir[i] \div 128, 0, 31)]
  BY DEF Orgb
<1> QED
  BY <1>1, <1>3, <1>4

-----------------------------------------------------------------------------
(* Which way a projected triangle faces.                                   *)

R == INSTANCE Raster

\* NCLIP computes what the rasteriser orients a triangle by (nclip,
\* render_triangle): a game that culls by its sign and the GPU agree on
\* which triangles are empty and which way round the others are.
THEOREM NclipIsOrientation ==
    ASSUME NEW g \in Gtes
    PROVE  NclipValue(g) = R!Edge(g.sxy[0], g.sxy[1], g.sxy[2])
<1> DEFINE x(k) == g.sxy[k].x
           y(k) == g.sxy[k].y
<1>1. 0 \in 0..2 /\ 1 \in 0..2 /\ 2 \in 0..2
  BY SMT
<1>2. /\ x(0) \in Int /\ x(1) \in Int /\ x(2) \in Int
      /\ y(0) \in Int /\ y(1) \in Int /\ y(2) \in Int
  BY <1>1, PointHalves, HalfInt
<1>3. NclipValue(g) = x(0) * (y(1) - y(2)) + x(1) * (y(2) - y(0)) + x(2) * (y(0) - y(1))
  BY DEF NclipValue
<1>4. R!Edge(g.sxy[0], g.sxy[1], g.sxy[2])
        = (x(1) - x(0)) * (y(2) - y(0)) - (y(1) - y(0)) * (x(2) - x(0))
  BY DEF R!Edge
<1> DEFINE a == x(0)  b == x(1)  c == x(2)  d == y(0)  e == y(1)  f == y(2)
<1>5. a * (e - f) + b * (f - d) + c * (d - e) = (b - a) * (f - d) - (e - d) * (c - a)
  <2>1. /\ a \in Int /\ b \in Int /\ c \in Int /\ d \in Int /\ e \in Int /\ f \in Int
    BY <1>2
  <2> HIDE DEF a, b, c, d, e, f
  <2> QED
    BY <2>1, SMT
<1> QED
  BY <1>3, <1>4, <1>5

\* Of points that were projected, NCLIP's result fits MAC0 and raises nothing
\* (project_screen clamps to eleven bits, set_mac0 cuts at 32).
THEOREM ProjectedNclipIsExact ==
    ASSUME NEW g \in Gtes,
           \A k \in 0..2 : /\ g.sxy[k].x \in Between(-1024, 1023)
                           /\ g.sxy[k].y \in Between(-1024, 1023)
    PROVE  Nclip(g) = [g EXCEPT !.mac[0] = NclipValue(g)]
<1> DEFINE x(k) == g.sxy[k].x
           y(k) == g.sxy[k].y
           v == NclipValue(g)
<1>1. ASSUME NEW n \in Between(-1024, 1023), NEW m \in Between(-1024, 1023),
             NEW l \in Between(-1024, 1023)
      PROVE  n * (m - l) \in Int /\ -4194304 <= n * (m - l) /\ n * (m - l) <= 4194304
  <2>1. /\ n \in Int /\ -1024 <= n /\ n <= 1024
        /\ m - l \in Int /\ -2048 <= m - l /\ m - l <= 2048
    BY SMT DEF Between
  <2> DEFINE z == m - l
  <2>2. z \in Int /\ -2048 <= z /\ z <= 2048
    BY <2>1
  <2> HIDE DEF z
  <2>3. (1024 - n) * (2048 + z) >= 0 /\ (1024 + n) * (2048 - z) >= 0
    BY <2>1, <2>2, SMT
  <2>4. (1024 - n) * (2048 - z) >= 0 /\ (1024 + n) * (2048 + z) >= 0
    BY <2>1, <2>2, SMT
  <2>5. n * z \in Int /\ -4194304 <= n * z /\ n * z <= 4194304
    BY <2>1, <2>2, <2>3, <2>4, SMT
  <2> QED
    BY <2>5 DEF z
<1>2. 0 \in 0..2 /\ 1 \in 0..2 /\ 2 \in 0..2
  BY SMT
<1>3. /\ x(0) \in Between(-1024, 1023) /\ y(0) \in Between(-1024, 1023)
      /\ x(1) \in Between(-1024, 1023) /\ y(1) \in Between(-1024, 1023)
      /\ x(2) \in Between(-1024, 1023) /\ y(2) \in Between(-1024, 1023)
  BY <1>2
<1> DEFINE p == x(0) * (y(1) - y(2))  q == x(1) * (y(2) - y(0))  r == x(2) * (y(0) - y(1))
<1>4. /\ p \in Int /\ -4194304 <= p /\ p <= 4194304
      /\ q \in Int /\ -4194304 <= q /\ q <= 4194304
      /\ r \in Int /\ -4194304 <= r /\ r <= 4194304
  BY <1>1, <1>3
<1>5. v = p + q + r
  BY DEF NclipValue
<1> HIDE DEF p, q, r, v
<1>6. v \in Int /\ -2147483648 <= v /\ v <= 2147483647
  BY <1>4, <1>5, SMT
<1>7. Wrap32(v) = v
  BY <1>6, SMT DEF Wrap32
<1>8. SetMac0(g, v) = [g EXCEPT !.mac[0] = v]
  <2> DEFINE c == v > 2147483647  c2 == v < -2147483648
             w == Wrap32(v)
  <2>1. SetMac0(g, v) = [RaiseIf(RaiseIf(g, c, "MAC0_POS"), c2, "MAC0_NEG")
                            EXCEPT !.mac[0] = w]
    BY SMT DEF SetMac0
  <2>2. ~c /\ ~c2
    BY <1>6, SMT
  <2>3. w = v
    BY <1>7
  <2> HIDE DEF c, c2, w
  <2> QED
    BY <2>1, <2>2, <2>3 DEF RaiseIf
<1> QED
  BY <1>8 DEF Nclip, v
=============================================================================
