---------------------------------- MODULE Cpu ----------------------------------
(***************************************************************************)
(* The R3000A interpreter: src/ps1-core/src/cpu/mod.rs and cop0.rs.        *)
(*                                                                         *)
(* One action is one call of Cpu::step: an interrupt, a failed fetch, or   *)
(* an instruction.  Memory is not modelled: any instruction of Ops may be  *)
(* fetched and any value loaded, so the behaviours are those of every      *)
(* program.  What is kept exactly is the control: pc and next_pc, delay    *)
(* slots, the one-instruction load delay with its merge base and write     *)
(* mask, exceptions, and the COP0 registers they fill.                     *)
(*                                                                         *)
(* Instructions that only compute a value (ALU, shifts, mfhi, ...) are     *)
(* Alu; loads, mfc0, mfc2 and cfc2 are Load; stores, mtc2, mult, ... touch *)
(* no state of this model and are Alu to register 0.                       *)
(***************************************************************************)
EXTENDS Integers, Sequences

CONSTANTS
    AddrMod,       \* size of the address space, 2^32 in the code
    Regs, Link,    \* register numbers, 0 among them; $31
    Values,        \* words that instructions compute and load
    Offsets,       \* branch displacements (multiples of 4)
    JumpTargets,   \* targets of j and jal, and of set_pc (multiples of 4)
    BadAddrs,      \* misaligned data addresses
    Unmapped,      \* addresses whose fetch is a bus error
    Statuses,      \* values mtc0 writes to Status
    Codes,         \* codes of the traps an instruction takes by itself
    Ops,           \* instruction classes the program uses
    ResetVector, BootVector, RamVector

Addresses == 0..(AddrMod - 1)
Lines == {"sw", "hw"}     \* Cause bits 8-9 and IP2
StatusValues ==
    [ie : BOOLEAN \X BOOLEAN \X BOOLEAN, im : SUBSET Lines, isc : BOOLEAN,
     bev : BOOLEAN]

ASSUME CpuAssumption ==
    /\ AddrMod \in Nat \ {0} /\ AddrMod % 4 = 0
    /\ Regs \subseteq Nat /\ 0 \in Regs
    /\ Link \in Regs \ {0}
    /\ Values \union JumpTargets \union BadAddrs \subseteq Addresses
    /\ Offsets \subseteq Int
    /\ Statuses \subseteq StatusValues
    /\ {ResetVector, BootVector, RamVector} \subseteq Addresses

VARIABLES
    cpu,           \* the Cpu and Cop0 of the code
    did,           \* what the last step did
    owner,         \* the branch whose delay slot is next, if there is one
    handlers       \* interrupt enables the running handlers return to

vars == <<cpu, did, owner, handlers>>

Wrap(a) == a % AddrMod
NoLoad == <<>>
NoSlot == [is |-> FALSE, taken |-> FALSE, target |-> 0]
NoBranch == [is |-> FALSE, taken |-> FALSE, at |-> 0, chained |-> FALSE]

-----------------------------------------------------------------------------
(* COP0.  ie holds IEc, IEp, IEo of Status, newest first; im its interrupt *)
(* mask; ip the pending bits of Cause.                                     *)

StatusOf(c) == [ie |-> c.ie, im |-> c.im, isc |-> c.isc, bev |-> c.bev]
WithStatus(c, s) ==
    [c EXCEPT !.ie = s.ie, !.im = s.im, !.isc = s.isc, !.bev = s.bev]

NewCop0 ==
    [ie |-> <<FALSE, FALSE, FALSE>>, im |-> {}, isc |-> FALSE, bev |-> TRUE,
     ip |-> {}, bd |-> FALSE, bt |-> FALSE, code |-> "Interrupt",
     epc |-> 0, tar |-> 0, badVaddr |-> 0]

SetInterruptPending(c, pending) ==
    [c EXCEPT !.ip = IF pending THEN @ \union {"hw"} ELSE @ \ {"hw"}]

InterruptsEnabled(c) == c.ie[1] /\ c.im \intersect c.ip # {}

\* Faulty: the enable of the interrupted program is not saved.
PushClearing(ie) == <<FALSE, FALSE, ie[2]>>
PushModes(ie) == <<FALSE, ie[1], ie[2]>>
PopModes(ie)  == <<ie[2], ie[3], ie[3]>>

Rfe(c) == [c EXCEPT !.ie = PopModes(@)]

Vector(c) == IF c.bev THEN BootVector ELSE RamVector

\* Faulty: a delay slot reported without its branch.
EpcOfSlot(epc, slot) == epc
EpcFor(epc, slot) == IF slot.is THEN Wrap(epc - 4) ELSE epc

\* bad is the set of the address to report, empty for most exceptions.
EnterException(c, code, epc, slot, bad) ==
    [c EXCEPT
        !.badVaddr = IF bad = {} THEN @ ELSE CHOOSE a \in bad : TRUE,
        !.epc = EpcFor(epc, slot),
        !.code = code,
        !.bd = slot.is,
        !.bt = slot.is /\ slot.taken,
        !.tar = IF slot.is /\ slot.taken THEN slot.target ELSE @,
        !.ie = PushModes(@)]

-----------------------------------------------------------------------------
(* The Cpu.  slot is next_is_delay_slot and its companions.  The others of *)
(* its fields live only inside a step: here (in_delay_slot), merge and     *)
(* mask are part of an execution e, never of the state.                    *)

NewCpu ==
    [pc |-> ResetVector, nextPc |-> Wrap(ResetVector + 4), slot |-> NoSlot,
     regs |-> [r \in Regs |-> 0], load |-> NoLoad, cop0 |-> NewCop0]

SetPc(c, t) ==
    [c EXCEPT !.pc = t, !.nextPc = Wrap(t + 4), !.slot = NoSlot,
              !.load = NoLoad]

\* Faulty: the slot of the interrupted program is left for the handler.
RaiseKeepingSlot(c, code, epc, slot, bad) ==
    LET cop0 == EnterException(c.cop0, code, epc, slot, bad) IN
    [c EXCEPT !.pc = Vector(cop0), !.nextPc = Wrap(Vector(cop0) + 4),
              !.load = NoLoad, !.cop0 = cop0]

RaiseException(c, code, epc, slot, bad) ==
    LET cop0 == EnterException(c.cop0, code, epc, slot, bad) IN
    [c EXCEPT !.pc = Vector(cop0), !.nextPc = Wrap(Vector(cop0) + 4),
              !.slot = NoSlot, !.load = NoLoad, !.cop0 = cop0]

\* The machine inside execute: pc already advanced, the load in flight
\* taken out and kept as the merge base, and the registers written so far.
Begin(c) ==
    [cpu   |-> [c EXCEPT !.pc = c.nextPc, !.nextPc = Wrap(c.nextPc + 4),
                         !.slot = NoSlot, !.load = NoLoad],
     at    |-> c.pc,
     here  |-> c.slot,
     merge |-> c.load,
     mask  |-> {}]

Reg(e, r) == e.cpu.regs[r]

SetReg(e, r, v) ==
    IF r = 0 THEN e
    ELSE [e EXCEPT !.cpu.regs[r] = v, !.mask = @ \union {r}]

SetLoad(e, r, v) == IF r = 0 THEN e ELSE [e EXCEPT !.cpu.load = <<r, v>>]

LoadMergeBase(e, r) ==
    IF e.merge # NoLoad /\ e.merge[1] = r THEN e.merge[2] ELSE Reg(e, r)

Raise(e, code, bad) ==
    [e EXCEPT !.cpu = RaiseException(@, code, e.at, e.here, bad), !.mask = {}]

\* Faulty: the load in flight lands whatever the instruction wrote.
RetireAlways(e) ==
    IF e.merge = NoLoad THEN e.cpu
    ELSE [e.cpu EXCEPT !.regs[e.merge[1]] = e.merge[2]]

Overtaken(e) ==
    \/ e.merge[1] \in e.mask
    \/ e.cpu.load # NoLoad /\ e.cpu.load[1] = e.merge[1]

\* The end of step: the load in flight lands unless it was overtaken.
Retire(e) ==
    IF e.merge = NoLoad \/ Overtaken(e) THEN e.cpu
    ELSE [e.cpu EXCEPT !.regs[e.merge[1]] = e.merge[2]]

-----------------------------------------------------------------------------
(* Instructions.                                                           *)

\* A branch in a delay slot counts from where the first one goes.
Branch(e, taken, offset) ==
    LET target == Wrap((IF e.here.is THEN e.cpu.pc ELSE e.at + 4) + offset)
    IN  [e EXCEPT !.cpu.nextPc = IF taken THEN target ELSE @,
                  !.cpu.slot = [is |-> TRUE, taken |-> taken,
                                target |-> IF taken THEN target ELSE 0]]

BranchTo(e, target) ==
    [e EXCEPT !.cpu.nextPc = target,
              !.cpu.slot = [is |-> TRUE, taken |-> TRUE, target |-> target]]

LinkTo(e, r) == SetReg(e, r, Wrap(e.cpu.pc + 4))

JumpRegister(e, rs) == BranchTo(e, Reg(e, rs))

JumpAndLinkRegister(e, rs, rd) ==
    LinkTo(BranchTo(e, Reg(e, rs)), IF rd = 0 THEN Link ELSE rd)

Jump(e, target) == BranchTo(e, target)

WithSoftware(c, ip) == [c EXCEPT !.ip = (@ \ {"sw"}) \union ip]

WithEpc(c, a) == [c EXCEPT !.epc = a]

WriteCop0(e, name, value) ==
    [e EXCEPT !.cpu.cop0 =
        CASE name = "status" -> WithStatus(@, value)
          [] name = "cause"  -> WithSoftware(@, value)
          [] name = "epc"    -> WithEpc(@, value)]

-----------------------------------------------------------------------------
(* Steps.  The interrupt line of the bus is sampled first.                 *)

View == INSTANCE RegisterView WITH
            Values <- Addresses,
            now   <- cpu.regs,
            later <- [r \in Regs |-> LoadMergeBase([cpu |-> cpu,
                                                    merge |-> cpu.load], r)]

Sampled(pending) ==
    [cpu EXCEPT !.cop0 = SetInterruptPending(@, pending)]

\* The handlers in progress, as far as Status can remember them.
Enter(c) == SubSeq(<<c.cop0.ie[1]>> \o handlers, 1,
                   IF handlers = <<>> THEN 1 ELSE 2)

Trap(c, code, bad) ==
    /\ cpu' = RaiseException(c, code, c.pc, c.slot, bad)
    /\ did' = <<"trap", 0, 0>>
    /\ owner' = NoBranch
    /\ handlers' = Enter(c)

Interrupt ==
    \E pending \in BOOLEAN :
        /\ InterruptsEnabled(Sampled(pending).cop0)
        /\ Trap(Sampled(pending), "Interrupt", {})

Runs(c) == ~InterruptsEnabled(c.cop0)

MisalignedFetch ==
    \E pending \in BOOLEAN :
        /\ Runs(Sampled(pending))
        /\ cpu.pc % 4 # 0
        /\ Trap(Sampled(pending), "AddressLoad", {cpu.pc})

FetchError ==
    \E pending \in BOOLEAN :
        /\ Runs(Sampled(pending))
        /\ cpu.pc % 4 = 0
        /\ cpu.pc \in Unmapped
        /\ Trap(Sampled(pending), "InstructionBusError", {})

\* The executions that an instruction of class op may find when fetched.
Fetched(op) ==
    IF op \notin Ops \/ cpu.pc % 4 # 0 \/ cpu.pc \in Unmapped THEN {}
    ELSE {Begin(c) : c \in {d \in {Sampled(p) : p \in BOOLEAN} : Runs(d)}}

Did(what, r, v) == IF r = 0 THEN <<"none", 0, 0>> ELSE <<what, r, v>>
Nothing == <<"none", 0, 0>>

Finish(e, what) ==
    /\ cpu' = Retire(e)
    /\ did' = what

Plain == owner' = NoBranch /\ UNCHANGED handlers

\* The next instruction is in the delay slot of this one.
Branching(e, taken) ==
    /\ owner' = [is |-> TRUE, taken |-> taken, at |-> e.at,
                 chained |-> e.here.is]
    /\ UNCHANGED handlers

Alu == \E e \in Fetched("alu"), r \in Regs, v \in Values :
    Finish(SetReg(e, r, v), Did("write", r, v)) /\ Plain

Load == \E e \in Fetched("load"), r \in Regs, v \in Values :
    Finish(SetLoad(e, r, v), Did("load", r, v)) /\ Plain

Lwl == \E e \in Fetched("merge"), r \in Regs, w \in Values :
    /\ Finish(SetLoad(e, r, View!MergeUpper(LoadMergeBase(e, r), w)),
              Did("lwl", r, w))
    /\ Plain

Lwr == \E e \in Fetched("merge"), r \in Regs, w \in Values :
    /\ Finish(SetLoad(e, r, View!MergeLower(LoadMergeBase(e, r), w)),
              Did("lwr", r, w))
    /\ Plain

CondBranch == \E e \in Fetched("branch"), taken \in BOOLEAN, o \in Offsets :
    Finish(Branch(e, taken, o), Nothing) /\ Branching(e, taken)

BranchAndLink ==
    \E e \in Fetched("branch"), taken \in BOOLEAN, o \in Offsets :
        /\ Finish(Branch(LinkTo(e, Link), taken, o),
                  Did("write", Link, Wrap(e.cpu.pc + 4)))
        /\ Branching(e, taken)

JumpTo == \E e \in Fetched("jump"), t \in JumpTargets :
    Finish(Jump(e, t), Nothing) /\ Branching(e, TRUE)

JumpAndLink == \E e \in Fetched("jump"), t \in JumpTargets :
    /\ Finish(Jump(LinkTo(e, Link), t),
              Did("write", Link, Wrap(e.cpu.pc + 4)))
    /\ Branching(e, TRUE)

Jr == \E e \in Fetched("jr"), rs \in Regs :
    Finish(JumpRegister(e, rs), Nothing) /\ Branching(e, TRUE)

Jalr == \E e \in Fetched("jr"), rs \in Regs, rd \in Regs :
    /\ Finish(JumpAndLinkRegister(e, rs, rd),
              Did("write", IF rd = 0 THEN Link ELSE rd,
                  Wrap(e.cpu.pc + 4)))
    /\ Branching(e, TRUE)

Mtc0Status == \E e \in Fetched("mtc0"), s \in Statuses :
    /\ Finish(WriteCop0(e, "status", s), Nothing)
    /\ owner' = NoBranch
    /\ handlers' = <<>>

Mtc0Other == \E e \in Fetched("mtc0") :
    /\ \/ \E ip \in {{}, {"sw"}} : Finish(WriteCop0(e, "cause", ip), Nothing)
       \/ \E a \in JumpTargets : Finish(WriteCop0(e, "epc", a), Nothing)
    /\ Plain

ReturnFromException == \E e \in Fetched("rfe") :
    /\ Finish([e EXCEPT !.cpu.cop0 = Rfe(@)], <<"rfe", 0, 0>>)
    /\ owner' = NoBranch
    /\ handlers' = IF handlers = <<>> THEN <<>> ELSE Tail(handlers)

Fault(e, code, bad) ==
    /\ Finish(Raise(e, code, bad), <<"fault", 0, 0>>)
    /\ owner' = NoBranch
    /\ handlers' = Enter(e.cpu)

\* syscall, break, an undefined opcode, an absent coprocessor, an overflow.
TrapInstruction == \E e \in Fetched("trap"), code \in Codes :
    Fault(e, code, {})

\* A load or a store to a misaligned address.
AddressError ==
    \E e \in Fetched("memory"), a \in BadAddrs,
       code \in {"AddressLoad", "AddressStore"} : Fault(e, code, {a})

\* A load or a store that no device answers; the isolated cache always does.
DataBusError == \E e \in Fetched("memory") :
    ~e.cpu.cop0.isc /\ Fault(e, "DataBusError", {})

Reset ==
    /\ "reset" \in Ops
    /\ cpu' = NewCpu
    /\ did' = <<"reset", 0, 0>>
    /\ owner' = NoBranch
    /\ handlers' = <<>>

Init ==
    /\ cpu \in {NewCpu} \union {SetPc(NewCpu, t) : t \in JumpTargets}
    /\ did = Nothing
    /\ owner = NoBranch
    /\ handlers = <<>>

Execute ==
    \/ Alu \/ Load \/ Lwl \/ Lwr
    \/ CondBranch \/ BranchAndLink \/ JumpTo \/ JumpAndLink \/ Jr \/ Jalr
    \/ Mtc0Status \/ Mtc0Other \/ ReturnFromException
    \/ TrapInstruction \/ AddressError \/ DataBusError

Next == Interrupt \/ MisalignedFetch \/ FetchError \/ Execute \/ Reset

Spec == Init /\ [][Next]_vars

-----------------------------------------------------------------------------
(* Properties.                                                             *)

Loads == {NoLoad} \union ((Regs \ {0}) \X Addresses)
Slots == [is : BOOLEAN, taken : BOOLEAN, target : Addresses]
ExceptionCodes ==
    Codes \union {"Interrupt", "AddressLoad", "AddressStore",
                  "InstructionBusError", "DataBusError"}
Cop0s ==
    [ie : BOOLEAN \X BOOLEAN \X BOOLEAN, im : SUBSET Lines, isc : BOOLEAN,
     bev : BOOLEAN, ip : SUBSET Lines, bd : BOOLEAN, bt : BOOLEAN,
     code : ExceptionCodes, epc : Addresses, tar : Addresses, badVaddr : Addresses]
Cpus ==
    [pc : Addresses, nextPc : Addresses, slot : Slots,
     regs : [Regs -> Addresses], load : Loads, cop0 : Cop0s]

TypeOK == cpu \in Cpus /\ cpu.regs[0] = 0

\* The two records of a control transfer agree: the next instruction is
\* marked as a delay slot exactly when the instruction before it was a
\* branch or a jump, a taken one goes where next_pc says, and every other
\* instruction is followed by its neighbour.  An exception on the way (whose
\* handler must not start in a stale slot) keeps this.
FlowIsConsistent ==
    /\ cpu.slot.is = owner.is /\ cpu.slot.taken = owner.taken
    /\ IF cpu.slot.taken
       THEN cpu.slot.target = cpu.nextPc
       ELSE cpu.slot.target = 0 /\ cpu.nextPc = Wrap(cpu.pc + 4)

\* An exception can be returned from: EPC is the instruction that was not
\* executed or, if that is in a delay slot, the branch before it, with BD
\* set, and with BT and TAR naming its destination if it was taken
\* (debug/2026-07-04_cpu-delay-exception-fixes.md:14).  Only the slot of a
\* branch that was itself in a slot is left out.
RestartPoint ==
    [][did'[1] \in {"trap", "fault"} /\ ~owner.chained =>
        /\ cpu'.cop0.epc = IF owner.is THEN owner.at ELSE cpu.pc
        /\ cpu'.cop0.bd = owner.is
        /\ cpu'.cop0.bt = owner.taken
        /\ cpu'.cop0.bt => cpu'.cop0.tar = cpu.nextPc
      ]_vars

\* The registers follow the program order view with a one-instruction load
\* delay (ARCHITECTURE.md:77): what was loaded arrives, whatever comes
\* between.  It does not: an interrupt after a load loses the load, and EPC
\* names the instruction after it, so that it is never loaded again.
ViewSpec == View!Spec

\* An exception between two instructions finds a load in flight: the
\* registers stay as they were and nothing is in flight any more.
LoadIsDropped ==
    /\ did' = <<"trap", 0, 0>>
    /\ cpu.load # NoLoad
    /\ cpu'.regs = cpu.regs /\ cpu'.load = NoLoad

\* That exception is the only step that departs from the view, and it drops
\* the one load and nothing else: adjacent and partial loads, writes that
\* overtake a load, branches, faults inside an instruction and returns all
\* leave every register what program order says (set_reg, set_load, the end of
\* step).
DelayIsKept == [][View!Next \/ LoadIsDropped]_vars

\* rfe gives back the interrupt enable of the program that the handler
\* interrupted, through two levels of nesting.
RfeReturns ==
    [][did'[1] = "rfe" /\ handlers # <<>> =>
        cpu'.cop0.ie[1] = Head(handlers)]_vars
=============================================================================
