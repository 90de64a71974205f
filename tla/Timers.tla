-------------------------------- MODULE Timers --------------------------------
(***************************************************************************)
(* The root counters: src/ps1-core/src/timer.rs.                           *)
(*                                                                         *)
(* The three counters do not touch each other, so the model follows one of *)
(* them, index, which may be any.  Bus::tick clocks it with the cycles of  *)
(* each CPU step; the guest writes and reads its registers in between; the *)
(* blanking signals come from Ps1::dispatch_event.                         *)
(***************************************************************************)
EXTENDS Integers, FiniteSets

CONSTANTS
    CounterMod,    \* 2^16: a counter is a u16
    DotDivisor,    \* 5: cycles of the dot clock
    SlowDivisor,   \* 8: the system clock divided for counter 2
    Modes,         \* what the guest writes to the mode register
    Targets,       \* what it writes to the counter and target registers
    StepCycles,    \* cycles of a CPU step
    MaxCycles      \* bound: cycles between two writes to the mode

\* The bits of the mode register that the guest writes.
ModeType ==
    [sync : BOOLEAN, syncMode : 0..3, resetOnTarget : BOOLEAN,
     irqOnTarget : BOOLEAN, irqOnOverflow : BOOLEAN, repeat : BOOLEAN,
     toggle : BOOLEAN, source : 0..3]

ASSUME TimersAssumption ==
    /\ CounterMod \in Nat \ {0, 1}
    /\ {DotDivisor, SlowDivisor} \subseteq Nat \ {0}
    /\ Modes \subseteq ModeType /\ Targets \subseteq 0..(CounterMod - 1)
    /\ StepCycles \subseteq Nat \ {0} /\ MaxCycles \in Nat

VARIABLES
    index,         \* which counter this is
    timer,         \* its registers
    hblank, vblank,
    \* Observations, since the mode was written:
    cycles,        \* CPU cycles ticked
    requests,      \* interrupts requested
    plain          \* the guest wrote no other register, and no blanking
                   \* signal gates this mode

timerVars == <<index, timer, hblank, vblank, cycles, requests, plain>>

NewMode ==
    [sync |-> FALSE, syncMode |-> 0, resetOnTarget |-> FALSE,
     irqOnTarget |-> FALSE, irqOnOverflow |-> FALSE, repeat |-> FALSE,
     toggle |-> FALSE, source |-> 0]

\* line is bit 10, hitTarget and hitMax bits 11 and 12 of the mode.
NewTimer ==
    [counter |-> 0, mode |-> NewMode, line |-> FALSE, hitTarget |-> FALSE,
     hitMax |-> FALSE, target |-> CounterMod - 1, fired |-> FALSE,
     accum |-> 0, freeRun |-> FALSE]

\* Counter 1 on the HBlank clock is not clocked by tick at all.
OnHblankClock(i, m) == i = 1 /\ m.source \in {1, 3}
Divisor(i, m) ==
    CASE i = 0 /\ m.source \in {1, 3} -> DotDivisor
      [] i = 2 /\ m.source \in {2, 3} -> SlowDivisor
      [] OTHER -> 1

Gate(t, blank) ==
    CASE t.mode.syncMode = 0 -> ~blank
      [] t.mode.syncMode = 1 -> TRUE
      [] t.mode.syncMode = 2 -> blank
      [] OTHER -> t.freeRun

CounterEnabled(i, t) ==
    \/ ~t.mode.sync
    \/ i = 0 /\ Gate(t, hblank)
    \/ i = 1 /\ Gate(t, vblank)
    \/ i = 2 /\ t.mode.syncMode \in {1, 2}

-----------------------------------------------------------------------------
(* One clock.  A clock gives the counter and whether it asks for an        *)
(* interrupt.                                                              *)

\* Faulty: the line toggles but every edge asks for an interrupt.
FireBothEdges(t) ==
    [timer |-> [t EXCEPT !.line = ~@, !.fired = TRUE], request |-> TRUE]

\* In toggle mode only the falling edge of the line is an interrupt.
FireTimerIrq(t) ==
    IF t.mode.toggle
    THEN [timer |-> [t EXCEPT !.line = ~@, !.fired = TRUE],
          request |-> t.line]
    ELSE [timer |-> [t EXCEPT !.line = FALSE, !.fired = TRUE],
          request |-> TRUE]

\* A one-shot counter asks once until its mode is written again.
Armed(t) == t.mode.repeat \/ ~t.fired

Next16(n) == (n + 1) % CounterMod

Clocked(i, t) ==
    IF ~CounterEnabled(i, t) THEN [timer |-> t, request |-> FALSE]
    ELSE
    LET m == t.mode
        onTarget == Next16(t.counter) = t.target
        overflow == t.counter = CounterMod - 1
        u == [t EXCEPT
                !.hitTarget = @ \/ onTarget,
                !.hitMax = @ \/ overflow,
                !.counter = IF m.resetOnTarget /\ onTarget THEN 0
                            ELSE Next16(@)]
        event == \/ m.irqOnTarget /\ onTarget
                 \/ m.irqOnOverflow /\ overflow
    IN  IF event /\ Armed(t) THEN FireTimerIrq(u)
        ELSE [timer |-> u, request |-> FALSE]

\* n clocks in a row, with the interrupts they ask for.
Clocks(i, t, n) ==
    LET after[k \in 0..n] ==
            IF k = 0 THEN [timer |-> t, count |-> 0]
            ELSE LET r == Clocked(i, after[k - 1].timer) IN
                 [timer |-> r.timer,
                  count |-> after[k - 1].count + (IF r.request THEN 1 ELSE 0)]
    IN  after[n]

-----------------------------------------------------------------------------
(* Actions.                                                                *)

\* Faulty: the cycles that make no whole clock are dropped.
TakeWhole(sum, divisor) == 0
Remainder(sum, divisor) == sum % divisor

Tick(c) ==
    LET divisor == Divisor(index, timer.mode)
        sum == timer.accum + c
        r == Clocks(index, [timer EXCEPT !.accum = Remainder(sum, divisor)],
                    sum \div divisor)
    IN  /\ cycles + c <= MaxCycles
        /\ cycles' = cycles + c
        /\ IF OnHblankClock(index, timer.mode)
           THEN UNCHANGED <<timer, requests>>
           ELSE timer' = r.timer /\ requests' = requests + r.count
        /\ UNCHANGED <<index, hblank, vblank, plain>>

SyncEdge(t) ==
    IF ~t.mode.sync THEN t
    ELSE CASE t.mode.syncMode \in {1, 2} -> [t EXCEPT !.counter = 0]
           [] t.mode.syncMode = 3 -> [t EXCEPT !.freeRun = TRUE]
           [] OTHER -> t

\* The HBlank signal resets or releases counter 0 and clocks counter 1.
SetHblank(active) ==
    /\ hblank' = active
    /\ LET rising == ~hblank /\ active
           t == IF rising /\ index = 0 THEN SyncEdge(timer) ELSE timer
           r == Clocked(index, t)
       IN  IF rising /\ OnHblankClock(index, timer.mode)
           THEN /\ cycles < MaxCycles
                /\ timer' = r.timer
                /\ requests' = requests + (IF r.request THEN 1 ELSE 0)
           ELSE timer' = t /\ UNCHANGED requests
    /\ cycles' = IF ~hblank /\ active /\ OnHblankClock(index, timer.mode)
                 THEN cycles + 1 ELSE cycles
    /\ UNCHANGED <<index, vblank, plain>>

SetVblank(active) ==
    /\ vblank' = active
    /\ timer' = IF ~vblank /\ active /\ index = 1 THEN SyncEdge(timer)
                ELSE timer
    /\ UNCHANGED <<index, hblank, cycles, requests, plain>>

\* Every write of the mode starts the counter afresh, with its line high.
SetMode(t, m) ==
    [t EXCEPT !.mode = m, !.line = TRUE, !.hitTarget = FALSE,
              !.hitMax = FALSE, !.counter = 0, !.fired = FALSE,
              !.accum = 0, !.freeRun = FALSE]

WriteMode(m) ==
    /\ timer' = SetMode(timer, m)
    /\ cycles' = 0
    /\ requests' = 0
    /\ plain' = (~m.sync /\ ~OnHblankClock(index, m))
    /\ UNCHANGED <<index, hblank, vblank>>

WriteCounter(n) ==
    /\ timer' = [timer EXCEPT !.counter = n, !.accum = 0]
    /\ plain' = FALSE
    /\ UNCHANGED <<index, hblank, vblank, cycles, requests>>

\* The target may be written at any time; the observations restart only if
\* nothing was counted yet.
WriteTarget(n) ==
    /\ timer' = [timer EXCEPT !.target = n]
    /\ plain' = (plain /\ cycles = 0)
    /\ UNCHANGED <<index, hblank, vblank, cycles, requests>>

ReadMode ==
    /\ timer' = [timer EXCEPT !.hitTarget = FALSE, !.hitMax = FALSE]
    /\ UNCHANGED <<index, hblank, vblank, cycles, requests, plain>>

TimerInit ==
    /\ index \in 0..2
    /\ timer = NewTimer
    /\ hblank = FALSE
    /\ vblank = FALSE
    /\ cycles = 0
    /\ requests = 0
    /\ plain = FALSE

TimerNext ==
    \/ \E c \in StepCycles : Tick(c)
    \/ \E b \in BOOLEAN : SetHblank(b) \/ SetVblank(b)
    \/ \E m \in Modes : WriteMode(m)
    \/ \E n \in Targets : WriteCounter(n) \/ WriteTarget(n)
    \/ ReadMode

TimerSpec == TimerInit /\ [][TimerNext]_timerVars

-----------------------------------------------------------------------------
(* The reference: where a counter is after n clocks from 0, and how many   *)
(* of them were events.                                                    *)
Clocked0 == cycles \div Divisor(index, timer.mode)
Period == IF timer.mode.resetOnTarget /\ timer.target > 0
          THEN timer.target ELSE CounterMod
\* After k clocks the counter has just come to k modulo its period.
Event(k) ==
    \/ timer.mode.irqOnTarget /\ k % Period = (timer.target % Period)
    \/ timer.mode.irqOnOverflow /\ Period = CounterMod /\ k % CounterMod = 0
Events == Cardinality({k \in 1..Clocked0 : Event(k)})

\* However the CPU's steps cut the cycles up, a free-running counter stands
\* where the cycles since its mode was written put it.
CountsExactly == plain => timer.counter = Clocked0 % Period

\* A counter asks for exactly the interrupts its mode promises: the first
\* event only, every event, or every other one when the line toggles; and a
\* one-shot counter at most once, whatever the guest writes to the counter
\* and the target and whatever the blanking signals do.
RequestsFit ==
    /\ ~timer.mode.repeat => requests <= 1
    /\ plain => requests =
            IF ~timer.mode.repeat THEN (IF Events > 0 THEN 1 ELSE 0)
            ELSE IF timer.mode.toggle THEN (Events + 1) \div 2
            ELSE Events
=============================================================================
