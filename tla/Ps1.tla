--------------------------------- MODULE Ps1 ---------------------------------
(***************************************************************************)
(* The machine's main loop: src/ps1-core/src/lib.rs with scheduler.rs.     *)
(*                                                                         *)
(* The host steps the machine one instruction at a time, or for a number   *)
(* of cycles.  Every step advances the scheduler's clock by what the CPU   *)
(* took and dispatches the events that came due; VBlank is the only kind,  *)
(* and its handler schedules the next one.                                 *)
(***************************************************************************)
EXTENDS Integers, FiniteSets

CONSTANTS
    Frame,       \* APPROX_CYCLES_PER_FRAME
    MinCost,     \* 2: cycles of an instruction that waits for nothing
    MaxCost,     \* the longest step: an instruction that waits for the GTE
    Runs,        \* lengths the host asks run_cycles for
    MaxTime      \* bound: the clock at which the host stops stepping

ASSUME Ps1Assumption ==
    /\ Frame \in Nat \ {0}
    /\ MinCost \in Nat \ {0}
    /\ MaxCost \in Nat /\ MaxCost >= MinCost
    /\ Runs \subseteq Nat
    /\ MaxTime \in Nat

VARIABLES
    timestamp,   \* Scheduler::timestamp
    queue,       \* Scheduler::queue: events [time, id]; id tells equal ones apart
    run,         \* the call of run_cycles in progress, or NoRun
    \* Observation: VBlanks requested since the machine was reset.
    vblanks

vars == <<timestamp, queue, run, vblanks>>

NoRun == [target |-> -1, cycles |-> 0, from |-> 0]

\* Faulty: an event is due only once its time has passed.
DueLate(event, now) == event.time < now
Due(event, now) == event.time <= now

\* What schedule_initial_events leaves of an empty queue.
FirstEvents == {[time |-> Frame, id |-> 0]}

\* The loop of step_one: every due event is popped and handled at now.  A
\* handled VBlank is scheduled again a frame after now, so never in the loop
\* that handled it.
DueEvents(now) == {e \in queue : Due(e, now)}
Rescheduled(now) ==
    {[time |-> now + Frame, id |-> vblanks + k] :
        k \in 1..Cardinality(DueEvents(now))}

\* Faulty: the queue is drained before the step's cycles are added.
DrainedAtStart(now, c) == now
DrainedAt(now, c) == now + c

StepOne(c) ==
    /\ timestamp + c <= MaxTime
    /\ run = NoRun \/ timestamp < run.target
    /\ timestamp' = timestamp + c
    /\ LET now == DrainedAt(timestamp, c) IN
       /\ queue' = (queue \ DueEvents(now)) \cup Rescheduled(now)
       /\ vblanks' = vblanks + Cardinality(DueEvents(now))
    /\ UNCHANGED run

\* run_frame is RunCycles(Frame).
RunCycles(n) ==
    /\ run = NoRun /\ timestamp + n + MaxCost <= MaxTime
    /\ run' = [target |-> timestamp + n, cycles |-> n, from |-> vblanks]
    /\ UNCHANGED <<timestamp, queue, vblanks>>

RunReturns ==
    /\ run # NoRun /\ timestamp >= run.target
    /\ run' = NoRun
    /\ UNCHANGED <<timestamp, queue, vblanks>>

QueueAfterReset == FirstEvents

Reset ==
    /\ run = NoRun
    /\ timestamp' = 0
    /\ queue' = QueueAfterReset
    /\ vblanks' = 0
    /\ UNCHANGED run

Init ==
    /\ timestamp = 0
    /\ queue = FirstEvents
    /\ run = NoRun
    /\ vblanks = 0

Next ==
    \/ \E c \in MinCost..MaxCost : StepOne(c)
    \/ \E n \in Runs : RunCycles(n)
    \/ RunReturns
    \/ Reset

Spec == Init /\ [][Next]_vars

-----------------------------------------------------------------------------
\* Between steps exactly one VBlank is queued, in the future and no more than
\* a frame ahead: the handler neither loses its event nor breeds a second one,
\* and a reset leaves none of the old machine's.
OneVBlankAhead ==
    \E t \in (timestamp + 1)..(timestamp + Frame) :
        queue = {[time |-> t, id |-> vblanks]}

\* A run that is over gave the guest a VBlank, if it was as long as a frame.
EveryFrameHasVBlank ==
    run # NoRun /\ timestamp >= run.target /\ run.cycles >= Frame
        => vblanks > run.from

\* The k-th VBlank comes no sooner than k frames after the reset, and each
\* adds less than the longest step to the lag: a step that overshoots delays
\* all later VBlanks, but never by more than that.
FrameRate ==
    /\ vblanks * Frame <= timestamp
    /\ timestamp < (vblanks + 1) * Frame + vblanks * (MaxCost - 1)
=============================================================================
