------------------------------- MODULE MCTimers -------------------------------
(* An instance of the root counters for TLC: three-valued counters.        *)
EXTENDS Timers

\* Without synchronisation, interrupts for one reason in every mode of the
\* CPU's clock, for both where they repeat without a reset, and repeated ones
\* on the slow clock; with it, the one-shot target interrupts on the CPU's
\* clock and resets the counter.
SomeModes ==
    {m \in [sync : BOOLEAN, syncMode : 0..3, resetOnTarget : BOOLEAN,
            irqOnTarget : BOOLEAN, irqOnOverflow : BOOLEAN,
            repeat : BOOLEAN, toggle : BOOLEAN, source : {0, 3}] :
        /\ m.toggle => m.repeat
        /\ IF m.sync
           THEN /\ m.irqOnTarget /\ ~m.irqOnOverflow /\ ~m.repeat
                /\ m.resetOnTarget /\ m.source = 0
           ELSE /\ m.syncMode = 0 /\ (m.irqOnTarget \/ m.irqOnOverflow)
                /\ m.irqOnTarget /\ m.irqOnOverflow =>
                       m.repeat /\ ~m.resetOnTarget /\ m.source = 0
                /\ m.source = 3 => m.repeat /\ ~m.toggle}
=============================================================================
