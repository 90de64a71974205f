------------------------------- MODULE CdromIrq -------------------------------
(***************************************************************************)
(* The CD-ROM controller on the bus: Bus::tick (src/ps1-core/src/bus/      *)
(* mod.rs) looks at the controller after every CPU step and latches its    *)
(* interrupt line into I_STAT (src/ps1-core/src/interrupt.rs); the CPU     *)
(* enters the guest's interrupt handler while that bit is set.             *)
(*                                                                         *)
(* A CPU step makes at most one register access, and Ps1::step_one ticks   *)
(* the bus right after it, so every action here is one access of Cdrom     *)
(* followed by the tick.  The guest is a main program that issues commands *)
(* and drains the data FIFO, and a handler that acknowledges the           *)
(* controller and I_STAT, in either order.                                 *)
(***************************************************************************)
EXTENDS Cdrom

CONSTANT MaxCommands   \* bound: commands the main program issues

ASSUME MaxCommandsAssumption == MaxCommands \in Nat

VARIABLES
    istat,     \* the IRQ_CDROM bit of I_STAT
    plan,      \* what the handler still has to do; <<>> while main runs
    early,     \* the last handler acknowledged I_STAT before the controller
    issued     \* commands issued so far

irqVars == <<vars, istat, plan, early, issued>>

-----------------------------------------------------------------------------
\* Faulty: a request on a rising line only.
TickOnEdge(status) ==
    istat' = (status \/ (InterruptPending' /\ ~InterruptPending))

\* Bus::tick: the line is a level, requested again on every tick.
Tick(status) == istat' = (status \/ InterruptPending')

-----------------------------------------------------------------------------
(* The guest.                                                              *)

DeviceFirst == <<"select", "device", "istat", "restore">>
IstatFirst  == <<"select", "istat", "device", "restore">>

EnterHandler ==
    /\ plan = <<>>
    /\ istat
    /\ \/ plan' = DeviceFirst /\ early' = FALSE
       \/ plan' = IstatFirst  /\ early' = TRUE
    /\ UNCHANGED vars
    /\ Tick(istat)
    /\ UNCHANGED issued

HandlerStep(step) ==
    /\ plan # <<>>
    /\ Head(plan) = step
    /\ plan' = Tail(plan)
    /\ UNCHANGED <<early, issued>>

HandlerSelect  == HandlerStep("select") /\ SelectIndex(1) /\ Tick(istat)
HandlerDevice  == HandlerStep("device") /\ WriteAck(Bits) /\ Tick(istat)
HandlerIstat   == HandlerStep("istat") /\ UNCHANGED vars /\ Tick(FALSE)
HandlerRestore == HandlerStep("restore") /\ SelectIndex(0) /\ Tick(istat)

Handler ==
    \/ EnterHandler \/ HandlerSelect \/ HandlerDevice
    \/ HandlerIstat \/ HandlerRestore

MainCommand(c) ==
    /\ plan = <<>>
    /\ issued < MaxCommands
    /\ issued' = issued + 1
    /\ Command(c)
    /\ Tick(istat)
    /\ UNCHANGED <<plan, early>>

MainAccess ==
    /\ plan = <<>>
    /\ \/ PushParam
       \/ ReadResponse
       \/ drive.data # <<>> /\ (ReadData \/ DmaRead32)
    /\ Tick(istat)
    /\ UNCHANGED <<plan, early, issued>>

\* The host takes the disc out between two CPU steps.
Eject ==
    /\ EjectDisc
    /\ UNCHANGED <<istat, plan, early, issued>>

IrqInit ==
    /\ \E n \in DiscSizes : drive = [NewDrive EXCEPT !.disc = n]
    /\ index = 0
    /\ params = 0
    /\ enable = Bits
    /\ istat = FALSE
    /\ plan = <<>>
    /\ early = FALSE
    /\ issued = 0

IrqNext ==
    \/ Handler
    \/ \E c \in Commands : MainCommand(c)
    \/ MainAccess
    \/ Eject

\* The CPU never stops stepping, so the handler is entered and left; the
\* main program keeps draining a FIFO that holds data.
Fairness ==
    /\ WF_irqVars(Handler)
    /\ WF_irqVars(drive.data # <<>> /\ MainAccess)

IrqSpec == IrqInit /\ [][IrqNext]_irqVars /\ Fairness

-----------------------------------------------------------------------------
\* I_STAT never hides an interrupt of the controller: whenever the line is
\* up the bit is set, also when one acknowledgement of the controller
\* delivers the next waiting code and the handler then clears I_STAT.  And a
\* handler that acknowledges the controller before I_STAT is never entered
\* for nothing: the bit stays set with the line down only until the handler
\* clears it.  (The other order leaves one spurious interrupt.)
LineAndStatusAgree ==
    /\ InterruptPending => istat
    /\ istat /\ ~InterruptPending =>
           early \/ \E i \in 1..Len(plan) : plan[i] = "istat"

\* Once the main program stops issuing commands, every reply is delivered
\* and acknowledged and a read runs to the end of the disc: the guest is
\* left with an empty mailbox and an idle drive.
EverythingDelivered == <>[](Mail = <<>> /\ ~drive.reading /\ ~istat)
=============================================================================
