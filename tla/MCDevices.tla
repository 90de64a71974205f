------------------------------- MODULE MCDevices -------------------------------
(* The instances of the DMA controller, of a timer and of a memory card in *)
(* one run.  No operation of one touches another, so the order in which    *)
(* they take turns shows nothing: the device is chosen at the start.       *)
EXTENDS MCDma, MCTimers, MCMemoryCard

VARIABLE device

DevicesInit ==
    /\ device \in {"dma", "timer", "card"}
    /\ Init /\ TimerInit /\ CardInit
    /\ device # "timer" => index = 0

\* A card that panicked has ended the program; nothing else ever stops.
DevicesNext ==
    /\ UNCHANGED device
    /\ \/ device = "dma" /\ Next /\ UNCHANGED <<timerVars, cardVars>>
       \/ device = "timer" /\ TimerNext /\ UNCHANGED <<vars, cardVars>>
       \/ device = "card" /\ CardNext /\ UNCHANGED <<vars, timerVars>>
       \/ panicked /\ UNCHANGED <<vars, timerVars, cardVars>>

DevicesSpec ==
    DevicesInit /\ [][DevicesNext]_<<device, vars, timerVars, cardVars>>
=============================================================================
