--------------------------------- MODULE MCDma ---------------------------------
(* An instance of the DMA controller for TLC: the GPU and ordering table    *)
(* channels and a RAM of three words.                                      *)
EXTENDS Dma

Bcr(size, blocks) == [size |-> size, blocks |-> blocks]
SomeBcrs == {Bcr(3, 0)}

Chcr(sync, fromRam, back) ==
    [active |-> TRUE, force |-> sync = 0, sync |-> sync, fromRam |-> fromRam,
     back |-> back]
\* A forced burst, a block transfer to RAM and a linked list; channel 6 takes
\* the last two for a burst that waits for its trigger.
SomeChcrs ==
    {Chcr(0, TRUE, FALSE), Chcr(1, FALSE, TRUE), Chcr(2, TRUE, FALSE)}

Equal == [c \in Channels |-> 1]
SomePriorities == {Equal}
SomeWords == {LinkTo(0)}
Loop == LinkTo(0)

Dicr(enables, always, master) ==
    [enables |-> enables, always |-> always, master |-> master]
SomeDicrs ==
    {Dicr(Channels, FALSE, TRUE),
     Dicr({}, TRUE, FALSE)}
=============================================================================
