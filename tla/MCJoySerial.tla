----------------------------- MODULE MCJoySerial -----------------------------
(* An instance of the serial bus for TLC: a FIFO of two bytes, a pulse of  *)
(* one cycle, a card of one sector of one byte.                            *)
EXTENDS JoySerial

\* The checksum is never reached with so few bytes.
AnyXor(a, b) == 0
BlankImage == [s \in Sector |-> [i \in 1..SectorBytes |-> 0]]

Working(port) ==
    [NoControl EXCEPT !.tx = TRUE, !.dtr = TRUE, !.dsrIrq = TRUE,
                      !.rxIrq = TRUE, !.port = port]
SomeControls ==
    {[NoControl EXCEPT !.reset = TRUE], NoControl,
     Working(0), Working(1), [Working(0) EXCEPT !.ack = TRUE],
     [NoControl EXCEPT !.tx = TRUE, !.force = TRUE]}
=============================================================================
