-------------------------------- MODULE MCSpu --------------------------------
(* An instance of the sound processor for TLC: two voices, one of them       *)
(* captured, in a RAM of four capture units, two blocks and a reverb area of *)
(* two units.                                                                *)
EXTENDS Spu

Off == [enable |-> FALSE, irq |-> FALSE, mode |-> 0, reverb |-> FALSE]
Listening == [Off EXCEPT !.enable = TRUE, !.irq = TRUE]
Writing == [Listening EXCEPT !.mode = 1, !.reverb = TRUE]
SomeControls == {Off, Listening, Writing}

\* Two blocks at unit 4: a sound that ends, and one that loops.
EndingRam == [a \in 0..17 |-> IF a = 12 THEN 1 ELSE 0]
LoopingRam == [a \in 0..17 |-> CASE a = 8 -> 4 [] a = 12 -> 3 [] a = 9 -> 1
                                 [] OTHER -> 0]

\* Straight lines, and exponential curves.
Fast ==
    [attackShift |-> 0, attackStep |-> 0, attackExponential |-> FALSE,
     decayShift |-> 0, sustainLevel |-> 9, sustainShift |-> 31,
     sustainStep |-> 3, sustainExponential |-> FALSE,
     sustainDecreasing |-> FALSE, releaseShift |-> 0,
     releaseExponential |-> FALSE]
Curved == [Fast EXCEPT !.attackExponential = TRUE, !.releaseExponential = TRUE]
SomeAdsrs == {Fast}
SomeLevels == {-8}

Echo == [walls |-> {1}, passes |-> {<<0, 1>>}, taps |-> {3}]
SomeReverbs == {Echo}

SomeSetups ==
    {[ram |-> LoopingRam, adsr |-> Fast, pitch |-> 3, start |-> 4,
      control |-> Listening, irq |-> 6, base |-> 8, reverb |-> Echo,
      on |-> {}, fifo |-> << >>],
     [ram |-> EndingRam, adsr |-> Fast, pitch |-> 2, start |-> 4,
      control |-> Writing, irq |-> 1, base |-> 8, reverb |-> Echo,
      on |-> {0}, fifo |-> << >>],
     [ram |-> LoopingRam, adsr |-> Curved, pitch |-> 3, start |-> 4,
      control |-> Off, irq |-> 8, base |-> 8, reverb |-> Echo,
      on |-> {1}, fifo |-> <<1>>]}
=============================================================================
