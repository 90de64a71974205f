--------------------------------- MODULE MCGpu ---------------------------------
(* An instance of the GPU's command stream for TLC: VRAM of two by two pixels of *)
(* one bit, which is the mask.                                                   *)
EXTENDS Gpu

Command(group, flags, bits) ==
    [cmd |-> [group |-> group, flags |-> flags], lo |-> 0, hi |-> 0,
     term |-> FALSE, bits |-> bits]
Data(lo, hi) == [Command("nop", {}, {}) EXCEPT !.lo = lo, !.hi = hi]

\* Packets of every length.
SomeWords ==
    {Command("polygon", f, {}) :
        f \in {{}, {"gouraud", "quad", "textured"}}}
    \union {Command("rect", f, {}) : f \in {{"textured"}, {"variable"}}}
    \union {Command("line", f, {}) : f \in {{}, {"gouraud"}, {"polyline"}}}
    \union {Command(g, {}, {}) : g \in {"fill", "copy", "upload", "download"}}
    \union {Command("mask", {}, b) : b \in {{}, {0}, {1}}}
    \union {Data(1, 0), [Data(1, 1) EXCEPT !.term = TRUE]}

At2(x, y) == [x |-> x, y |-> y]
\* Quads whose diagonals go through pixels, of either winding, beyond the edges
\* of VRAM, tilted, flat, crossed, and too large; lines that are level, upright,
\* steep, shallow and single points.
SomeCorners ==
    {<<At2(0, 0), At2(2, 0), At2(0, 2), At2(2, 2)>>,
     <<At2(2, 1), At2(0, 0), At2(2, 2), At2(0, 2)>>,
     <<At2(1, -1), At2(2, 1), At2(0, 1), At2(1, 3)>>,
     <<At2(0, 0), At2(1, 2), At2(1, 0), At2(0, 2)>>,
     <<At2(1, -1), At2(-1, 1), At2(3, 1), At2(1, 3)>>,
     <<At2(0, 2), At2(3, 1), At2(0, 1), At2(3, 0)>>,
     <<At2(0, 1), At2(0, 1), At2(1, 1), At2(2, 1)>>,
     <<At2(-3, 0), At2(2, 1), At2(0, 0), At2(1, 1)>>}
SomeSizes == {At2(0, 1), At2(1, 2)}
SomeOpaque == {{}, {<<0, 0>>, <<1, 0>>, <<1, 1>>}}
WholeVram == [first |-> At2(0, 0), last |-> At2(1, 1)]
ThreeByThree == At2(3, 3)
=============================================================================
