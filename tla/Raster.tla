--------------------------------- MODULE Raster ---------------------------------
(***************************************************************************)
(* Which pixels a primitive covers: render_triangle, render_polygon,       *)
(* draw_line, render_polyline and render_rectangle of                      *)
(* src/ps1-core/src/gpu/mod.rs, and the weights by which a triangle's      *)
(* shade and texture coordinates are mixed.                                *)
(*                                                                         *)
(* Vertices and pixels are records of two integers, x to the right and y   *)
(* down, after decode_vertex has added the drawing offset.                 *)
(***************************************************************************)
EXTENDS Integers, Sequences

Points == [x : Int, y : Int]

Sign(n) == IF n > 0 THEN 1 ELSE IF n < 0 THEN -1 ELSE 0
Abs(n) == IF n < 0 THEN -n ELSE n
Larger(m, n) == IF m > n THEN m ELSE n

-----------------------------------------------------------------------------
(* Triangles.                                                              *)

\* On which side of the line from a to b a pixel lies, 0 on the line.
Edge(a, b, p) == (b.x - a.x) * (p.y - a.y) - (b.y - a.y) * (p.x - a.x)

\* Faulty: a pixel on an edge belongs to the triangles on both sides of it.
EdgeOfBoth(a, b, sign) == TRUE
\* Of the pixels on its edges a triangle has those of its top and left ones.
EdgeIsTopLeft(a, b, sign) ==
    LET from == IF sign >= 0 THEN a ELSE b
        to   == IF sign >= 0 THEN b ELSE a
    IN  \/ from.y = to.y /\ from.x < to.x
        \/ from.y > to.y

Inside(a, b, sign, p) ==
    LET w == Edge(a, b, p) * sign
    IN  \/ w > 0
        \/ w = 0 /\ EdgeIsTopLeft(a, b, sign)

\* The pixels of a triangle, of either orientation.  That render_triangle
\* looks only at the box around it, and not at all where it is empty, leaves
\* none of them out.
Covers(v0, v1, v2, p) ==
    LET sign == Sign(Edge(v0, v1, v2))
    IN  /\ sign # 0
        /\ Inside(v1, v2, sign, p)
        /\ Inside(v2, v0, sign, p)
        /\ Inside(v0, v1, sign, p)

\* What interpolate_component and interpolate_i32 make of the values a, b and
\* c at the corners, for a pixel of the triangle.
\* No term is negative there, so that \div is the division of the code.
Weight(a, b, sign, p) == Edge(a, b, p) * sign
Interpolate(a, b, c, v0, v1, v2, p) ==
    LET sign == Sign(Edge(v0, v1, v2))
    IN  (a * Weight(v1, v2, sign, p) + b * Weight(v2, v0, sign, p)
           + c * Weight(v0, v1, sign, p)) \div Abs(Edge(v0, v1, v2))

\* A primitive that is too large is not drawn at all.
TooFar(a, b, maxDelta) ==
    Abs(a.x - b.x) > maxDelta.x \/ Abs(a.y - b.y) > maxDelta.y
TooLarge(vertices, maxDelta) ==
    \E i, j \in DOMAIN vertices : TooFar(vertices[i], vertices[j], maxDelta)

\* How often a polygon touches a pixel: a quad is drawn as two triangles.
TriangleTouches(v0, v1, v2, maxDelta, p) ==
    IF ~TooLarge(<<v0, v1, v2>>, maxDelta) /\ Covers(v0, v1, v2, p) THEN 1 ELSE 0
PolygonTouches(v, maxDelta, p) ==
    TriangleTouches(v[1], v[2], v[3], maxDelta, p)
      + IF Len(v) = 4 THEN TriangleTouches(v[2], v[3], v[4], maxDelta, p) ELSE 0

-----------------------------------------------------------------------------
(* Lines.                                                                  *)

\* How far a line goes in each direction; dy counts downwards from 0.
Dx(start, end) == Abs(end.x - start.x)
Dy(start, end) == -Abs(end.y - start.y)
Steps(start, end) == Larger(Larger(Dx(start, end), -Dy(start, end)), 1)
Toward(from, to) == IF from < to THEN 1 ELSE -1

LineStart(start, end) ==
    [x |-> start.x, y |-> start.y, err |-> Dx(start, end) + Dy(start, end)]
Arrived(end, pen) == pen.x = end.x /\ pen.y = end.y

\* One turn of the loop of draw_line, from a pixel that is not the last.
LineStep(start, end, pen) ==
    LET dx == Dx(start, end)
        dy == Dy(start, end)
        across == 2 * pen.err >= dy
        down   == 2 * pen.err <= dx
    IN  [x   |-> IF across THEN pen.x + Toward(start.x, end.x) ELSE pen.x,
         y   |-> IF down THEN pen.y + Toward(start.y, end.y) ELSE pen.y,
         err |-> pen.err + (IF across THEN dy ELSE 0) + (IF down THEN dx ELSE 0)]

\* The pixels of a line in the order in which they are drawn.  The loop has
\* no other end than the last pixel; Fuel bounds a loop that misses it.
LineWalk(start, end, Fuel) ==
    LET pen[n \in 0..Fuel] ==
            IF n = 0 THEN LineStart(start, end)
            ELSE IF Arrived(end, pen[n - 1]) THEN pen[n - 1]
            ELSE LineStep(start, end, pen[n - 1])
    IN  pen

LineTouches(start, end, maxDelta, p) ==
    LET fuel == 2 * Steps(start, end)
        walk == LineWalk(start, end, fuel)
    IN  IF TooFar(start, end, maxDelta) THEN 0
        ELSE IF \E n \in 0..fuel : Arrived(p, walk[n]) THEN 1 ELSE 0

-----------------------------------------------------------------------------
(* Rectangles.                                                             *)

\* size is that of the command, or the one a word of the packet gives.
RectangleTouches(corner, size, maxDelta, p) ==
    IF /\ size.x \in 1..maxDelta.x /\ size.y \in 1..maxDelta.y
       /\ p.x \in corner.x..(corner.x + size.x - 1)
       /\ p.y \in corner.y..(corner.y + size.y - 1)
    THEN 1 ELSE 0
=============================================================================
