------------------------------- MODULE GpuProofs -------------------------------
(***************************************************************************)
(* What holds of every triangle and every line of Raster, whatever the     *)
(* size of VRAM and wherever the vertices are; and of the command stream   *)
(* of Gpu that brings them: that it is read as it was meant, that uploads  *)
(* arrive and come back, and that every primitive is whole.                *)
(***************************************************************************)
EXTENDS Gpu, Iteration

-----------------------------------------------------------------------------
(* The two triangles of a quad.                                            *)

LEMMA EdgeType ==
    ASSUME NEW a \in Points, NEW b \in Points, NEW p \in Points
    PROVE  Edge(a, b, p) \in Int
BY DEF Edge, Points

\* Seen from its other end a line has its sides exchanged.
LEMMA EdgeReversed ==
    ASSUME NEW a \in Points, NEW b \in Points, NEW p \in Points
    PROVE  Edge(b, a, p) = -Edge(a, b, p)
<1> DEFINE ux == b.x - a.x  uy == b.y - a.y
           px == p.x - a.x  py == p.y - a.y
<1>1. ux \in Int /\ uy \in Int /\ px \in Int /\ py \in Int
  BY DEF Points
<1>2. Edge(a, b, p) = ux * py - uy * px
  BY DEF Edge
<1>3. Edge(b, a, p) = (-ux) * (py - uy) - (-uy) * (px - ux)
  <2>1. a.x - b.x = -ux /\ a.y - b.y = -uy /\ p.y - b.y = py - uy /\ p.x - b.x = px - ux
    BY DEF Points
  <2> QED
    BY <2>1 DEF Edge
<1> HIDE DEF ux, uy, px, py
<1>4. (-ux) * (py - uy) - (-uy) * (px - ux) = -(ux * py - uy * px)
  BY <1>1
<1> QED
  BY <1>2, <1>3, <1>4

\* The orientation of a triangle does not depend on the corner it is counted from.
LEMMA EdgeRotated ==
    ASSUME NEW a \in Points, NEW b \in Points, NEW c \in Points
    PROVE  Edge(a, b, c) = Edge(b, c, a)
<1> DEFINE ux == b.x - a.x  uy == b.y - a.y
           vx == c.x - a.x  vy == c.y - a.y
<1>1. ux \in Int /\ uy \in Int /\ vx \in Int /\ vy \in Int
  BY DEF Points
<1>2. Edge(a, b, c) = ux * vy - uy * vx
  BY DEF Edge
<1>3. Edge(b, c, a) = (vx - ux) * (-uy) - (vy - uy) * (-ux)
  <2>1. c.x - b.x = vx - ux /\ c.y - b.y = vy - uy /\ a.y - b.y = -uy /\ a.x - b.x = -ux
    BY DEF Points
  <2> QED
    BY <2>1 DEF Edge
<1> HIDE DEF ux, uy, vx, vy
<1>4. (vx - ux) * (-uy) - (vy - uy) * (-ux) = ux * vy - uy * vx
  BY <1>1
<1> QED
  BY <1>2, <1>3, <1>4

LEMMA SignType ==
    ASSUME NEW n \in Int
    PROVE  /\ Sign(n) \in {-1, 0, 1}
           /\ Sign(n) = 0 <=> n = 0
           /\ Sign(n) = 1 <=> n > 0
           /\ Sign(n) = -1 <=> n < 0
BY DEF Sign

\* Of the two directions of an edge exactly one makes it a top or left edge.
LEMMA OneOwner ==
    ASSUME NEW a \in Points, NEW b \in Points, a # b,
           NEW s \in {-1, 1}
    PROVE  EdgeIsTopLeft(a, b, s) <=> ~EdgeIsTopLeft(a, b, -s)
<1>1. a.x # b.x \/ a.y # b.y
  BY DEF Points
<1> QED
  BY <1>1 DEF EdgeIsTopLeft, Points

LEMMA InsideReversed ==
    ASSUME NEW a \in Points, NEW b \in Points, NEW s \in {-1, 1}, NEW p \in Points
    PROVE  Inside(b, a, -s, p) <=> Inside(a, b, s, p)
<1>1. EdgeIsTopLeft(b, a, -s) <=> EdgeIsTopLeft(a, b, s)
  BY DEF EdgeIsTopLeft, Points
<1>2. Edge(b, a, p) * (-s) = Edge(a, b, p) * s
  BY EdgeType, EdgeReversed
<1> QED
  BY <1>1, <1>2 DEF Inside

LEMMA CoversRotated ==
    ASSUME NEW a \in Points, NEW b \in Points, NEW c \in Points, NEW p \in Points
    PROVE  Covers(a, b, c, p) <=> Covers(b, c, a, p)
<1>1. Edge(a, b, c) = Edge(b, c, a)
  BY EdgeRotated
<1> QED
  BY <1>1 DEF Covers

LEMMA CoversReversed ==
    ASSUME NEW a \in Points, NEW b \in Points, NEW c \in Points, NEW p \in Points
    PROVE  Covers(a, b, c, p) <=> Covers(b, a, c, p)
<1> DEFINE s == Sign(Edge(a, b, c))
           t == Sign(Edge(b, a, c))
<1>1. s \in {-1, 0, 1} /\ t = -s /\ (s = 0 <=> t = 0)
  BY EdgeType, EdgeReversed, SignType DEF Sign
<1>2. Covers(a, b, c, p) <=>
        s # 0 /\ Inside(b, c, s, p) /\ Inside(c, a, s, p) /\ Inside(a, b, s, p)
  BY DEF Covers
<1>3. Covers(b, a, c, p) <=>
        t # 0 /\ Inside(a, c, t, p) /\ Inside(c, b, t, p) /\ Inside(b, a, t, p)
  BY DEF Covers
<1> HIDE DEF s, t
<1>4. CASE s = 0
  BY <1>1, <1>2, <1>3, <1>4
<1>5. CASE s \in {-1, 1}
  <2>1. Inside(b, a, t, p) <=> Inside(a, b, s, p)
    BY <1>1, <1>5, InsideReversed
  <2>2. Inside(c, b, t, p) <=> Inside(b, c, s, p)
    BY <1>1, <1>5, InsideReversed
  <2>3. Inside(a, c, t, p) <=> Inside(c, a, s, p)
    BY <1>1, <1>5, InsideReversed
  <2>4. s # 0 /\ t # 0
    BY <1>1, <1>5
  <2> QED
    BY <1>2, <1>3, <2>1, <2>2, <2>3, <2>4
<1> QED
  BY <1>1, <1>4, <1>5

\* c and d are strictly on different sides of the line through a and b.
Opposite(a, b, c, d) ==
    Sign(Edge(a, b, c)) # 0 /\ Sign(Edge(a, b, d)) = -Sign(Edge(a, b, c))

\* No pixel is painted twice where two triangles meet (render_triangle): of
\* triangles on the two sides of an edge at most one covers it.  With
\* CoversRotated and CoversReversed this holds in whatever order their
\* vertices are given.
THEOREM SeamPaintedOnce ==
    ASSUME NEW a \in Points, NEW b \in Points, NEW c \in Points, NEW d \in Points,
           Opposite(a, b, c, d), NEW p \in Points
    PROVE  ~(Covers(a, b, c, p) /\ Covers(a, b, d, p))
<1> DEFINE s == Sign(Edge(a, b, c))
           w == Edge(a, b, p)
<1>1. s \in {-1, 1} /\ w \in Int
  BY EdgeType, SignType DEF Opposite
<1>2. a # b
  BY <1>1 DEF Edge, Sign, Points
<1>3. SUFFICES ASSUME Inside(a, b, s, p), Inside(a, b, -s, p) PROVE FALSE
  BY DEF Covers, Opposite
<1>4. \/ w * s > 0
      \/ w * s = 0 /\ EdgeIsTopLeft(a, b, s)
  BY <1>3 DEF Inside
<1>5. \/ w * (-s) > 0
      \/ w * (-s) = 0 /\ EdgeIsTopLeft(a, b, -s)
  BY <1>3 DEF Inside
<1> HIDE DEF s, w
<1>6. w = 0 /\ EdgeIsTopLeft(a, b, s) /\ EdgeIsTopLeft(a, b, -s)
  BY <1>1, <1>4, <1>5
<1> QED
  BY <1>1, <1>2, <1>6, OneOwner

\* And none is left out: a pixel within the outer edges of both triangles, the
\* shared edge included, is covered by one of them (render_triangle).
THEOREM SeamHasNoGap ==
    ASSUME NEW a \in Points, NEW b \in Points, NEW c \in Points, NEW d \in Points,
           Opposite(a, b, c, d), NEW p \in Points,
           Inside(b, c, Sign(Edge(a, b, c)), p), Inside(c, a, Sign(Edge(a, b, c)), p),
           Inside(b, d, Sign(Edge(a, b, d)), p), Inside(d, a, Sign(Edge(a, b, d)), p)
    PROVE  Covers(a, b, c, p) \/ Covers(a, b, d, p)
<1> DEFINE s == Sign(Edge(a, b, c))
           w == Edge(a, b, p)
<1>1. s \in {-1, 1} /\ w \in Int
  BY EdgeType, SignType DEF Opposite
<1>2. a # b
  BY <1>1 DEF Edge, Sign, Points
<1>3. Sign(Edge(a, b, d)) = -s
  BY DEF Opposite
<1>4. Inside(a, b, s, p) \/ Inside(a, b, -s, p)
  <2>1. EdgeIsTopLeft(a, b, s) <=> ~EdgeIsTopLeft(a, b, -s)
    BY <1>1, <1>2, OneOwner
  <2>2. Inside(a, b, s, p) <=> (w * s > 0 \/ (w * s = 0 /\ EdgeIsTopLeft(a, b, s)))
    BY DEF Inside
  <2>3. Inside(a, b, -s, p)
          <=> (w * (-s) > 0 \/ (w * (-s) = 0 /\ EdgeIsTopLeft(a, b, -s)))
    BY DEF Inside
  <2> HIDE DEF s, w
  <2> QED
    BY <1>1, <2>1, <2>2, <2>3
<1>5. CASE Inside(a, b, s, p)
  BY <1>1, <1>5 DEF Covers
<1>6. CASE Inside(a, b, -s, p)
  BY <1>1, <1>3, <1>6 DEF Covers
<1> QED
  BY <1>4, <1>5, <1>6

\* A quad touches no pixel twice, in whatever order its triangles wind
\* (render_polygon): a semi-transparent one blends each pixel once.
THEOREM QuadPaintedOnce ==
    ASSUME NEW a \in Points, NEW b \in Points, NEW c \in Points, NEW d \in Points,
           Opposite(b, c, a, d), NEW p \in Points, NEW maxDelta
    PROVE  PolygonTouches(<<a, b, c, d>>, maxDelta, p) \in {0, 1}
<1>1. Covers(a, b, c, p) <=> Covers(b, c, a, p)
  BY CoversRotated
<1>2. ~(Covers(b, c, a, p) /\ Covers(b, c, d, p))
  BY SeamPaintedOnce
<1>3. CASE ~Covers(a, b, c, p)
  <2>1. TriangleTouches(a, b, c, maxDelta, p) = 0
    BY <1>3 DEF TriangleTouches
  <2>2. TriangleTouches(b, c, d, maxDelta, p) \in {0, 1}
    BY DEF TriangleTouches
  <2> QED
    BY <2>1, <2>2 DEF PolygonTouches
<1>4. CASE ~Covers(b, c, d, p)
  <2>1. TriangleTouches(b, c, d, maxDelta, p) = 0
    BY <1>4 DEF TriangleTouches
  <2>2. TriangleTouches(a, b, c, maxDelta, p) \in {0, 1}
    BY DEF TriangleTouches
  <2> QED
    BY <2>1, <2>2 DEF PolygonTouches
<1> QED
  BY <1>1, <1>2, <1>3, <1>4

-----------------------------------------------------------------------------
(* Shades.                                                                 *)

LEMMA WeightsSum ==
    ASSUME NEW a \in Points, NEW b \in Points, NEW c \in Points, NEW p \in Points
    PROVE  Edge(b, c, p) + Edge(c, a, p) + Edge(a, b, p) = Edge(a, b, c)
<1> DEFINE ux == b.x - a.x  uy == b.y - a.y
           vx == c.x - a.x  vy == c.y - a.y
           px == p.x - a.x  py == p.y - a.y
<1>1. /\ ux \in Int /\ uy \in Int /\ vx \in Int /\ vy \in Int
      /\ px \in Int /\ py \in Int
  BY DEF Points
<1>2. Edge(a, b, p) = ux * py - uy * px /\ Edge(a, b, c) = ux * vy - uy * vx
  BY DEF Edge
<1>3. Edge(b, c, p) = (vx - ux) * (py - uy) - (vy - uy) * (px - ux)
  <2>1. c.x - b.x = vx - ux /\ c.y - b.y = vy - uy /\ p.y - b.y = py - uy /\ p.x - b.x = px - ux
    BY DEF Points
  <2> QED
    BY <2>1 DEF Edge
<1>4. Edge(c, a, p) = (-vx) * (py - vy) - (-vy) * (px - vx)
  <2>1. a.x - c.x = -vx /\ a.y - c.y = -vy /\ p.y - c.y = py - vy /\ p.x - c.x = px - vx
    BY DEF Points
  <2> QED
    BY <2>1 DEF Edge
<1> HIDE DEF ux, uy, vx, vy, px, py
<1>5. (vx - ux) * (py - uy) - (vy - uy) * (px - ux)
        + ((-vx) * (py - vy) - (-vy) * (px - vx)) + (ux * py - uy * px)
          = ux * vy - uy * vx
  BY <1>1
<1> QED
  BY <1>2, <1>3, <1>4, <1>5

\* A mean with weights that are not negative stays between its values.
LEMMA MeanStaysBetween ==
    ASSUME NEW a \in Int, NEW b \in Int, NEW c \in Int, NEW lo \in Int, NEW hi \in Int,
           a \in lo..hi, b \in lo..hi, c \in lo..hi,
           NEW u \in Nat, NEW v \in Nat, NEW w \in Nat, u + v + w > 0
    PROVE  ((a * u + b * v + c * w) \div (u + v + w)) \in lo..hi
<1> DEFINE n == u + v + w
           m == a * u + b * v + c * w
<1>1. lo * u <= a * u /\ a * u <= hi * u
  OBVIOUS
<1>2. lo * v <= b * v /\ b * v <= hi * v
  OBVIOUS
<1>3. lo * w <= c * w /\ c * w <= hi * w
  OBVIOUS
<1>4. lo * n = lo * u + lo * v + lo * w /\ hi * n = hi * u + hi * v + hi * w
  OBVIOUS
<1>5. n \in Nat /\ n > 0 /\ m \in Int
  OBVIOUS
<1>6. lo * n <= m /\ m <= hi * n
  BY <1>1, <1>2, <1>3, <1>4
<1> HIDE DEF n, m
<1>7. PICK q \in Int : q = m \div n /\ q * n <= m /\ m < q * n + n
  BY <1>5
<1>8. q >= lo
  BY <1>5, <1>6, <1>7
<1>9. q <= hi
  BY <1>5, <1>6, <1>7
<1> QED
  BY <1>7, <1>8, <1>9 DEF n, m

\* A shade or texture coordinate that interpolate_component mixes for a pixel of
\* a triangle lies between those of the corners, so that no channel runs over
\* into the next one when they are put together.
THEOREM ShadesStayBetween ==
    ASSUME NEW v0 \in Points, NEW v1 \in Points, NEW v2 \in Points, NEW p \in Points,
           Covers(v0, v1, v2, p), NEW lo \in Int, NEW hi \in Int,
           NEW a \in lo..hi, NEW b \in lo..hi, NEW c \in lo..hi
    PROVE  Interpolate(a, b, c, v0, v1, v2, p) \in lo..hi
<1> DEFINE area == Edge(v0, v1, v2)
           s == Sign(area)
           e0 == Edge(v1, v2, p)  e1 == Edge(v2, v0, p)  e2 == Edge(v0, v1, p)
<1>1. /\ area \in Int /\ e0 \in Int /\ e1 \in Int /\ e2 \in Int
      /\ e0 + e1 + e2 = area
  BY EdgeType, WeightsSum
<1>2. s \in {-1, 1}
  BY <1>1, SignType DEF Covers
<1>3. /\ e0 * s > 0 \/ e0 * s = 0
      /\ e1 * s > 0 \/ e1 * s = 0
      /\ e2 * s > 0 \/ e2 * s = 0
  BY DEF Covers, Inside
<1>4. Abs(area) = area * s
  BY <1>1 DEF Abs, Sign
<1>5. Interpolate(a, b, c, v0, v1, v2, p)
        = (a * (e0 * s) + b * (e1 * s) + c * (e2 * s)) \div Abs(area)
  BY DEF Interpolate, Weight
<1>6. area # 0
  BY <1>1, <1>2, SignType
<1> HIDE DEF area, s, e0, e1, e2
<1>7. e0 * s \in Nat /\ e1 * s \in Nat /\ e2 * s \in Nat
  BY <1>1, <1>2, <1>3
<1>8. e0 * s + e1 * s + e2 * s = Abs(area) /\ e0 * s + e1 * s + e2 * s > 0
  <2>1. e0 * s + e1 * s + e2 * s = area * s
    BY <1>1, <1>2
  <2>2. area * s # 0
    BY <1>1, <1>2, <1>6
  <2>3. e0 * s + e1 * s + e2 * s \in Nat
    BY <1>7
  <2> QED
    BY <1>4, <2>1, <2>2, <2>3
<1> QED
  BY <1>5, <1>7, <1>8, MeanStaysBetween

-----------------------------------------------------------------------------
(* Lines.                                                                  *)

Length(start, end) == Larger(Dx(start, end), -Dy(start, end))
Along(from, to, at) == (at - from) * Toward(from, to)

\* Where the pen is after n turns of the loop: n pixels on along the longer
\* direction, and within half a pixel of the line in the other.  err is what
\* the code keeps of it.
OnCourse(start, end, pen, n) ==
    LET dx == Dx(start, end)
        dy == -Dy(start, end)
        i  == Along(start.x, end.x, pen.x)
        j  == Along(start.y, end.y, pen.y)
    IN  /\ pen \in [x : Int, y : Int, err : Int]
        /\ pen.err = dx * (j + 1) - dy * (i + 1)
        /\ dx >= dy => i = n /\ 2 * (dx * j - dy * i) \in (-dx)..dx
        /\ dx < dy  => j = n /\ 2 * (dy * i - dx * j) \in (-dy)..dy

\* One turn, in numbers: along is the longer direction.
LEMMA TurnAlongX ==
    ASSUME NEW dx \in Nat, NEW dy \in Nat, NEW i \in Int, NEW j \in Int, NEW err \in Int,
           dx >= dy, dx > 0, err = dx * (j + 1) - dy * (i + 1),
           2 * (dx * j - dy * i) \in (-dx)..dx
    PROVE  /\ 2 * err >= -dy
           /\ 2 * err <= dx =>
                /\ err - dy + dx = dx * ((j + 1) + 1) - dy * ((i + 1) + 1)
                /\ 2 * (dx * (j + 1) - dy * (i + 1)) \in (-dx)..dx
           /\ ~(2 * err <= dx) =>
                /\ err - dy = dx * (j + 1) - dy * ((i + 1) + 1)
                /\ 2 * (dx * j - dy * (i + 1)) \in (-dx)..dx
<1> DEFINE P == dx * j
           Q == dy * i
<1>1. P \in Int /\ Q \in Int
  OBVIOUS
<1>2. dx * (j + 1) = P + dx /\ dx * ((j + 1) + 1) = P + 2 * dx
  OBVIOUS
<1>3. dy * (i + 1) = Q + dy /\ dy * ((i + 1) + 1) = Q + 2 * dy
  OBVIOUS
<1>4. 2 * (P - Q) \in (-dx)..dx
  OBVIOUS
<1>5. err = (P + dx) - (Q + dy)
  BY <1>2, <1>3
<1> HIDE DEF P, Q
<1>6. 2 * err >= -dy
  BY <1>1, <1>4, <1>5
<1>7. 2 * err <= dx => /\ err - dy + dx = P + 2 * dx - (Q + 2 * dy)
                       /\ 2 * ((P + dx) - (Q + dy)) \in (-dx)..dx
  BY <1>1, <1>4, <1>5
<1>8. ~(2 * err <= dx) => /\ err - dy = P + dx - (Q + 2 * dy)
                          /\ 2 * (P - (Q + dy)) \in (-dx)..dx
  BY <1>1, <1>4, <1>5
<1> QED
  BY <1>2, <1>3, <1>6, <1>7, <1>8 DEF P

LEMMA TurnAlongY ==
    ASSUME NEW dx \in Nat, NEW dy \in Nat, NEW i \in Int, NEW j \in Int, NEW err \in Int,
           dx < dy, err = dx * (j + 1) - dy * (i + 1),
           2 * (dy * i - dx * j) \in (-dy)..dy
    PROVE  /\ 2 * err <= dx
           /\ 2 * err >= -dy =>
                /\ err - dy + dx = dx * ((j + 1) + 1) - dy * ((i + 1) + 1)
                /\ 2 * (dy * (i + 1) - dx * (j + 1)) \in (-dy)..dy
           /\ ~(2 * err >= -dy) =>
                /\ err + dx = dx * ((j + 1) + 1) - dy * (i + 1)
                /\ 2 * (dy * i - dx * (j + 1)) \in (-dy)..dy
<1> DEFINE P == dx * j
           Q == dy * i
<1>1. P \in Int /\ Q \in Int
  OBVIOUS
<1>2. dx * (j + 1) = P + dx /\ dx * ((j + 1) + 1) = P + 2 * dx
  OBVIOUS
<1>3. dy * (i + 1) = Q + dy /\ dy * ((i + 1) + 1) = Q + 2 * dy
  OBVIOUS
<1>4. 2 * (Q - P) \in (-dy)..dy
  OBVIOUS
<1>5. err = (P + dx) - (Q + dy)
  BY <1>2, <1>3
<1> HIDE DEF P, Q
<1>6. 2 * err <= dx
  BY <1>1, <1>4, <1>5
<1>7. 2 * err >= -dy => /\ err - dy + dx = P + 2 * dx - (Q + 2 * dy)
                        /\ 2 * ((Q + dy) - (P + dx)) \in (-dy)..dy
  BY <1>1, <1>4, <1>5
<1>8. ~(2 * err >= -dy) => /\ err + dx = P + 2 * dx - (Q + dy)
                           /\ 2 * (Q - (P + dx)) \in (-dy)..dy
  BY <1>1, <1>4, <1>5
<1> QED
  BY <1>2, <1>3, <1>6, <1>7, <1>8 DEF P, Q

LEMMA AlongEnds ==
    ASSUME NEW from \in Int, NEW to \in Int, NEW at \in Int
    PROVE  /\ Along(from, to, at) \in Int
           /\ Along(from, to, from) = 0
           /\ Along(from, to, to) = Abs(to - from)
<1>1. \/ Toward(from, to) = 1 /\ from < to
      \/ Toward(from, to) = -1 /\ from >= to
  BY DEF Toward
<1> QED
  BY <1>1 DEF Along, Abs

LEMMA AlongMeets ==
    ASSUME NEW from \in Int, NEW to \in Int, NEW at \in Int,
           Along(from, to, at) = Along(from, to, to)
    PROVE  at = to
<1>1. Toward(from, to) \in {-1, 1}
  BY DEF Toward
<1> QED
  BY <1>1 DEF Along

LEMMA AlongMoves ==
    ASSUME NEW from \in Int, NEW to \in Int, NEW at \in Int
    PROVE  Along(from, to, at + Toward(from, to)) = Along(from, to, at) + 1
<1>1. Toward(from, to) \in {-1, 1}
  BY DEF Toward
<1> QED
  BY <1>1 DEF Along

LEMMA LengthType ==
    ASSUME NEW start \in Points, NEW end \in Points
    PROVE  /\ Dx(start, end) \in Nat /\ -Dy(start, end) \in Nat
           /\ Dy(start, end) \in Int /\ -(-Dy(start, end)) = Dy(start, end)
           /\ Dx(start, end) = Along(start.x, end.x, end.x)
           /\ -Dy(start, end) = Along(start.y, end.y, end.y)
<1>1. start.x \in Int /\ start.y \in Int /\ end.x \in Int /\ end.y \in Int
  BY DEF Points
<1>2. Along(start.x, end.x, end.x) = Abs(end.x - start.x)
  BY <1>1, AlongEnds
<1>3. Along(start.y, end.y, end.y) = Abs(end.y - start.y)
  BY <1>1, AlongEnds
<1>4. Abs(end.x - start.x) \in Nat /\ Abs(end.y - start.y) \in Nat
  BY <1>1 DEF Abs
<1> QED
  BY <1>2, <1>3, <1>4 DEF Dx, Dy

\* draw_line begins on its course, and a line of one pixel is at its end.
THEOREM LineStarts ==
    ASSUME NEW start \in Points, NEW end \in Points
    PROVE  /\ OnCourse(start, end, LineStart(start, end), 0)
           /\ start = end => Arrived(end, LineStart(start, end))
<1> DEFINE pen == LineStart(start, end)
           dx == Dx(start, end)
           dy == -Dy(start, end)
<1>1. start.x \in Int /\ start.y \in Int /\ end.x \in Int /\ end.y \in Int
  BY DEF Points
<1>2. dx \in Nat /\ dy \in Nat /\ Dy(start, end) = -dy /\ Dy(start, end) \in Int
  BY LengthType
<1>3. pen = [x |-> start.x, y |-> start.y, err |-> dx + Dy(start, end)]
  BY DEF LineStart
<1>4. Along(start.x, end.x, pen.x) = 0 /\ Along(start.y, end.y, pen.y) = 0
  <2>1. pen.x = start.x /\ pen.y = start.y
    BY <1>3
  <2>2. Along(start.x, end.x, start.x) = 0
    BY <1>1, AlongEnds
  <2>3. Along(start.y, end.y, start.y) = 0
    BY <1>1, AlongEnds
  <2> HIDE DEF pen
  <2> QED
    BY <2>1, <2>2, <2>3
<1> HIDE DEF pen, dx, dy
<1>5. pen \in [x : Int, y : Int, err : Int]
  BY <1>1, <1>2, <1>3
<1>6. pen.err = dx * (0 + 1) - dy * (0 + 1)
  BY <1>2, <1>3
<1>7. 2 * (dx * 0 - dy * 0) \in (-dx)..dx /\ 2 * (dy * 0 - dx * 0) \in (-dy)..dy
  BY <1>2
<1>8. start = end => Arrived(end, pen)
  BY <1>3 DEF Arrived
<1> QED
  BY <1>4, <1>5, <1>6, <1>7, <1>8 DEF OnCourse, pen, dx, dy

\* Every turn of the loop keeps it on its course, and before it has gone the
\* length of the line it is not at its end (draw_line).
THEOREM LineStaysOnCourse ==
    ASSUME NEW start \in Points, NEW end \in Points, NEW n \in Nat, NEW pen,
           n < Length(start, end), OnCourse(start, end, pen, n)
    PROVE  /\ ~Arrived(end, pen)
           /\ OnCourse(start, end, LineStep(start, end, pen), n + 1)
<1> DEFINE dx == Dx(start, end)
           dy == -Dy(start, end)
           i  == Along(start.x, end.x, pen.x)
           j  == Along(start.y, end.y, pen.y)
           sx == Toward(start.x, end.x)
           sy == Toward(start.y, end.y)
           next == LineStep(start, end, pen)
<1>1. start.x \in Int /\ start.y \in Int /\ end.x \in Int /\ end.y \in Int
  BY DEF Points
<1>2. /\ dx \in Nat /\ dy \in Nat /\ Dy(start, end) = -dy
      /\ dx = Along(start.x, end.x, end.x) /\ dy = Along(start.y, end.y, end.y)
  BY LengthType
<1>3. /\ pen.x \in Int /\ pen.y \in Int /\ pen.err \in Int
      /\ pen.err = dx * (j + 1) - dy * (i + 1)
      /\ dx >= dy => i = n /\ 2 * (dx * j - dy * i) \in (-dx)..dx
      /\ dx < dy  => j = n /\ 2 * (dy * i - dx * j) \in (-dy)..dy
  BY DEF OnCourse
<1>a. pen.x \in Int /\ pen.y \in Int
  BY <1>3
<1>4. /\ i \in Int /\ j \in Int
      /\ Along(start.x, end.x, pen.x + sx) = i + 1
      /\ Along(start.y, end.y, pen.y + sy) = j + 1
  <2>1. i \in Int /\ j \in Int
    BY <1>1, <1>a, AlongEnds
  <2>2. Along(start.x, end.x, pen.x + sx) = i + 1
    BY <1>1, <1>a, AlongMoves
  <2>3. Along(start.y, end.y, pen.y + sy) = j + 1
    BY <1>1, <1>a, AlongMoves
  <2> QED
    BY <2>1, <2>2, <2>3
<1>5. n < IF dx > dy THEN dx ELSE dy
  BY DEF Length, Larger
<1>6. sx \in Int /\ sy \in Int
  BY DEF Toward
<1>7. next = [x   |-> IF 2 * pen.err >= -dy THEN pen.x + sx ELSE pen.x,
              y   |-> IF 2 * pen.err <= dx THEN pen.y + sy ELSE pen.y,
              err |-> pen.err + (IF 2 * pen.err >= -dy THEN -dy ELSE 0)
                        + (IF 2 * pen.err <= dx THEN dx ELSE 0)]
  BY <1>2 DEF LineStep
<1> DEFINE i1 == Along(start.x, end.x, next.x)
           j1 == Along(start.y, end.y, next.y)
<1>8. /\ pen.x = end.x => i = dx
      /\ pen.y = end.y => j = dy
  BY <1>2
<1>9. SUFFICES /\ ~Arrived(end, pen)
               /\ next.x \in Int /\ next.y \in Int /\ next.err \in Int
               /\ next = [x |-> next.x, y |-> next.y, err |-> next.err]
               /\ next.err = dx * (j1 + 1) - dy * (i1 + 1)
               /\ dx >= dy => i1 = n + 1 /\ 2 * (dx * j1 - dy * i1) \in (-dx)..dx
               /\ dx < dy  => j1 = n + 1 /\ 2 * (dy * i1 - dx * j1) \in (-dy)..dy
  <2>1. ASSUME next.x \in Int, next.y \in Int, next.err \in Int,
               next = [x |-> next.x, y |-> next.y, err |-> next.err]
        PROVE  next \in [x : Int, y : Int, err : Int]
    BY <2>1
  <2> HIDE DEF next
  <2> QED
    BY <2>1 DEF OnCourse, next
<1> DEFINE nx == next.x
           ny == next.y
           ne == next.err
<1>10. /\ nx = IF 2 * pen.err >= -dy THEN pen.x + sx ELSE pen.x
       /\ ny = IF 2 * pen.err <= dx THEN pen.y + sy ELSE pen.y
       /\ ne = pen.err + (IF 2 * pen.err >= -dy THEN -dy ELSE 0)
                  + (IF 2 * pen.err <= dx THEN dx ELSE 0)
       /\ next = [x |-> nx, y |-> ny, err |-> ne]
  BY <1>7
<1> HIDE DEF dx, dy, sx, sy, next
<1>11. nx \in Int /\ ny \in Int /\ ne \in Int
  BY <1>2, <1>3, <1>6, <1>10
<1>12. /\ i1 = IF 2 * pen.err >= -dy THEN i + 1 ELSE i
       /\ j1 = IF 2 * pen.err <= dx THEN j + 1 ELSE j
  BY <1>4, <1>10
<1> HIDE DEF i, j, i1, j1, nx, ny, ne
<1>13. CASE dx >= dy
  <2>1. /\ dx > 0 /\ i = n /\ i < dx
        /\ 2 * (dx * j - dy * i) \in (-dx)..dx
    BY <1>2, <1>3, <1>5, <1>13
  <2>2. pen.x # end.x
    BY <1>2, <1>8, <2>1
  <2>3. /\ 2 * pen.err >= -dy
        /\ 2 * pen.err <= dx =>
             /\ pen.err - dy + dx = dx * ((j + 1) + 1) - dy * ((i + 1) + 1)
             /\ 2 * (dx * (j + 1) - dy * (i + 1)) \in (-dx)..dx
        /\ ~(2 * pen.err <= dx) =>
             /\ pen.err - dy = dx * (j + 1) - dy * ((i + 1) + 1)
             /\ 2 * (dx * j - dy * (i + 1)) \in (-dx)..dx
    BY <1>2, <1>3, <1>4, <1>13, <2>1, TurnAlongX
  <2>4. CASE 2 * pen.err <= dx
    <3>1. i1 = i + 1 /\ j1 = j + 1 /\ ne = pen.err - dy + dx
      BY <1>2, <1>3, <1>10, <1>12, <2>3, <2>4
    <3>2. ne = dx * (j1 + 1) - dy * (i1 + 1) /\ 2 * (dx * j1 - dy * i1) \in (-dx)..dx
      BY <2>3, <2>4, <3>1
    <3> QED
      BY <1>2, <1>10, <1>11, <1>13, <2>1, <2>2, <3>1, <3>2 DEF Arrived, nx, ny, ne
  <2>5. CASE ~(2 * pen.err <= dx)
    <3>1. i1 = i + 1 /\ j1 = j /\ ne = pen.err - dy
      BY <1>2, <1>3, <1>10, <1>12, <2>3, <2>5
    <3>2. ne = dx * (j1 + 1) - dy * (i1 + 1) /\ 2 * (dx * j1 - dy * i1) \in (-dx)..dx
      BY <2>3, <2>5, <3>1
    <3> QED
      BY <1>2, <1>10, <1>11, <1>13, <2>1, <2>2, <3>1, <3>2 DEF Arrived, nx, ny, ne
  <2> QED
    BY <2>4, <2>5
<1>14. CASE dx < dy
  <2>1. /\ dy > 0 /\ j = n /\ j < dy
        /\ 2 * (dy * i - dx * j) \in (-dy)..dy
    BY <1>2, <1>3, <1>5, <1>14
  <2>2. pen.y # end.y
    BY <1>2, <1>8, <2>1
  <2>3. /\ 2 * pen.err <= dx
        /\ 2 * pen.err >= -dy =>
             /\ pen.err - dy + dx = dx * ((j + 1) + 1) - dy * ((i + 1) + 1)
             /\ 2 * (dy * (i + 1) - dx * (j + 1)) \in (-dy)..dy
        /\ ~(2 * pen.err >= -dy) =>
             /\ pen.err + dx = dx * ((j + 1) + 1) - dy * (i + 1)
             /\ 2 * (dy * i - dx * (j + 1)) \in (-dy)..dy
    BY <1>2, <1>3, <1>4, <1>14, <2>1, TurnAlongY
  <2>4. CASE 2 * pen.err >= -dy
    <3>1. i1 = i + 1 /\ j1 = j + 1 /\ ne = pen.err - dy + dx
      BY <1>2, <1>3, <1>10, <1>12, <2>3, <2>4
    <3>2. ne = dx * (j1 + 1) - dy * (i1 + 1) /\ 2 * (dy * i1 - dx * j1) \in (-dy)..dy
      BY <2>3, <2>4, <3>1
    <3> QED
      BY <1>2, <1>10, <1>11, <1>14, <2>1, <2>2, <3>1, <3>2 DEF Arrived, nx, ny, ne
  <2>5. CASE ~(2 * pen.err >= -dy)
    <3>1. i1 = i /\ j1 = j + 1 /\ ne = pen.err + dx
      BY <1>2, <1>3, <1>10, <1>12, <2>3, <2>5
    <3>2. ne = dx * (j1 + 1) - dy * (i1 + 1) /\ 2 * (dy * i1 - dx * j1) \in (-dy)..dy
      BY <2>3, <2>5, <3>1
    <3> QED
      BY <1>2, <1>10, <1>11, <1>14, <2>1, <2>2, <3>1, <3>2 DEF Arrived, nx, ny, ne
  <2> QED
    BY <2>4, <2>5
<1> QED
  BY <1>2, <1>13, <1>14

\* And when it has gone that far it is there (draw_line): the loop ends, though its
\* only exit is to meet the last pixel exactly.
THEOREM LineArrives ==
    ASSUME NEW start \in Points, NEW end \in Points, NEW pen,
           start # end, OnCourse(start, end, pen, Length(start, end))
    PROVE  Arrived(end, pen)
<1> DEFINE dx == Dx(start, end)
           dy == -Dy(start, end)
           i  == Along(start.x, end.x, pen.x)
           j  == Along(start.y, end.y, pen.y)
           n  == Length(start, end)
<1>1. start.x \in Int /\ start.y \in Int /\ end.x \in Int /\ end.y \in Int
  BY DEF Points
<1>2. /\ dx \in Nat /\ dy \in Nat
      /\ dx = Along(start.x, end.x, end.x) /\ dy = Along(start.y, end.y, end.y)
  BY LengthType
<1>3. /\ pen.x \in Int /\ pen.y \in Int
      /\ dx >= dy => i = n /\ 2 * (dx * j - dy * i) \in (-dx)..dx
      /\ dx < dy  => j = n /\ 2 * (dy * i - dx * j) \in (-dy)..dy
  BY DEF OnCourse
<1>4. n = IF dx > dy THEN dx ELSE dy
  BY DEF Length, Larger
<1>a. pen.x \in Int /\ pen.y \in Int
  BY <1>3
<1>b. dx = Along(start.x, end.x, end.x) /\ dy = Along(start.y, end.y, end.y)
  BY <1>2
<1>5. /\ i \in Int
      /\ i = dx => pen.x = end.x
  <2>1. /\ i \in Int
        /\ i = Along(start.x, end.x, end.x) => pen.x = end.x
    <3>1. start.x \in Int /\ end.x \in Int /\ pen.x \in Int
      BY <1>1, <1>a
    <3>2. i \in Int
      BY <3>1, AlongEnds
    <3>3. i = Along(start.x, end.x, end.x) => pen.x = end.x
      BY <3>1, AlongMeets
    <3> QED
      BY <3>2, <3>3
  <2> HIDE DEF i, dx
  <2> QED
    BY <1>b, <2>1
<1>6. /\ j \in Int
      /\ j = dy => pen.y = end.y
  <2>1. /\ j \in Int
        /\ j = Along(start.y, end.y, end.y) => pen.y = end.y
    <3>1. start.y \in Int /\ end.y \in Int /\ pen.y \in Int
      BY <1>1, <1>a
    <3>2. j \in Int
      BY <3>1, AlongEnds
    <3>3. j = Along(start.y, end.y, end.y) => pen.y = end.y
      BY <3>1, AlongMeets
    <3> QED
      BY <3>2, <3>3
  <2> HIDE DEF j, dy
  <2> QED
    BY <1>b, <2>1
<1> HIDE DEF dx, dy, i, j, n
<1>7. i = dx /\ j = dy
  <2>1. ~(dx = 0 /\ dy = 0)
    BY DEF dx, dy, Dx, Dy, Abs, Points
  <2>2. CASE dx >= dy /\ dx > 0
    <3>1. i = dx /\ 2 * (dx * j - dy * dx) \in (-dx)..dx
      BY <1>2, <1>3, <1>4, <2>2
    <3>2. dx * j - dy * dx = dx * (j - dy)
      BY <1>2, <1>6
    <3>3. ~(j - dy >= 1)
      BY <1>2, <1>6, <2>2, <3>1, <3>2
    <3>4. ~(j - dy <= -1)
      BY <1>2, <1>6, <2>2, <3>1, <3>2
    <3>5. j = dy
      <4>1. j \in Int /\ dy \in Int
        BY <1>2, <1>6
      <4> QED
        BY <3>3, <3>4, <4>1
    <3> QED
      BY <3>1, <3>5
  <2>3. CASE dx < dy
    <3>1. j = dy /\ 2 * (dy * i - dx * dy) \in (-dy)..dy
      BY <1>2, <1>3, <1>4, <2>3
    <3>2. dy * i - dx * dy = dy * (i - dx)
      BY <1>2, <1>5
    <3>3. ~(i - dx >= 1)
      BY <1>2, <1>5, <2>3, <3>1, <3>2
    <3>4. ~(i - dx <= -1)
      BY <1>2, <1>5, <2>3, <3>1, <3>2
    <3>5. i = dx
      <4>1. i \in Int /\ dx \in Int
        BY <1>2, <1>5
      <4> QED
        BY <3>3, <3>4, <4>1
    <3> QED
      BY <3>1, <3>5
  <2> QED
    BY <1>2, <2>1, <2>2, <2>3
<1> QED
  BY <1>5, <1>6, <1>7 DEF Arrived

-----------------------------------------------------------------------------
(* Polygons as a whole.                                                     *)

\* A pixel is a mean of a triangle's corners, weighted by its edges; so is
\* what any line says of it.
LEMMA EdgeMeans ==
  ASSUME NEW a \in Points, NEW b \in Points, NEW c \in Points,
         NEW x \in Points, NEW y \in Points, NEW p \in Points
  PROVE  Edge(x, y, p) * Edge(a, b, c)
           = Edge(x, y, a) * Edge(b, c, p) + Edge(x, y, b) * Edge(c, a, p)
               + Edge(x, y, c) * Edge(a, b, p)
<1> DEFINE ux == b.x - a.x  uy == b.y - a.y
           vx == c.x - a.x  vy == c.y - a.y
           px == p.x - a.x  py == p.y - a.y
           tx == y.x - x.x  ty == y.y - x.y
           qx == a.x - x.x  qy == a.y - x.y
<1>1. /\ ux \in Int /\ uy \in Int /\ vx \in Int /\ vy \in Int
      /\ px \in Int /\ py \in Int /\ tx \in Int /\ ty \in Int
      /\ qx \in Int /\ qy \in Int
  BY DEF Points
<1>2. Edge(a, b, p) = ux * py - uy * px /\ Edge(a, b, c) = ux * vy - uy * vx
  BY DEF Edge
<1>3. Edge(b, c, p) = (vx - ux) * (py - uy) - (vy - uy) * (px - ux)
  <2>1. /\ c.x - b.x = vx - ux /\ c.y - b.y = vy - uy
        /\ p.x - b.x = px - ux /\ p.y - b.y = py - uy
    BY DEF Points
  <2> QED BY <2>1 DEF Edge
<1>4. Edge(c, a, p) = (-vx) * (py - vy) - (-vy) * (px - vx)
  <2>1. /\ a.x - c.x = -vx /\ a.y - c.y = -vy
        /\ p.x - c.x = px - vx /\ p.y - c.y = py - vy
    BY DEF Points
  <2> QED BY <2>1 DEF Edge
<1>5. /\ Edge(x, y, a) = tx * qy - ty * qx
      /\ Edge(x, y, b) = tx * (qy + uy) - ty * (qx + ux)
      /\ Edge(x, y, c) = tx * (qy + vy) - ty * (qx + vx)
      /\ Edge(x, y, p) = tx * (qy + py) - ty * (qx + px)
  <2>1. /\ b.x - x.x = qx + ux /\ b.y - x.y = qy + uy
        /\ c.x - x.x = qx + vx /\ c.y - x.y = qy + vy
        /\ p.x - x.x = qx + px /\ p.y - x.y = qy + py
    BY DEF Points
  <2> QED BY <2>1 DEF Edge
<1> HIDE DEF ux, uy, vx, vy, px, py, tx, ty, qx, qy
<1> DEFINE e == Edge(x, y, a)
           f == tx * uy - ty * ux
           g == tx * vy - ty * vx
           h == tx * py - ty * px
           A == ux * vy - uy * vx
           B == px * vy - py * vx
           C == ux * py - uy * px
<1>6. e \in Int /\ f \in Int /\ g \in Int /\ h \in Int /\ A \in Int /\ B \in Int /\ C \in Int
  BY <1>1, <1>5
<1>7. /\ Edge(x, y, b) = e + f /\ Edge(x, y, c) = e + g /\ Edge(x, y, p) = e + h
  BY <1>1, <1>5
<1>8. Edge(b, c, p) = A - B - C /\ Edge(c, a, p) = B /\ Edge(a, b, p) = C
      /\ Edge(a, b, c) = A
  BY <1>1, <1>2, <1>3, <1>4
<1>9. h * A = f * B + g * C
  BY <1>1
<1> HIDE DEF e, f, g, h, A, B, C
<1>10. (e + h) * A = e * (A - B - C) + (e + f) * B + (e + g) * C
  BY <1>6, <1>9
<1> QED BY <1>7, <1>8, <1>10 DEF e

\* No corner of a triangle lies on the other side of a line than a pixel it
\* covers.
LEMMA CoveredStaysWithin ==
  ASSUME NEW a \in Points, NEW b \in Points, NEW c \in Points,
         NEW x \in Points, NEW y \in Points, NEW p \in Points,
         Covers(a, b, c, p), NEW s \in {-1, 1},
         Edge(x, y, a) * s >= 0, Edge(x, y, b) * s >= 0, Edge(x, y, c) * s >= 0
  PROVE  Edge(x, y, p) * s >= 0
<1>1. PICK A \in Int, t \in {-1, 1} : A = Edge(a, b, c) /\ t = Sign(A)
  BY EdgeType, SignType DEF Covers
<1>2. PICK u \in Int : u = Edge(b, c, p)
  BY EdgeType
<1>3. PICK v \in Int : v = Edge(c, a, p)
  BY EdgeType
<1>4. PICK w \in Int : w = Edge(a, b, p)
  BY EdgeType
<1>5. u * t >= 0 /\ v * t >= 0 /\ w * t >= 0 /\ A * t > 0
  <2>1. A * t > 0
    BY <1>1 DEF Sign
  <2>2. Inside(b, c, t, p) /\ Inside(c, a, t, p) /\ Inside(a, b, t, p)
    BY <1>1 DEF Covers
  <2> QED BY <1>1, <1>2, <1>3, <1>4, <2>1, <2>2 DEF Inside
<1>6. PICK i \in Int : i = Edge(x, y, a) /\ i * s >= 0
  BY EdgeType
<1>7. PICK j \in Int : j = Edge(x, y, b) /\ j * s >= 0
  BY EdgeType
<1>8. PICK k \in Int : k = Edge(x, y, c) /\ k * s >= 0
  BY EdgeType
<1>9. PICK f \in Int : f = Edge(x, y, p)
  BY EdgeType
<1>10. f * A = i * u + j * v + k * w
  BY <1>1, <1>2, <1>3, <1>4, <1>6, <1>7, <1>8, <1>9, EdgeMeans
<1>11. (f * s) * (A * t) = (i * s) * (u * t) + (j * s) * (v * t) + (k * s) * (w * t)
  <2>1. CASE s = t
    <3>1. s * t = 1
      BY <2>1
    <3> QED BY <1>10, <2>1
  <2>2. CASE s # t
    BY <1>10, <2>2
  <2> QED BY <2>1, <2>2
<1>12. (f * s) * (A * t) >= 0
  <2>1. ASSUME NEW m \in Int, NEW n \in Int, m >= 0, n >= 0 PROVE m * n \in Int /\ m * n >= 0
    BY <2>1
  <2>2. /\ (i * s) * (u * t) \in Int /\ (i * s) * (u * t) >= 0
    BY <1>5, <1>6, <2>1
  <2>3. /\ (j * s) * (v * t) \in Int /\ (j * s) * (v * t) >= 0
    BY <1>5, <1>7, <2>1
  <2>4. /\ (k * s) * (w * t) \in Int /\ (k * s) * (w * t) >= 0
    BY <1>5, <1>8, <2>1
  <2> QED BY <1>11, <2>2, <2>3, <2>4
<1>13. ASSUME NEW m \in Int, NEW n \in Int, n > 0, m * n >= 0 PROVE m >= 0
  BY <1>13
<1>14. f * s \in Int /\ A * t \in Int
  OBVIOUS
<1>15. f * s >= 0
  BY <1>5, <1>12, <1>13, <1>14
<1> QED BY <1>9, <1>15

LEMMA BoxType ==
  ASSUME NEW v, NEW p \in Box(v)
  PROVE  Pixel(p) \in Points
<1> DEFINE span(S) == (CHOOSE m \in S : \A n \in S : m <= n) - 1 ..
                       (CHOOSE m \in S : \A n \in S : n <= m) + 1
           S == {v[k].x : k \in DOMAIN v}
           T == {v[k].y : k \in DOMAIN v}
<1>1. PICK a, b, c, d : p \in (a..b) \X (c..d)
  <2>1. p \in span(S) \X span(T)
    BY DEF Box
  <2> QED BY <2>1
<1>2. p[1] \in Int /\ p[2] \in Int
  BY <1>1
<1> QED BY <1>2 DEF Pixel, Points

\* Pixels within are touched, pixels outside are not, and none is twice.
PaintedWhole(n, sides) ==
  /\ n \in {0, 1}
  /\ sides \in {{1}, {-1}} => n = 1
  /\ {1, -1} \subseteq sides => n = 0

LEMMA TriangleIsWhole ==
  ASSUME NEW a \in Points, NEW b \in Points, NEW c \in Points, NEW p \in Points,
         Edge(a, b, c) # 0, NEW d, ~TooLarge(<<a, b, c>>, d)
  PROVE  PaintedWhole(TriangleTouches(a, b, c, d, p),
           {Sign(Edge(a, b, p)), Sign(Edge(b, c, p)), Sign(Edge(c, a, p))})
<1>1. PICK u \in Int : u = Edge(b, c, p)
  BY EdgeType
<1>2. PICK v \in Int : v = Edge(c, a, p)
  BY EdgeType
<1>3. PICK w \in Int : w = Edge(a, b, p)
  BY EdgeType
<1>4. PICK A \in Int : A = Edge(a, b, c) /\ A # 0 /\ A = u + v + w
  BY EdgeType, WeightsSum, <1>1, <1>2, <1>3
<1>5. PICK s \in {-1, 1} : s = Sign(A)
  BY <1>4, SignType
<1>6. Covers(a, b, c, p) => u * s >= 0 /\ v * s >= 0 /\ w * s >= 0
  BY <1>1, <1>2, <1>3, <1>4, <1>5 DEF Covers, Inside
<1>7. u * s > 0 /\ v * s > 0 /\ w * s > 0 => Covers(a, b, c, p)
  BY <1>1, <1>2, <1>3, <1>4, <1>5 DEF Covers, Inside
<1>8. ASSUME Sign(u) = Sign(v), Sign(v) = Sign(w), Sign(u) \in {1, -1}
      PROVE  Covers(a, b, c, p)
  <2>1. u * s > 0 /\ v * s > 0 /\ w * s > 0
    BY <1>4, <1>5, <1>8 DEF Sign
  <2> QED BY <1>7, <2>1
<1>9. ASSUME {1, -1} \subseteq {Sign(w), Sign(u), Sign(v)}
      PROVE  ~Covers(a, b, c, p)
  <2>1. ~(u * s >= 0 /\ v * s >= 0 /\ w * s >= 0)
    BY <1>5, <1>9 DEF Sign
  <2> QED BY <1>6, <2>1
<1>10. TriangleTouches(a, b, c, d, p) = IF Covers(a, b, c, p) THEN 1 ELSE 0
  BY DEF TriangleTouches
<1>11. ASSUME {Sign(w), Sign(u), Sign(v)} \in {{1}, {-1}} PROVE Covers(a, b, c, p)
  <2>1. \/ Sign(u) = 1 /\ Sign(v) = 1 /\ Sign(w) = 1
        \/ Sign(u) = -1 /\ Sign(v) = -1 /\ Sign(w) = -1
    BY <1>11
  <2> QED BY <1>8, <2>1
<1> QED BY <1>1, <1>2, <1>3, <1>9, <1>10, <1>11 DEF PaintedWhole

\* A quad goes from a to b to d to c.
LEMMA QuadIsWhole ==
  ASSUME NEW a \in Points, NEW b \in Points, NEW c \in Points, NEW d \in Points,
         NEW p \in Points, NEW s \in {-1, 1},
         Sign(Edge(a, b, c)) = s, Sign(Edge(a, b, d)) = s,
         Sign(Edge(b, d, a)) = s, Sign(Edge(b, d, c)) = s,
         Sign(Edge(d, c, a)) = s, Sign(Edge(d, c, b)) = s,
         Sign(Edge(c, a, b)) = s, Sign(Edge(c, a, d)) = s,
         NEW m, ~TooLarge(<<a, b, c, d>>, m)
  PROVE  PaintedWhole(PolygonTouches(<<a, b, c, d>>, m, p),
           {Sign(Edge(a, b, p)), Sign(Edge(b, d, p)), Sign(Edge(d, c, p)),
            Sign(Edge(c, a, p))})
<1>1. PICK i \in Int : i = Edge(a, b, p)
  BY EdgeType
<1>2. PICK j \in Int : j = Edge(b, d, p)
  BY EdgeType
<1>3. PICK k \in Int : k = Edge(d, c, p)
  BY EdgeType
<1>4. PICK l \in Int : l = Edge(c, a, p)
  BY EdgeType
<1>5. ASSUME NEW x \in Points, NEW y \in Points, NEW z \in Points
      PROVE  Edge(x, y, x) = 0 /\ Edge(x, y, y) = 0
             /\ (Sign(Edge(x, y, z)) = s => Edge(x, y, z) * s >= 0)
  <2>1. Edge(x, y, x) = 0 /\ Edge(x, y, y) = 0
    BY DEF Edge, Points
  <2>2. PICK n \in Int : n = Edge(x, y, z)
    BY EdgeType
  <2>3. Sign(n) = s => n * s >= 0
    BY DEF Sign
  <2> QED BY <2>1, <2>2, <2>3
<1>6. ASSUME NEW x \in Points, NEW y \in Points,
             Edge(x, y, a) * s >= 0, Edge(x, y, b) * s >= 0,
             Edge(x, y, c) * s >= 0, Edge(x, y, d) * s >= 0,
             Covers(a, b, c, p) \/ Covers(b, c, d, p)
      PROVE  Edge(x, y, p) * s >= 0
  BY <1>6, CoveredStaysWithin
<1>7. 0 * s >= 0
  OBVIOUS
<1>8. ASSUME Covers(a, b, c, p) \/ Covers(b, c, d, p)
      PROVE  i * s >= 0 /\ j * s >= 0 /\ k * s >= 0 /\ l * s >= 0
  <2>1. Edge(a, b, p) * s >= 0
    BY <1>5, <1>6, <1>7, <1>8
  <2>2. Edge(b, d, p) * s >= 0
    BY <1>5, <1>6, <1>7, <1>8
  <2>3. Edge(d, c, p) * s >= 0
    BY <1>5, <1>6, <1>7, <1>8
  <2>4. Edge(c, a, p) * s >= 0
    BY <1>5, <1>6, <1>7, <1>8
  <2> QED BY <1>1, <1>2, <1>3, <1>4, <2>1, <2>2, <2>3, <2>4
<1>9. Edge(b, c, a) = Edge(a, b, c) /\ Edge(b, c, d) = -Edge(b, d, c)
      /\ Edge(d, c, p) = -Edge(c, d, p) /\ Edge(b, d, p) = -Edge(d, b, p)
  <2>1. Edge(b, c, d) = Edge(d, b, c) /\ Edge(d, b, c) = -Edge(b, d, c)
    BY EdgeRotated, EdgeReversed
  <2> QED BY <2>1, EdgeRotated, EdgeReversed
<1>10. Sign(Edge(b, c, a)) = s /\ Sign(Edge(b, c, d)) = -s
  <2>1. PICK n \in Int : n = Edge(b, d, c)
    BY EdgeType
  <2>2. Sign(n) = s => Sign(-n) = -s
    BY DEF Sign
  <2> QED BY <1>9, <2>1, <2>2
<1>11. Opposite(b, c, a, d)
  BY <1>10 DEF Opposite
<1>12. PolygonTouches(<<a, b, c, d>>, m, p) \in {0, 1}
  BY <1>11, QuadPaintedOnce
<1>13. ~TooLarge(<<a, b, c>>, m) /\ ~TooLarge(<<b, c, d>>, m)
  <2>1. \A n, o \in 1..4 : ~TooFar(<<a, b, c, d>>[n], <<a, b, c, d>>[o], m)
    BY DEF TooLarge
  <2>2. \A n, o \in {a, b, c, d} : ~TooFar(n, o, m)
    <3>1. \A n \in {a, b, c, d} : \E o \in 1..4 : n = <<a, b, c, d>>[o]
      OBVIOUS
    <3> QED BY <2>1, <3>1
  <2>3. \A n \in 1..3 : <<a, b, c>>[n] \in {a, b, c, d} /\ <<b, c, d>>[n] \in {a, b, c, d}
    OBVIOUS
  <2> QED BY <2>2, <2>3 DEF TooLarge
<1>14. PolygonTouches(<<a, b, c, d>>, m, p)
         = (IF Covers(a, b, c, p) THEN 1 ELSE 0) + (IF Covers(b, c, d, p) THEN 1 ELSE 0)
  BY <1>13 DEF PolygonTouches, TriangleTouches
<1>15. ASSUME {1, -1} \subseteq {Sign(i), Sign(j), Sign(k), Sign(l)}
       PROVE  ~Covers(a, b, c, p) /\ ~Covers(b, c, d, p)
  <2>1. ~(i * s >= 0 /\ j * s >= 0 /\ k * s >= 0 /\ l * s >= 0)
    BY <1>15 DEF Sign
  <2> QED BY <1>8, <2>1
<1>16. i + j + k + l = Edge(a, b, c) + Edge(b, d, c)
  <2>1. PICK e \in Int : e = Edge(b, c, p)
    BY EdgeType
  <2>2. e + l + i = Edge(a, b, c)
    BY <1>1, <1>4, <2>1, WeightsSum
  <2>3. Edge(d, c, p) + Edge(c, b, p) + Edge(b, d, p) = Edge(b, d, c)
    BY WeightsSum
  <2>4. Edge(c, b, p) = -e
    BY <2>1, EdgeReversed
  <2>5. k - e + j = Edge(b, d, c)
    BY <1>2, <1>3, <2>1, <2>3, <2>4
  <2>6. Edge(a, b, c) \in Int /\ Edge(b, d, c) \in Int
    BY EdgeType
  <2> QED BY <2>1, <2>2, <2>5, <2>6
<1>17. ASSUME {Sign(i), Sign(j), Sign(k), Sign(l)} \in {{1}, {-1}}
       PROVE  Covers(a, b, c, p) \/ Covers(b, c, d, p)
  <2>1. PICK e \in Int, f \in Int : e = Edge(a, b, c) /\ f = Edge(b, d, c)
    BY EdgeType
  <2>2. Sign(e) = s /\ Sign(f) = s /\ i + j + k + l = e + f
    BY <1>16, <2>1
  <2>3. \/ Sign(i) = 1 /\ Sign(j) = 1 /\ Sign(k) = 1 /\ Sign(l) = 1
        \/ Sign(i) = -1 /\ Sign(j) = -1 /\ Sign(k) = -1 /\ Sign(l) = -1
    BY <1>17
  <2>4. i * s > 0 /\ j * s > 0 /\ k * s > 0 /\ l * s > 0
    BY <2>2, <2>3 DEF Sign
  <2>5. Inside(c, a, s, p) /\ Inside(a, b, s, p)
    BY <1>1, <1>4, <2>4 DEF Inside
  <2>6. Inside(c, d, -s, p) /\ Inside(d, b, -s, p)
    <3>1. PICK g \in Int : g = Edge(c, d, p)
      BY EdgeType
    <3>2. PICK h \in Int : h = Edge(d, b, p)
      BY EdgeType
    <3>3. k = -g /\ j = -h
      BY <1>2, <1>3, <1>9, <3>1, <3>2
    <3>4. g * (-s) > 0 /\ h * (-s) > 0
      BY <2>4, <3>3
    <3> QED BY <3>1, <3>2, <3>4 DEF Inside
  <2>7. Covers(b, c, a, p) \/ Covers(b, c, d, p)
    BY <1>10, <1>11, <2>5, <2>6, SeamHasNoGap
  <2> QED BY <2>7, CoversRotated
<1> QED BY <1>1, <1>2, <1>3, <1>4, <1>12, <1>14, <1>15, <1>17 DEF PaintedWhole

LEMMA WholeTriangle ==
  ASSUME NEW a \in Points, NEW b \in Points, NEW c \in Points
  PROVE  PolygonIsWhole(<<a, b, c>>)
<1> DEFINE v == <<a, b, c>>
<1>1. Len(v) = 3 /\ DOMAIN v = 1..3 /\ v[1] = a /\ v[2] = b /\ v[3] = c
  OBVIOUS
<1> HIDE DEF v
<1>2. Outline(v) = v
  BY <1>1 DEF Outline
<1>3. /\ (1 % Len(v)) + 1 = 2 /\ (2 % Len(v)) + 1 = 3 /\ (3 % Len(v)) + 1 = 1
  BY <1>1
<1>4. ASSUME NEW p
      PROVE  /\ Side(v, 1, p) = Edge(a, b, p)
             /\ Side(v, 2, p) = Edge(b, c, p)
             /\ Side(v, 3, p) = Edge(c, a, p)
  BY <1>1, <1>2, <1>3 DEF Side
<1> SUFFICES ASSUME Convex(v), ~TooLarge(v, MaxDelta), NEW p \in Box(v)
    PROVE  LET n == PolygonTouches(v, MaxDelta, Pixel(p))
               sides == {Sign(Side(v, k, Pixel(p))) : k \in 1..Len(v)}
           IN  /\ n <= 1
               /\ sides \in {{1}, {-1}} => n = 1
               /\ {1, -1} \subseteq sides => n = 0
  BY DEF PolygonIsWhole, v
<1>5. Edge(a, b, c) # 0
  <2>1. PICK s \in {-1, 1} : Sign(Side(v, 1, Outline(v)[3])) = s
    <3>1. PICK s \in {-1, 1} : \A k, m \in 1..Len(v) :
            \/ m \in {k, (k % Len(v)) + 1}
            \/ Sign(Side(v, k, Outline(v)[m])) = s
      BY DEF Convex
    <3>2. 1 \in 1..Len(v) /\ 3 \in 1..Len(v) /\ 3 \notin {1, (1 % Len(v)) + 1}
      BY <1>1, <1>3
    <3> QED BY <3>1, <3>2
  <2> QED BY <1>1, <1>2, <1>4, <2>1 DEF Sign
<1>6. PICK q \in Points : q = Pixel(p)
  BY BoxType
<1>7. PICK n : n = PolygonTouches(v, MaxDelta, q)
  OBVIOUS
<1>8. n = TriangleTouches(a, b, c, MaxDelta, q)
  <2>1. TriangleTouches(a, b, c, MaxDelta, q) \in {0, 1}
    BY DEF TriangleTouches
  <2> QED BY <1>1, <1>7, <2>1 DEF PolygonTouches
<1>9. PICK sides : sides = {Sign(Edge(a, b, q)), Sign(Edge(b, c, q)), Sign(Edge(c, a, q))}
  OBVIOUS
<1>10. {Sign(Side(v, k, q)) : k \in 1..Len(v)} = sides
  <2>1. 1..Len(v) = {1, 2, 3}
    BY <1>1
  <2> QED BY <1>4, <1>9, <2>1
<1>11. PaintedWhole(n, sides)
  <2>1. ~TooLarge(<<a, b, c>>, MaxDelta)
    BY DEF v
  <2>2. PaintedWhole(TriangleTouches(a, b, c, MaxDelta, q),
          {Sign(Edge(a, b, q)), Sign(Edge(b, c, q)), Sign(Edge(c, a, q))})
    BY <1>5, <2>1, TriangleIsWhole
  <2> QED BY <1>8, <1>9, <2>2
<1>12. n <= 1 /\ (sides \in {{1}, {-1}} => n = 1) /\ ({1, -1} \subseteq sides => n = 0)
  BY <1>11 DEF PaintedWhole
<1> QED BY <1>6, <1>7, <1>10, <1>12, Zenon

LEMMA WholeQuad ==
  ASSUME NEW a \in Points, NEW b \in Points, NEW c \in Points, NEW d \in Points
  PROVE  PolygonIsWhole(<<a, b, c, d>>)
<1> DEFINE v == <<a, b, c, d>>
<1>1. Len(v) = 4 /\ v[1] = a /\ v[2] = b /\ v[3] = c /\ v[4] = d
  OBVIOUS
<1> HIDE DEF v
<1>2. Outline(v) = <<a, b, d, c>>
  BY <1>1 DEF Outline
<1>3. PICK o : o = Outline(v) /\ o[1] = a /\ o[2] = b /\ o[3] = d /\ o[4] = c
  BY <1>2
<1>4. /\ (1 % Len(v)) + 1 = 2 /\ (2 % Len(v)) + 1 = 3 /\ (3 % Len(v)) + 1 = 4
      /\ (4 % Len(v)) + 1 = 1
  BY <1>1
<1>5. ASSUME NEW p
      PROVE  /\ Side(v, 1, p) = Edge(a, b, p)
             /\ Side(v, 2, p) = Edge(b, d, p)
             /\ Side(v, 3, p) = Edge(d, c, p)
             /\ Side(v, 4, p) = Edge(c, a, p)
  BY <1>3, <1>4 DEF Side
<1> SUFFICES ASSUME Convex(v), ~TooLarge(v, MaxDelta), NEW p \in Box(v)
    PROVE  LET n == PolygonTouches(v, MaxDelta, Pixel(p))
               sides == {Sign(Side(v, k, Pixel(p))) : k \in 1..Len(v)}
           IN  /\ n <= 1
               /\ sides \in {{1}, {-1}} => n = 1
               /\ {1, -1} \subseteq sides => n = 0
  BY DEF PolygonIsWhole, v
<1>6. PICK s \in {-1, 1} : \A k, m \in 1..Len(v) :
        \/ m \in {k, (k % Len(v)) + 1}
        \/ Sign(Side(v, k, Outline(v)[m])) = s
  BY DEF Convex
<1>7. \A k, m \in {1, 2, 3, 4} :
        m \in {k, (k % Len(v)) + 1} \/ Sign(Side(v, k, o[m])) = s
  <2>1. 1..Len(v) = {1, 2, 3, 4}
    BY <1>1
  <2> QED BY <1>3, <1>6, <2>1
<1>8. /\ Sign(Edge(a, b, d)) = s /\ Sign(Edge(a, b, c)) = s
      /\ Sign(Edge(b, d, c)) = s /\ Sign(Edge(b, d, a)) = s
      /\ Sign(Edge(d, c, a)) = s /\ Sign(Edge(d, c, b)) = s
      /\ Sign(Edge(c, a, b)) = s /\ Sign(Edge(c, a, d)) = s
  <2>1. Sign(Side(v, 1, d)) = s /\ Sign(Side(v, 1, c)) = s
    BY <1>3, <1>4, <1>7
  <2>2. Sign(Side(v, 2, c)) = s /\ Sign(Side(v, 2, a)) = s
    BY <1>3, <1>4, <1>7
  <2>3. Sign(Side(v, 3, a)) = s /\ Sign(Side(v, 3, b)) = s
    BY <1>3, <1>4, <1>7
  <2>4. Sign(Side(v, 4, b)) = s /\ Sign(Side(v, 4, d)) = s
    BY <1>3, <1>4, <1>7
  <2> QED BY <1>5, <2>1, <2>2, <2>3, <2>4
<1>9. PICK q \in Points : q = Pixel(p)
  BY BoxType
<1>10. PICK sides : sides = {Sign(Edge(a, b, q)), Sign(Edge(b, d, q)),
                             Sign(Edge(d, c, q)), Sign(Edge(c, a, q))}
  OBVIOUS
<1>11. {Sign(Side(v, k, q)) : k \in 1..Len(v)} = sides
  <2>1. 1..Len(v) = {1, 2, 3, 4}
    BY <1>1
  <2> QED BY <1>5, <1>10, <2>1
<1>12. PICK n : n = PolygonTouches(v, MaxDelta, q)
  OBVIOUS
<1>13. PaintedWhole(n, sides)
  <2>1. ~TooLarge(<<a, b, c, d>>, MaxDelta)
    BY DEF v
  <2>2. PaintedWhole(PolygonTouches(<<a, b, c, d>>, MaxDelta, q),
          {Sign(Edge(a, b, q)), Sign(Edge(b, d, q)), Sign(Edge(d, c, q)),
           Sign(Edge(c, a, q))})
    BY <1>8, <2>1, QuadIsWhole
  <2> QED BY <1>10, <1>12, <2>2 DEF v
<1>14. n <= 1 /\ (sides \in {{1}, {-1}} => n = 1) /\ ({1, -1} \subseteq sides => n = 0)
  BY <1>13 DEF PaintedWhole
<1> QED BY <1>9, <1>11, <1>12, <1>14, Zenon

\* Of four points the first three or all are the vertices of a polygon.
LEMMA WholePolygon ==
  ASSUME NEW v \in [1..4 -> Points], NEW n \in 3..4
  PROVE  PolygonIsWhole(SubSeq(v, 1, n))
<1>1. SubSeq(v, 1, n) = [i \in 1..n |-> v[i]]
  <2>1. v \in Seq(Points) /\ Len(v) = 4
    OBVIOUS
  <2>2. 1 \in Int /\ n \in Int
    OBVIOUS
  <2>3. SubSeq(v, 1, n) = [i \in 1..(n - 1 + 1) |-> v[i + 1 - 1]]
    BY <2>1, <2>2
  <2> QED BY <2>3
<1>2. v[1] \in Points /\ v[2] \in Points /\ v[3] \in Points /\ v[4] \in Points
  OBVIOUS
<1>3. CASE n = 3
  <2>1. PICK t : t = <<v[1], v[2], v[3]>>
    OBVIOUS
  <2>2. t = [i \in 1..3 |-> t[i]]
    BY <2>1
  <2>3. \A i \in 1..3 : t[i] = v[i]
    BY <2>1
  <2>4. t = SubSeq(v, 1, n)
    BY <1>1, <1>3, <2>2, <2>3, Zenon
  <2> QED BY <1>2, <2>1, <2>4, WholeTriangle
<1>4. CASE n = 4
  <2>1. PICK t : t = <<v[1], v[2], v[3], v[4]>>
    OBVIOUS
  <2>2. t = [i \in 1..4 |-> t[i]]
    BY <2>1
  <2>3. \A i \in 1..4 : t[i] = v[i]
    BY <2>1
  <2>4. t = SubSeq(v, 1, n)
    BY <1>1, <1>4, <2>2, <2>3, Zenon
  <2> QED BY <1>2, <2>1, <2>4, WholeQuad
<1> QED BY <1>3, <1>4

-----------------------------------------------------------------------------
(* Lines as a whole.                                                        *)

\* One turn after the other, until the last pixel.
LEMMA WalkGoesOn ==
  ASSUME NEW a \in Points, NEW b \in Points, NEW Fuel \in Nat
  PROVE  LET walk == LineWalk(a, b, Fuel) IN
         /\ walk[0] = LineStart(a, b)
         /\ \A n \in Nat : n < Fuel /\ ~Arrived(b, walk[n]) =>
                walk[n + 1] = LineStep(a, b, walk[n])
<1> DEFINE Pens == [x : Int, y : Int, err : Int]
           turn == [pen \in Pens |-> IF Arrived(b, pen) THEN pen
                                     ELSE LineStep(a, b, pen)]
           Round(f) == [n \in 0..Fuel |->
                          IF n = 0 THEN LineStart(a, b)
                          ELSE IF Arrived(b, f[n - 1]) THEN f[n - 1]
                          ELSE LineStep(a, b, f[n - 1])]
<1>2. OnCourse(a, b, LineStart(a, b), 0)
  BY LineStarts
<1>3. LineStart(a, b) \in Pens
  BY <1>2 DEF OnCourse
<1>4. turn \in [Pens -> Pens]
  <2>1. ASSUME NEW pen \in Pens PROVE LineStep(a, b, pen) \in Pens
    <3>1. Dx(a, b) \in Int /\ Dy(a, b) \in Int
      BY LengthType
    <3>2. Toward(a.x, b.x) \in Int /\ Toward(a.y, b.y) \in Int
      BY DEF Toward
    <3> QED BY <3>1, <3>2 DEF LineStep
  <2> QED BY <2>1
<1>5. \E f : f = Round(f)
  <2>1. PICK f \in [0..Fuel -> Pens] :
           f = [n \in 0..Fuel |-> IF n = 0 THEN LineStart(a, b) ELSE turn[f[n - 1]]]
    <3> DEFINE turns == [n \in Nat |-> turn]
    <3>1. turns \in [Nat -> [Pens -> Pens]] /\ \A n \in 0..Fuel : turns[n] = turn
      <4> HIDE DEF turn, Pens
      <4> QED BY <1>4
    <3> HIDE DEF Pens, turn, turns
    <3>2. PICK f \in [0..Fuel -> Pens] : Iterates(f, Fuel, LineStart(a, b), turns)
      BY <1>3, <3>1, IteratesExists
    <3> QED BY <3>1, <3>2 DEF Iterates
  <2>2. ASSUME NEW n \in 0..Fuel
        PROVE  (IF n = 0 THEN LineStart(a, b) ELSE turn[f[n - 1]])
                 = (IF n = 0 THEN LineStart(a, b)
                    ELSE IF Arrived(b, f[n - 1]) THEN f[n - 1]
                    ELSE LineStep(a, b, f[n - 1]))
    <3>1. CASE n # 0
      <4>1. n - 1 \in 0..Fuel
        BY <3>1
      <4>2. f[n - 1] \in Pens
        BY <2>1, <4>1
      <4> QED BY <3>1, <4>2
    <3> QED BY <3>1
  <2>3. f = Round(f)
    <3> HIDE DEF turn
    <3> QED BY <2>1, <2>2
  <2> QED BY <2>3
<1>6. PICK walk : walk = LineWalk(a, b, Fuel)
  OBVIOUS
<1>7. walk = Round(walk)
  <2>1. walk = CHOOSE f : f = Round(f)
    BY <1>6 DEF LineWalk
  <2> HIDE DEF Round
  <2> QED BY <1>5, <2>1
<1>8. walk[0] = LineStart(a, b)
  BY <1>7
<1>9. ASSUME NEW n \in Nat, n < Fuel, ~Arrived(b, walk[n])
      PROVE  walk[n + 1] = LineStep(a, b, walk[n])
  <2>1. n + 1 \in 0..Fuel /\ n + 1 # 0 /\ (n + 1) - 1 = n
    BY <1>9
  <2> QED BY <1>7, <1>9, <2>1
<1> QED BY <1>6, <1>8, <1>9

LEMMA WalkStaysOnCourse ==
  ASSUME NEW a \in Points, NEW b \in Points, NEW Fuel \in Nat,
         Length(a, b) <= Fuel
  PROVE  \A n \in 0..Length(a, b) : OnCourse(a, b, LineWalk(a, b, Fuel)[n], n)
<1>1. Length(a, b) \in Nat
  BY LengthType DEF Length, Larger
<1>2. OnCourse(a, b, LineStart(a, b), 0)
  BY LineStarts
<1>6. PICK walk : walk = LineWalk(a, b, Fuel)
  OBVIOUS
<1>8. walk[0] = LineStart(a, b)
  BY <1>6, WalkGoesOn
<1>9. ASSUME NEW n \in Nat, n < Fuel, ~Arrived(b, walk[n])
      PROVE  walk[n + 1] = LineStep(a, b, walk[n])
  BY <1>6, <1>9, WalkGoesOn
<1>10. ASSUME NEW m \in Nat PROVE m <= Length(a, b) => OnCourse(a, b, walk[m], m)
  <2> DEFINE T == {n \in Nat : n <= Length(a, b) => OnCourse(a, b, walk[n], n)}
  <2>1. 0 \in T
    BY <1>2, <1>8
  <2>2. \A n \in Nat : n \in T => n + 1 \in T
    <3> SUFFICES ASSUME NEW n \in Nat, n \in T, n + 1 <= Length(a, b)
        PROVE OnCourse(a, b, walk[n + 1], n + 1)
      OBVIOUS
    <3>1. n < Length(a, b) /\ n < Fuel /\ OnCourse(a, b, walk[n], n)
      BY <1>1
    <3>2. ~Arrived(b, walk[n]) /\ OnCourse(a, b, LineStep(a, b, walk[n]), n + 1)
      BY <3>1, LineStaysOnCourse
    <3> HIDE DEF T
    <3> QED BY <1>9, <3>1, <3>2
  <2>3. m \in T
    <3> HIDE DEF T
    <3> QED BY <2>1, <2>2, SetInduction
  <2> QED BY <2>3
<1> QED BY <1>1, <1>6, <1>10

\* Halfway between two pixels, in numbers.
LEMMA HalfAPixel ==
  ASSUME NEW dx \in Nat, NEW dy \in Nat, NEW n \in Nat, NEW j \in Int,
         dx > 0, dy <= dx, n <= dx, 2 * (dx * j - dy * n) \in (-dx)..dx
  PROVE  0 <= j /\ j <= n
<1>1. dx * j \in Int /\ dy * n \in Int /\ dx * n \in Int
  OBVIOUS
<1>2. 0 <= dy * n /\ dy * n <= dx * n
  OBVIOUS
<1>3. 0 <= j
  <2>1. ASSUME j <= -1 PROVE FALSE
    <3>1. dx * j <= -dx
      BY <2>1
    <3> QED BY <1>1, <1>2, <3>1
  <2> QED BY <2>1
<1>4. j <= n
  <2>1. ASSUME j >= n + 1 PROVE FALSE
    <3>1. dx * j >= dx * n + dx
      BY <2>1
    <3> QED BY <1>1, <1>2, <3>1
  <2> QED BY <2>1
<1> QED BY <1>3, <1>4

LEMMA CourseIsClose ==
  ASSUME NEW a \in Points, NEW b \in Points, NEW n \in Nat, NEW at,
         n <= Length(a, b), Length(a, b) # 0, OnCourse(a, b, at, n)
  PROVE  /\ Larger(Abs(at.x - a.x), Abs(at.y - a.y)) = n
         /\ 2 * Abs(Edge(a, b, at)) <= Length(a, b)
<1>1. PICK dx, dy \in Nat : dx = Dx(a, b) /\ dy = -Dy(a, b)
  BY LengthType
<1>2. at.x \in Int /\ at.y \in Int /\ a.x \in Int /\ a.y \in Int /\ b.x \in Int /\ b.y \in Int
  BY DEF OnCourse, Points
<1>3. PICK s \in {-1, 1} : s = Toward(a.x, b.x)
  BY DEF Toward
<1>4. PICK t \in {-1, 1} : t = Toward(a.y, b.y)
  BY DEF Toward
<1>5. PICK i \in Int : i = (at.x - a.x) * s
  BY <1>2
<1>6. PICK j \in Int : j = (at.y - a.y) * t
  BY <1>2
<1>7. /\ dx >= dy => i = n /\ 2 * (dx * j - dy * i) \in (-dx)..dx
      /\ dx < dy  => j = n /\ 2 * (dy * i - dx * j) \in (-dy)..dy
  BY <1>1, <1>3, <1>4, <1>5, <1>6 DEF OnCourse, Along
<1>8. b.x - a.x = dx * s /\ b.y - a.y = dy * t
  BY <1>1, <1>2, <1>3, <1>4 DEF Dx, Dy, Abs, Toward
<1>9. at.x - a.x = i * s /\ at.y - a.y = j * t
  BY <1>2, <1>5, <1>6
<1>10. Length(a, b) = IF dx > dy THEN dx ELSE dy
  BY <1>1 DEF Length, Larger
<1>11. PICK e \in Int : e = dx * j - dy * i
  OBVIOUS
<1>12. Edge(a, b, at) \in {e, -e}
  <2>1. Edge(a, b, at) = (dx * s) * (j * t) - (dy * t) * (i * s)
    BY <1>8, <1>9 DEF Edge
  <2> QED BY <1>11, <2>1
<1>13. Abs(i * s) = Abs(i) /\ Abs(j * t) = Abs(j)
  BY DEF Abs
<1>14. CASE dx >= dy
  <2>1. i = n /\ 2 * (dx * j - dy * n) \in (-dx)..dx
    BY <1>7, <1>14
  <2>2. dx > 0 /\ n <= dx
    BY <1>10, <1>14
  <2>3. 0 <= j /\ j <= n
    BY <1>14, <2>1, <2>2, HalfAPixel
  <2>4. Larger(Abs(i), Abs(j)) = n
    BY <2>1, <2>3 DEF Larger, Abs
  <2>5. 2 * e <= dx /\ 2 * (-e) <= dx
    BY <1>11, <2>1
  <2> QED BY <1>9, <1>10, <1>12, <1>13, <1>14, <2>4, <2>5 DEF Abs
<1>15. CASE dx < dy
  <2>1. j = n /\ 2 * (dy * i - dx * n) \in (-dy)..dy
    BY <1>7, <1>15
  <2>2. dy > 0 /\ n <= dy
    BY <1>10, <1>15
  <2>3. 0 <= i /\ i <= n
    BY <1>15, <2>1, <2>2, HalfAPixel
  <2>4. Larger(Abs(i), Abs(j)) = n
    BY <2>1, <2>3 DEF Larger, Abs
  <2>5. 2 * e <= dy /\ 2 * (-e) <= dy
    <3>1. dy * i \in Int /\ dx * n \in Int /\ dx * j = dx * n /\ e = dx * n - dy * i
      BY <1>11, <2>1
    <3> QED BY <2>1, <3>1
  <2> QED BY <1>9, <1>10, <1>12, <1>13, <1>15, <2>4, <2>5 DEF Abs
<1> QED BY <1>14, <1>15

\* Every line follows its course to its last pixel.
LEMMA WholeLine ==
  ASSUME NEW a \in Points, NEW b \in Points
  PROVE  LineIsWhole(a, b)
<1>1. PICK L \in Nat : L = Length(a, b)
  BY LengthType DEF Length, Larger
<1>2. L = Larger(Dx(a, b), -Dy(a, b))
  BY <1>1 DEF Length
<1>3. 2 * Steps(a, b) \in Nat /\ L <= 2 * Steps(a, b)
  BY <1>2 DEF Steps, Larger
<1>4. PICK walk : walk = LineWalk(a, b, 2 * Steps(a, b))
  OBVIOUS
<1>5. ASSUME NEW n \in 0..L PROVE OnCourse(a, b, walk[n], n)
  BY <1>1, <1>3, <1>4, WalkStaysOnCourse
<1>6. L = 0 <=> a = b
  BY <1>2 DEF Larger, Dx, Dy, Abs, Points
<1>7. walk[0] = LineStart(a, b)
  BY <1>3, <1>4, WalkGoesOn
<1>8. CASE L = 0
  <2>1. Arrived(b, walk[0])
    BY <1>6, <1>7, <1>8, LineStarts
  <2>2. walk[0].x = a.x /\ walk[0].y = a.y
    BY <1>7 DEF LineStart
  <2>3. Larger(Abs(walk[0].x - a.x), Abs(walk[0].y - a.y)) = 0
        /\ 2 * Abs(Edge(a, b, walk[0])) <= 0
    BY <2>2 DEF Larger, Abs, Edge, Points
  <2>4. \A n \in 0..L : n = 0
    BY <1>8
  <2> QED BY <1>2, <1>4, <1>8, <2>1, <2>3, <2>4 DEF LineIsWhole
<1>9. CASE L # 0
  <2>1. Arrived(b, walk[L])
    <3>1. OnCourse(a, b, walk[L], L)
      BY <1>1, <1>5
    <3> QED BY <1>1, <1>6, <1>9, <3>1, LineArrives
  <2>2. ASSUME NEW n \in 0..L
        PROVE  /\ Larger(Abs(walk[n].x - a.x), Abs(walk[n].y - a.y)) = n
               /\ 2 * Abs(Edge(a, b, walk[n])) <= L
    <3>1. n \in Nat /\ n <= Length(a, b) /\ Length(a, b) # 0
      BY <1>1, <1>9
    <3> QED BY <1>1, <1>5, <3>1, CourseIsClose
  <2> QED BY <1>2, <1>4, <2>1, <2>2 DEF LineIsWhole
<1> QED BY <1>8, <1>9

LEMMA AllPolygonsWhole ==
  ASSUME NEW c, NEW v \in Corners
  PROVE  v \in WholePolygons[Vertices(c)]
<1>1. v \in [1..4 -> Points]
  BY GpuAssumption
<1>2. Vertices(c) \in 3..4
  BY DEF Vertices
<1>3. PICK n \in 3..4 : n = Vertices(c)
  BY <1>2
<1>4. PolygonIsWhole(SubSeq(v, 1, n))
  BY <1>1, WholePolygon
<1>5. WholePolygons[n] = {u \in Corners : PolygonIsWhole(SubSeq(u, 1, n))}
  BY DEF WholePolygons
<1> QED BY <1>3, <1>4, <1>5

LEMMA AllLinesWhole ==
  ASSUME NEW v \in Corners
  PROVE  v \in WholeLines
<1>1. v \in [1..4 -> Points]
  BY GpuAssumption
<1>2. ASSUME NEW k \in 1..3 PROVE LineIsWhole(v[k], v[k + 1])
  <2>1. v[k] \in Points /\ v[k + 1] \in Points
    BY <1>1
  <2> QED BY <2>1, WholeLine
<1> QED BY <1>2 DEF WholeLines

LEMMA ExecuteIsWhole ==
  ASSUME NEW g, NEW c, NEW colour, NEW data, whole, Execute(g, c, colour, data)
  PROVE  whole'
<1>1. CASE c.group \in DrawGroups
  <2>1. PICK v \in Corners :
          whole' = (whole /\
                       CASE c.group = "polygon" -> v \in WholePolygons[Vertices(c)]
                         [] c.group = "line"    -> v \in WholeLines
                         [] OTHER               -> TRUE)
    BY <1>1 DEF Execute, DrawGroups
  <2>2. v \in WholePolygons[Vertices(c)] /\ v \in WholeLines
    BY AllPolygonsWhole, AllLinesWhole
  <2> QED BY <2>1, <2>2
<1>2. CASE c.group \notin DrawGroups
  <2>1. UNCHANGED whole
    BY <1>2 DEF Execute
  <2> QED BY <2>1
<1> QED BY <1>1, <1>2

LEMMA WriteIsWhole ==
  ASSUME whole, NEW w, WriteGp0(w)
  PROVE  whole'
<1>1. CASE StartGp0(w)
  <2>1. UNCHANGED whole
    BY <1>1 DEF StartGp0, Unchanged, Begin
  <2> QED BY <2>1
<1>2. CASE CollectGp0(w)
  <2>1. PICK data : data = Append(gpu.packet.data, Keep(gpu.packet.cmd, w))
    OBVIOUS
  <2>2. \/ Execute([gpu EXCEPT !.packet = Idle], gpu.packet.cmd, gpu.packet.colour, data)
        \/ UNCHANGED whole
    BY <1>2, <2>1 DEF CollectGp0, Unchanged
  <2> QED BY <2>2, ExecuteIsWhole
<1>3. CASE UploadGp0(w)
  <2>1. UNCHANGED whole
    BY <1>3 DEF UploadGp0
  <2> QED BY <2>1
<1>4. CASE PolylineGp0(w)
  <2>1. CASE w.term
    <3>1. PICK v \in Corners : whole' = (whole /\ v \in WholeLines)
      BY <1>4, <2>1 DEF PolylineGp0
    <3> QED BY <3>1, AllLinesWhole
  <2>2. CASE ~w.term
    <3>1. UNCHANGED whole
      BY <1>4, <2>2 DEF PolylineGp0, Unchanged
    <3> QED BY <3>1
  <2> QED BY <2>1, <2>2
<1> QED BY <1>1, <1>2, <1>3, <1>4 DEF WriteGp0

\* Wherever its corners are, a polygon touches each pixel within it once and
\* none outside, and a line arrives: of every primitive the stream can bring,
\* for any number of corners anywhere (render_polygon, draw_line).
THEOREM PrimitivesAreWhole == Spec => []ShapesAreWhole
<1>1. Init => ShapesAreWhole
  BY DEF Init, ShapesAreWhole
<1>2. ShapesAreWhole /\ [Next]_vars => ShapesAreWhole'
  <2> SUFFICES ASSUME whole, [Next]_vars PROVE whole'
    BY DEF ShapesAreWhole
  <2>1. CASE \E w \in Words : WriteGp0(w)
    BY <2>1, WriteIsWhole
  <2>2. CASE Reset \/ ClearCommandBuffer \/ ReadGp0
    <3>1. UNCHANGED whole
      BY <2>2 DEF Reset, ClearCommandBuffer, ReadGp0, Unchanged
    <3> QED BY <3>1
  <2>3. CASE UNCHANGED vars
    BY <2>3 DEF vars
  <2> QED BY <2>1, <2>2, <2>3 DEF Next
<1> QED BY <1>1, <1>2, PTL DEF Spec

-----------------------------------------------------------------------------
(* The types of the command stream.                                         *)

Pixel16 == 0..(2 * MaskBit - 1)
Halves == Pixel16 \X Pixel16
Coordinates == Nat

\* What is known of a packet being collected is what its command says.
Packets ==
  {Idle} \cup [kind : {"collect"}, cmd : Commands, colour : Pixel16,
               data : Seq(Halves)]
    \cup [kind : {"polyline"}, cmd : Commands, length : Nat]
    \cup [kind : {"upload"}, x : Nat, y : Nat, w : Nat \ {0}, h : Nat \ {0}, left : Int,
          index : Nat]

GpuType ==
  [packet : Packets, vram : [Pixels -> Pixel16], vramRead : Seq(Halves),
   maskSet : BOOLEAN, maskCheck : BOOLEAN]

Uploads ==
  [xy : Halves, wh : Halves, words : Seq(Halves), before : [Pixels -> Pixel16],
   set : BOOLEAN, check : BOOLEAN]

LEMMA GpuConstants ==
  /\ Width \in Nat \ {0} /\ Height \in Nat \ {0} /\ MaskBit \in Nat \ {0}
  /\ FillAlign \in Nat \ {0} /\ Words \subseteq WordType
  /\ PaintColor \in 0..(MaskBit - 1)
  /\ PaintColor \in Pixel16 /\ 0 \in Pixel16
  BY GpuAssumption DEF Pixel16

LEMMA GpuFields ==
  ASSUME NEW g \in GpuType
  PROVE  /\ g.packet \in Packets /\ g.vram \in [Pixels -> Pixel16]
         /\ g.vramRead \in Seq(Halves)
         /\ g.maskSet \in BOOLEAN /\ g.maskCheck \in BOOLEAN
  BY DEF GpuType

LEMMA PacketChanges ==
  ASSUME NEW g \in GpuType, NEW k \in Packets
  PROVE  LET n == [g EXCEPT !.packet = k] IN
         /\ n \in GpuType /\ n.packet = k /\ n.vram = g.vram
         /\ n.vramRead = g.vramRead /\ n.maskSet = g.maskSet
         /\ n.maskCheck = g.maskCheck
  BY DEF GpuType

LEMMA VramChanges ==
  ASSUME NEW g \in GpuType, NEW m \in [Pixels -> Pixel16]
  PROVE  LET n == [g EXCEPT !.vram = m] IN
         /\ n \in GpuType /\ n.vram = m /\ n.packet = g.packet
         /\ n.vramRead = g.vramRead /\ n.maskSet = g.maskSet
         /\ n.maskCheck = g.maskCheck
  BY DEF GpuType

LEMMA ReadChanges ==
  ASSUME NEW g \in GpuType, NEW r \in Seq(Halves)
  PROVE  LET n == [g EXCEPT !.vramRead = r] IN
         /\ n \in GpuType /\ n.vramRead = r /\ n.packet = g.packet
         /\ n.vram = g.vram /\ n.maskSet = g.maskSet
         /\ n.maskCheck = g.maskCheck
  BY DEF GpuType

LEMMA Kinds ==
  ASSUME NEW k \in Packets
  PROVE  /\ Idle \in Packets /\ Idle.kind = "idle"
         /\ k.kind \in {"idle", "collect", "polyline", "upload"}
         /\ k.kind = "idle" => k = Idle
         /\ k.kind = "collect" =>
              k \in [kind : {"collect"}, cmd : Commands, colour : Pixel16,
                     data : Seq(Halves)]
         /\ k.kind = "polyline" =>
              k \in [kind : {"polyline"}, cmd : Commands, length : Nat]
         /\ k.kind = "upload" =>
              k \in [kind : {"upload"}, x : Nat, y : Nat, w : Nat \ {0}, h : Nat \ {0},
                     left : Int, index : Nat]
<1>1. Idle \in Packets /\ Idle.kind = "idle"
  BY DEF Packets, Idle
<1>2. CASE k = Idle
  BY <1>1, <1>2
<1>3. CASE k \in [kind : {"collect"}, cmd : Commands, colour : Pixel16,
                  data : Seq(Halves)]
  <2>1. k.kind = "collect"
    BY <1>3
  <2> QED BY <1>1, <1>3, <2>1
<1>4. CASE k \in [kind : {"polyline"}, cmd : Commands, length : Nat]
  <2>1. k.kind = "polyline"
    BY <1>4
  <2> QED BY <1>1, <1>4, <2>1
<1>5. CASE k \in [kind : {"upload"}, x : Nat, y : Nat, w : Nat \ {0}, h : Nat \ {0},
                  left : Int, index : Nat]
  <2>1. k.kind = "upload"
    BY <1>5
  <2> QED BY <1>1, <1>5, <2>1
<1> QED BY <1>2, <1>3, <1>4, <1>5 DEF Packets

-----------------------------------------------------------------------------
(* Packets: the parser waits for the words that the handler reads.          *)

\* The index of decode_polygon after n vertices.
PolygonIndex(c, n) ==
  IF n = 0 THEN 1
  ELSE 1 + n * (1 + If(Has(c, "textured"), 1)) + If(Has(c, "gouraud"), n - 1)

LEMMA PolygonReadsIs ==
  ASSUME NEW c
  PROVE  PolygonReads(c) = PolygonIndex(c, Vertices(c))
<1> DEFINE V == Vertices(c)
           f == [n \in 0..V |-> PolygonIndex(c, n)]
           Round(g) == [v \in 0..V |->
              IF v = 0 THEN 1
              ELSE g[v - 1] + If(Has(c, "gouraud") /\ v > 1, 1)
                     + 1 + If(Has(c, "textured"), 1)]
<1>1. V \in Nat
  BY DEF Vertices
<1>2. f = Round(f)
  <2>1. ASSUME NEW v \in 0..V
        PROVE  PolygonIndex(c, v) = IF v = 0 THEN 1
                 ELSE f[v - 1] + If(Has(c, "gouraud") /\ v > 1, 1)
                     + 1 + If(Has(c, "textured"), 1)
    <3>1. CASE v = 0
      BY <3>1 DEF PolygonIndex
    <3>2. CASE v # 0
      <4>1. v - 1 \in 0..V /\ f[v - 1] = PolygonIndex(c, v - 1)
        BY <1>1, <3>2
      <4>2. CASE v = 1
        BY <4>1, <4>2 DEF PolygonIndex, If
      <4>3. CASE v > 1
        <5>1. v - 1 # 0 /\ v \in Int
          BY <1>1, <4>3
        <5>2. PICK t \in {1, 2} : t = 1 + If(Has(c, "textured"), 1)
          BY DEF If
        <5>3. (v - 1) * t + t = v * t
          BY <5>1, <5>2
        <5>4. PolygonIndex(c, v) = 1 + v * t + If(Has(c, "gouraud"), v - 1)
          BY <5>2, <3>2 DEF PolygonIndex
        <5>5. PolygonIndex(c, v - 1) = 1 + (v - 1) * t + If(Has(c, "gouraud"), v - 2)
          BY <5>1, <5>2 DEF PolygonIndex
        <5>6. If(Has(c, "gouraud"), v - 1)
                = If(Has(c, "gouraud"), v - 2) + If(Has(c, "gouraud") /\ v > 1, 1)
          BY <5>1, <4>3 DEF If
        <5>7. (v - 1) * t \in Int /\ v * t \in Int
              /\ If(Has(c, "gouraud"), v - 2) \in Int
              /\ If(Has(c, "gouraud") /\ v > 1, 1) \in Int
          BY <5>1, <5>2 DEF If
        <5>8. PolygonIndex(c, v) =
                PolygonIndex(c, v - 1) + If(Has(c, "gouraud") /\ v > 1, 1) + t
          BY <5>3, <5>4, <5>5, <5>6, <5>7
        <5>9. f[v - 1] + If(Has(c, "gouraud") /\ v > 1, 1) + t
                = f[v - 1] + If(Has(c, "gouraud") /\ v > 1, 1)
                     + 1 + If(Has(c, "textured"), 1)
          <6>1. f[v - 1] \in Int
            BY <4>1, <5>5, <5>7
          <6>2. If(Has(c, "textured"), 1) \in Int
            BY DEF If
          <6> HIDE DEF f
          <6> QED BY <5>2, <5>7, <6>1, <6>2
        <5> QED BY <3>2, <4>1, <5>8, <5>9
      <4> QED BY <1>1, <3>2, <4>2, <4>3
    <3> QED BY <3>1, <3>2
  <2> QED BY <2>1
<1>3. \E g : g = Round(g)
  BY <1>2
<1>4. ASSUME NEW g, g = Round(g) PROVE g[V] = f[V]
  <2>1. ASSUME NEW n \in Nat PROVE n <= V => g[n] = f[n]
    <3> DEFINE T == {n_1 \in Nat : n_1 <= V => g[n_1] = f[n_1]}
    <3>1. \A v \in 0..V : g[v] = IF v = 0 THEN 1
              ELSE g[v - 1] + If(Has(c, "gouraud") /\ v > 1, 1)
                     + 1 + If(Has(c, "textured"), 1)
      BY <1>4
    <3>2. \A v \in 0..V : f[v] = IF v = 0 THEN 1
              ELSE f[v - 1] + If(Has(c, "gouraud") /\ v > 1, 1)
                     + 1 + If(Has(c, "textured"), 1)
      <4> HIDE DEF f
      <4> QED BY <1>2
    <3> HIDE DEF f
    <3>3. 0 \in T
      BY <1>1, <3>1, <3>2
    <3>4. \A k \in Nat : k \in T => k + 1 \in T
      <4> SUFFICES ASSUME NEW k \in Nat, k \in T, k + 1 <= V
          PROVE g[k + 1] = f[k + 1]
        OBVIOUS
      <4>1. k + 1 \in 0..V /\ k + 1 # 0 /\ (k + 1) - 1 = k /\ k <= V
        BY <1>1
      <4>2. g[k] = f[k]
        BY <4>1
      <4> HIDE DEF T
      <4> QED BY <3>1, <3>2, <4>1, <4>2
    <3>5. n \in T
      <4> HIDE DEF T
      <4> QED BY <3>3, <3>4, SetInduction
    <3> QED BY <3>5
  <2> QED BY <1>1, <2>1
<1>5. PolygonReads(c) = f[V]
  <2>1. PolygonReads(c) = (CHOOSE g : g = Round(g))[V]
    BY DEF PolygonReads
  <2>2. (CHOOSE g : g = Round(g)) = Round(CHOOSE g : g = Round(g))
    <3> HIDE DEF Round
    <3> QED BY <1>3
  <2> HIDE DEF Round, f
  <2> QED BY <1>4, <2>1, <2>2
<1> QED BY <1>1, <1>5

LEMMA EveryWordIsRead ==
  ASSUME NEW c \in Commands, c.group \notin {"nop", "mask"}
  PROVE  WordCount(c) = Reads(c)
<1>1. CASE c.group = "polygon"
  <2>1. PolygonWordCount(c) = PolygonIndex(c, Vertices(c))
    BY DEF PolygonWordCount, PolygonIndex, Vertices, If
  <2> QED BY <1>1, <2>1, PolygonReadsIs DEF WordCount, Reads
<1>2. CASE c.group = "rect"
  <2>1. RectangleWordCount(c) = RectangleReads(c)
    BY DEF RectangleWordCount, RectangleReads, If
  <2> QED BY <1>2, <2>1 DEF WordCount, Reads
<1>3. CASE c.group = "line"
  BY <1>3 DEF WordCount, Reads, LineReads, If
<1>4. CASE c.group \in {"copy", "fill", "upload", "download"}
  BY <1>4 DEF WordCount, Reads
<1> QED BY <1>1, <1>2, <1>3, <1>4 DEF Commands

-----------------------------------------------------------------------------
(* What the handlers do to the machine.                                     *)

LEMMA HalfType ==
  ASSUME NEW w \in WordType
  PROVE  Half(w) \in Halves
  BY DEF Half, WordType, Halves, Pixel16

LEMMA HalfParts ==
  ASSUME NEW half \in Halves
  PROVE  /\ half[1] \in Nat /\ half[2] \in Nat
         /\ half[1] \in Pixel16 /\ half[2] \in Pixel16
         /\ X(half) \in 0..(Width - 1) /\ Y(half) \in 0..(Height - 1)
         /\ CopyWidth(half) \in 1..Width /\ CopyHeight(half) \in 1..Height
<1>1. half[1] \in Nat /\ half[2] \in Nat
      /\ half[1] \in Pixel16 /\ half[2] \in Pixel16
  BY GpuConstants DEF Halves, Pixel16
<1>2. ASSUME NEW n \in Int, NEW R \in Nat \ {0}
      PROVE  n % R \in 0..(R - 1) /\ ((n - 1) % R) + 1 \in 1..R
  <2>1. n % R \in Int /\ 0 <= n % R /\ n % R < R
    BY <1>2, DivisionOf
  <2>2. (n - 1) % R \in Int /\ 0 <= (n - 1) % R /\ (n - 1) % R < R
    BY <1>2, DivisionOf
  <2> QED BY <2>1, <2>2
<1>3. half[1] \in Int /\ half[2] \in Int
  BY <1>1
<1>4. X(half) \in 0..(Width - 1) /\ CopyWidth(half) \in 1..Width
  BY <1>2, <1>3, GpuConstants DEF X, CopyWidth
<1>5. Y(half) \in 0..(Height - 1) /\ CopyHeight(half) \in 1..Height
  BY <1>2, <1>3, GpuConstants DEF Y, CopyHeight
<1> QED BY <1>1, <1>4, <1>5

LEMMA MaskType ==
  ASSUME NEW pixel \in Pixel16
  PROVE  WithMask(pixel) \in Pixel16
  BY GpuConstants DEF WithMask, Masked, Pixel16

LEMMA AtType ==
  ASSUME NEW x \in Nat, NEW y \in Nat, NEW w \in Nat \ {0}, NEW i \in Nat
  PROVE  At(x, y, w, i) \in Pixels
<1>1. i % w \in Int /\ i \div w \in Int /\ Width \in Nat \ {0} /\ Height \in Nat \ {0}
  BY DivisionOf, GpuConstants
<1>2. x + (i % w) \in Int /\ y + (i \div w) \in Int
  BY <1>1
<1>3. ASSUME NEW n \in Int, NEW R \in Nat \ {0} PROVE n % R \in 0..(R - 1)
  <2>1. n % R \in Int /\ 0 <= n % R /\ n % R < R
    BY <1>3, DivisionOf
  <2> QED BY <2>1
<1>4. (x + (i % w)) % Width \in 0..(Width - 1)
  BY <1>1, <1>2, <1>3
<1>5. (y + (i \div w)) % Height \in 0..(Height - 1)
  BY <1>1, <1>2, <1>3
<1> QED BY <1>4, <1>5 DEF At, Pixels

\* The word a transfer leaves at a place of the memory.
Put(g, pixel) == IF g.maskSet THEN WithMask(pixel) ELSE pixel
Kept(g, p) == g.maskCheck /\ Masked(g.vram[p])

LEMMA TransferIs ==
  ASSUME NEW g \in GpuType, NEW p \in Pixels, NEW pixel \in Pixel16
  PROVE  LET n == WriteTransferPixel(g, p, pixel) IN
         /\ n \in GpuType /\ n.packet = g.packet /\ n.vramRead = g.vramRead
         /\ n.maskSet = g.maskSet /\ n.maskCheck = g.maskCheck
         /\ n.vram[p] = (IF Kept(g, p) THEN g.vram[p] ELSE Put(g, pixel))
         /\ \A q \in Pixels : q # p => n.vram[q] = g.vram[q]
<1>1. CASE Kept(g, p)
  <2>1. WriteTransferPixel(g, p, pixel) = g
    BY <1>1 DEF WriteTransferPixel, Kept
  <2> QED BY <1>1, <2>1
<1>2. CASE ~Kept(g, p)
  <2>1. Put(g, pixel) \in Pixel16
    BY MaskType DEF Put
  <2>2. PICK m : m = [g.vram EXCEPT ![p] = Put(g, pixel)]
    OBVIOUS
  <2>3. /\ m \in [Pixels -> Pixel16] /\ m[p] = Put(g, pixel)
        /\ \A q \in Pixels : q # p => m[q] = g.vram[q]
    BY <2>1, <2>2 DEF GpuType
  <2>4. WriteTransferPixel(g, p, pixel) = [g EXCEPT !.vram = m]
    BY <1>2, <2>2 DEF WriteTransferPixel, Kept, Put
  <2> QED BY <1>2, <2>3, <2>4, VramChanges
<1> QED BY <1>1, <1>2

LEMMA PaintType ==
  ASSUME NEW g \in GpuType, NEW shape, NEW colour \in Pixel16
  PROVE  LET n == Paint(g, shape, colour) IN
         n \in GpuType /\ n.packet = g.packet
<1> DEFINE m == [p \in Pixels |->
        IF \/ p \notin shape \/ ~InDrawArea(p)
           \/ g.maskCheck /\ Masked(g.vram[p])
        THEN g.vram[p]
        ELSE IF g.maskSet THEN WithMask(colour) ELSE colour]
<1>1. g.vram \in [Pixels -> Pixel16]
  BY GpuFields
<1>2. m \in [Pixels -> Pixel16]
  BY <1>1, MaskType
<1>3. Paint(g, shape, colour) = [g EXCEPT !.vram = m]
  BY DEF Paint
<1> HIDE DEF m
<1> QED BY <1>2, <1>3, VramChanges

LEMMA FillType ==
  ASSUME NEW g \in GpuType, NEW colour \in Pixel16, NEW xy, NEW wh
  PROVE  LET n == FillRect(g, colour, xy, wh) IN
         n \in GpuType /\ n.packet = g.packet
<1> DEFINE inside(p) == /\ (p[1] - Down(X(xy))) % Width < Down(X(wh) + FillAlign - 1)
                        /\ (p[2] - Y(xy)) % Height < Y(wh)
           m == [p \in Pixels |->
                   IF inside(p) THEN colour % MaskBit ELSE g.vram[p]]
<1>1. g.vram \in [Pixels -> Pixel16]
  BY GpuFields
<1>2. colour % MaskBit \in Pixel16
  BY GpuConstants DEF Pixel16
<1>3. m \in [Pixels -> Pixel16]
  <2> HIDE DEF inside
  <2> QED BY <1>1, <1>2
<1>4. FillRect(g, colour, xy, wh) = [g EXCEPT !.vram = m]
  BY DEF FillRect
<1> HIDE DEF m
<1> QED BY <1>3, <1>4, VramChanges

LEMMA CopyType ==
  ASSUME NEW g \in GpuType, NEW from \in Halves, NEW to \in Halves,
         NEW wh \in Halves
  PROVE  LET n == CopyVramToVram(g, from, to, wh) IN
         n \in GpuType /\ n.packet = g.packet
<1> DEFINE w == CopyWidth(wh)
           h == CopyHeight(wh)
           place(p) == {i \in 0..(w * h - 1) : At(X(to), Y(to), w, i) = p}
           pixel(p) == g.vram[At(X(from), Y(from), w, CHOOSE i \in place(p) : TRUE)]
           m == [p \in Pixels |->
                   IF place(p) = {} THEN g.vram[p]
                   ELSE WriteTransferPixel(g, p, pixel(p)).vram[p]]
<1>1. g.vram \in [Pixels -> Pixel16]
  BY GpuFields
<1>2. ASSUME NEW p \in Pixels, place(p) # {}
      PROVE  WriteTransferPixel(g, p, pixel(p)).vram[p] \in Pixel16
  <2>1. PICK i : i = CHOOSE j \in place(p) : TRUE
    OBVIOUS
  <2>2. i \in place(p)
    <3> HIDE DEF place
    <3> QED BY <1>2, <2>1
  <2>3. w \in Nat \ {0} /\ h \in Nat /\ X(from) \in Nat /\ Y(from) \in Nat
    BY HalfParts
  <2>4. i \in Nat
    <3> HIDE DEF w, h
    <3> QED BY <2>2, <2>3
  <2>5. At(X(from), Y(from), w, i) \in Pixels
    <3> HIDE DEF w, h
    <3> QED BY <2>3, <2>4, AtType
  <2>6. pixel(p) \in Pixel16
    <3> HIDE DEF w, place
    <3> QED BY <1>1, <2>1, <2>5
  <2>7. WriteTransferPixel(g, p, pixel(p)).vram[p] \in Pixel16
    <3> HIDE DEF pixel
    <3>1. WriteTransferPixel(g, p, pixel(p)) \in GpuType
      BY <2>6, TransferIs
    <3> QED BY <3>1, GpuFields
  <2> QED BY <2>7
<1>3. m \in [Pixels -> Pixel16]
  <2> HIDE DEF place, pixel
  <2> QED BY <1>1, <1>2
<1>4. CopyVramToVram(g, from, to, wh) = [g EXCEPT !.vram = m]
  BY DEF CopyVramToVram
<1> HIDE DEF m
<1> QED BY <1>3, <1>4, VramChanges

\* The words of a download, and where its pixels are.
Download(g, xy, wh) ==
  LET w == CopyWidth(wh)
      n == w * CopyHeight(wh)
      pixel(i) == IF i < n THEN g.vram[At(X(xy), Y(xy), w, i)] ELSE 0
  IN  [k \in 1..((n + 1) \div 2) |-> <<pixel(2 * k - 2), pixel(2 * k - 1)>>]

LEMMA DownloadType ==
  ASSUME NEW g \in GpuType, NEW xy \in Halves, NEW wh \in Halves
  PROVE  LET n == PrepareVramRead(g, xy, wh) IN
         /\ n \in GpuType /\ n.packet = g.packet /\ n.vram = g.vram
         /\ n.vramRead = Download(g, xy, wh)
         /\ n.maskSet = g.maskSet /\ n.maskCheck = g.maskCheck
<1> DEFINE w == CopyWidth(wh)
           h == CopyHeight(wh)
           N == w * h
           pixel(i) == IF i < N THEN g.vram[At(X(xy), Y(xy), w, i)] ELSE 0
           r == [k \in 1..((N + 1) \div 2) |-> <<pixel(2 * k - 2), pixel(2 * k - 1)>>]
<1>1. g.vram \in [Pixels -> Pixel16] /\ 0 \in Pixel16
  BY GpuFields, GpuConstants
<1>2. w \in Nat \ {0} /\ h \in Nat /\ X(xy) \in Nat /\ Y(xy) \in Nat
  BY HalfParts
<1>3. ASSUME NEW i \in Nat PROVE pixel(i) \in Pixel16
  <2>1. At(X(xy), Y(xy), w, i) \in Pixels
    <3> HIDE DEF w
    <3> QED BY <1>2, AtType
  <2> HIDE DEF w, h, N
  <2> QED BY <1>1, <2>1
<1>4. (N + 1) \div 2 \in Nat
  <2>1. N \in Nat
    <3> HIDE DEF w, h
    <3> QED BY <1>2
  <2> HIDE DEF N
  <2> QED BY <2>1
<1>5. r \in Seq(Halves)
  <2> HIDE DEF N, pixel
  <2>1. ASSUME NEW k \in 1..((N + 1) \div 2)
        PROVE  <<pixel(2 * k - 2), pixel(2 * k - 1)>> \in Halves
    <3>1. 2 * k - 2 \in Nat /\ 2 * k - 1 \in Nat
      BY <1>4
    <3> QED BY <1>3, <3>1 DEF Halves
  <2>2. r \in [1..((N + 1) \div 2) -> Halves]
    BY <2>1
  <2> HIDE DEF r
  <2> QED BY <1>4, <2>2
<1>6. r = Download(g, xy, wh)
  BY DEF Download
<1>7. PrepareVramRead(g, xy, wh) = [g EXCEPT !.vramRead = r]
  BY DEF PrepareVramRead, ReadTransferPixel
<1> HIDE DEF r
<1> QED BY <1>5, <1>6, <1>7, ReadChanges

LEMMA UploadStarts ==
  ASSUME NEW g \in GpuType, NEW xy \in Halves, NEW wh \in Halves
  PROVE  LET n == BeginCpuToVram(g, xy, wh) IN
         /\ n \in GpuType /\ n.vram = g.vram
         /\ n.maskSet = g.maskSet /\ n.maskCheck = g.maskCheck
         /\ n.packet.kind = "upload"
         /\ n.packet.x = X(xy) /\ n.packet.y = Y(xy)
         /\ n.packet.w = CopyWidth(wh) /\ n.packet.h = CopyHeight(wh)
         /\ n.packet.left = (CopyWidth(wh) * CopyHeight(wh) + 1) \div 2
         /\ n.packet.index = 0
<1>1. /\ X(xy) \in Nat /\ Y(xy) \in Nat
      /\ CopyWidth(wh) \in Nat \ {0} /\ CopyHeight(wh) \in Nat \ {0}
  BY HalfParts
<1>2. (CopyWidth(wh) * CopyHeight(wh) + 1) \div 2 \in Int
  <2>1. CopyWidth(wh) * CopyHeight(wh) \in Nat
    BY <1>1
  <2> QED BY <2>1
<1>3. PICK k : k = [kind |-> "upload", x |-> X(xy), y |-> Y(xy),
                    w |-> CopyWidth(wh), h |-> CopyHeight(wh),
                    left |-> (CopyWidth(wh) * CopyHeight(wh) + 1) \div 2,
                    index |-> 0]
  OBVIOUS
<1>4. k \in Packets
  BY <1>1, <1>2, <1>3 DEF Packets
<1>5. BeginCpuToVram(g, xy, wh) = [g EXCEPT !.packet = k]
  BY <1>3 DEF BeginCpuToVram
<1> QED BY <1>3, <1>4, <1>5, PacketChanges

-----------------------------------------------------------------------------
(* The steps, as far as packets and uploads go: g and u become n and t.     *)

\* A packet is collected only for a command that has one.
Ready(k) == k.kind = "collect" => k.cmd.group \notin {"nop", "mask"}

\* The memory stays, and an upload goes on being remembered.
Quiet(g, u, n, t) ==
  /\ t = u /\ n.vram = g.vram
  /\ n.packet.kind = "collect" =>
       \/ n.packet.cmd.group = "download"
       \/ g.packet.kind = "collect" /\ n.packet.cmd = g.packet.cmd
  /\ n.packet.kind = "polyline" => g.packet.kind = "polyline"
  /\ n.packet.kind = "upload" =>
       /\ n.packet = g.packet
       /\ n.maskSet = g.maskSet /\ n.maskCheck = g.maskCheck

\* Another command has come.
Cleared(n, t) == t = NoUpload /\ n.packet.kind # "upload"

\* A command that forgot the upload when it came draws.
Drawn(g, u, n, t) ==
  /\ t = u /\ n.packet = Idle
  /\ \/ g.packet.kind = "polyline"
     \/ g.packet.kind = "collect" /\ g.packet.cmd.group # "download"

Started(g, n, t) ==
  \E xy, wh \in Halves :
    /\ n.vram = g.vram
    /\ n.maskSet = g.maskSet /\ n.maskCheck = g.maskCheck
    /\ t = [xy |-> xy, wh |-> wh, words |-> <<>>, before |-> g.vram,
            set |-> g.maskSet, check |-> g.maskCheck]
    /\ n.packet.kind = "upload"
    /\ n.packet.x = X(xy) /\ n.packet.y = Y(xy)
    /\ n.packet.w = CopyWidth(wh) /\ n.packet.h = CopyHeight(wh)
    /\ n.packet.left = (CopyWidth(wh) * CopyHeight(wh) + 1) \div 2
    /\ n.packet.index = 0

Carried(g, u, n, t) ==
  /\ g.packet.kind = "upload"
  /\ \E half \in Halves :
       /\ n.vram = WriteUploadWord(g, g.packet, half).vram
       /\ n.maskSet = g.maskSet /\ n.maskCheck = g.maskCheck
       /\ t = [u EXCEPT !.words = Append(@, half)]
       /\ n.packet = IF g.packet.left = 1 THEN Idle
                     ELSE [g.packet EXCEPT !.left = @ - 1, !.index = @ + 2]

Goes(g, u, n, t) ==
  /\ n \in GpuType /\ Ready(n.packet)
  /\ \/ Quiet(g, u, n, t) \/ Cleared(n, t) \/ Drawn(g, u, n, t)
     \/ Started(g, n, t) \/ Carried(g, u, n, t)

LEMMA IdleIsReady == Ready(Idle) /\ Idle.kind = "idle" /\ Idle \in Packets
  BY Kinds DEF Ready, Idle, Packets

LEMMA StartGoes ==
  ASSUME gpu \in GpuType, NEW w \in WordType, StartGp0(w)
  PROVE  Goes(gpu, upload, gpu', upload') /\ exact' = exact
<1> DEFINE c == w.cmd
<1>1. gpu.packet = Idle /\ c \in Commands /\ w.lo \in Pixel16
  BY DEF StartGp0, WordType, Pixel16
<1>2. CASE c.group = "nop"
  <2>1. Unchanged(gpu)
    BY <1>2 DEF StartGp0
  <2>2. gpu' = gpu /\ upload' = upload /\ exact' = exact
    BY <2>1 DEF Unchanged
  <2>3. Quiet(gpu, upload, gpu', upload')
    BY <1>1, <2>2, IdleIsReady DEF Quiet
  <2> QED BY <1>1, <2>2, <2>3, IdleIsReady DEF Goes
<1>3. CASE c.group = "mask"
  <2>1. /\ gpu' = [gpu EXCEPT !.maskSet = 0 \in w.bits, !.maskCheck = 1 \in w.bits]
        /\ upload' = NoUpload /\ exact' = exact
    BY <1>3 DEF StartGp0
  <2>2. (0 \in w.bits) \in BOOLEAN /\ (1 \in w.bits) \in BOOLEAN
    OBVIOUS
  <2>3. ASSUME NEW s \in BOOLEAN, NEW k \in BOOLEAN
        PROVE  LET n == [gpu EXCEPT !.maskSet = s, !.maskCheck = k] IN
               n \in GpuType /\ n.packet = gpu.packet
    BY DEF GpuType
  <2>4. gpu' \in GpuType /\ (gpu').packet = gpu.packet
    BY <2>1, <2>2, <2>3, Zenon
  <2> QED BY <1>1, <2>1, <2>4, IdleIsReady DEF Goes, Cleared
<1>4. CASE c.group = "line" /\ Has(c, "polyline")
  <2>1. Begin([kind |-> "polyline", cmd |-> c, length |-> 0], NoUpload)
    BY <1>4 DEF StartGp0
  <2>2. PICK k : k = [kind |-> "polyline", cmd |-> c, length |-> 0]
    OBVIOUS
  <2>3. gpu' = [gpu EXCEPT !.packet = k] /\ upload' = NoUpload /\ exact' = exact
    BY <2>1, <2>2 DEF Begin
  <2>4. k \in Packets /\ k.kind = "polyline"
    BY <1>1, <2>2 DEF Packets
  <2> QED BY <2>3, <2>4, PacketChanges DEF Goes, Cleared, Ready
<1>5. CASE c.group \notin {"nop", "mask"} /\ ~(c.group = "line" /\ Has(c, "polyline"))
  <2>1. Begin([kind |-> "collect", cmd |-> c, colour |-> w.lo, data |-> <<>>],
              IF c.group = "download" THEN upload ELSE NoUpload)
    BY <1>5 DEF StartGp0
  <2>2. PICK k : k = [kind |-> "collect", cmd |-> c, colour |-> w.lo, data |-> <<>>]
    OBVIOUS
  <2>3. /\ gpu' = [gpu EXCEPT !.packet = k] /\ exact' = exact
        /\ upload' = IF c.group = "download" THEN upload ELSE NoUpload
    BY <2>1, <2>2 DEF Begin
  <2>4. k.kind = "collect" /\ k.cmd = c
    BY <2>2
  <2>5. k \in Packets
    <3>1. <<>> \in Seq(Halves)
      OBVIOUS
    <3> QED BY <1>1, <2>2, <3>1 DEF Packets
  <2>6. /\ gpu' \in GpuType /\ (gpu').packet = k /\ (gpu').vram = gpu.vram
        /\ (gpu').maskSet = gpu.maskSet /\ (gpu').maskCheck = gpu.maskCheck
    BY <2>3, <2>5, PacketChanges
  <2>7. Ready(k)
    BY <1>5, <2>4 DEF Ready
  <2>8. CASE c.group = "download"
    <3>1. Quiet(gpu, upload, gpu', upload')
      BY <2>3, <2>4, <2>6, <2>8 DEF Quiet
    <3> QED BY <2>3, <2>6, <2>7, <3>1 DEF Goes
  <2>9. CASE c.group # "download"
    BY <2>3, <2>4, <2>6, <2>7, <2>9 DEF Goes, Cleared
  <2> QED BY <2>8, <2>9
<1> QED BY <1>2, <1>3, <1>4, <1>5

LEMMA ColourType ==
  ASSUME NEW c, NEW paint \in PaintColors(c)
  PROVE  paint \in Pixel16
  BY GpuConstants, MaskType DEF PaintColors

\* What a packet of this command does when it is complete, from a machine
\* that has left it.
LEMMA ExecuteGoes ==
  ASSUME gpu \in GpuType, NEW k, gpu.packet = k, k.kind = "collect", Ready(k),
         k.cmd \in Commands, k.colour \in Pixel16,
         NEW data \in Seq(Halves), 1 + Len(data) = WordCount(k.cmd),
         Execute([gpu EXCEPT !.packet = Idle], k.cmd, k.colour, data)
  PROVE  Goes(gpu, upload, gpu', upload') /\ (exact => exact')
<1> DEFINE c == k.cmd
<1>1. PICK g : g = [gpu EXCEPT !.packet = Idle]
  OBVIOUS
<1>2. /\ g \in GpuType /\ g.packet = Idle /\ g.vram = gpu.vram
      /\ g.maskSet = gpu.maskSet /\ g.maskCheck = gpu.maskCheck
  BY <1>1, IdleIsReady, PacketChanges
<1>3. c.group \notin {"nop", "mask"}
  BY DEF Ready
<1>4. WordCount(c) = Reads(c)
  BY <1>3, EveryWordIsRead
<1>5. exact => exact'
  BY <1>4 DEF Execute
<1>6. c.group \notin {"polygon", "line", "rect"} =>
        1 \in 1..Len(data) /\ 2 \in 1..Len(data)
  <2>1. c.group \notin {"polygon", "line", "rect"} => WordCount(c) \in {3, 4}
    BY <1>3 DEF WordCount, Commands
  <2>2. Len(data) \in Nat
    OBVIOUS
  <2> QED BY <2>1, <2>2
<1>7. CASE c.group \in DrawGroups
  <2>0. \E v \in Corners,
              size \in IF c.group = "rect" THEN Sizes ELSE {MaxDelta},
              opaque \in IF Has(c, "textured") THEN Opaque ELSE {Pixels},
              paint \in PaintColors(c) :
              gpu' = Paint(g, opaque \cap Shape(c, v, size), paint)
    BY <1>1, <1>7 DEF Execute, DrawGroups
  <2>1. PICK v \in Corners,
             size \in IF c.group = "rect" THEN Sizes ELSE {MaxDelta},
             opaque \in IF Has(c, "textured") THEN Opaque ELSE {Pixels},
             paint \in PaintColors(c) :
             gpu' = Paint(g, opaque \cap Shape(c, v, size), paint)
    BY <2>0
  <2>2. gpu' \in GpuType /\ (gpu').packet = Idle
    BY <1>2, <2>1, ColourType, PaintType
  <2>3. upload' = upload
    BY <1>7 DEF Execute, DrawGroups
  <2>4. Drawn(gpu, upload, gpu', upload')
    BY <1>7, <2>2, <2>3 DEF Drawn, DrawGroups
  <2> QED BY <1>5, <2>2, <2>4, IdleIsReady DEF Goes
<1>8. CASE c.group = "fill"
  <2>1. gpu' = FillRect(g, k.colour, data[1], data[2]) /\ upload' = upload
    BY <1>1, <1>8 DEF Execute, DrawGroups
  <2>2. gpu' \in GpuType /\ (gpu').packet = Idle
    BY <1>2, <2>1, FillType
  <2>3. Drawn(gpu, upload, gpu', upload')
    BY <1>8, <2>1, <2>2 DEF Drawn
  <2> QED BY <1>5, <2>2, <2>3, IdleIsReady DEF Goes
<1>9. CASE c.group = "copy"
  <2>1. gpu' = CopyVramToVram(g, data[1], data[2], data[3]) /\ upload' = upload
    BY <1>1, <1>9 DEF Execute, DrawGroups
  <2>2. data[1] \in Halves /\ data[2] \in Halves /\ data[3] \in Halves
    <3>1. WordCount(c) = 4
      BY <1>9 DEF WordCount
    <3>2. Len(data) \in Nat
      OBVIOUS
    <3>3. 1 + Len(data) = WordCount(c)
      OBVIOUS
    <3>4. 1 \in 1..Len(data) /\ 2 \in 1..Len(data) /\ 3 \in 1..Len(data)
      <4> HIDE DEF c
      <4> QED BY <3>1, <3>2, <3>3
    <3>5. \A i \in 1..Len(data) : data[i] \in Halves
      OBVIOUS
    <3> QED BY <3>4, <3>5
  <2>3. gpu' \in GpuType /\ (gpu').packet = Idle
    BY <1>2, <2>1, <2>2, CopyType
  <2>4. Drawn(gpu, upload, gpu', upload')
    BY <1>9, <2>1, <2>3 DEF Drawn
  <2> QED BY <1>5, <2>3, <2>4, IdleIsReady DEF Goes
<1>10. CASE c.group = "upload"
  <2>1. /\ gpu' = BeginCpuToVram(g, data[1], data[2])
        /\ upload' = [xy |-> data[1], wh |-> data[2], words |-> <<>>,
                      before |-> g.vram, set |-> g.maskSet,
                      check |-> g.maskCheck]
    BY <1>1, <1>10 DEF Execute, DrawGroups
  <2>2. data[1] \in Halves /\ data[2] \in Halves
    BY <1>6, <1>10
  <2>3. PICK xy, wh \in Halves : xy = data[1] /\ wh = data[2]
    BY <2>2
  <2>4. gpu' = BeginCpuToVram(g, xy, wh)
    BY <2>1, <2>3
  <2>5. gpu' \in GpuType /\ (gpu').packet.kind = "upload"
    BY <1>2, <2>4, UploadStarts
  <2>6. Started(gpu, gpu', upload')
    <3>1. upload' = [xy |-> xy, wh |-> wh, words |-> <<>>,
                     before |-> gpu.vram, set |-> gpu.maskSet,
                     check |-> gpu.maskCheck]
      BY <1>2, <2>1, <2>3
    <3>2. PICK n : n = gpu'
      OBVIOUS
    <3>3. /\ n.vram = gpu.vram
          /\ n.maskSet = gpu.maskSet /\ n.maskCheck = gpu.maskCheck
          /\ n.packet.kind = "upload"
          /\ n.packet.x = X(xy) /\ n.packet.y = Y(xy)
          /\ n.packet.w = CopyWidth(wh) /\ n.packet.h = CopyHeight(wh)
          /\ n.packet.left = (CopyWidth(wh) * CopyHeight(wh) + 1) \div 2
          /\ n.packet.index = 0
      BY <1>2, <2>4, <3>2, UploadStarts
    <3>4. Started(gpu, n, upload')
      BY <3>1, <3>3, Zenon DEF Started
    <3> QED BY <3>2, <3>4
  <2> QED BY <1>5, <2>5, <2>6 DEF Goes, Ready
<1>11. CASE c.group = "download"
  <2>1. gpu' = PrepareVramRead(g, data[1], data[2]) /\ upload' = NoUpload
    BY <1>1, <1>11 DEF Execute, DrawGroups
  <2>2. data[1] \in Halves /\ data[2] \in Halves
    BY <1>6, <1>11
  <2>3. gpu' \in GpuType /\ (gpu').packet = Idle
    BY <1>2, <2>1, <2>2, DownloadType
  <2> QED BY <1>5, <2>1, <2>3, IdleIsReady DEF Goes, Cleared
<1> QED BY <1>3, <1>7, <1>8, <1>9, <1>10, <1>11 DEF Commands, DrawGroups

LEMMA CollectGoes ==
  ASSUME gpu \in GpuType, Ready(gpu.packet), NEW w \in WordType, CollectGp0(w)
  PROVE  Goes(gpu, upload, gpu', upload') /\ (exact => exact')
<1>1. PICK k : k = gpu.packet
  OBVIOUS
<1>2. PICK data : data = Append(k.data, Keep(k.cmd, w))
  OBVIOUS
<1>3. /\ k.kind = "collect"
      /\ IF 1 + Len(data) = WordCount(k.cmd)
         THEN Execute([gpu EXCEPT !.packet = Idle], k.cmd, k.colour, data)
         ELSE Unchanged([gpu EXCEPT !.packet.data = data])
  BY <1>1, <1>2 DEF CollectGp0
<1>4. k \in Packets
  BY <1>1, GpuFields
<1>5. k \in [kind : {"collect"}, cmd : Commands, colour : Pixel16,
             data : Seq(Halves)]
  BY <1>3, <1>4, Kinds
<1>6. data \in Seq(Halves)
  <2>1. Keep(k.cmd, w) \in Halves
    BY HalfType, GpuConstants DEF Keep, Halves
  <2>2. k.data \in Seq(Halves)
    BY <1>5
  <2> QED BY <1>2, <2>1, <2>2
<1>7. CASE 1 + Len(data) = WordCount(k.cmd)
  <2>1. Execute([gpu EXCEPT !.packet = Idle], k.cmd, k.colour, data)
    BY <1>3, <1>7
  <2>2. k.cmd \in Commands /\ k.colour \in Pixel16
    BY <1>5
  <2>3. Ready(k) /\ gpu.packet = k /\ k.kind = "collect"
    BY <1>1, <1>3
  <2> QED BY <1>6, <1>7, <2>1, <2>2, <2>3, ExecuteGoes
<1>8. CASE 1 + Len(data) # WordCount(k.cmd)
  <2>1. gpu' = [gpu EXCEPT !.packet.data = data] /\ upload' = upload /\ exact' = exact
    BY <1>3, <1>8 DEF Unchanged
  <2>2. PICK l : l = [k EXCEPT !.data = data]
    OBVIOUS
  <2>3. l.kind = "collect" /\ l.cmd = k.cmd
    BY <1>5, <2>2
  <2>4. l \in Packets
    BY <1>5, <1>6, <2>2 DEF Packets
  <2>5. gpu' = [gpu EXCEPT !.packet = l]
    BY <1>1, <2>1, <2>2 DEF GpuType
  <2>6. gpu' \in GpuType /\ (gpu').packet = l /\ (gpu').vram = gpu.vram
    BY <2>4, <2>5, PacketChanges
  <2>7. Ready(l)
    BY <1>1, <1>3, <2>3 DEF Ready
  <2>8. Quiet(gpu, upload, gpu', upload')
    BY <1>1, <1>3, <2>1, <2>3, <2>6 DEF Quiet
  <2> QED BY <2>1, <2>6, <2>7, <2>8 DEF Goes
<1> QED BY <1>7, <1>8

LEMMA CarryType ==
  ASSUME NEW g \in GpuType, NEW r, r = g.packet, r.kind = "upload",
         NEW half \in Halves
  PROVE  LET n == WriteUploadWord(g, r, half) IN
         /\ n \in GpuType /\ n.packet = r
         /\ n.maskSet = g.maskSet /\ n.maskCheck = g.maskCheck
<1>1. /\ r.x \in Nat /\ r.y \in Nat /\ r.w \in Nat \ {0} /\ r.h \in Nat \ {0}
      /\ r.index \in Nat
  <2>1. r \in Packets
    BY GpuFields
  <2> QED BY <2>1, Kinds
<1>2. /\ At(r.x, r.y, r.w, r.index) \in Pixels
      /\ At(r.x, r.y, r.w, r.index + 1) \in Pixels
  BY <1>1, AtType
<1>3. half[1] \in Pixel16 /\ half[2] \in Pixel16
  BY HalfParts
<1>4. PICK m : m = WriteTransferPixel(g, At(r.x, r.y, r.w, r.index), half[1])
  OBVIOUS
<1>5. /\ m \in GpuType /\ m.packet = r
      /\ m.maskSet = g.maskSet /\ m.maskCheck = g.maskCheck
  BY <1>2, <1>3, <1>4, TransferIs
<1>6. PICK n : n = WriteTransferPixel(m, At(r.x, r.y, r.w, r.index + 1), half[2])
  OBVIOUS
<1>7. /\ n \in GpuType /\ n.packet = r
      /\ n.maskSet = g.maskSet /\ n.maskCheck = g.maskCheck
  BY <1>2, <1>3, <1>5, <1>6, TransferIs
<1>8. WriteUploadWord(g, r, half) \in {m, n}
  BY <1>4, <1>6 DEF WriteUploadWord
<1> QED BY <1>5, <1>7, <1>8

LEMMA UploadGoes ==
  ASSUME gpu \in GpuType, NEW w \in WordType, UploadGp0(w)
  PROVE  Goes(gpu, upload, gpu', upload') /\ exact' = exact
<1>1. PICK r : r = gpu.packet
  OBVIOUS
<1>2. PICK half \in Halves : half = Half(w)
  BY HalfType
<1>3. PICK m : m = WriteUploadWord(gpu, r, half)
  OBVIOUS
<1>4. PICK k : k = IF r.left = 1 THEN Idle
                   ELSE [r EXCEPT !.left = @ - 1, !.index = @ + 2]
  OBVIOUS
<1>5. /\ r.kind = "upload"
      /\ gpu' = [m EXCEPT !.packet = k]
      /\ upload' = [upload EXCEPT !.words = Append(@, half)]
      /\ exact' = exact
  BY <1>1, <1>2, <1>3, <1>4 DEF UploadGp0
<1>6. /\ m \in GpuType /\ m.maskSet = gpu.maskSet /\ m.maskCheck = gpu.maskCheck
  BY <1>1, <1>3, <1>5, CarryType
<1>7. k \in Packets /\ k.kind # "collect"
  <2>1. r \in Packets
    BY <1>1, GpuFields
  <2>2. r \in [kind : {"upload"}, x : Nat, y : Nat, w : Nat \ {0},
               h : Nat \ {0}, left : Int, index : Nat]
    BY <1>5, <2>1, Kinds
  <2>3. CASE r.left = 1
    BY <1>4, <2>3, IdleIsReady
  <2>4. CASE r.left # 1
    <3>1. k = [r EXCEPT !.left = r.left - 1, !.index = r.index + 2]
      BY <1>4, <2>4
    <3>2. r.left - 1 \in Int /\ r.index + 2 \in Nat
      BY <2>2
    <3>3. k \in [kind : {"upload"}, x : Nat, y : Nat, w : Nat \ {0},
                 h : Nat \ {0}, left : Int, index : Nat]
      BY <2>2, <3>1, <3>2
    <3> QED BY <3>3 DEF Packets
  <2> QED BY <2>3, <2>4
<1>8. /\ gpu' \in GpuType /\ (gpu').packet = k /\ (gpu').vram = m.vram
      /\ (gpu').maskSet = gpu.maskSet /\ (gpu').maskCheck = gpu.maskCheck
  BY <1>5, <1>6, <1>7, PacketChanges
<1>9. Carried(gpu, upload, gpu', upload')
  BY <1>1, <1>3, <1>4, <1>5, <1>8 DEF Carried
<1> QED BY <1>5, <1>7, <1>8, <1>9 DEF Goes, Ready

LEMMA PolylineGoes ==
  ASSUME gpu \in GpuType, NEW w \in WordType, PolylineGp0(w)
  PROVE  Goes(gpu, upload, gpu', upload') /\ exact' = exact
<1>1. PICK k : k = gpu.packet
  OBVIOUS
<1>2. k.kind = "polyline"
  BY <1>1 DEF PolylineGp0
<1>3. k \in [kind : {"polyline"}, cmd : Commands, length : Nat]
  <2>1. k \in Packets
    BY <1>1, GpuFields
  <2> QED BY <1>2, <2>1, Kinds
<1>4. CASE w.term
  <2>1. PICK v \in Corners : \E n :
           gpu' = Paint([gpu EXCEPT !.packet = Idle], PolylineShape(v, n), PaintColor)
    BY <1>4 DEF PolylineGp0
  <2>2. upload' = upload /\ exact' = exact
    BY <1>4 DEF PolylineGp0
  <2>3. PICK shape :
           gpu' = Paint([gpu EXCEPT !.packet = Idle], shape, PaintColor)
    BY <2>1
  <2>4. PICK g : g = [gpu EXCEPT !.packet = Idle]
    OBVIOUS
  <2>5. g \in GpuType /\ g.packet = Idle
    BY <2>4, IdleIsReady, PacketChanges
  <2>6. gpu' \in GpuType /\ (gpu').packet = Idle
    BY <2>3, <2>4, <2>5, PaintType, GpuConstants
  <2>7. Drawn(gpu, upload, gpu', upload')
    BY <1>1, <1>2, <2>2, <2>6 DEF Drawn
  <2> QED BY <2>2, <2>6, <2>7, IdleIsReady DEF Goes
<1>5. CASE ~w.term
  <2>1. Unchanged([gpu EXCEPT !.packet.length = @ + 1])
    BY <1>5 DEF PolylineGp0
  <2>2. gpu' = [gpu EXCEPT !.packet.length = @ + 1] /\ upload' = upload /\ exact' = exact
    BY <2>1 DEF Unchanged
  <2>3. PICK l : l = [k EXCEPT !.length = k.length + 1]
    OBVIOUS
  <2>4. l \in Packets /\ l.kind = "polyline"
    BY <1>3, <2>3 DEF Packets
  <2>5. gpu' = [gpu EXCEPT !.packet = l]
    BY <1>1, <2>2, <2>3 DEF GpuType
  <2>6. gpu' \in GpuType /\ (gpu').packet = l /\ (gpu').vram = gpu.vram
    BY <2>4, <2>5, PacketChanges
  <2>7. Quiet(gpu, upload, gpu', upload')
    BY <1>1, <1>2, <2>2, <2>4, <2>6 DEF Quiet
  <2> QED BY <2>2, <2>4, <2>6, <2>7 DEF Goes, Ready
<1> QED BY <1>4, <1>5

LEMMA ControlGoes ==
  ASSUME gpu \in GpuType, Ready(gpu.packet), Reset \/ ClearCommandBuffer \/ ReadGp0
  PROVE  Goes(gpu, upload, gpu', upload') /\ exact' = exact
<1>1. CASE Reset
  <2>1. gpu' = ResetGpu(gpu) /\ upload' = upload /\ exact' = exact
    BY <1>1 DEF Reset, Unchanged
  <2>2. gpu' = [packet |-> Idle, vram |-> gpu.vram, vramRead |-> <<>>,
                maskSet |-> FALSE, maskCheck |-> FALSE]
    BY <2>1 DEF ResetGpu, NewGpu
  <2>3. (gpu').packet = Idle /\ (gpu').vram = gpu.vram
    BY <2>2
  <2>4. gpu' \in GpuType
    <3>1. <<>> \in Seq(Halves)
      OBVIOUS
    <3> QED BY <2>2, <3>1, GpuFields, IdleIsReady DEF GpuType
  <2>5. Quiet(gpu, upload, gpu', upload')
    BY <2>1, <2>3, IdleIsReady DEF Quiet
  <2> QED BY <2>1, <2>3, <2>4, <2>5, IdleIsReady DEF Goes
<1>2. CASE ClearCommandBuffer
  <2>1. gpu' = [gpu EXCEPT !.packet = Idle] /\ upload' = upload /\ exact' = exact
    BY <1>2 DEF ClearCommandBuffer, Unchanged
  <2>2. gpu' \in GpuType /\ (gpu').packet = Idle /\ (gpu').vram = gpu.vram
    BY <2>1, IdleIsReady, PacketChanges
  <2>3. Quiet(gpu, upload, gpu', upload')
    BY <2>1, <2>2, IdleIsReady DEF Quiet
  <2> QED BY <2>1, <2>2, <2>3, IdleIsReady DEF Goes
<1>3. CASE ReadGp0
  <2>1. /\ gpu' = [gpu EXCEPT !.vramRead = Tail(@)] /\ upload' = upload /\ exact' = exact
        /\ gpu.vramRead # <<>>
    BY <1>3 DEF ReadGp0, Unchanged
  <2>2. Tail(gpu.vramRead) \in Seq(Halves)
    BY <2>1, GpuFields
  <2>3. /\ gpu' \in GpuType /\ (gpu').packet = gpu.packet /\ (gpu').vram = gpu.vram
        /\ (gpu').maskSet = gpu.maskSet /\ (gpu').maskCheck = gpu.maskCheck
    BY <2>1, <2>2, ReadChanges
  <2>4. Quiet(gpu, upload, gpu', upload')
    BY <2>1, <2>3 DEF Quiet
  <2> QED BY <2>1, <2>3, <2>4 DEF Goes
<1> QED BY <1>1, <1>2, <1>3

\* Whatever happens, the packet stays ready, and all its words were read.
LEMMA NextGoes ==
  ASSUME gpu \in GpuType, Ready(gpu.packet), Next
  PROVE  Goes(gpu, upload, gpu', upload') /\ (exact => exact')
<1>1. CASE \E w \in Words : WriteGp0(w)
  <2>1. PICK w \in WordType : WriteGp0(w)
    BY <1>1, GpuConstants
  <2> QED BY <2>1, StartGoes, CollectGoes, UploadGoes, PolylineGoes DEF WriteGp0
<1>2. CASE Reset \/ ClearCommandBuffer \/ ReadGp0
  BY <1>2, ControlGoes
<1> QED BY <1>1, <1>2 DEF Next

-----------------------------------------------------------------------------
(* Uploads.                                                                 *)

\* Where a pixel is from the corner of an upload's rectangle, and its number.
Col(u, p) == (p[1] - X(u.xy)) % Width
Row(u, p) == (p[2] - Y(u.xy)) % Height
Number(u, p) == Row(u, p) * CopyWidth(u.wh) + Col(u, p)
Within(u, p) == Col(u, p) < CopyWidth(u.wh) /\ Row(u, p) < CopyHeight(u.wh)

Arriving(u, i) ==
  IF u.set THEN WithMask(PixelOf(u, i)) ELSE PixelOf(u, i)

\* The first n pixels of an upload are in the memory m, and nothing else of it.
Written(u, p, n) ==
  Within(u, p) /\ Number(u, p) < n /\ ~(u.check /\ Masked(u.before[p]))
Shows(m, u, n) ==
  \A p \in Pixels :
    m[p] = IF Written(u, p, n) THEN Arriving(u, Number(u, p)) ELSE u.before[p]

\* What is remembered of an upload is in the memory, as long as nothing draws.
Remembered(g, u) ==
  u # NoUpload =>
    /\ u \in Uploads
    /\ Len(u.words) <= WordsOf(u)
    /\ Shows(g.vram, u, 2 * Len(u.words))
    /\ g.packet.kind = "collect" => g.packet.cmd.group = "download"
    /\ g.packet.kind # "polyline"

\* The parser's record of an upload says how much of it has come.
Underway(g, u) ==
  g.packet.kind = "upload" =>
    /\ u # NoUpload
    /\ g.packet.x = X(u.xy) /\ g.packet.y = Y(u.xy)
    /\ g.packet.w = CopyWidth(u.wh) /\ g.packet.h = CopyHeight(u.wh)
    /\ g.packet.left = WordsOf(u) - Len(u.words) /\ Len(u.words) < WordsOf(u)
    /\ g.packet.index = 2 * Len(u.words)
    /\ g.maskSet = u.set /\ g.maskCheck = u.check

LEMMA OnRing ==
  ASSUME NEW R \in Nat \ {0}, NEW x \in Int, NEW i \in 0..(R - 1),
         NEW a \in 0..(R - 1)
  PROVE  (x + i) % R = a <=> (a - x) % R = i
<1>1. ASSUME (x + i) % R = a PROVE (a - x) % R = i
  BY <1>1, RingPlace
<1>2. ASSUME (a - x) % R = i PROVE (x + i) % R = a
  BY <1>2, RingIndex
<1> QED BY <1>1, <1>2

LEMMA OneDivision ==
  ASSUME NEW w \in Nat \ {0}, NEW j \in Nat, NEW i \in 0..(w - 1)
  PROVE  (j * w + i) % w = i /\ (j * w + i) \div w = j
<1>1. j * w = w * j /\ w * j \in Int /\ i \in Int /\ 0 <= i /\ i < w
  OBVIOUS
<1>2. (j * w + i) % w = i
  <2>1. j * w + i \in Int /\ j * w + i = w * j + i /\ j \in Int
    BY <1>1
  <2> QED BY <1>1, <2>1, RemainderIs
<1>3. PICK n \in Int, q \in Int : n = j * w + i /\ q = n \div w
  BY <1>1
<1>4. n = w * q + (n % w)
  BY <1>3, DivisionOf
<1>5. w * q = w * j
  <2>1. w * q \in Int
    BY <1>3
  <2> QED BY <1>1, <1>2, <1>3, <1>4, <2>1
<1>6. q = j
  BY <1>3, <1>5
<1> QED BY <1>2, <1>3, <1>6

LEMMA UploadFields ==
  ASSUME NEW u \in Uploads
  PROVE  /\ u.xy \in Halves /\ u.wh \in Halves /\ u.words \in Seq(Halves)
         /\ u.before \in [Pixels -> Pixel16] /\ u.set \in BOOLEAN
         /\ u.check \in BOOLEAN
         /\ X(u.xy) \in 0..(Width - 1) /\ Y(u.xy) \in 0..(Height - 1)
         /\ CopyWidth(u.wh) \in 1..Width /\ CopyHeight(u.wh) \in 1..Height
         /\ Area(u) \in Nat \ {0} /\ WordsOf(u) \in Nat \ {0}
<1>1. u.xy \in Halves /\ u.wh \in Halves /\ u.words \in Seq(Halves)
      /\ u.before \in [Pixels -> Pixel16] /\ u.set \in BOOLEAN
      /\ u.check \in BOOLEAN
  BY DEF Uploads
<1>2. X(u.xy) \in 0..(Width - 1) /\ Y(u.xy) \in 0..(Height - 1)
      /\ CopyWidth(u.wh) \in 1..Width /\ CopyHeight(u.wh) \in 1..Height
  BY <1>1, HalfParts
<1>3. PICK w, h \in Nat \ {0} : w = CopyWidth(u.wh) /\ h = CopyHeight(u.wh)
  BY <1>2, GpuConstants
<1>4. w * h \in Nat \ {0}
  OBVIOUS
<1>5. Area(u) \in Nat \ {0}
  BY <1>3, <1>4 DEF Area
<1>6. WordsOf(u) \in Nat \ {0}
  BY <1>5 DEF WordsOf
<1> QED BY <1>1, <1>2, <1>5, <1>6

LEMMA PlaceType ==
  ASSUME NEW u \in Uploads, NEW p \in Pixels
  PROVE  /\ p[1] \in 0..(Width - 1) /\ p[2] \in 0..(Height - 1)
         /\ Col(u, p) \in 0..(Width - 1) /\ Row(u, p) \in 0..(Height - 1)
         /\ Number(u, p) \in Nat
         /\ Within(u, p) => Number(u, p) < Area(u)
<1>1. p[1] \in 0..(Width - 1) /\ p[2] \in 0..(Height - 1)
  BY DEF Pixels
<1>2. p[1] - X(u.xy) \in Int /\ p[2] - Y(u.xy) \in Int
  BY <1>1, UploadFields, GpuConstants
<1>3. Col(u, p) \in 0..(Width - 1) /\ Row(u, p) \in 0..(Height - 1)
  <2>1. ASSUME NEW n \in Int, NEW R \in Nat \ {0} PROVE n % R \in 0..(R - 1)
    <3>1. n % R \in Int /\ 0 <= n % R /\ n % R < R
      BY <2>1, DivisionOf
    <3> QED BY <3>1
  <2> QED BY <1>2, <2>1, GpuConstants DEF Col, Row
<1>4. PICK w, h \in Nat \ {0} : w = CopyWidth(u.wh) /\ h = CopyHeight(u.wh)
  BY UploadFields, GpuConstants
<1>5. PICK c, r \in Nat : c = Col(u, p) /\ r = Row(u, p)
  BY <1>3
<1>6. r * w \in Nat
  OBVIOUS
<1>7. Number(u, p) \in Nat
  BY <1>4, <1>5, <1>6 DEF Number
<1>8. ASSUME Within(u, p) PROVE Number(u, p) < Area(u)
  <2>1. c < w /\ r + 1 <= h
    BY <1>4, <1>5, <1>8 DEF Within
  <2>2. (r + 1) * w <= h * w /\ (r + 1) * w = r * w + w /\ h * w = w * h
    BY <2>1
  <2>3. r * w + c < w * h
    <3>1. h * w \in Nat /\ w * h \in Nat
      OBVIOUS
    <3> QED BY <1>6, <2>1, <2>2, <3>1
  <2> QED BY <1>4, <1>5, <2>3 DEF Number, Area
<1> QED BY <1>1, <1>3, <1>7, <1>8

\* The pixels of a rectangle that wraps are numbered without gap or repetition.
LEMMA NumberIs ==
  ASSUME NEW u \in Uploads, NEW n \in Nat, n < Area(u), NEW p \in Pixels
  PROVE  At(X(u.xy), Y(u.xy), CopyWidth(u.wh), n) = p
           <=> Within(u, p) /\ Number(u, p) = n
<1>1. PICK w, h \in Nat \ {0} : w = CopyWidth(u.wh) /\ h = CopyHeight(u.wh)
  BY UploadFields, GpuConstants
<1>2. w <= Width /\ h <= Height /\ Area(u) = w * h
  BY <1>1, UploadFields DEF Area
<1>3. PICK x, y \in Int : x = X(u.xy) /\ y = Y(u.xy)
  BY UploadFields
<1>4. PICK i, j \in Int : i = n % w /\ j = n \div w
  BY DivisionOf
<1>5. n = w * j + i /\ 0 <= i /\ i < w
  BY <1>4, DivisionOf
<1>6. j \in 0..(h - 1)
  <2>1. w * j < w * h
    <3>1. w * j \in Int /\ w * h \in Int
      OBVIOUS
    <3> QED BY <1>2, <1>5, <3>1
  <2>2. j < h
    BY <2>1
  <2>3. j >= 0
    <3>1. ASSUME j <= -1 PROVE FALSE
      <4>1. w * j <= w * (-1) /\ w * (-1) = -w
        BY <3>1
      <4>2. w * j \in Int
        OBVIOUS
      <4> QED BY <1>5, <4>1, <4>2
    <3> QED BY <3>1
  <2> QED BY <2>2, <2>3
<1>7. /\ p[1] \in 0..(Width - 1) /\ p[2] \in 0..(Height - 1)
      /\ p = <<p[1], p[2]>>
  BY DEF Pixels
<1>8. At(X(u.xy), Y(u.xy), CopyWidth(u.wh), n) = <<(x + i) % Width, (y + j) % Height>>
  BY <1>1, <1>3, <1>4 DEF At
<1>9. At(X(u.xy), Y(u.xy), CopyWidth(u.wh), n) = p
        <=> (x + i) % Width = p[1] /\ (y + j) % Height = p[2]
  BY <1>7, <1>8
<1>10. i \in 0..(Width - 1) /\ j \in 0..(Height - 1)
  BY <1>2, <1>5, <1>6, GpuConstants
<1>11. (x + i) % Width = p[1] <=> (p[1] - x) % Width = i
  BY <1>7, <1>10, OnRing, GpuConstants
<1>12. (y + j) % Height = p[2] <=> (p[2] - y) % Height = j
  BY <1>7, <1>10, OnRing, GpuConstants
<1>13. Col(u, p) = (p[1] - x) % Width /\ Row(u, p) = (p[2] - y) % Height
  BY <1>3 DEF Col, Row
<1>14. PICK c, r \in Nat : c = Col(u, p) /\ r = Row(u, p)
  BY PlaceType
<1>15. ASSUME c = i, r = j PROVE c < w /\ r < h /\ r * w + c = n
  <2>1. j * w = w * j
    BY <1>1
  <2> QED BY <1>5, <1>6, <1>15, <2>1
<1>16. ASSUME c < w, r < h, r * w + c = n PROVE c = i /\ r = j
  <2>1. c \in 0..(w - 1)
    BY <1>16
  <2>2. (r * w + c) % w = c /\ (r * w + c) \div w = r
    BY <2>1, OneDivision
  <2> QED BY <1>4, <1>16, <2>2
<1>17. Within(u, p) /\ Number(u, p) = n <=> c < w /\ r < h /\ r * w + c = n
  BY <1>1, <1>14 DEF Within, Number
<1> QED BY <1>9, <1>11, <1>12, <1>13, <1>14, <1>15, <1>16, <1>17

LEMMA PixelArrives ==
  ASSUME NEW u \in Uploads, NEW n \in Nat, n < Area(u), NEW g \in GpuType,
         g.maskSet = u.set, g.maskCheck = u.check, Shows(g.vram, u, n),
         PixelOf(u, n) \in Pixel16, NEW q \in Pixels,
         q = At(X(u.xy), Y(u.xy), CopyWidth(u.wh), n)
  PROVE  Shows(WriteTransferPixel(g, q, PixelOf(u, n)).vram, u, n + 1)
<1>1. PICK m : m = WriteTransferPixel(g, q, PixelOf(u, n)).vram
  OBVIOUS
<1>2. PICK v : v = PixelOf(u, n)
  OBVIOUS
<1>3. /\ m[q] = (IF Kept(g, q) THEN g.vram[q] ELSE Put(g, v))
      /\ \A p \in Pixels : p # q => m[p] = g.vram[p]
  BY <1>1, <1>2, TransferIs
<1>4. ASSUME NEW p \in Pixels
      PROVE  m[p] = IF Written(u, p, n + 1) THEN Arriving(u, Number(u, p))
                    ELSE u.before[p]
  <2>1. Number(u, p) \in Nat
    BY PlaceType
  <2>2. q = p <=> Within(u, p) /\ Number(u, p) = n
    BY NumberIs
  <2>3. g.vram[p] = IF Written(u, p, n) THEN Arriving(u, Number(u, p))
                    ELSE u.before[p]
    BY DEF Shows
  <2>4. CASE p = q
    <3>1. g.vram[p] = u.before[p]
      BY <2>2, <2>3, <2>4 DEF Written
    <3>2. Written(u, p, n + 1) <=> ~Kept(g, q)
      BY <2>1, <2>2, <2>4, <3>1 DEF Written, Kept
    <3>3. Put(g, v) = Arriving(u, Number(u, p))
      BY <1>2, <2>2, <2>4 DEF Put, Arriving
    <3> QED BY <1>3, <2>4, <3>1, <3>2, <3>3
  <2>5. CASE p # q
    <3>1. Written(u, p, n + 1) <=> Written(u, p, n)
      BY <2>1, <2>2, <2>5 DEF Written
    <3> QED BY <1>3, <2>3, <2>5, <3>1
  <2> QED BY <2>4, <2>5
<1> QED BY <1>1, <1>4 DEF Shows

LEMMA PixelsBeyond ==
  ASSUME NEW u \in Uploads, NEW n \in Nat, n >= Area(u), NEW m, Shows(m, u, n)
  PROVE  Shows(m, u, n + 1)
<1>1. ASSUME NEW p \in Pixels PROVE Written(u, p, n + 1) <=> Written(u, p, n)
  <2>1. Number(u, p) \in Nat /\ (Within(u, p) => Number(u, p) < Area(u))
    BY PlaceType
  <2>2. Area(u) \in Nat
    BY UploadFields
  <2> QED BY <2>1, <2>2 DEF Written
<1> QED BY <1>1 DEF Shows

\* A word more.
LEMMA WordsGrow ==
  ASSUME NEW u \in Uploads, NEW half \in Halves, NEW t,
         t = [u EXCEPT !.words = Append(@, half)]
  PROVE  /\ t \in Uploads /\ t.xy = u.xy /\ t.wh = u.wh /\ t.before = u.before
         /\ t.set = u.set /\ t.check = u.check
         /\ Len(t.words) = Len(u.words) + 1
         /\ \A k \in 1..Len(u.words) : t.words[k] = u.words[k]
         /\ t.words[Len(u.words) + 1] = half
<1>1. PICK s : s = Append(u.words, half)
  OBVIOUS
<1>2. u.words \in Seq(Halves)
  BY UploadFields
<1>3. /\ s \in Seq(Halves) /\ Len(s) = Len(u.words) + 1
      /\ \A k \in 1..Len(u.words) : s[k] = u.words[k]
      /\ s[Len(u.words) + 1] = half
  BY <1>1, <1>2
<1>4. t = [u EXCEPT !.words = s]
  BY <1>1
<1>5. /\ t \in Uploads /\ t.xy = u.xy /\ t.wh = u.wh /\ t.before = u.before
      /\ t.set = u.set /\ t.check = u.check /\ t.words = s
  BY <1>3, <1>4 DEF Uploads
<1> QED BY <1>3, <1>5

LEMMA PixelsStay ==
  ASSUME NEW u \in Uploads, NEW half \in Halves, NEW t,
         t = [u EXCEPT !.words = Append(@, half)]
  PROVE  LET n == 2 * Len(u.words) IN
         /\ Area(t) = Area(u) /\ WordsOf(t) = WordsOf(u)
         /\ \A m : Shows(m, u, n) => Shows(m, t, n)
         /\ PixelOf(t, n) = half[1] /\ PixelOf(t, n + 1) = half[2]
<1> DEFINE L == Len(u.words)
<1>1. /\ t \in Uploads /\ t.xy = u.xy /\ t.wh = u.wh /\ t.before = u.before
      /\ t.set = u.set /\ t.check = u.check
      /\ \A k \in 1..L : t.words[k] = u.words[k]
      /\ t.words[L + 1] = half
  BY WordsGrow
<1>2. L \in Nat
  BY UploadFields
<1>3. Area(t) = Area(u) /\ WordsOf(t) = WordsOf(u)
  BY <1>1 DEF Area, WordsOf
<1>4. ASSUME NEW p \in Pixels, Written(u, p, 2 * L)
      PROVE  Arriving(t, Number(t, p)) = Arriving(u, Number(u, p))
  <2>1. PICK i \in Nat : i = Number(u, p) /\ i < 2 * L
    BY <1>4, PlaceType DEF Written
  <2>2. Number(t, p) = i
    BY <1>1, <2>1 DEF Number, Row, Col
  <2>3. (i \div 2) + 1 \in 1..L
    BY <1>2, <2>1
  <2>4. PixelOf(t, i) = PixelOf(u, i)
    BY <1>1, <2>3 DEF PixelOf
  <2> QED BY <1>1, <2>1, <2>2, <2>4 DEF Arriving
<1>5. ASSUME NEW p \in Pixels PROVE Written(t, p, 2 * L) <=> Written(u, p, 2 * L)
  BY <1>1 DEF Written, Within, Number, Row, Col
<1>6. ASSUME NEW m, Shows(m, u, 2 * L) PROVE Shows(m, t, 2 * L)
  <2>1. ASSUME NEW p \in Pixels
        PROVE  m[p] = IF Written(t, p, 2 * L) THEN Arriving(t, Number(t, p))
                      ELSE t.before[p]
    <3>1. m[p] = IF Written(u, p, 2 * L) THEN Arriving(u, Number(u, p))
                 ELSE u.before[p]
      BY <1>6 DEF Shows
    <3> HIDE DEF L
    <3> QED BY <1>1, <1>4, <1>5, <3>1
  <2> QED BY <2>1 DEF Shows
<1>7. PixelOf(t, 2 * L) = half[1] /\ PixelOf(t, 2 * L + 1) = half[2]
  <2>1. /\ (2 * L) \div 2 = L /\ (2 * L) % 2 = 0
        /\ (2 * L + 1) \div 2 = L /\ (2 * L + 1) % 2 = 1
    <3> HIDE DEF L
    <3> QED BY <1>2
  <2>2. t.words[L + 1] = half
    BY <1>1
  <2>3. PICK n \in Nat : n = 2 * L
    BY <1>2
  <2>4. PICK l \in Nat : l = L
    BY <1>2
  <2>5. n \div 2 = l /\ n % 2 = 0 /\ (n + 1) \div 2 = l /\ (n + 1) % 2 = 1
    <3>1. n = 2 * l
      BY <2>3, <2>4
    <3> QED BY <3>1
  <2>6. PixelOf(t, n) = half[1] /\ PixelOf(t, n + 1) = half[2]
    BY <2>2, <2>4, <2>5 DEF PixelOf
  <2> HIDE DEF L
  <2> QED BY <2>3, <2>6
<1> QED BY <1>3, <1>6, <1>7

LEMMA CarryKeeps ==
  ASSUME NEW g \in GpuType, NEW u, Remembered(g, u), Underway(g, u), NEW n, NEW t,
         Carried(g, u, n, t)
  PROVE  Remembered(n, t) /\ Underway(n, t)
<1>1. PICK half \in Halves :
         /\ n.vram = WriteUploadWord(g, g.packet, half).vram
         /\ n.maskSet = g.maskSet /\ n.maskCheck = g.maskCheck
         /\ t = [u EXCEPT !.words = Append(@, half)]
         /\ n.packet = IF g.packet.left = 1 THEN Idle
                       ELSE [g.packet EXCEPT !.left = @ - 1, !.index = @ + 2]
  BY DEF Carried
<1>2. PICK r : r = g.packet /\ r.kind = "upload"
  BY DEF Carried
<1>3. r \in [kind : {"upload"}, x : Nat, y : Nat, w : Nat \ {0}, h : Nat \ {0},
             left : Int, index : Nat]
  <2>1. r \in Packets
    BY <1>2, GpuFields
  <2> QED BY <1>2, <2>1, Kinds
<1>4. PICK L : L = Len(u.words)
  OBVIOUS
<1>5. /\ u # NoUpload /\ r.x = X(u.xy) /\ r.y = Y(u.xy)
      /\ r.w = CopyWidth(u.wh) /\ r.h = CopyHeight(u.wh)
      /\ r.left = WordsOf(u) - L /\ L < WordsOf(u) /\ r.index = 2 * L
      /\ g.maskSet = u.set /\ g.maskCheck = u.check
  BY <1>2, <1>4 DEF Underway
<1>6. u \in Uploads /\ Shows(g.vram, u, 2 * L)
  BY <1>4, <1>5 DEF Remembered
<1>7. L \in Nat /\ WordsOf(u) \in Nat /\ Area(u) \in Nat
  BY <1>4, <1>6, UploadFields
<1>8. /\ t \in Uploads /\ t.xy = u.xy /\ t.wh = u.wh /\ t.before = u.before
      /\ t.set = u.set /\ t.check = u.check /\ Len(t.words) = L + 1
  BY <1>1, <1>4, <1>6, WordsGrow
<1>9. /\ Area(t) = Area(u) /\ WordsOf(t) = WordsOf(u)
      /\ Shows(g.vram, t, 2 * L)
      /\ PixelOf(t, 2 * L) = half[1] /\ PixelOf(t, 2 * L + 1) = half[2]
  BY <1>1, <1>4, <1>6, PixelsStay
<1>10. half[1] \in Pixel16 /\ half[2] \in Pixel16
  BY HalfParts
<1>11. 2 * L < Area(u)
  <2>1. WordsOf(u) = (Area(u) + 1) \div 2
    BY DEF WordsOf
  <2> QED BY <1>5, <1>7, <2>1
<1>12. PICK q1 : q1 = At(r.x, r.y, r.w, r.index)
  OBVIOUS
<1>13. PICK q2 : q2 = At(r.x, r.y, r.w, r.index + 1)
  OBVIOUS
<1>14. q1 \in Pixels /\ q2 \in Pixels
  <2>1. r.x \in Nat /\ r.y \in Nat /\ r.w \in Nat \ {0} /\ r.index \in Nat
    BY <1>3
  <2> QED BY <1>12, <1>13, <2>1, AtType
<1>15. /\ q1 = At(X(t.xy), Y(t.xy), CopyWidth(t.wh), 2 * L)
       /\ q2 = At(X(t.xy), Y(t.xy), CopyWidth(t.wh), 2 * L + 1)
  BY <1>5, <1>8, <1>12, <1>13
<1>16. PICK m : m = WriteTransferPixel(g, q1, half[1])
  OBVIOUS
<1>17. m \in GpuType /\ m.maskSet = u.set /\ m.maskCheck = u.check
  BY <1>5, <1>10, <1>14, <1>16, TransferIs
<1>18. Shows(m.vram, t, 2 * L + 1)
  <2>1. 2 * L \in Nat
    BY <1>7
  <2>2. PixelOf(t, 2 * L) \in Pixel16 /\ g.maskSet = t.set /\ g.maskCheck = t.check
    BY <1>5, <1>8, <1>9, <1>10
  <2>3. 2 * L < Area(t)
    BY <1>9, <1>11
  <2>4. Shows(WriteTransferPixel(g, q1, PixelOf(t, 2 * L)).vram, t, 2 * L + 1)
    BY <1>8, <1>9, <1>14, <1>15, <2>1, <2>2, <2>3, PixelArrives
  <2> QED BY <1>9, <1>16, <2>4
<1>19. Shows(n.vram, t, 2 * L + 2)
  <2>1. 2 * L + 1 \in Nat /\ 2 * L + 1 + 1 = 2 * L + 2
    BY <1>7
  <2>2. CASE 2 * L + 1 >= Area(u)
    <3>1. r.index + 1 >= r.w * r.h
      BY <1>5, <2>2 DEF Area
    <3>2. WriteUploadWord(g, r, half) = m
      BY <1>12, <1>16, <3>1 DEF WriteUploadWord
    <3>3. Shows(m.vram, t, 2 * L + 1 + 1)
      BY <1>8, <1>9, <1>18, <2>1, <2>2, PixelsBeyond
    <3> QED BY <1>1, <1>2, <2>1, <3>2, <3>3
  <2>3. CASE ~(2 * L + 1 >= Area(u))
    <3>1. ~(r.index + 1 >= r.w * r.h)
      BY <1>5, <2>3 DEF Area
    <3>2. WriteUploadWord(g, r, half) = WriteTransferPixel(m, q2, half[2])
      BY <1>12, <1>13, <1>16, <3>1 DEF WriteUploadWord
    <3>3. PixelOf(t, 2 * L + 1) \in Pixel16 /\ m.maskSet = t.set /\ m.maskCheck = t.check
      BY <1>8, <1>9, <1>10, <1>17
    <3>4. 2 * L + 1 < Area(t)
      BY <1>7, <1>9, <2>1, <2>3
    <3>5. Shows(WriteTransferPixel(m, q2, PixelOf(t, 2 * L + 1)).vram, t, 2 * L + 1 + 1)
      BY <1>8, <1>14, <1>15, <1>17, <1>18, <2>1, <3>3, <3>4, PixelArrives
    <3> QED BY <1>1, <1>2, <1>9, <2>1, <3>2, <3>5
  <2> QED BY <2>2, <2>3
<1>20. 2 * Len(t.words) = 2 * L + 2 /\ Len(t.words) <= WordsOf(t)
  <2>1. PICK l \in Nat : l = L
    BY <1>7
  <2>2. Len(t.words) = l + 1
    BY <1>8, <2>1
  <2>3. l < WordsOf(u) /\ WordsOf(u) \in Nat
    BY <1>5, <1>7, <2>1
  <2> QED BY <1>9, <2>1, <2>2, <2>3
<1>21. CASE r.left = 1
  <2>1. n.packet = Idle
    BY <1>1, <1>2, <1>21
  <2> QED BY <1>8, <1>19, <1>20, <2>1, IdleIsReady DEF Remembered, Underway
<1>22. CASE r.left # 1
  <2>1. PICK k : k = [r EXCEPT !.left = r.left - 1, !.index = r.index + 2]
    OBVIOUS
  <2>2. n.packet = k
    BY <1>1, <1>2, <1>22, <2>1
  <2>3. /\ k.kind = "upload" /\ k.x = r.x /\ k.y = r.y /\ k.w = r.w /\ k.h = r.h
        /\ k.left = r.left - 1 /\ k.index = r.index + 2
    BY <1>3, <2>1
  <2>4. Remembered(n, t)
    BY <1>8, <1>19, <1>20, <2>2, <2>3 DEF Remembered
  <2>5. k.left = WordsOf(t) - Len(t.words) /\ Len(t.words) < WordsOf(t)
        /\ k.index = 2 * Len(t.words)
    BY <1>5, <1>7, <1>8, <1>9, <1>22, <2>3
  <2>6. t # NoUpload
    <3>1. t.xy \in Halves /\ NoUpload \notin Uploads
      BY <1>8, UploadFields DEF NoUpload, Uploads
    <3> QED BY <1>8, <3>1
  <2>7. Underway(n, t)
    BY <1>1, <1>5, <1>8, <2>2, <2>3, <2>5, <2>6 DEF Underway
  <2> QED BY <2>4, <2>7
<1> QED BY <1>21, <1>22

LEMMA GoesKeeps ==
  ASSUME NEW g \in GpuType, NEW u, Remembered(g, u), Underway(g, u), NEW n, NEW t,
         Goes(g, u, n, t)
  PROVE  Remembered(n, t) /\ Underway(n, t)
<1>1. n \in GpuType
  BY DEF Goes
<1>2. CASE Quiet(g, u, n, t)
  <2>1. t = u /\ n.vram = g.vram
    BY <1>2 DEF Quiet
  <2>2. ASSUME u # NoUpload PROVE n.packet.kind = "collect" => n.packet.cmd.group = "download"
    <3>1. g.packet.kind = "collect" => g.packet.cmd.group = "download"
      BY <2>2 DEF Remembered
    <3> QED BY <1>2, <3>1 DEF Quiet
  <2>3. ASSUME u # NoUpload PROVE n.packet.kind # "polyline"
    BY <1>2, <2>3 DEF Quiet, Remembered
  <2>4. Remembered(n, t)
    BY <2>1, <2>2, <2>3 DEF Remembered
  <2>5. CASE n.packet.kind = "upload"
    <3>1. n.packet = g.packet /\ n.maskSet = g.maskSet /\ n.maskCheck = g.maskCheck
      BY <1>2, <2>5 DEF Quiet
    <3> QED BY <2>1, <2>4, <3>1 DEF Underway
  <2> QED BY <2>4, <2>5 DEF Underway
<1>3. CASE Cleared(n, t)
  BY <1>3 DEF Cleared, Remembered, Underway
<1>4. CASE Drawn(g, u, n, t)
  BY <1>4, IdleIsReady DEF Drawn, Remembered, Underway
<1>5. CASE Started(g, n, t)
  <2>1. PICK xy, wh \in Halves :
          /\ n.vram = g.vram
          /\ n.maskSet = g.maskSet /\ n.maskCheck = g.maskCheck
          /\ t = [xy |-> xy, wh |-> wh, words |-> <<>>, before |-> g.vram,
                  set |-> g.maskSet, check |-> g.maskCheck]
          /\ n.packet.kind = "upload"
          /\ n.packet.x = X(xy) /\ n.packet.y = Y(xy)
          /\ n.packet.w = CopyWidth(wh) /\ n.packet.h = CopyHeight(wh)
          /\ n.packet.left = (CopyWidth(wh) * CopyHeight(wh) + 1) \div 2
          /\ n.packet.index = 0
    BY <1>5 DEF Started
  <2>2. t \in Uploads
    <3>1. <<>> \in Seq(Halves)
      OBVIOUS
    <3> QED BY <2>1, <3>1, GpuFields DEF Uploads
  <2>3. t.xy = xy /\ t.wh = wh /\ t.words = <<>> /\ t.before = n.vram
        /\ t.set = n.maskSet /\ t.check = n.maskCheck
    BY <2>1
  <2>4. Len(t.words) = 0 /\ 2 * Len(t.words) = 0 /\ WordsOf(t) \in Nat \ {0}
    BY <2>2, <2>3, UploadFields
  <2>5. Shows(n.vram, t, 0)
    <3>1. ASSUME NEW p \in Pixels PROVE ~Written(t, p, 0)
      BY <2>2, PlaceType DEF Written
    <3> QED BY <2>3, <3>1 DEF Shows
  <2>6. Remembered(n, t)
    BY <2>1, <2>2, <2>4, <2>5 DEF Remembered
  <2>7. t # NoUpload
    BY <2>1 DEF NoUpload
  <2>8. n.packet.left = WordsOf(t)
    BY <2>1, <2>3 DEF WordsOf, Area
  <2>9. Underway(n, t)
    BY <2>1, <2>3, <2>4, <2>7, <2>8 DEF Underway
  <2> QED BY <2>6, <2>9
<1>6. CASE Carried(g, u, n, t)
  BY <1>6, CarryKeeps
<1> QED BY <1>2, <1>3, <1>4, <1>5, <1>6 DEF Goes

-----------------------------------------------------------------------------
(* The inductive invariant.                                                 *)

GpuInv ==
  /\ gpu \in GpuType
  /\ Ready(gpu.packet)
  /\ exact
  /\ Remembered(gpu, upload)
  /\ Underway(gpu, upload)

LEMMA GpuStarts == Init => GpuInv
<1> SUFFICES ASSUME Init PROVE GpuInv
  OBVIOUS
<1>1. gpu = NewGpu /\ upload = NoUpload /\ exact
  BY DEF Init
<1>2. gpu \in GpuType /\ gpu.packet = Idle
  <2>1. <<>> \in Seq(Halves) /\ [p \in Pixels |-> 0] \in [Pixels -> Pixel16]
    BY GpuConstants
  <2> QED BY <1>1, <2>1, IdleIsReady DEF NewGpu, GpuType
<1> QED BY <1>1, <1>2, IdleIsReady DEF GpuInv, Remembered, Underway

LEMMA GpuGoesOn == GpuInv /\ [Next]_vars => GpuInv'
<1> SUFFICES ASSUME GpuInv, [Next]_vars PROVE GpuInv'
  OBVIOUS
<1>1. CASE Next
  <2>1. Goes(gpu, upload, gpu', upload') /\ exact'
    BY <1>1, NextGoes DEF GpuInv
  <2>2. Remembered(gpu', upload') /\ Underway(gpu', upload')
    BY <2>1, GoesKeeps DEF GpuInv
  <2>3. (gpu \in GpuType)' /\ Ready(gpu.packet)'
    BY <2>1 DEF Goes, Ready
  <2>4. Remembered(gpu, upload)' /\ Underway(gpu, upload)'
    BY <2>2 DEF Remembered, Underway
  <2> QED BY <2>1, <2>3, <2>4 DEF GpuInv
<1>2. CASE UNCHANGED vars
  <2>1. gpu' = gpu /\ upload' = upload /\ (exact' <=> exact)
    BY <1>2 DEF vars
  <2> QED BY <2>1 DEF GpuInv, Remembered, Underway, Ready, GpuType
<1> QED BY <1>1, <1>2

LEMMA GpuInvHolds == Spec => []GpuInv
  BY GpuStarts, GpuGoesOn, PTL DEF Spec

\* Whatever comes, a command is run when all the words its handler reads are
\* there, and no sooner: start_gp0 counts what execute_packet indexes.
THEOREM WordsFitPackets == Spec => []PacketsAreRead
<1>1. GpuInv => PacketsAreRead
  BY DEF GpuInv, PacketsAreRead
<1> QED BY <1>1, GpuInvHolds, PTL

\* At any moment of an upload of any size, from any corner, the memory holds
\* the pixels that have come, each at its place, and nothing else is changed.
THEOREM UploadsArrive == Spec => []UploadIsExact
<1>1. ASSUME GpuInv PROVE UploadIsExact
  <2> DEFINE dx(p) == (p[1] - X(upload.xy)) % Width
             dy(p) == (p[2] - Y(upload.xy)) % Height
             i(p)  == dy(p) * CopyWidth(upload.wh) + dx(p)
             sent == 2 * Len(upload.words)
             new(p) == LET v == PixelOf(upload, i(p)) IN
                       IF upload.set THEN WithMask(v) ELSE v
  <2> SUFFICES ASSUME upload # NoUpload
      PROVE /\ Len(upload.words) <= WordsOf(upload)
            /\ gpu.packet.kind = "upload" => Len(upload.words) < WordsOf(upload)
            /\ \A p \in Pixels :
                  gpu.vram[p] =
                      IF \/ dx(p) >= CopyWidth(upload.wh)
                         \/ dy(p) >= CopyHeight(upload.wh)
                         \/ i(p) >= sent
                         \/ upload.check /\ Masked(upload.before[p])
                      THEN upload.before[p] ELSE new(p)
    BY DEF UploadIsExact
  <2>1. PICK u \in Uploads : u = upload
    BY <1>1 DEF GpuInv, Remembered
  <2>2. /\ Len(u.words) <= WordsOf(u) /\ Shows(gpu.vram, u, sent)
        /\ gpu.packet.kind = "upload" => Len(u.words) < WordsOf(u)
    BY <1>1, <2>1 DEF GpuInv, Remembered, Underway
  <2>3. ASSUME NEW p \in Pixels
        PROVE  gpu.vram[p] =
                 IF \/ dx(p) >= CopyWidth(upload.wh)
                    \/ dy(p) >= CopyHeight(upload.wh)
                    \/ i(p) >= sent
                    \/ upload.check /\ Masked(upload.before[p])
                 THEN upload.before[p] ELSE new(p)
    <3>1. dx(p) = Col(u, p) /\ dy(p) = Row(u, p) /\ i(p) = Number(u, p)
          /\ new(p) = Arriving(u, Number(u, p))
      BY <2>1 DEF Col, Row, Number, Arriving
    <3>2. /\ Col(u, p) \in Int /\ Row(u, p) \in Int /\ Number(u, p) \in Int
          /\ CopyWidth(u.wh) \in Int /\ CopyHeight(u.wh) \in Int /\ sent \in Int
      <4>1. Len(u.words) \in Int
        BY UploadFields
      <4>2. sent \in Int
        BY <2>1, <4>1
      <4> QED BY <4>2, PlaceType, UploadFields
    <3>3. gpu.vram[p] = IF Written(u, p, sent) THEN Arriving(u, Number(u, p))
                        ELSE u.before[p]
      BY <2>2 DEF Shows
    <3>4. Written(u, p, sent) <=>
            ~( \/ Col(u, p) >= CopyWidth(u.wh)
               \/ Row(u, p) >= CopyHeight(u.wh)
               \/ Number(u, p) >= sent
               \/ u.check /\ Masked(u.before[p]) )
      <4> HIDE DEF sent
      <4> QED BY <3>2 DEF Written, Within
    <3> HIDE DEF dx, dy, i, new, sent
    <3> QED BY <2>1, <3>1, <3>3, <3>4
  <2> HIDE DEF dx, dy, i, new, sent
  <2> QED BY <2>1, <2>2, <2>3
<1> QED BY <1>1, GpuInvHolds, PTL

\* A download of what was uploaded gives back the words that were sent.
LEMMA DownloadIsSent ==
  ASSUME NEW u \in Uploads, NEW g \in GpuType, Len(u.words) = WordsOf(u),
         ~u.set, ~u.check, Shows(g.vram, u, 2 * Len(u.words))
  PROVE  Download(g, u.xy, u.wh) = [k \in 1..WordsOf(u) |-> Sent(u, k)]
<1> DEFINE w == CopyWidth(u.wh)
           N == w * CopyHeight(u.wh)
           pixel(i) == IF i < N THEN g.vram[At(X(u.xy), Y(u.xy), w, i)] ELSE 0
<1>1. N = Area(u) /\ (N + 1) \div 2 = WordsOf(u)
  BY DEF Area, WordsOf
<1>2. Area(u) \in Nat \ {0} /\ WordsOf(u) \in Nat \ {0}
  BY UploadFields
<1>3. ASSUME NEW i \in Nat, i < Area(u)
      PROVE  pixel(i) = u.words[(i \div 2) + 1][(i % 2) + 1]
  <2>1. PICK p : p = At(X(u.xy), Y(u.xy), CopyWidth(u.wh), i)
    OBVIOUS
  <2>2. p \in Pixels
    <3>1. X(u.xy) \in Nat /\ Y(u.xy) \in Nat /\ CopyWidth(u.wh) \in Nat \ {0}
      BY UploadFields, GpuConstants
    <3> QED BY <2>1, <3>1, AtType
  <2>3. Within(u, p) /\ Number(u, p) = i
    BY <1>3, <2>1, <2>2, NumberIs
  <2>4. i < 2 * Len(u.words)
    <3>1. PICK a, n \in Nat : a = Area(u) /\ n = WordsOf(u) /\ n = (a + 1) \div 2
      BY <1>2 DEF WordsOf
    <3>2. a <= 2 * n
      BY <3>1
    <3> QED BY <1>3, <3>1, <3>2
  <2>5. Written(u, p, 2 * Len(u.words))
    BY <2>3, <2>4 DEF Written
  <2>6. g.vram[p] = PixelOf(u, i)
    BY <2>2, <2>3, <2>5 DEF Shows, Arriving
  <2>7. pixel(i) = g.vram[p]
    BY <1>1, <1>3, <2>1
  <2> QED BY <2>6, <2>7 DEF PixelOf
<1>4. ASSUME NEW k \in 1..WordsOf(u)
      PROVE  <<pixel(2 * k - 2), pixel(2 * k - 1)>> = Sent(u, k)
  <2>1. PICK a, n \in Nat : a = Area(u) /\ n = WordsOf(u) /\ n = (a + 1) \div 2
    BY <1>2 DEF WordsOf
  <2>2. k \in Nat /\ 1 <= k /\ k <= n
    BY <2>1
  <2>3. 2 * k - 2 \in Nat /\ 2 * k - 1 \in Nat /\ 2 * k - 2 < a
        /\ (2 * k - 2) \div 2 = k - 1 /\ (2 * k - 2) % 2 = 0
        /\ (2 * k - 1) \div 2 = k - 1 /\ (2 * k - 1) % 2 = 1
        /\ (k - 1) + 1 = k
    BY <2>1, <2>2
  <2>4. pixel(2 * k - 2) = u.words[k][1]
    <3> HIDE DEF pixel
    <3>1. pixel(2 * k - 2)
            = u.words[((2 * k - 2) \div 2) + 1][((2 * k - 2) % 2) + 1]
      BY <1>3, <2>1, <2>3
    <3> QED BY <2>3, <3>1
  <2>5. CASE 2 * k - 1 < a
    <3>1. pixel(2 * k - 1) = u.words[k][2]
      <4> HIDE DEF pixel
      <4>1. pixel(2 * k - 1)
              = u.words[((2 * k - 1) \div 2) + 1][((2 * k - 1) % 2) + 1]
        BY <1>3, <2>1, <2>3, <2>5
      <4> QED BY <2>3, <4>1
    <3>2. ~(k = n /\ a % 2 = 1)
      BY <2>1, <2>2, <2>5
    <3>3. Sent(u, k) = u.words[k]
      BY <2>1, <3>2 DEF Sent
    <3>4. u.words[k] \in Halves
      <4>1. u.words \in Seq(Halves) /\ k \in 1..Len(u.words)
        BY <2>1, <2>2, UploadFields
      <4> QED BY <4>1
    <3> HIDE DEF pixel
    <3> QED BY <2>4, <3>1, <3>3, <3>4 DEF Halves
  <2>6. CASE ~(2 * k - 1 < a)
    <3>1. pixel(2 * k - 1) = 0
      BY <1>1, <2>1, <2>6
    <3>2. k = n /\ a % 2 = 1
      BY <2>1, <2>2, <2>6
    <3>3. Sent(u, k) = <<u.words[k][1], 0>>
      BY <2>1, <3>2 DEF Sent
    <3> HIDE DEF pixel
    <3> QED BY <2>4, <3>1, <3>3
  <2> QED BY <2>5, <2>6
<1>5. Download(g, u.xy, u.wh)
        = [k \in 1..((N + 1) \div 2) |-> <<pixel(2 * k - 2), pixel(2 * k - 1)>>]
  BY DEF Download
<1> HIDE DEF pixel, N
<1> QED BY <1>1, <1>4, <1>5

\* What was sent without masks is read back as it was sent.
THEOREM UploadsComeBack == Spec => RoundTrip
<1>1. ASSUME GpuInv, [Next]_vars, NEW w \in Words, DownloadsBack(w)
      PROVE  (gpu').vramRead = [k \in 1..WordsOf(upload) |-> Sent(upload, k)]
  <2>1. PICK u \in Uploads : u = upload
    BY <1>1 DEF GpuInv, Remembered, DownloadsBack
  <2>2. /\ Len(u.words) = WordsOf(u) /\ ~u.set /\ ~u.check
        /\ Shows(gpu.vram, u, 2 * Len(u.words))
    BY <1>1, <2>1 DEF GpuInv, Remembered, DownloadsBack
  <2>3. PICK p : p = gpu.packet
    OBVIOUS
  <2>4. p.kind = "collect" /\ p.cmd.group = "download" /\ Len(p.data) = 1
        /\ p.data[1] = u.xy /\ Half(w) = u.wh
    BY <1>1, <2>1, <2>3 DEF DownloadsBack
  <2>5. p \in [kind : {"collect"}, cmd : Commands, colour : Pixel16,
               data : Seq(Halves)]
    <3>1. p \in Packets
      BY <1>1, <2>3, GpuFields DEF GpuInv
    <3> QED BY <2>4, <3>1, Kinds
  <2>6. PICK data : data = Append(p.data, Keep(p.cmd, w))
    OBVIOUS
  <2>7. Len(data) = 2 /\ data[1] = u.xy /\ data[2] = u.wh
    <3>1. Keep(p.cmd, w) = u.wh
      BY <2>4 DEF Keep, DrawGroups
    <3>2. p.data \in Seq(Halves)
      BY <2>5
    <3>3. Len(data) = 2 /\ data[1] = p.data[1] /\ data[2] = Keep(p.cmd, w)
      BY <2>4, <2>6, <3>2
    <3> QED BY <2>4, <3>1, <3>3
  <2>8. CollectGp0(w)
    <3>1. WriteGp0(w)
      BY <1>1 DEF DownloadsBack
    <3>2. p # Idle
      BY <2>4, IdleIsReady
    <3> QED BY <2>3, <2>4, <3>1, <3>2 DEF WriteGp0, StartGp0, UploadGp0, PolylineGp0
  <2>9. Execute([gpu EXCEPT !.packet = Idle], p.cmd, p.colour, data)
    <3>1. WordCount(p.cmd) = 3
      BY <2>4 DEF WordCount
    <3> QED BY <2>3, <2>6, <2>7, <2>8, <3>1 DEF CollectGp0
  <2>10. PICK g : g = [gpu EXCEPT !.packet = Idle]
    OBVIOUS
  <2>11. g \in GpuType /\ g.vram = gpu.vram
    BY <1>1, <2>10, IdleIsReady, PacketChanges DEF GpuInv
  <2>12. gpu' = PrepareVramRead(g, u.xy, u.wh)
    BY <2>4, <2>7, <2>9, <2>10 DEF Execute, DrawGroups
  <2>13. (gpu').vramRead = Download(g, u.xy, u.wh)
    BY <2>11, <2>12, DownloadType, UploadFields
  <2>14. Download(g, u.xy, u.wh) = [k \in 1..WordsOf(u) |-> Sent(u, k)]
    BY <2>2, <2>11, DownloadIsSent
  <2> QED BY <2>1, <2>13, <2>14
<1>2. GpuInv /\ [Next]_vars =>
        [\A w \in Words : DownloadsBack(w) =>
           gpu'.vramRead = [k \in 1..WordsOf(upload) |-> Sent(upload, k)]]_vars
  BY <1>1
<1> QED BY <1>2, GpuInvHolds, PTL DEF Spec, RoundTrip
=============================================================================
