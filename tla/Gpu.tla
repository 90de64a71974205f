---------------------------------- MODULE Gpu ----------------------------------
(***************************************************************************)
(* The GPU's command stream: write_gp0, write_gp1 and GPUREAD of           *)
(* src/ps1-core/src/gpu/mod.rs, with the transfers in and out of VRAM.     *)
(*                                                                         *)
(* A word is any of Words: what it says as a command (cmd), its halves as  *)
(* coordinates, sizes or pixels (lo, hi), whether it has the pattern that  *)
(* ends a polyline (term), and its bits as a setting.  The same word may   *)
(* come as a command or as data: which one it is depends on the words      *)
(* before it alone, and that is what the module is about.  A primitive has *)
(* the vertices of one of Corners and covers the pixels that Raster says;  *)
(* its colours are abstracted.                                             *)
(***************************************************************************)
EXTENDS Raster, FiniteSets

CONSTANTS
    Width, Height,    \* of VRAM, 1024 and 512
    MaskBit,          \* bit 15 of a pixel
    FillAlign,        \* 16: fills come in blocks of that many pixels
    Words,            \* words that the guest, or DMA, writes to GP0
    PaintColor,       \* what primitives paint
    Corners,          \* four vertices each, of which a primitive takes the first
    Sizes,            \* of rectangles
    Opaque,           \* sets of pixels where a texture is not transparent
    DrawArea,         \* set once: its first and last pixels
    MaxDelta,         \* how far apart vertices may be: 1023 and 511
    MaxPolyline,      \* bound: words of a polyline
    MaxUnread         \* bound: words left in GPUREAD when a command starts

\* What the eight highest bits of a word say as a command.
Flags == {"gouraud", "quad", "textured", "variable", "polyline"}
Commands ==
    [group : {"nop", "mask", "polygon", "line", "rect", "fill", "copy",
              "upload", "download"},
     flags : SUBSET Flags]
WordType ==
    [cmd : Commands, lo : 0..(2 * MaskBit - 1), hi : 0..(2 * MaskBit - 1),
     term : BOOLEAN, bits : SUBSET {0, 1}]

ASSUME GpuAssumption ==
    /\ {Width, Height, MaskBit, FillAlign} \subseteq Nat \ {0}
    /\ Words \subseteq WordType
    /\ PaintColor \in 0..(MaskBit - 1)
    /\ Opaque \subseteq SUBSET ((0..(Width - 1)) \X (0..(Height - 1)))
    /\ Corners \subseteq [1..4 -> Points]
    /\ Sizes \subseteq Points
    /\ DrawArea \in [first : Points, last : Points] /\ MaxDelta \in Points
    /\ {MaxPolyline, MaxUnread} \subseteq Nat

VARIABLES
    gpu,              \* the fields of Gpu
    \* Observations:
    upload,           \* the last upload, until a command other than a download
    exact,            \* no packet had other words than its handler reads
    whole             \* every primitive covered what it should

vars == <<gpu, upload, exact, whole>>

Pixels == (0..(Width - 1)) \X (0..(Height - 1))
NoUpload == <<>>

Idle == [kind |-> "idle"]
DrawGroups == {"polygon", "line", "rect"}

\* GPUSTAT, the display and drawing registers, and the answer GPUREAD repeats
\* when there are no pixels to read, are left out.
NewGpu ==
    [packet |-> Idle, vram |-> [p \in Pixels |-> 0], vramRead |-> <<>>,
     maskSet |-> FALSE, maskCheck |-> FALSE]

-----------------------------------------------------------------------------
(* Lengths of packets: what the parser collects and what the handlers read. *)

If(b, n) == IF b THEN n ELSE 0
Has(c, flag) == flag \in c.flags
Vertices(c) == IF Has(c, "quad") THEN 4 ELSE 3

\* Faulty: the first vertex is counted with a colour of its own.
PolygonColours(c) == Vertices(c) * (1 + If(Has(c, "textured"), 1))
                       + 1 + If(Has(c, "gouraud"), Vertices(c))
PolygonWordCount(c) ==
    1 + Vertices(c) * (1 + If(Has(c, "textured"), 1))
      + If(Has(c, "gouraud"), Vertices(c) - 1)

RectangleWordCount(c) ==
    2 + If(Has(c, "textured"), 1) + If(Has(c, "variable"), 1)

\* The words start_gp0 waits for before it runs a command, the first one
\* included.
WordCount(c) ==
    CASE c.group = "polygon" -> PolygonWordCount(c)
      [] c.group = "rect"    -> RectangleWordCount(c)
      [] c.group = "line"    -> 3 + If(Has(c, "gouraud"), 1)
      [] c.group = "copy"    -> 4
      [] c.group \in {"fill", "upload", "download"} -> 3

\* The words a handler takes, one index after the other.
PolygonReads(c) ==
    LET index[v \in 0..Vertices(c)] ==
            IF v = 0 THEN 1
            ELSE index[v - 1] + If(Has(c, "gouraud") /\ v > 1, 1)
                   + 1 + If(Has(c, "textured"), 1)
    IN  index[Vertices(c)]
RectangleReads(c) ==
    LET afterVertex == 2
        afterTexture == afterVertex + If(Has(c, "textured"), 1)
    IN  afterTexture + If(Has(c, "variable"), 1)
LineReads(c) == (IF Has(c, "gouraud") THEN 3 ELSE 2) + 1

Reads(c) ==
    CASE c.group = "polygon" -> PolygonReads(c)
      [] c.group = "rect"    -> RectangleReads(c)
      [] c.group = "line"    -> LineReads(c)
      [] c.group = "copy"    -> 4
      [] OTHER               -> 3

-----------------------------------------------------------------------------
(* VRAM.                                                                   *)

Half(w) == <<w.lo, w.hi>>
X(half) == half[1] % Width
Y(half) == half[2] % Height
CopyWidth(half)  == ((half[1] - 1) % Width) + 1
CopyHeight(half) == ((half[2] - 1) % Height) + 1

Masked(pixel) == pixel >= MaskBit
WithMask(pixel) == IF Masked(pixel) THEN pixel ELSE pixel + MaskBit

\* Pixel number i of a rectangle that wraps at the edges of VRAM.
At(x, y, w, i) == <<(x + (i % w)) % Width, (y + (i \div w)) % Height>>

\* Faulty: the mask bit is set but does not protect.
TransferUnchecked(g, p, pixel) ==
    [g EXCEPT !.vram[p] = IF g.maskSet THEN WithMask(pixel) ELSE pixel]
WriteTransferPixel(g, p, pixel) ==
    IF g.maskCheck /\ Masked(g.vram[p]) THEN g
    ELSE [g EXCEPT !.vram[p] = IF g.maskSet THEN WithMask(pixel) ELSE pixel]

WriteUploadWord(g, r, half) ==
    LET one == WriteTransferPixel(g, At(r.x, r.y, r.w, r.index), half[1])
    IN  IF r.index + 1 >= r.w * r.h THEN one
        ELSE WriteTransferPixel(one, At(r.x, r.y, r.w, r.index + 1), half[2])

BeginCpuToVram(g, xy, wh) ==
    LET w == CopyWidth(wh)
        h == CopyHeight(wh)
    IN  [g EXCEPT !.packet =
            [kind |-> "upload", x |-> X(xy), y |-> Y(xy), w |-> w, h |-> h,
             left |-> (w * h + 1) \div 2, index |-> 0]]

\* Faulty: every word is read with the width of VRAM.
ReadUnwrapped(g, xy, w, i) ==
    g.vram[<<(X(xy) + i) % Width, (Y(xy) + ((X(xy) + i) \div Width)) % Height>>]
ReadTransferPixel(g, xy, w, i) == g.vram[At(X(xy), Y(xy), w, i)]

PrepareVramRead(g, xy, wh) ==
    LET w == CopyWidth(wh)
        n == w * CopyHeight(wh)
        pixel(i) == IF i < n THEN ReadTransferPixel(g, xy, w, i) ELSE 0
    IN  [g EXCEPT !.vramRead = [k \in 1..((n + 1) \div 2) |->
                                    <<pixel(2 * k - 2), pixel(2 * k - 1)>>]]

\* All pixels are read before the first one is written.
CopyVramToVram(g, from, to, wh) ==
    LET w == CopyWidth(wh)
        h == CopyHeight(wh)
        place(p) == {i \in 0..(w * h - 1) : At(X(to), Y(to), w, i) = p}
        pixel(p) == g.vram[At(X(from), Y(from), w, CHOOSE i \in place(p) : TRUE)]
    IN  [g EXCEPT !.vram = [p \in Pixels |->
            IF place(p) = {} THEN g.vram[p]
            ELSE WriteTransferPixel(g, p, pixel(p)).vram[p]]]

\* A fill is aligned to blocks and does not look at the mask.
Down(n) == n - (n % FillAlign)
FillRect(g, colour, xy, wh) ==
    LET w == Down(X(wh) + FillAlign - 1)
        h == Y(wh)
        inside(p) == /\ (p[1] - Down(X(xy))) % Width < w
                     /\ (p[2] - Y(xy)) % Height < h
    IN  [g EXCEPT !.vram = [p \in Pixels |->
            IF inside(p) THEN colour % MaskBit ELSE g.vram[p]]]

Pixel(p) == [x |-> p[1], y |-> p[2]]

\* The pixels of VRAM that primitives with these vertices touch; those of a
\* line are of the one from the k-th vertex to the next.
PolygonShapes ==
    [n \in 3..4 |-> [v \in Corners |->
        {p \in Pixels : PolygonTouches(SubSeq(v, 1, n), MaxDelta, Pixel(p)) > 0}]]
LineShapes ==
    [v \in Corners |-> [k \in 1..3 |->
        {p \in Pixels : LineTouches(v[k], v[k + 1], MaxDelta, Pixel(p)) > 0}]]
RectangleShapes ==
    [v \in Corners |-> [size \in Sizes |->
        {p \in Pixels : RectangleTouches(v[1], size, MaxDelta, Pixel(p)) > 0}]]
Shape(c, v, size) ==
    CASE c.group = "polygon" -> PolygonShapes[Vertices(c)][v]
      [] c.group = "line"    -> LineShapes[v][1]
      [] c.group = "rect"    -> RectangleShapes[v][size]

\* A gouraud polyline has a colour before each vertex.
PolylineVertices(c, words) == IF Has(c, "gouraud") THEN words \div 2 ELSE words
PolylineShape(v, n) == UNION {LineShapes[v][k] : k \in 1..(n - 1)}

InDrawArea(p) ==
    /\ p[1] \in DrawArea.first.x..DrawArea.last.x
    /\ p[2] \in DrawArea.first.y..DrawArea.last.y

\* A primitive paints the pixels of its shape that the mask does not protect.
Paint(g, shape, colour) ==
    [g EXCEPT !.vram = [p \in Pixels |->
        IF \/ p \notin shape \/ ~InDrawArea(p)
           \/ g.maskCheck /\ Masked(g.vram[p])
        THEN g.vram[p]
        ELSE IF g.maskSet THEN WithMask(colour) ELSE colour]]

\* A texel brings a mask bit of its own; no other colour has one.
PaintColors(c) ==
    {PaintColor} \cup (IF Has(c, "textured") THEN {WithMask(PaintColor)} ELSE {})

-----------------------------------------------------------------------------
(* What a primitive should cover, told without following the code.         *)

\* The outline of a polygon; the vertices of a quad come in the order of a Z.
Outline(v) == IF Len(v) = 4 THEN <<v[1], v[2], v[4], v[3]>> ELSE v
Side(v, k, p) == Edge(Outline(v)[k], Outline(v)[(k % Len(v)) + 1], p)
Convex(v) ==
    \E s \in {-1, 1} : \A k, m \in 1..Len(v) :
        \/ m \in {k, (k % Len(v)) + 1}
        \/ Sign(Side(v, k, Outline(v)[m])) = s

\* The pixels between the vertices, in VRAM or not, and a frame around them.
Box(v) ==
    LET span(S) == (CHOOSE m \in S : \A n \in S : m <= n) - 1 ..
                       (CHOOSE m \in S : \A n \in S : n <= m) + 1
    IN  span({v[k].x : k \in DOMAIN v}) \X span({v[k].y : k \in DOMAIN v})

\* A pixel within a polygon is touched once, one outside is not, and one on the
\* outline at most once.
PolygonIsWhole(v) ==
    Convex(v) /\ ~TooLarge(v, MaxDelta) =>
        \A p \in Box(v) :
            LET n == PolygonTouches(v, MaxDelta, Pixel(p))
                sides == {Sign(Side(v, k, Pixel(p))) : k \in 1..Len(v)}
            IN  /\ n <= 1
                /\ sides \in {{1}, {-1}} => n = 1
                /\ {1, -1} \subseteq sides => n = 0

\* A line has one pixel for each step along its longer direction, at most
\* half a pixel off, and ends where it should.
LineIsWhole(a, b) ==
    LET long == Larger(Dx(a, b), -Dy(a, b))
        walk == LineWalk(a, b, 2 * Steps(a, b))
    IN  /\ Arrived(b, walk[long])
        /\ \A n \in 0..long :
              LET at == walk[n] IN
              /\ Larger(Abs(at.x - a.x), Abs(at.y - a.y)) = n
              /\ 2 * Abs(Edge(a, b, at)) <= long

\* The corners of which polygons of n vertices, and lines, are whole.
WholePolygons ==
    [n \in 3..4 |-> {v \in Corners : PolygonIsWhole(SubSeq(v, 1, n))}]
WholeLines == {v \in Corners : \A k \in 1..3 : LineIsWhole(v[k], v[k + 1])}

-----------------------------------------------------------------------------
(* The stream.  A packet being collected keeps its command, the lower half *)
(* of its first word, and the halves of the others: those of a primitive   *)
(* say nothing here.                                                       *)

Keep(c, w) == IF c.group \in DrawGroups THEN <<0, 0>> ELSE Half(w)

Unchanged(g) == gpu' = g /\ UNCHANGED <<upload, exact, whole>>
Begin(packet, u) ==
    gpu' = [gpu EXCEPT !.packet = packet] /\ upload' = u /\ UNCHANGED <<exact, whole>>

\* execute_packet, with every way a primitive may turn out.
Execute(g, c, colour, data) ==
    /\ exact' = (exact /\ 1 + Len(data) = Reads(c))
    /\ \/ /\ c.group \in DrawGroups
          /\ \E v \in Corners,
                size \in IF c.group = "rect" THEN Sizes ELSE {MaxDelta},
                opaque \in IF Has(c, "textured") THEN Opaque ELSE {Pixels},
                paint \in PaintColors(c) :
                /\ gpu' = Paint(g, opaque \cap Shape(c, v, size), paint)
                /\ whole' = (whole /\
                       CASE c.group = "polygon" -> v \in WholePolygons[Vertices(c)]
                         [] c.group = "line"    -> v \in WholeLines
                         [] OTHER               -> TRUE)
          /\ UNCHANGED upload
       \/ /\ c.group = "fill"
          /\ gpu' = FillRect(g, colour, data[1], data[2])
          /\ UNCHANGED <<upload, whole>>
       \/ /\ c.group = "copy"
          /\ gpu' = CopyVramToVram(g, data[1], data[2], data[3])
          /\ UNCHANGED <<upload, whole>>
       \/ /\ c.group = "upload"
          /\ gpu' = BeginCpuToVram(g, data[1], data[2])
          /\ upload' = [xy |-> data[1], wh |-> data[2], words |-> <<>>,
                        before |-> g.vram, set |-> g.maskSet,
                        check |-> g.maskCheck]
          /\ UNCHANGED whole
       \/ /\ c.group = "download"
          /\ gpu' = PrepareVramRead(g, data[1], data[2])
          /\ upload' = NoUpload
          /\ UNCHANGED whole

\* A word that starts a command.
StartGp0(w) ==
    LET c == w.cmd IN
    /\ gpu.packet = Idle
    /\ Len(gpu.vramRead) <= MaxUnread
    /\ CASE c.group = "nop" -> Unchanged(gpu)
         [] c.group = "mask" ->      \* the other settings are nops here
                /\ gpu' = [gpu EXCEPT !.maskSet = 0 \in w.bits,
                                      !.maskCheck = 1 \in w.bits]
                /\ upload' = NoUpload
                /\ UNCHANGED <<exact, whole>>
         [] c.group = "line" /\ Has(c, "polyline") ->
                Begin([kind |-> "polyline", cmd |-> c, length |-> 0], NoUpload)
         [] OTHER ->
                Begin([kind |-> "collect", cmd |-> c, colour |-> w.lo,
                       data |-> <<>>],
                      IF c.group = "download" THEN upload ELSE NoUpload)

\* A word of a packet; the last one runs it, from an idle parser.
CollectGp0(w) ==
    LET p == gpu.packet
        data == Append(p.data, Keep(p.cmd, w))
    IN  /\ p.kind = "collect"
        /\ IF 1 + Len(data) = WordCount(p.cmd)
           THEN Execute([gpu EXCEPT !.packet = Idle], p.cmd, p.colour, data)
           ELSE Unchanged([gpu EXCEPT !.packet.data = data])

\* Two pixels of an upload.
UploadGp0(w) ==
    LET r == gpu.packet
        written == WriteUploadWord(gpu, r, Half(w))
    IN  /\ r.kind = "upload"
        /\ gpu' = [written EXCEPT !.packet =
                       IF r.left = 1 THEN Idle
                       ELSE [r EXCEPT !.left = @ - 1, !.index = @ + 2]]
        /\ upload' = [upload EXCEPT !.words = Append(@, Half(w))]
        /\ UNCHANGED <<exact, whole>>

\* A vertex or a colour of a polyline, or its end: any word with the pattern
\* ends it, also where a colour is due.
PolylineGp0(w) ==
    /\ gpu.packet.kind = "polyline"
    /\ IF w.term
       THEN /\ \E v \in Corners :
                LET n == PolylineVertices(gpu.packet.cmd, gpu.packet.length)
                IN  /\ gpu' = Paint([gpu EXCEPT !.packet = Idle],
                                    PolylineShape(v, n), PaintColor)
                    /\ whole' = (whole /\ v \in WholeLines)
            /\ UNCHANGED <<upload, exact>>
       ELSE /\ gpu.packet.length < MaxPolyline
            /\ Unchanged([gpu EXCEPT !.packet.length = @ + 1])

WriteGp0(w) == StartGp0(w) \/ CollectGp0(w) \/ UploadGp0(w) \/ PolylineGp0(w)

ResetGpu(g) == [NewGpu EXCEPT !.vram = g.vram]

Reset == Unchanged(ResetGpu(gpu))

ClearCommandBuffer == Unchanged([gpu EXCEPT !.packet = Idle])

\* GPUREAD, by the CPU or by DMA.
ReadGp0 ==
    /\ gpu.vramRead # <<>>
    /\ Unchanged([gpu EXCEPT !.vramRead = Tail(@)])

Init ==
    /\ gpu = NewGpu
    /\ upload = NoUpload
    /\ exact = TRUE
    /\ whole = TRUE

Next ==
    \/ \E w \in Words : WriteGp0(w)
    \/ Reset \/ ClearCommandBuffer
    \/ ReadGp0

Spec == Init /\ [][Next]_vars

-----------------------------------------------------------------------------
\* Every packet is run with exactly the words its handler reads: with one
\* word less the handler would index beyond them and the program panic, with
\* one more the parser would take a command for data, and from then on
\* every word for something it is not.
PacketsAreRead == exact

\* Primitives cover what they should: polygons of either winding touch each
\* pixel within them once, also where the two triangles of a quad meet (a
\* semi-transparent one would blend it twice, or leave a seam), and a line
\* follows its course to its last pixel, which is the loop's only way out.
ShapesAreWhole == whole

\* The pixels an upload has, and how many words it waits for.
Area(u) == CopyWidth(u.wh) * CopyHeight(u.wh)
WordsOf(u) == (Area(u) + 1) \div 2
PixelOf(u, i) == u.words[(i \div 2) + 1][(i % 2) + 1]

\* An upload fills its rectangle, wrapped at the edges of VRAM, row by row
\* with the pixels sent so far, and nothing else: protected pixels stay, the
\* odd half of the last word is dropped, and the parser goes back to commands
\* after exactly the words the rectangle takes.
UploadIsExact ==
    upload # NoUpload =>
        LET sent == 2 * Len(upload.words)
            dx(p) == (p[1] - X(upload.xy)) % Width
            dy(p) == (p[2] - Y(upload.xy)) % Height
            i(p)  == dy(p) * CopyWidth(upload.wh) + dx(p)
            new(p) == LET v == PixelOf(upload, i(p)) IN
                      IF upload.set THEN WithMask(v) ELSE v
        IN  /\ Len(upload.words) <= WordsOf(upload)
            /\ gpu.packet.kind = "upload" => Len(upload.words) < WordsOf(upload)
            /\ \A p \in Pixels :
                  gpu.vram[p] =
                      IF \/ dx(p) >= CopyWidth(upload.wh)
                         \/ dy(p) >= CopyHeight(upload.wh)
                         \/ i(p) >= sent
                         \/ upload.check /\ Masked(upload.before[p])
                      THEN upload.before[p] ELSE new(p)

\* What was uploaded without masks can be read back: a download of the same
\* rectangle, with nothing drawn in between, hands out the words that were
\* sent, but for the odd half of the last one.
Sent(u, k) ==
    IF k = WordsOf(u) /\ Area(u) % 2 = 1 THEN <<u.words[k][1], 0>>
    ELSE u.words[k]
DownloadsBack(w) ==
    /\ gpu.packet.kind = "collect"
    /\ gpu.packet.cmd.group = "download"
    /\ Len(gpu.packet.data) = 1
    /\ upload # NoUpload
    /\ Len(upload.words) = WordsOf(upload)
    /\ ~upload.set /\ ~upload.check
    /\ gpu.packet.data[1] = upload.xy /\ Half(w) = upload.wh
    /\ WriteGp0(w)

RoundTrip ==
    [][\A w \in Words : DownloadsBack(w) =>
           gpu'.vramRead = [k \in 1..WordsOf(upload) |-> Sent(upload, k)]]_vars
=============================================================================
