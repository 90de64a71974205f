----------------------------------- MODULE Gte -----------------------------------
(***************************************************************************)
(* The geometry coprocessor: src/ps1-core/src/cpu/gte.rs, with its widths. *)
(*                                                                         *)
(* Registers are grouped by what they hold and unpacked: vectors and       *)
(* colours are functions of an axis 1..3, a screen point is a record, and  *)
(* FLAG is the set of its bits' names.  A command is an operator from a    *)
(* register file to the next, composed as the code composes it.  The       *)
(* integers here have no width, those of the code's accumulators have 64   *)
(* bits; that this makes no difference is a theorem.                       *)
(***************************************************************************)
EXTENDS Integers, FiniteSets

\* low..high, said by its bounds for the provers, who would list it.
Between(low, high) == {n \in Int : low <= n /\ n <= high}
Bytes == Between(0, 255)
UHalves == Between(0, 65535)
Halves == Between(-32768, 32767)
Words == Between(-2147483648, 2147483647)
Axes == 1..3

HalfVectors == [Axes -> Halves]
WordVectors == [Axes -> Words]
Matrices == [Axes -> HalfVectors]
Colours == [rgb : [Axes -> Bytes], code : Bytes]
ScreenPoints == [x : Halves, y : Halves]

\* The bits of FLAG by what sets them, and those that set its bit 31.
MacPos == <<"MAC1_POS", "MAC2_POS", "MAC3_POS">>
MacNeg == <<"MAC1_NEG", "MAC2_NEG", "MAC3_NEG">>
IrSat == <<"IR1_SAT", "IR2_SAT", "IR3_SAT">>
RgbSat == <<"RGB_R_SAT", "RGB_G_SAT", "RGB_B_SAT">>
Summary ==
    {"MAC1_POS", "MAC2_POS", "MAC3_POS", "MAC1_NEG", "MAC2_NEG", "MAC3_NEG",
     "IR1_SAT", "IR2_SAT", "OTZ_SAT", "DIV_OVERFLOW", "MAC0_POS", "MAC0_NEG",
     "SX2_SAT", "SY2_SAT"}
Writable ==
    Summary \cup {"IR3_SAT", "RGB_R_SAT", "RGB_G_SAT", "RGB_B_SAT", "IR0_SAT"}
NormalizeFlag(S) == IF S \cap Summary # {} THEN S \cup {"ERROR"} ELSE S

\* Matrices and vectors are numbered as MVMVA selects them: 0 rotates and
\* translates, 1 holds the lights and the background, 2 their colours and
\* the far colour.
Gtes ==
    [v : [0..2 -> HalfVectors], rgbc : Colours, otz : UHalves,
     ir : [0..3 -> Halves], sxy : [0..2 -> ScreenPoints],
     sz : [0..3 -> UHalves], rgb : [0..2 -> Colours], mac : [0..3 -> Words],
     lzcs : Words, lzcr : Between(0, 32),
     matrix : [0..2 -> Matrices], vector : [0..2 -> WordVectors],
     ofx : Words, ofy : Words, h : UHalves, dqa : Halves, dqb : Words,
     zsf3 : Halves, zsf4 : Halves, flag : SUBSET (Writable \cup {"ERROR"})]

NewGte ==
    LET zero == [i \in Axes |-> 0]
        black == [rgb |-> zero, code |-> 0]
    IN  [v |-> [k \in 0..2 |-> zero], rgbc |-> black, otz |-> 0,
         ir |-> [k \in 0..3 |-> 0], sxy |-> [k \in 0..2 |-> [x |-> 0, y |-> 0]],
         sz |-> [k \in 0..3 |-> 0], rgb |-> [k \in 0..2 |-> black],
         mac |-> [k \in 0..3 |-> 0], lzcs |-> 0, lzcr |-> 0,
         matrix |-> [k \in 0..2 |-> [i \in Axes |-> zero]],
         vector |-> [k \in 0..2 |-> zero], ofx |-> 0, ofy |-> 0, h |-> 0,
         dqa |-> 0, dqb |-> 0, zsf3 |-> 0, zsf4 |-> 0, flag |-> {}]

-----------------------------------------------------------------------------
(* Arithmetic.                                                             *)

Clamp(x, low, high) == IF x < low THEN low ELSE IF x > high THEN high ELSE x
Wrap32(x) == ((x + 2147483648) % 4294967296) - 2147483648
Shift(x, sf) == IF sf THEN x \div 4096 ELSE x
ShiftAll(x, sf) == [i \in Axes |-> Shift(x[i], sf)]
Dot(m, v, i) == m[i][1] * v[1] + m[i][2] * v[2] + m[i][3] * v[3]

\* How many of the highest bits are equal, the sign bit included.
LeadingSignBits(n) ==
    LET m == IF n >= 0 THEN n ELSE -1 - n
    IN  1 + Cardinality({k \in 0..30 : m < 2^k})

\* The division: the depth is scaled to sixteen bits, its reciprocal looked
\* up and refined once.
Scales == {1, 2, 4, 8, 16, 32, 64, 128, 256, 512, 1024, 2048, 4096, 8192,
           16384, 32768}
ScaleOf(sz3) == CHOOSE s \in Scales : sz3 * s \in Between(32768, 65535)
TableIndex(divisor) == (divisor - 32704) \div 128
Reciprocal(index) ==
    LET half == ((262144 \div (index + 256)) + 1) \div 2
    IN  (IF half > 257 THEN half - 257 ELSE 0) + 257
Refined(divisor, reciprocal) ==
    (128 + ((33554560 - divisor * reciprocal) \div 256) * reciprocal) \div 256
Quotient(numerator, divisor) ==
    Clamp((numerator * Refined(divisor, Reciprocal(TableIndex(divisor))) + 32768)
              \div 65536, 0, 131071)
DivideOverflows(h, sz3) == sz3 = 0 \/ h >= sz3 * 2
Divide(h, sz3) ==
    IF DivideOverflows(h, sz3) THEN 131071
    ELSE Quotient(h * ScaleOf(sz3), sz3 * ScaleOf(sz3))

-----------------------------------------------------------------------------
(* Results: each goes to its register, clamped or cut, and says in FLAG    *)
(* when it did not fit.                                                    *)

RaiseFlag(g, bits) == [g EXCEPT !.flag = NormalizeFlag(@ \cup bits)]
RaiseIf(g, condition, bit) == IF condition THEN RaiseFlag(g, {bit}) ELSE g

MaxMac == 8796093022207
SetMac(g, i, x) ==
    [RaiseIf(RaiseIf(g, x > MaxMac, MacPos[i]), x < -MaxMac - 1, MacNeg[i])
        EXCEPT !.mac[i] = Wrap32(x)]
SetMac0(g, x) ==
    [RaiseIf(RaiseIf(g, x > 2147483647, "MAC0_POS"), x < -2147483648, "MAC0_NEG")
        EXCEPT !.mac[0] = Wrap32(x)]

\* With sf off the flag looks at the value shifted, the register is clamped
\* from the value itself.
LimitIr(g, i, x, lm, sf) ==
    LET low == IF lm THEN 0 ELSE -32768
        checked == IF sf THEN x ELSE x \div 4096
    IN  [RaiseIf(g, checked < low \/ checked > 32767, IrSat[i])
            EXCEPT !.ir[i] = Clamp(x, low, 32767)]
LimitIr0(g, x) ==
    [RaiseIf(g, x \notin Between(0, 4096), "IR0_SAT") EXCEPT !.ir[0] = Clamp(x, 0, 4096)]

SetRow(g, i, x, lm, sf) == LimitIr(SetMac(g, i, x), i, x, lm, sf)
SetRows(g, x, lm, sf) ==
    SetRow(SetRow(SetRow(g, 1, x[1], lm, sf), 2, x[2], lm, sf), 3, x[3], lm, sf)
SetMacs(g, x) == SetMac(SetMac(SetMac(g, 1, x[1]), 2, x[2]), 3, x[3])

PushSxy(g, point) ==
    [g EXCEPT !.sxy = [k \in 0..2 |-> IF k = 2 THEN point ELSE @[k + 1]]]
PushSz(g, depth) ==
    [RaiseIf(g, depth \notin UHalves, "OTZ_SAT") EXCEPT
        !.sz = [k \in 0..3 |-> IF k = 3 THEN Clamp(depth, 0, 65535) ELSE @[k + 1]]]

\* The colour is made of the values before they went into MAC.
RaiseColour(g, i, x) == RaiseIf(g, x[i] \div 16 \notin Bytes, RgbSat[i])
PushColour(g, x) ==
    LET colour == [rgb |-> [i \in Axes |-> Clamp(x[i] \div 16, 0, 255)],
                   code |-> g.rgbc.code]
    IN  [RaiseColour(RaiseColour(RaiseColour(g, 1, x), 2, x), 3, x) EXCEPT
            !.rgb = [k \in 0..2 |-> IF k = 2 THEN colour ELSE @[k + 1]]]

-----------------------------------------------------------------------------
(* Commands on screen points and depths.                                   *)

NclipValue(g) ==
      g.sxy[0].x * (g.sxy[1].y - g.sxy[2].y)
    + g.sxy[1].x * (g.sxy[2].y - g.sxy[0].y)
    + g.sxy[2].x * (g.sxy[0].y - g.sxy[1].y)
Nclip(g) == SetMac0(g, NclipValue(g))

AverageZ(g, x) ==
    LET average == x \div 4096
    IN  [RaiseIf(SetMac0(g, x), average \notin UHalves, "OTZ_SAT") EXCEPT
            !.otz = Clamp(average, 0, 65535)]
Avsz3Value(g) == (g.sz[1] + g.sz[2] + g.sz[3]) * g.zsf3
Avsz4Value(g) == (g.sz[0] + g.sz[1] + g.sz[2] + g.sz[3]) * g.zsf4

RotatedValue(g, k, i) == 4096 * g.vector[0][i] + Dot(g.matrix[0], g.v[k], i)
Rotated(g, k, sf) == [i \in Axes |-> Shift(RotatedValue(g, k, i), sf)]

ScreenX(g, quotient) == (g.ofx + g.ir[1] * quotient) \div 65536
ScreenY(g, quotient) == (g.ofy + g.ir[2] * quotient) \div 65536
Project(g, quotient) ==
    LET x == ScreenX(g, quotient)
        y == ScreenY(g, quotient)
    IN  PushSxy(RaiseIf(RaiseIf(g, x \notin Between(-1024, 1023), "SX2_SAT"),
                        y \notin Between(-1024, 1023), "SY2_SAT"),
                [x |-> Clamp(x, -1024, 1023), y |-> Clamp(y, -1024, 1023)])
DepthCueValue(g, quotient) == g.dqb + g.dqa * quotient
DepthCue(g, x) == LimitIr0(SetMac0(g, x), x \div 4096)

TransformVertex(g, k, sf, lm) ==
    LET x == Rotated(g, k, sf)
        rotated == PushSz(SetRows(g, x, lm, sf), IF sf THEN x[3] ELSE x[3] \div 4096)
        quotient == Divide(rotated.h, rotated.sz[3])
        divided == RaiseIf(rotated, DivideOverflows(rotated.h, rotated.sz[3]),
                           "DIV_OVERFLOW")
        projected == Project(divided, quotient)
    IN  DepthCue(projected, DepthCueValue(projected, quotient))

-----------------------------------------------------------------------------
(* Commands on vectors.                                                    *)

IrVector(g) == [i \in Axes |-> g.ir[i]]

OpValues(g) ==
    LET d == [i \in Axes |-> g.matrix[0][i][i]]
    IN  <<g.ir[3] * d[2] - g.ir[2] * d[3], g.ir[1] * d[3] - g.ir[3] * d[1],
          g.ir[2] * d[1] - g.ir[1] * d[2]>>
SqrValues(g) == [i \in Axes |-> g.ir[i] * g.ir[i]]

\* Matrix 3 and the far colour as a translation are the hardware's mistakes.
MatrixOf(g, mx) ==
    IF mx \in 0..2 THEN g.matrix[mx]
    ELSE <<[i \in Axes |-> CASE i = 1 -> -g.rgbc.rgb[1] * 16
                             [] i = 2 -> g.rgbc.rgb[1] * 16
                             [] i = 3 -> g.ir[0]],
           [i \in Axes |-> g.matrix[0][1][3]], [i \in Axes |-> g.matrix[0][2][2]]>>
VectorOf(g, v) == IF v \in 0..2 THEN g.v[v] ELSE IrVector(g)
MvmvaValue(g, mx, v, cv, i) ==
    LET m == MatrixOf(g, mx)
        x == VectorOf(g, v)
    IN  CASE cv = 2 -> m[i][2] * x[2] + m[i][3] * x[3]
          [] cv = 3 -> Dot(m, x, i)
          [] cv \in 0..1 -> 4096 * g.vector[cv][i] + Dot(m, x, i)
MvmvaValues(g, c) == [i \in Axes |-> Shift(MvmvaValue(g, c.mx, c.v, c.cv, i), c.sf)]

-----------------------------------------------------------------------------
(* Commands on colours.                                                    *)

\* Every one ends in a vector that becomes a colour, too.
SetColour(g, x, lm) == PushColour(SetRows(g, x, lm, TRUE), x)

FarDelta(g, i, base) == 4096 * g.vector[2][i] - base
MixedValue(g, i, base) == base + g.ir[i] * g.ir[0]
Mix(g, i, base, sf) ==
    LET moved == LimitIr(SetMac(g, i, base), i, Shift(FarDelta(g, i, base), sf),
                         FALSE, TRUE)
    IN  SetMac(moved, i, MixedValue(moved, i, base))
InterpolateFarColour(g, base, sf, lm) ==
    LET mixed == Mix(Mix(Mix(g, 1, base[1], sf), 2, base[2], sf), 3, base[3], sf)
    IN  SetColour(mixed, [i \in Axes |-> Shift(MixedValue(mixed, i, base[i]), sf)], lm)

LightValue(g, k, i) == Dot(g.matrix[1], g.v[k], i)
LightSource(g, k, sf, lm) ==
    SetRows(g, [i \in Axes |-> Shift(LightValue(g, k, i), sf)], lm, TRUE)
LightColourValue(g, i) == 4096 * g.vector[1][i] + Dot(g.matrix[2], IrVector(g), i)
LightColourValues(g, sf) == [i \in Axes |-> Shift(LightColourValue(g, i), sf)]
LightColour(g, sf, lm) == SetRows(g, LightColourValues(g, sf), lm, TRUE)

Product(g) == [i \in Axes |-> 16 * (g.rgbc.rgb[i] * g.ir[i])]
ColourProduct(g, sf, lm) ==
    SetColour(SetMacs(g, Product(g)), ShiftAll(Product(g), sf), lm)
CuedProduct(g, sf, lm) ==
    InterpolateFarColour(SetMacs(g, Product(g)), Product(g), sf, lm)

NormalColour(g, k, sf, lm) ==
    LET lit == LightSource(g, k, sf, lm)
    IN  SetColour(lit, LightColourValues(lit, sf), lm)
NormalColourProduct(g, k, sf, lm) ==
    ColourProduct(LightColour(LightSource(g, k, sf, lm), sf, lm), sf, lm)
NormalCuedProduct(g, k, sf, lm) ==
    CuedProduct(LightColour(LightSource(g, k, sf, lm), sf, lm), sf, lm)

Scaled(rgb, n) == [i \in Axes |-> n * rgb[i]]
CueFifo(g, sf, lm) == InterpolateFarColour(g, Scaled(g.rgb[0].rgb, 65536), sf, lm)
CueColour(g, sf, lm) == InterpolateFarColour(g, Scaled(g.rgbc.rgb, 65536), sf, lm)
CueIr(g, sf, lm) == InterpolateFarColour(g, Scaled(IrVector(g), 4096), sf, lm)

GpfValues(g) == [i \in Axes |-> g.ir[i] * g.ir[0]]
GplValues(g, sf) ==
    [i \in Axes |-> (IF sf THEN 4096 * g.mac[i] ELSE g.mac[i]) + g.ir[i] * g.ir[0]]

-----------------------------------------------------------------------------
(* The program.                                                            *)

Cycles ==
    [RTPS |-> 15, NCLIP |-> 8, OP |-> 6, DPCS |-> 8, INTPL |-> 8, MVMVA |-> 8,
     NCDS |-> 19, CDP |-> 13, NCDT |-> 44, NCCS |-> 17, CC |-> 11, NCS |-> 14,
     NCT |-> 30, SQR |-> 5, DCPL |-> 8, DPCT |-> 17, AVSZ3 |-> 5, AVSZ4 |-> 6,
     RTPT |-> 23, GPF |-> 5, GPL |-> 5, NCCT |-> 39, none |-> 0]
Commands ==
    [name : DOMAIN Cycles, sf : BOOLEAN, lm : BOOLEAN, mx : 0..3, v : 0..3, cv : 0..3]

\* A command from registers whose FLAG is clear.
Result(g, c) ==
    LET vertex(r, k) == TransformVertex(r, k, c.sf, c.lm)
        normal(r, k) == NormalColour(r, k, c.sf, c.lm)
        product(r, k) == NormalColourProduct(r, k, c.sf, c.lm)
        cued(r, k) == NormalCuedProduct(r, k, c.sf, c.lm)
        fifo(r) == CueFifo(r, c.sf, c.lm)
    IN  CASE c.name = "RTPS"  -> vertex(g, 0)
          [] c.name = "RTPT"  -> vertex(vertex(vertex(g, 0), 1), 2)
          [] c.name = "NCLIP" -> Nclip(g)
          [] c.name = "AVSZ3" -> AverageZ(g, Avsz3Value(g))
          [] c.name = "AVSZ4" -> AverageZ(g, Avsz4Value(g))
          [] c.name = "OP"    -> SetRows(g, ShiftAll(OpValues(g), c.sf), c.lm, TRUE)
          [] c.name = "SQR"   -> SetRows(g, ShiftAll(SqrValues(g), c.sf), TRUE, TRUE)
          [] c.name = "MVMVA" -> SetRows(g, MvmvaValues(g, c), c.lm, c.sf)
          [] c.name = "DPCS"  -> CueColour(g, c.sf, c.lm)
          [] c.name = "INTPL" -> CueIr(g, c.sf, c.lm)
          [] c.name = "DPCT"  -> fifo(fifo(fifo(g)))
          [] c.name = "DCPL"  -> CuedProduct(g, c.sf, c.lm)
          [] c.name = "CC"    -> ColourProduct(LightColour(g, c.sf, c.lm), c.sf, c.lm)
          [] c.name = "CDP"   -> CuedProduct(LightColour(g, c.sf, c.lm), c.sf, c.lm)
          [] c.name = "NCS"   -> normal(g, 0)
          [] c.name = "NCT"   -> normal(normal(normal(g, 0), 1), 2)
          [] c.name = "NCCS"  -> product(g, 0)
          [] c.name = "NCCT"  -> product(product(product(g, 0), 1), 2)
          [] c.name = "NCDS"  -> cued(g, 0)
          [] c.name = "NCDT"  -> cued(cued(cued(g, 0), 1), 2)
          [] c.name = "GPF"   -> SetColour(g, ShiftAll(GpfValues(g), c.sf), c.lm)
          [] c.name = "GPL"   -> SetColour(g, ShiftAll(GplValues(g, c.sf), c.sf), c.lm)
          [] c.name = "none"  -> g

\* What IRGB takes apart and ORGB puts together.
WriteIrgb(g, rgb) ==
    [g EXCEPT !.ir = [i \in 0..3 |-> IF i = 0 THEN @[0] ELSE 128 * rgb[i]]]
Orgb(g) == [i \in Axes |-> Clamp(g.ir[i] \div 128, 0, 31)]

VARIABLES
    gte, busy,
    \* Observations: cycles charged since the last command began, and those
    \* it takes.
    charged, latency

gteVars == <<gte, busy, charged, latency>>

GteInit == gte = NewGte /\ busy = 0 /\ charged = 0 /\ latency = 0

\* Every step of the CPU takes two cycles off those that are left.
Tick(cycles) == busy' = IF cycles > 2 THEN cycles - 2 ELSE 0
Elapse(g) == gte' = g /\ Tick(busy) /\ charged' = charged + 2 /\ UNCHANGED latency

SetV(g, k, i, x) == [g EXCEPT !.v[k][i] = x]
SetMatrix(g, m, i, j, x) == [g EXCEPT !.matrix = [@ EXCEPT ![m][i][j] = x]]

\* mtc2 and lwc2 do not wait.
MoveTo ==
    \/ \E k \in 0..2, x, y \in Halves :
           Elapse(SetV(SetV(gte, k, 1, x), k, 2, y))
    \/ \E k \in 0..2, z \in Halves : Elapse(SetV(gte, k, 3, z))
    \/ \E colour \in Colours : Elapse([gte EXCEPT !.rgbc = colour])
    \/ \E z \in UHalves : Elapse([gte EXCEPT !.otz = z])
    \/ \E k \in 0..3, x \in Halves : Elapse([gte EXCEPT !.ir[k] = x])
    \/ \E k \in 0..2, point \in ScreenPoints : Elapse([gte EXCEPT !.sxy[k] = point])
    \/ \E point \in ScreenPoints : Elapse(PushSxy(gte, point))
    \/ \E k \in 0..3, z \in UHalves : Elapse([gte EXCEPT !.sz[k] = z])
    \/ \E k \in 0..2, colour \in Colours : Elapse([gte EXCEPT !.rgb[k] = colour])
    \/ \E k \in 0..3, x \in Words : Elapse([gte EXCEPT !.mac[k] = x])
    \/ \E rgb \in [Axes -> Between(0, 31)] : Elapse(WriteIrgb(gte, rgb))
    \/ \E n \in Words : Elapse([gte EXCEPT !.lzcs = n, !.lzcr = LeadingSignBits(n)])

\* ctc2; a word holds two elements of a matrix that follow each other.
ControlTo ==
    \/ \E m \in 0..2, x, y \in Halves :
           \/ Elapse(SetMatrix(SetMatrix(gte, m, 1, 1, x), m, 1, 2, y))
           \/ Elapse(SetMatrix(SetMatrix(gte, m, 1, 3, x), m, 2, 1, y))
           \/ Elapse(SetMatrix(SetMatrix(gte, m, 2, 2, x), m, 2, 3, y))
           \/ Elapse(SetMatrix(SetMatrix(gte, m, 3, 1, x), m, 3, 2, y))
           \/ Elapse(SetMatrix(gte, m, 3, 3, x))
    \/ \E m \in 0..2, i \in Axes, x \in Words : Elapse([gte EXCEPT !.vector[m][i] = x])
    \/ \E x \in Words : \/ Elapse([gte EXCEPT !.ofx = x])
                         \/ Elapse([gte EXCEPT !.ofy = x])
                         \/ Elapse([gte EXCEPT !.dqb = x])
    \/ \E x \in UHalves : Elapse([gte EXCEPT !.h = x])
    \/ \E x \in Halves : \/ Elapse([gte EXCEPT !.dqa = x])
                          \/ Elapse([gte EXCEPT !.zsf3 = x])
                          \/ Elapse([gte EXCEPT !.zsf4 = x])
    \/ \E S \in SUBSET Writable : Elapse([gte EXCEPT !.flag = NormalizeFlag(S)])

\* mfc2, cfc2 and swc2 wait for the last command.
MoveFrom ==
    /\ Tick(0)
    /\ charged' = charged + busy + 2
    /\ UNCHANGED <<gte, latency>>

\* So does the next command; its own cycles are charged later.
ExecuteCommand(c) ==
    /\ gte' = Result([gte EXCEPT !.flag = {}], c)
    /\ Tick(Cycles[c.name])
    /\ charged' = 2
    /\ latency' = Cycles[c.name]

\* Any other instruction, and any exception.
Other == Elapse(gte)

GteNext == MoveTo \/ ControlTo \/ MoveFrom \/ Other \/ \E c \in Commands : ExecuteCommand(c)
GteSpec == GteInit /\ [][GteNext]_gteVars

-----------------------------------------------------------------------------
(* Properties.                                                             *)

GteTypeOK == gte \in Gtes /\ busy \in Nat /\ charged \in Nat /\ latency \in Nat

\* Whoever reads a result has been charged for the cycles of the command that
\* made it, and for no more if he waited (Cpu::step, take_busy_cycles).
LatencyIsCharged ==
    /\ charged + busy >= latency
    /\ busy > 0 => charged + busy = latency

\* Bit 31 of FLAG tells exactly whether a bit it summarises is set, after
\* whatever writes and commands (normalize_flag, set_flag).
ErrorIsSummary ==
    "ERROR" \in gte.flag <=> gte.flag \cap Summary # {}

\* A row of a vector result that no bit of FLAG names is exact: IR and MAC
\* hold the same number, neither clamped nor cut.  The commands that rotate
\* without a shift are the exception, as they check another value than they
\* clamp (set_vector_result, limit_ir).
ScreenCommands == {"NCLIP", "AVSZ3", "AVSZ4", "none"}
RotatingCommands == {"RTPS", "RTPT", "MVMVA"}
UnflaggedIsExact ==
    [][\A c \in Commands :
           /\ ExecuteCommand(c)
           /\ c.name \notin ScreenCommands
           /\ c.name \in RotatingCommands => c.sf
           => \A i \in Axes : IrSat[i] \notin gte'.flag => gte'.ir[i] = gte'.mac[i]]_gteVars
=============================================================================
