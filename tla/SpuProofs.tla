------------------------------ MODULE SpuProofs ------------------------------
(***************************************************************************)
(* Proofs about the sound processor, for any number of voices, any size of *)
(* RAM, captures and FIFO, and whatever the guest writes.  A tick is a     *)
(* loop of samples, each a flush of the FIFO, a loop over the voices, the  *)
(* captures and the reverberator; Goes is what all of them keep, and it is *)
(* transitive, so that it passes from the stages to the tick.              *)
(***************************************************************************)
EXTENDS Spu, Iteration

Address == 0..(RamHalfwords - 1)

Fields ==
    {"ram", "voices", "control", "transfer_address", "transfer_fifo",
     "transfer_type", "irq_address", "noise_mode", "end_flags",
     "cycle_accumulator", "capture_offset", "irq_flag", "irq_edge_pending",
     "reverb_registers", "base_address", "reverb_address", "second_half_tick"}
VoiceFields ==
    {"pitch", "start_address", "repeat_address", "adsr", "envelope",
     "current_address", "block_position", "block_flags", "block_loaded",
     "sound", "output"}
EnvelopeFields == {"level", "counter", "phase"}
ReverbRegisters ==
    [walls : SUBSET Int, passes : SUBSET (Int \X Int), taps : SUBSET Int]

VoiceShape(voice) ==
    DOMAIN voice = VoiceFields /\ DOMAIN voice.envelope = EnvelopeFields

\* What the code's types say of the fields the proofs look into.
Shape(s) ==
    /\ DOMAIN s = Fields
    /\ DOMAIN s.ram = Address
    /\ s.transfer_address \in Address
    /\ s.transfer_fifo \in Seq(Halfwords) /\ Len(s.transfer_fifo) <= FifoDepth
    /\ s.base_address \in Address /\ s.reverb_address \in Int
    /\ s.reverb_registers \in ReverbRegisters
    /\ s.capture_offset \in 0..(CaptureHalfwords - 1)
    /\ s.cycle_accumulator \in Nat
    /\ DOMAIN s.voices = Voices
    /\ \A v \in Voices : VoiceShape(s.voices[v])

\* The voice has been keyed on and plays, or ENDX tells that it ended.
Reported(s, v) ==
    /\ s.voices[v].envelope.phase # "Release"
    /\ s.voices[v].envelope.phase = "Off" => v \in s.end_flags

\* What captures and the reverberator may overwrite.
Free(s, a) == a < 4 * CaptureHalfwords \/ (s.control.reverb /\ a >= s.base_address)

-----------------------------------------------------------------------------
(* What a step of Spu::tick does, from s to t, whichever of its stages and *)
(* however many of them it is.                                             *)

KeepsRegisters(s, t) ==
    /\ t.control = s.control /\ t.base_address = s.base_address
    /\ t.transfer_type = s.transfer_type

\* The flag rises only where it is enabled, and a rise is a pending edge.
KeepsInterrupt(s, t) ==
    /\ s.irq_flag => t.irq_flag
    /\ t.irq_flag => s.irq_flag \/ IrqEnabled(s.control)
    /\ s.irq_edge_pending => t.irq_edge_pending
    /\ t.irq_flag => s.irq_flag \/ t.irq_edge_pending
    /\ t.irq_edge_pending => s.irq_edge_pending \/ ~s.irq_flag
    /\ t.irq_edge_pending => s.irq_edge_pending \/ t.irq_flag

KeepsVoices(s, t) == \A v \in Voices : Reported(s, v) => Reported(t, v)

\* The FIFO is flushed or not touched.
KeepsFifo(s, t) ==
    \/ t.transfer_fifo = s.transfer_fifo /\ t.transfer_address = s.transfer_address
    \/ /\ t.transfer_fifo = << >>
       /\ t.transfer_address
              = (s.transfer_address + Len(s.transfer_fifo)) % RamHalfwords

\* RAM is written where it may be.
KeepsRam(s, t) ==
    \A a \in Address :
        t.ram[a] # s.ram[a] =>
            \/ Free(s, a)
            \/ /\ t.transfer_fifo # s.transfer_fifo
               /\ (a - s.transfer_address) % RamHalfwords < Len(s.transfer_fifo)

\* What was in the FIFO is in RAM, unless it was overwritten again.
Lands(s, t) ==
    (s.transfer_fifo # << >> /\ t.transfer_fifo = << >> /\ s.transfer_type = 2) =>
        \A i \in 1..Len(s.transfer_fifo) : \A a \in Address :
            a = (s.transfer_address + i - 1) % RamHalfwords =>
                t.ram[a] = s.transfer_fifo[i] \/ Free(s, a)

Goes(s, t) ==
    /\ Shape(t)
    /\ KeepsRegisters(s, t) /\ KeepsInterrupt(s, t) /\ KeepsVoices(s, t)
    /\ KeepsFifo(s, t) /\ KeepsRam(s, t) /\ Lands(s, t)

-----------------------------------------------------------------------------

LEMMA SpuConstants ==
  /\ RamHalfwords \in Nat \ {0} /\ UnitHalfwords \in Nat \ {0}
  /\ CaptureHalfwords \in Nat \ {0} /\ 4 * CaptureHalfwords <= RamHalfwords
  /\ FifoDepth \in Nat \ {0} /\ FifoDepth < RamHalfwords
  /\ CyclesPerSample \in Nat \ {0} /\ VoiceCount \in Nat \ {0}
  BY SpuAssumption, VoiceAssumption

LEMMA GoesNowhere ==
  ASSUME NEW s, Shape(s)
  PROVE  Goes(s, s)
<1>1. KeepsRegisters(s, s) /\ KeepsInterrupt(s, s) /\ KeepsVoices(s, s)
  BY DEF KeepsRegisters, KeepsInterrupt, KeepsVoices
<1>2. KeepsFifo(s, s) /\ KeepsRam(s, s) /\ Lands(s, s)
  BY DEF KeepsFifo, KeepsRam, Lands
<1> QED BY <1>1, <1>2 DEF Goes

LEMMA GoesOn ==
  ASSUME NEW s, NEW t, NEW u, Shape(s), Goes(s, t), Goes(t, u)
  PROVE  Goes(s, u)
<1>1. KeepsRegisters(s, u)
  BY DEF Goes, KeepsRegisters
<1>2. KeepsInterrupt(s, u)
  <2>1. t.control = s.control
    BY DEF Goes, KeepsRegisters
  <2>2. KeepsInterrupt(s, t) /\ KeepsInterrupt(t, u)
    BY DEF Goes
  <2> QED BY <2>1, <2>2, Zenon DEF KeepsInterrupt
<1>3. KeepsVoices(s, u)
  BY DEF Goes, KeepsVoices
<1>4. s.transfer_fifo \in Seq(Halfwords) /\ t.transfer_fifo \in Seq(Halfwords)
  BY DEF Goes, Shape
<1>5. \A a : Free(t, a) <=> Free(s, a)
  BY DEF Goes, KeepsRegisters, Free
<1>6. CASE t.transfer_fifo = s.transfer_fifo /\ t.transfer_address = s.transfer_address
  <2>1. KeepsFifo(s, u)
    BY <1>6 DEF Goes, KeepsFifo
  <2>2. KeepsRam(s, u)
    <3> SUFFICES ASSUME NEW a \in Address, u.ram[a] # s.ram[a]
                 PROVE  \/ Free(s, a)
                        \/ /\ u.transfer_fifo # s.transfer_fifo
                           /\ (a - s.transfer_address) % RamHalfwords
                                  < Len(s.transfer_fifo)
      BY DEF KeepsRam
    <3>1. CASE t.ram[a] # s.ram[a]
      BY <1>6, <3>1 DEF Goes, KeepsRam
    <3>2. CASE u.ram[a] # t.ram[a]
      BY <1>5, <1>6, <3>2 DEF Goes, KeepsRam
    <3> QED BY <3>1, <3>2
  <2>3. Lands(s, u)
    <3>1. t.transfer_type = s.transfer_type
      BY DEF Goes, KeepsRegisters
    <3> QED BY <1>5, <1>6, <3>1 DEF Goes, Lands
  <2> QED BY <1>1, <1>2, <1>3, <2>1, <2>2, <2>3 DEF Goes
<1>7. CASE /\ t.transfer_fifo = << >> /\ s.transfer_fifo # << >>
           /\ t.transfer_address
                  = (s.transfer_address + Len(s.transfer_fifo)) % RamHalfwords
  <2>1. u.transfer_fifo = << >> /\ u.transfer_address = t.transfer_address
    <3>1. Len(t.transfer_fifo) = 0
      BY <1>7
    <3>2. t.transfer_address % RamHalfwords = t.transfer_address
      <4>1. t.transfer_address \in Address
        BY DEF Goes, Shape
      <4> QED BY <4>1, SpuConstants DEF Address
    <3>3. t.transfer_address + 0 = t.transfer_address
      BY SpuConstants DEF Goes, Shape, Address
    <3>4. KeepsFifo(t, u)
      BY DEF Goes
    <3> QED BY <1>7, <3>1, <3>2, <3>3, <3>4 DEF KeepsFifo
  <2>2. KeepsFifo(s, u)
    BY <1>7, <2>1 DEF KeepsFifo
  <2>3. \A a \in Address : u.ram[a] # t.ram[a] => Free(s, a)
    BY <1>5, <1>7, <2>1 DEF Goes, KeepsRam
  <2>4. KeepsRam(s, u)
    BY <1>7, <2>1, <2>3 DEF Goes, KeepsRam
  <2>5. Lands(s, u)
    BY <1>7, <2>1, <2>3 DEF Goes, Lands
  <2> QED BY <1>1, <1>2, <1>3, <2>2, <2>4, <2>5 DEF Goes
<1>8. \/ t.transfer_fifo = s.transfer_fifo /\ t.transfer_address = s.transfer_address
      \/ /\ t.transfer_fifo = << >> /\ s.transfer_fifo # << >>
         /\ t.transfer_address
                = (s.transfer_address + Len(s.transfer_fifo)) % RamHalfwords
  <2>1. CASE s.transfer_fifo # << >>
    BY <2>1 DEF Goes, KeepsFifo
  <2>2. CASE s.transfer_fifo = << >>
    <3>1. Len(s.transfer_fifo) = 0
      BY <2>2
    <3>2. s.transfer_address \in Address
      BY DEF Shape
    <3>3. (s.transfer_address + 0) % RamHalfwords = s.transfer_address
      BY <3>2, SpuConstants DEF Address
    <3>4. KeepsFifo(s, t)
      BY DEF Goes
    <3> QED BY <2>2, <3>1, <3>3, <3>4 DEF KeepsFifo
  <2> QED BY <2>1, <2>2
<1> QED BY <1>6, <1>7, <1>8

-----------------------------------------------------------------------------
(* The interrupt.                                                          *)

LEMMA RaisedKeeps ==
  ASSUME NEW s, DOMAIN s = Fields, NEW t, t = RaiseIrq(s)
  PROVE  /\ DOMAIN t = Fields
         /\ \A f \in Fields \ {"irq_flag", "irq_edge_pending"} : t[f] = s[f]
  BY DEF RaiseIrq, Fields

LEMMA RaisedRises ==
  ASSUME NEW s, DOMAIN s = Fields, NEW t, t = RaiseIrq(s)
  PROVE  KeepsInterrupt(s, t)
<1>1. CASE IrqEnabled(s.control) /\ ~s.irq_flag
  <2>1. t.irq_flag = TRUE /\ t.irq_edge_pending = TRUE
    BY <1>1 DEF RaiseIrq, Fields
  <2> QED BY <1>1, <2>1 DEF KeepsInterrupt
<1>2. CASE ~(IrqEnabled(s.control) /\ ~s.irq_flag)
  <2>1. t = s
    BY <1>2 DEF RaiseIrq
  <2> QED BY <2>1 DEF KeepsInterrupt
<1> QED BY <1>1, <1>2

LEMMA TouchedKeeps ==
  ASSUME NEW s, DOMAIN s = Fields, NEW addresses, NEW t, t = TouchIrq(s, addresses)
  PROVE  /\ DOMAIN t = Fields
         /\ \A f \in Fields \ {"irq_flag", "irq_edge_pending"} : t[f] = s[f]
         /\ KeepsInterrupt(s, t)
<1>1. t = s \/ t = RaiseIrq(s)
  BY DEF TouchIrq
<1>2. KeepsInterrupt(s, s)
  BY DEF KeepsInterrupt
<1> QED BY <1>1, <1>2, RaisedKeeps, RaisedRises

-----------------------------------------------------------------------------
(* Flushing the FIFO.                                                      *)

Scratch == {"ram", "transfer_address", "transfer_fifo", "irq_flag",
            "irq_edge_pending"}

\* t is s after the first n half words of input have been written.
Flushed(s, input, n, t) ==
    /\ DOMAIN t = Fields /\ \A f \in Fields \ Scratch : t[f] = s[f]
    /\ KeepsInterrupt(s, t)
    /\ t.transfer_fifo = << >>
    /\ t.transfer_address = (s.transfer_address + n) % RamHalfwords
    /\ DOMAIN t.ram = Address
    /\ \A a \in Address : \A k \in Nat :
          k = (a - s.transfer_address) % RamHalfwords =>
              t.ram[a] = IF k < n THEN input[k + 1] ELSE s.ram[a]

LEMMA FlushBegins ==
  ASSUME NEW s, Shape(s), NEW input, NEW t, t = [s EXCEPT !.transfer_fifo = << >>]
  PROVE  Flushed(s, input, 0, t)
<1>1. /\ DOMAIN t = Fields /\ t.transfer_fifo = << >>
      /\ \A f \in Fields \ {"transfer_fifo"} : t[f] = s[f]
  BY DEF Shape, Fields
<1>2. /\ t.ram = s.ram /\ t.transfer_address = s.transfer_address
      /\ t.irq_flag = s.irq_flag /\ t.irq_edge_pending = s.irq_edge_pending
      /\ \A f \in Fields \ Scratch : t[f] = s[f]
  BY <1>1 DEF Fields, Scratch
<1>3. KeepsInterrupt(s, t)
  BY <1>2 DEF KeepsInterrupt
<1>4. PICK x \in Address : x = s.transfer_address
  BY DEF Shape
<1>5. (x + 0) % RamHalfwords = x
  BY SpuConstants DEF Address
<1>6. ASSUME NEW a \in Address, NEW k \in Nat
      PROVE  t.ram[a] = IF k < 0 THEN input[k + 1] ELSE s.ram[a]
  BY <1>2
<1> QED BY <1>1, <1>2, <1>3, <1>4, <1>5, <1>6 DEF Flushed, Shape

LEMMA Writes ==
  ASSUME NEW s, DOMAIN s = Fields, NEW h, NEW t, t = WriteRamHalfword(s, h)
  PROVE  /\ DOMAIN t = Fields
         /\ \A f \in Fields \ {"ram", "transfer_address", "irq_flag",
                               "irq_edge_pending"} : t[f] = s[f]
         /\ KeepsInterrupt(s, t)
         /\ t.ram = [s.ram EXCEPT ![s.transfer_address] = h]
         /\ t.transfer_address = (s.transfer_address + 1) % RamHalfwords
<1> DEFINE a == s.transfer_address
<1>1. PICK u : u = TouchIrq(s, {a})
  OBVIOUS
<1>2. /\ DOMAIN u = Fields /\ KeepsInterrupt(s, u)
      /\ \A f \in Fields \ {"irq_flag", "irq_edge_pending"} : u[f] = s[f]
  BY <1>1, TouchedKeeps
<1>3. t = [u EXCEPT !.ram[a] = h, !.transfer_address = (a + 1) % RamHalfwords]
  BY <1>1 DEF WriteRamHalfword
<1>4. u.ram = s.ram
  BY <1>2 DEF Fields
<1>5. /\ DOMAIN t = Fields /\ t.ram = [s.ram EXCEPT ![a] = h]
      /\ t.transfer_address = (a + 1) % RamHalfwords
      /\ \A f \in Fields \ {"ram", "transfer_address"} : t[f] = u[f]
  <2>1. PICK b, c : b = a /\ c = (a + 1) % RamHalfwords
    OBVIOUS
  <2>2. t = [u EXCEPT !.ram[b] = h, !.transfer_address = c]
    BY <1>3, <2>1
  <2> HIDE DEF a
  <2>3. DOMAIN t = Fields
    BY <1>2, <2>2 DEF Fields
  <2>4. t.ram = [s.ram EXCEPT ![b] = h] /\ t.transfer_address = c
    BY <1>2, <1>4, <2>2 DEF Fields
  <2>5. \A f \in Fields \ {"ram", "transfer_address"} : t[f] = u[f]
    BY <1>2, <2>2 DEF Fields
  <2> QED BY <2>1, <2>3, <2>4, <2>5
<1>6. t.irq_flag = u.irq_flag /\ t.irq_edge_pending = u.irq_edge_pending
  BY <1>5 DEF Fields
<1>7. KeepsInterrupt(s, t)
  BY <1>2, <1>6 DEF KeepsInterrupt
<1> QED BY <1>2, <1>5, <1>7

LEMMA InterruptGoesOn ==
  ASSUME NEW s, NEW t, NEW u, KeepsInterrupt(s, t), KeepsInterrupt(t, u),
         t.control = s.control
  PROVE  KeepsInterrupt(s, u)
  BY Zenon DEF KeepsInterrupt

LEMMA FlushGoesOn ==
  ASSUME NEW s, Shape(s), NEW input, NEW n \in Nat, n < RamHalfwords, NEW t,
         Flushed(s, input, n, t), NEW u, u = WriteRamHalfword(t, input[n + 1])
  PROVE  Flushed(s, input, n + 1, u)
<1>1. /\ DOMAIN u = Fields /\ KeepsInterrupt(t, u)
      /\ \A f \in Fields \ {"ram", "transfer_address", "irq_flag",
                            "irq_edge_pending"} : u[f] = t[f]
      /\ u.ram = [t.ram EXCEPT ![t.transfer_address] = input[n + 1]]
      /\ u.transfer_address = (t.transfer_address + 1) % RamHalfwords
  BY Writes DEF Flushed
<1>2. /\ u.transfer_fifo = << >> /\ \A f \in Fields \ Scratch : u[f] = s[f]
      /\ t.control = s.control
  BY <1>1 DEF Flushed, Fields, Scratch
<1>3. KeepsInterrupt(s, u)
  BY <1>1, <1>2, InterruptGoesOn DEF Flushed
<1>4. PICK x \in Address : x = s.transfer_address
  BY DEF Shape
<1>5. t.transfer_address = (x + n) % RamHalfwords /\ DOMAIN t.ram = Address
  BY <1>4 DEF Flushed
<1>6. u.transfer_address = (x + (n + 1)) % RamHalfwords
  <2>1. PICK y \in Int : y = x + n
    BY <1>4 DEF Address
  <2>2. ((y % RamHalfwords) + 1) % RamHalfwords = (y + 1) % RamHalfwords
    BY <2>1, SpuConstants, RemainderAdds
  <2>3. y + 1 = x + (n + 1)
    BY <2>1, <1>4 DEF Address
  <2> QED BY <1>1, <1>5, <2>1, <2>2, <2>3
<1>7. ASSUME NEW a \in Address, NEW k \in Nat, k = (a - x) % RamHalfwords
      PROVE  u.ram[a] = IF k < n + 1 THEN input[k + 1] ELSE s.ram[a]
  <2>1. t.ram[a] = IF k < n THEN input[k + 1] ELSE s.ram[a]
    BY <1>4, <1>7 DEF Flushed
  <2>2. (x + n) % RamHalfwords = a <=> k = n
    <3>1. x \in Int /\ n \in 0..(RamHalfwords - 1) /\ a \in 0..(RamHalfwords - 1)
      BY <1>4, SpuConstants DEF Address
    <3>2. RamHalfwords \in Nat \ {0}
      BY SpuConstants
    <3>3. (x + n) % RamHalfwords = a => (a - x) % RamHalfwords = n
      BY <3>1, <3>2, RingPlace
    <3>4. (a - x) % RamHalfwords = n => (x + n) % RamHalfwords = a
      BY <3>1, <3>2, RingIndex
    <3> QED BY <3>3, <3>4, <1>7
  <2>3. u.ram[a] = IF k = n THEN input[n + 1] ELSE t.ram[a]
    BY <1>1, <1>5, <1>7, <2>2
  <2> QED BY <2>1, <2>3, <1>7
<1>8. DOMAIN u.ram = Address
  BY <1>1, <1>5
<1> QED BY <1>1, <1>2, <1>3, <1>4, <1>6, <1>7, <1>8 DEF Flushed

LEMMA FlushEnds ==
  ASSUME NEW s, Shape(s), NEW t, t = FlushTransferFifo(s)
  PROVE  Flushed(s, Arranged(s.transfer_fifo, s.transfer_type),
                 Len(s.transfer_fifo), t)
<1>1. PICK input : input = Arranged(s.transfer_fifo, s.transfer_type)
  OBVIOUS
<1>2. PICK N \in Nat : N = Len(s.transfer_fifo) /\ N < RamHalfwords
  BY SpuConstants DEF Shape
<1> DEFINE f == CHOOSE g : g = [n \in 0..N |->
                    IF n = 0 THEN [s EXCEPT !.transfer_fifo = << >>]
                    ELSE WriteRamHalfword(g[n - 1], input[n])]
<1>3. t = f[N]
  BY <1>1, <1>2 DEF FlushTransferFifo
<1> DEFINE T == {k \in Nat : \E g : g = [n \in 0..k |->
                    IF n = 0 THEN [s EXCEPT !.transfer_fifo = << >>]
                    ELSE WriteRamHalfword(g[n - 1], input[n])]}
<1>4. 0 \in T
  <2> DEFINE g == [n \in 0..0 |-> [s EXCEPT !.transfer_fifo = << >>]]
  <2>1. g = [n \in 0..0 |-> IF n = 0 THEN [s EXCEPT !.transfer_fifo = << >>]
                            ELSE WriteRamHalfword(g[n - 1], input[n])]
    OBVIOUS
  <2> HIDE DEF g
  <2> QED BY <2>1
<1>5. ASSUME NEW k \in Nat, k \in T PROVE k + 1 \in T
  <2>1. PICK g : g = [n \in 0..k |->
                        IF n = 0 THEN [s EXCEPT !.transfer_fifo = << >>]
                        ELSE WriteRamHalfword(g[n - 1], input[n])]
    BY <1>5
  <2> DEFINE h == [n \in 0..(k + 1) |->
                     IF n = k + 1 THEN WriteRamHalfword(g[k], input[k + 1]) ELSE g[n]]
  <2>2. \A n \in 0..(k + 1) :
            h[n] = IF n = k + 1 THEN WriteRamHalfword(g[k], input[k + 1]) ELSE g[n]
    OBVIOUS
  <2>3. h = [n \in 0..(k + 1) |-> h[n]]
    OBVIOUS
  <2> HIDE DEF h
  <2>4. ASSUME NEW n \in 0..(k + 1)
        PROVE  h[n] = IF n = 0 THEN [s EXCEPT !.transfer_fifo = << >>]
                      ELSE WriteRamHalfword(h[n - 1], input[n])
    <3>1. CASE n = k + 1
      <4>1. n # 0 /\ n - 1 = k /\ k \in 0..(k + 1) /\ k # k + 1
        BY <3>1
      <4>2. h[k] = g[k]
        BY <4>1, <2>2
      <4> QED BY <3>1, <4>1, <4>2, <2>2
    <3>2. CASE n # k + 1
      <4>1. n \in 0..k
        BY <3>2
      <4>2. h[n] = g[n]
        BY <2>2, <3>2
      <4>3. g[n] = IF n = 0 THEN [s EXCEPT !.transfer_fifo = << >>]
                   ELSE WriteRamHalfword(g[n - 1], input[n])
        BY <2>1, <4>1, Zenon
      <4>4. n # 0 => n - 1 \in 0..(k + 1) /\ n - 1 # k + 1
        BY <4>1
      <4>5. n # 0 => h[n - 1] = g[n - 1]
        BY <4>4, <2>2
      <4> QED BY <4>2, <4>3, <4>5
    <3> QED BY <3>1, <3>2
  <2>5. h = [n \in 0..(k + 1) |-> IF n = 0 THEN [s EXCEPT !.transfer_fifo = << >>]
                                  ELSE WriteRamHalfword(h[n - 1], input[n])]
    BY <2>3, <2>4
  <2> QED BY <2>5
<1>6. N \in T
  <2>1. \A k \in Nat : k \in T => k + 1 \in T
    BY <1>5
  <2> HIDE DEF T
  <2> QED BY <1>2, <1>4, <2>1, SetInduction
<1>7. f = [n \in 0..N |-> IF n = 0 THEN [s EXCEPT !.transfer_fifo = << >>]
                          ELSE WriteRamHalfword(f[n - 1], input[n])]
  <2>1. \E g : g = [n \in 0..N |-> IF n = 0 THEN [s EXCEPT !.transfer_fifo = << >>]
                                   ELSE WriteRamHalfword(g[n - 1], input[n])]
    BY <1>6
  <2> QED BY <2>1, Zenon
<1> HIDE DEF f
<1> DEFINE E == {k \in Nat : k <= N => Flushed(s, input, k, f[k])}
<1>8. 0 \in E
  <2>1. f[0] = [s EXCEPT !.transfer_fifo = << >>]
    BY <1>2, <1>7
  <2> QED BY <2>1, FlushBegins
<1>9. ASSUME NEW k \in Nat, k \in E PROVE k + 1 \in E
  <2> SUFFICES ASSUME k + 1 <= N PROVE Flushed(s, input, k + 1, f[k + 1])
    OBVIOUS
  <2>1. k + 1 \in 0..N /\ k + 1 # 0 /\ (k + 1) - 1 = k /\ k <= N /\ k < RamHalfwords
    BY <1>2, <1>9, SpuConstants
  <2>2. f[k + 1] = WriteRamHalfword(f[k], input[k + 1])
    BY <1>7, <2>1
  <2>3. Flushed(s, input, k, f[k])
    BY <1>9, <2>1
  <2> QED BY <2>1, <2>2, <2>3, <1>9, FlushGoesOn
<1>10. N \in E
  <2>1. \A k \in Nat : k \in E => k + 1 \in E
    BY <1>9
  <2> HIDE DEF E
  <2> QED BY <1>2, <1>8, <2>1, SetInduction
<1> QED BY <1>1, <1>2, <1>3, <1>10

LEMMA FlushGoes ==
  ASSUME NEW s, Shape(s), NEW t, t = FlushTransferFifo(s)
  PROVE  Goes(s, t)
<1>1. PICK input : input = Arranged(s.transfer_fifo, s.transfer_type)
  OBVIOUS
<1>2. PICK N \in Nat : N = Len(s.transfer_fifo) /\ N < RamHalfwords
  BY SpuConstants DEF Shape
<1>3. Flushed(s, input, N, t)
  BY <1>1, <1>2, FlushEnds
<1>4. PICK x \in Address : x = s.transfer_address
  BY DEF Shape
<1>5. /\ DOMAIN t = Fields /\ \A f \in Fields \ Scratch : t[f] = s[f]
      /\ KeepsInterrupt(s, t) /\ t.transfer_fifo = << >>
      /\ t.transfer_address = (x + N) % RamHalfwords
      /\ DOMAIN t.ram = Address
  BY <1>3, <1>4 DEF Flushed
<1>6. /\ t.control = s.control /\ t.base_address = s.base_address
      /\ t.reverb_address = s.reverb_address /\ t.reverb_registers = s.reverb_registers
      /\ t.capture_offset = s.capture_offset
      /\ t.cycle_accumulator = s.cycle_accumulator /\ t.voices = s.voices
      /\ t.end_flags = s.end_flags /\ t.transfer_type = s.transfer_type
  BY <1>5 DEF Fields, Scratch
<1>7. Shape(t)
  <2>1. t.transfer_address \in Address
    <3>1. x + N \in Int
      BY <1>4 DEF Address
    <3> QED BY <1>5, <3>1, SpuConstants DEF Address
  <2>2. t.transfer_fifo \in Seq(Halfwords) /\ Len(t.transfer_fifo) <= FifoDepth
    BY <1>5, SpuConstants
  <2> QED BY <1>5, <1>6, <2>1, <2>2 DEF Shape
<1>8. KeepsRegisters(s, t) /\ KeepsFifo(s, t)
  BY <1>2, <1>4, <1>5, <1>6 DEF KeepsRegisters, KeepsFifo
<1>9. KeepsVoices(s, t)
  BY <1>6 DEF KeepsVoices, Reported
<1>10. ASSUME NEW a \in Address
       PROVE  \E k \in 0..(RamHalfwords - 1) :
                 /\ k = (a - x) % RamHalfwords
                 /\ t.ram[a] = IF k < N THEN input[k + 1] ELSE s.ram[a]
  <2>1. a - x \in Int
    BY <1>4 DEF Address
  <2>2. PICK k \in 0..(RamHalfwords - 1) : k = (a - x) % RamHalfwords
    BY <2>1, SpuConstants
  <2>3. k \in Nat
    BY <2>2
  <2> QED BY <1>3, <1>4, <2>2, <2>3 DEF Flushed
<1>11. KeepsRam(s, t)
  <2> SUFFICES ASSUME NEW a \in Address, t.ram[a] # s.ram[a]
               PROVE  /\ t.transfer_fifo # s.transfer_fifo
                      /\ (a - x) % RamHalfwords < N
    BY <1>2, <1>4 DEF KeepsRam
  <2>1. PICK k \in 0..(RamHalfwords - 1) :
            /\ k = (a - x) % RamHalfwords
            /\ t.ram[a] = IF k < N THEN input[k + 1] ELSE s.ram[a]
    BY <1>10
  <2>2. k < N
    BY <2>1
  <2>3. s.transfer_fifo # << >>
    BY <1>2, <2>1, <2>2
  <2> QED BY <1>5, <2>1, <2>2, <2>3
<1>12. Lands(s, t)
  <2> SUFFICES ASSUME s.transfer_type = 2, NEW i \in 1..N, NEW a \in Address,
                      a = (x + i - 1) % RamHalfwords
               PROVE  t.ram[a] = s.transfer_fifo[i]
    BY <1>2, <1>4 DEF Lands
  <2>1. input = s.transfer_fifo
    BY <1>1 DEF Arranged
  <2>2. PICK j \in 0..(RamHalfwords - 1) : j = i - 1
    BY <1>2, SpuConstants
  <2>3. x \in Int /\ a \in 0..(RamHalfwords - 1) /\ RamHalfwords \in Nat \ {0}
    BY <1>4, SpuConstants DEF Address
  <2>4. (x + j) % RamHalfwords = a
    <3>1. x + j = x + i - 1
      BY <2>2, <2>3
    <3> QED BY <3>1
  <2>5. (a - x) % RamHalfwords = j
    BY <2>2, <2>3, <2>4, RingPlace
  <2>6. t.ram[a] = input[j + 1]
    <3>1. PICK k \in 0..(RamHalfwords - 1) :
            /\ k = (a - x) % RamHalfwords
            /\ t.ram[a] = IF k < N THEN input[k + 1] ELSE s.ram[a]
      BY <1>10
    <3>2. k = j /\ k < N
      BY <2>2, <2>5, <3>1
    <3> QED BY <3>1, <3>2
  <2> QED BY <2>1, <2>2, <2>6
<1> QED BY <1>5, <1>7, <1>8, <1>9, <1>11, <1>12 DEF Goes

-----------------------------------------------------------------------------
(* The voices.                                                             *)

Playing(e) == e.phase # "Off" /\ e.phase # "Release"

LEMMA StepKeepsPhase ==
  ASSUME NEW e, DOMAIN e = EnvelopeFields, NEW rate, NEW n, n = StepEnvelope(e, rate)
  PROVE  DOMAIN n = EnvelopeFields /\ n.phase = e.phase
<1> DEFINE counter == e.counter + RateIncrement(rate, e.level)
           moved == e.level + RateStep(rate, e.level)
           level == IF rate.decreasing THEN AtLeast(moved, 0)
                    ELSE AtLeast(AtMost(moved, 32767), -32768)
<1>1. CASE rate.frozen
  <2>1. n = e
    BY <1>1 DEF StepEnvelope
  <2> QED BY <2>1
<1>2. CASE ~rate.frozen /\ counter < 32768
  <2>1. n = [e EXCEPT !.counter = counter]
    BY <1>2 DEF StepEnvelope
  <2> HIDE DEF counter
  <2> QED BY <2>1 DEF EnvelopeFields
<1>3. CASE ~rate.frozen /\ ~(counter < 32768)
  <2>1. PICK c : c = counter - 32768
    OBVIOUS
  <2>2. n = [e EXCEPT !.counter = c, !.level = level]
    BY <1>3, <2>1 DEF StepEnvelope
  <2> HIDE DEF level
  <2> QED BY <2>2 DEF EnvelopeFields
<1> QED BY <1>1, <1>2, <1>3

LEMMA EndKeepsPlaying ==
  ASSUME NEW e, DOMAIN e = EnvelopeFields, NEW adsr, NEW n, n = EndPhase(e, adsr)
  PROVE  /\ DOMAIN n = EnvelopeFields
         /\ e.phase # "Release" => n.phase # "Release"
         /\ Playing(e) => Playing(n)
<1>1. PICK target : target = SustainTarget(adsr)
  OBVIOUS
<1>2. \/ n = e
      \/ n = [level |-> 32767, counter |-> 0, phase |-> "Decay"]
      \/ n = [level |-> target, counter |-> 0, phase |-> "Sustain"]
      \/ n = Silence /\ e.phase = "Release"
  BY <1>1 DEF EndPhase
<1> QED BY <1>2 DEF Playing, Silence, EnvelopeFields

LEMMA EnvelopeKeepsPlaying ==
  ASSUME NEW e, DOMAIN e = EnvelopeFields, NEW adsr, NEW n, n = EnvelopeTick(e, adsr)
  PROVE  /\ DOMAIN n = EnvelopeFields
         /\ e.phase # "Release" => n.phase # "Release"
         /\ Playing(e) => Playing(n)
<1>1. CASE e.phase = "Off"
  <2>1. n = e
    BY <1>1 DEF EnvelopeTick
  <2> QED BY <2>1
<1>2. CASE e.phase # "Off"
  <2>1. PICK stepped : stepped = StepEnvelope(e, Rate(adsr, e.phase))
    OBVIOUS
  <2>2. n = EndPhase(stepped, adsr)
    BY <1>2, <2>1 DEF EnvelopeTick, With
  <2>3. DOMAIN stepped = EnvelopeFields /\ stepped.phase = e.phase
    BY <2>1, StepKeepsPhase
  <2>4. /\ DOMAIN n = EnvelopeFields
        /\ stepped.phase # "Release" => n.phase # "Release"
        /\ Playing(stepped) => Playing(n)
    BY <2>2, <2>3, EndKeepsPlaying
  <2> QED BY <2>3, <2>4 DEF Playing
<1> QED BY <1>1, <1>2

\* VoiceTick from the envelope's tick and from the decoding on.
Decoded(v, unit, noise, decoded) ==
    With(Advance(decoded, noise),
         LAMBDA advanced : Ticked(v, unit, noise, decoded, advanced))
Enveloped(v, ram, unit, noise, enveloped) ==
    IF enveloped.envelope.phase = "Off"
    THEN [voice |-> [enveloped EXCEPT !.output = 0],
          end_reached |-> FALSE, irq |-> FALSE]
    ELSE With(IF enveloped.block_loaded THEN enveloped
              ELSE DecodeBlock(enveloped, ram),
              LAMBDA decoded : Decoded(v, unit, noise, decoded))

\* Only the end of a block without a loop silences a voice that is not being
\* released, and it says so.
LEMMA VoiceGoesOn ==
  ASSUME NEW v, VoiceShape(v), NEW ram, NEW unit, NEW noise,
         NEW tick, tick = VoiceTick(v, ram, unit, noise)
  PROVE  /\ VoiceShape(tick.voice)
         /\ v.envelope.phase # "Release" => tick.voice.envelope.phase # "Release"
         /\ Playing(v.envelope) /\ tick.voice.envelope.phase = "Off" => tick.end_reached
<1>1. PICK e : e = EnvelopeTick(v.envelope, v.adsr)
  OBVIOUS
<1>2. PICK w : w = [v EXCEPT !.envelope = e]
  OBVIOUS
<1>3. /\ DOMAIN e = EnvelopeFields
      /\ v.envelope.phase # "Release" => e.phase # "Release"
      /\ Playing(v.envelope) => Playing(e)
  BY <1>1, EnvelopeKeepsPlaying DEF VoiceShape
<1>4. DOMAIN w = VoiceFields /\ w.envelope = e
  BY <1>2 DEF VoiceShape, VoiceFields
<1>5. w = [v EXCEPT !.envelope = EnvelopeTick(@, v.adsr)]
  BY <1>1, <1>2
<1>6. CASE e.phase = "Off"
  <2>1. tick = [voice |-> [w EXCEPT !.output = 0],
                end_reached |-> FALSE, irq |-> FALSE]
    BY <1>4, <1>5, <1>6 DEF VoiceTick, With
  <2>2. tick.voice = [w EXCEPT !.output = 0]
    BY <2>1
  <2>3. DOMAIN tick.voice = VoiceFields /\ tick.voice.envelope = e
    BY <1>4, <2>2 DEF VoiceFields
  <2> QED BY <1>3, <1>6, <2>3 DEF VoiceShape, Playing
<1>7. CASE e.phase # "Off"
  <2>1. PICK d : d = IF w.block_loaded THEN w ELSE DecodeBlock(w, ram)
    OBVIOUS
  <2>2. PICK a : a = Advance(d, noise)
    OBVIOUS
  <2>3. tick = Ticked(v, unit, noise, d, a)
    <3>1. tick = With([v EXCEPT !.envelope = EnvelopeTick(@, v.adsr)],
                      LAMBDA x : Enveloped(v, ram, unit, noise, x))
      BY DEF VoiceTick, Enveloped, Decoded
    <3>2. tick = Enveloped(v, ram, unit, noise, w)
      BY <1>5, <3>1 DEF With
    <3>3. tick = With(d, LAMBDA y : Decoded(v, unit, noise, y))
      BY <1>4, <1>7, <2>1, <3>2 DEF Enveloped
    <3>4. tick = Decoded(v, unit, noise, d)
      BY <3>3 DEF With
    <3> QED BY <2>2, <3>4 DEF Decoded, With
  <2>4. DOMAIN d = VoiceFields /\ d.envelope = e
    <3>1. CASE d = w
      BY <1>4, <3>1
    <3>2. CASE d = DecodeBlock(w, ram)
      <4>1. PICK x, y, z : d = [w EXCEPT !.block_flags = x, !.block_loaded = TRUE,
                                         !.sound = y, !.repeat_address = z]
        BY <3>2 DEF DecodeBlock
      <4> QED BY <1>4, <4>1 DEF VoiceFields
    <3> QED BY <2>1, <3>1, <3>2
  <2>5. /\ DOMAIN a = VoiceFields /\ DOMAIN a.envelope = EnvelopeFields
        /\ \/ a.envelope = e
           \/ a.envelope = Silence /\ a.block_loaded = FALSE /\ EndsSound(d.block_flags)
    <3>1. PICK position : position = d.block_position + AtMost(d.pitch, MaxStep)
      OBVIOUS
    <3>2. PICK rest : rest = position - BlockEnd
      OBVIOUS
    <3>3. PICK m : m = [d EXCEPT !.block_position = rest]
      OBVIOUS
    <3>4. a = d \/ a = [d EXCEPT !.block_position = position] \/ a = FinishBlock(m)
      BY <2>2, <3>1, <3>2, <3>3 DEF Advance
    <3>5. CASE a = d
      BY <1>3, <2>4, <3>5
    <3>6. CASE a = [d EXCEPT !.block_position = position]
      BY <1>3, <2>4, <3>6 DEF VoiceFields
    <3>7. CASE a = FinishBlock(m)
      <4>1. DOMAIN m = VoiceFields /\ m.envelope = e /\ m.block_flags = d.block_flags
        BY <2>4, <3>3 DEF VoiceFields
      <4>2. PICK n : n = [m EXCEPT !.block_loaded = FALSE]
        OBVIOUS
      <4>3. PICK j : j = [n EXCEPT !.current_address = m.repeat_address * UnitHalfwords]
        OBVIOUS
      <4>4. PICK far : far = (n.current_address + 2 * UnitHalfwords) % RamHalfwords
        OBVIOUS
      <4>5. \/ a = [n EXCEPT !.current_address = far]
            \/ a = j
            \/ a = [j EXCEPT !.envelope = Silence] /\ EndsSound(m.block_flags)
        BY <3>7, <4>2, <4>3, <4>4 DEF FinishBlock
      <4>6. DOMAIN n = VoiceFields /\ n.envelope = e /\ n.block_loaded = FALSE
        BY <4>1, <4>2 DEF VoiceFields
      <4>7. DOMAIN j = VoiceFields /\ j.envelope = e /\ j.block_loaded = FALSE
        BY <4>3, <4>6 DEF VoiceFields
      <4>8. DOMAIN Silence = EnvelopeFields
        BY DEF Silence, EnvelopeFields
      <4>9. CASE a = [n EXCEPT !.current_address = far]
        BY <1>3, <4>6, <4>9 DEF VoiceFields
      <4>10. CASE a = j
        BY <1>3, <4>7, <4>10
      <4>11. CASE a = [j EXCEPT !.envelope = Silence] /\ EndsSound(m.block_flags)
        <5>1. DOMAIN a = VoiceFields /\ a.envelope = Silence /\ a.block_loaded = FALSE
          BY <4>7, <4>11 DEF VoiceFields
        <5> QED BY <4>1, <4>8, <4>11, <5>1
      <4> QED BY <4>5, <4>9, <4>10, <4>11
    <3> QED BY <3>4, <3>5, <3>6, <3>7
  <2>6. /\ DOMAIN tick.voice = VoiceFields /\ tick.voice.envelope = a.envelope
        /\ tick.end_reached <=> (~a.block_loaded /\ EndsSound(d.block_flags))
    <3> DEFINE x == CASE d.envelope.level = 0 -> 0
                      [] d.envelope.level # 0 /\ noise -> 1
                      [] OTHER -> d.sound
               ended == ~a.block_loaded /\ EndsSound(d.block_flags)
               touched == ~v.block_loaded /\ BlockTouches(v.current_address, unit)
    <3>0. tick = [voice |-> [a EXCEPT !.output = x], end_reached |-> ended,
                  irq |-> touched]
      BY <2>3 DEF Ticked
    <3> HIDE DEF x, touched, ended
    <3>1. tick.voice = [a EXCEPT !.output = x]
      BY <3>0
    <3>2. tick.end_reached <=> (~a.block_loaded /\ EndsSound(d.block_flags))
      <4>1. tick.end_reached = ended
        BY <3>0
      <4> QED BY <4>1, Zenon DEF ended
    <3>3. DOMAIN tick.voice = VoiceFields /\ tick.voice.envelope = a.envelope
      BY <2>5, <3>1 DEF VoiceFields
    <3> QED BY <3>2, <3>3
  <2>7. VoiceShape(tick.voice)
    BY <2>5, <2>6 DEF VoiceShape
  <2>8. v.envelope.phase # "Release" => tick.voice.envelope.phase # "Release"
    BY <1>3, <2>5, <2>6 DEF Silence
  <2>9. Playing(v.envelope) /\ tick.voice.envelope.phase = "Off" => tick.end_reached
    BY <1>3, <2>5, <2>6 DEF Playing
  <2> QED BY <2>7, <2>8, <2>9
<1> QED BY <1>6, <1>7

LEMMA RunVoiceGoes ==
  ASSUME NEW s, Shape(s), NEW v \in Voices, NEW t, t = RunVoice(s, v)
  PROVE  Goes(s, t)
<1>1. PICK tick : tick = VoiceTick(s.voices[v], s.ram, s.irq_address, v \in s.noise_mode)
  OBVIOUS
<1>2. t = Ran(s, v, tick)
  BY <1>1 DEF RunVoice, With
<1>3. PICK flags : flags = IF tick.end_reached THEN s.end_flags \cup {v} ELSE s.end_flags
  OBVIOUS
<1>4. PICK r : r = [s EXCEPT !.voices[v] = tick.voice, !.end_flags = flags]
  OBVIOUS
<1>5. t = IF tick.irq THEN RaiseIrq(r) ELSE r
  BY <1>2, <1>3, <1>4 DEF Ran
<1>6. DOMAIN s = Fields
  BY DEF Shape
<1>7. /\ DOMAIN r = Fields /\ r.end_flags = flags
      /\ r.voices = [s.voices EXCEPT ![v] = tick.voice]
      /\ \A f \in Fields \ {"voices", "end_flags"} : r[f] = s[f]
  <2>1. PICK voices : voices = [s.voices EXCEPT ![v] = tick.voice]
    OBVIOUS
  <2>2. r = [s EXCEPT !.voices = voices, !.end_flags = flags]
    BY <1>4, <2>1
  <2> QED BY <1>6, <2>1, <2>2 DEF Fields
<1>8. /\ DOMAIN t = Fields
      /\ \A f \in Fields \ {"irq_flag", "irq_edge_pending"} : t[f] = r[f]
      /\ KeepsInterrupt(r, t)
  <2>1. KeepsInterrupt(r, r)
    BY DEF KeepsInterrupt
  <2>2. CASE t = r
    BY <1>7, <2>1, <2>2
  <2>3. CASE t = RaiseIrq(r)
    BY <1>7, <2>3, RaisedKeeps, RaisedRises
  <2> QED BY <1>5, <2>2, <2>3
<1>9. /\ t.control = s.control /\ t.base_address = s.base_address
      /\ t.reverb_address = s.reverb_address /\ t.reverb_registers = s.reverb_registers
      /\ t.capture_offset = s.capture_offset
      /\ t.cycle_accumulator = s.cycle_accumulator /\ t.voices = r.voices
      /\ t.end_flags = flags /\ t.transfer_type = s.transfer_type
      /\ t.ram = s.ram /\ t.transfer_address = s.transfer_address
      /\ t.transfer_fifo = s.transfer_fifo
      /\ r.irq_flag = s.irq_flag /\ r.irq_edge_pending = s.irq_edge_pending
      /\ r.control = s.control
  BY <1>7, <1>8 DEF Fields
<1>10. KeepsInterrupt(s, t)
  BY <1>8, <1>9 DEF KeepsInterrupt
<1>11. /\ VoiceShape(tick.voice)
       /\ s.voices[v].envelope.phase # "Release" => tick.voice.envelope.phase # "Release"
       /\ Playing(s.voices[v].envelope) /\ tick.voice.envelope.phase = "Off"
              => tick.end_reached
  BY <1>1, VoiceGoesOn DEF Shape
<1>12. /\ DOMAIN t.voices = Voices
       /\ \A w \in Voices : t.voices[w] = IF w = v THEN tick.voice ELSE s.voices[w]
  BY <1>7, <1>9 DEF Shape
<1>13. Shape(t)
  BY <1>8, <1>9, <1>11, <1>12 DEF Shape
<1>14. KeepsRegisters(s, t) /\ KeepsFifo(s, t) /\ KeepsRam(s, t) /\ Lands(s, t)
  BY <1>9 DEF KeepsRegisters, KeepsFifo, KeepsRam, Lands
<1>15. ASSUME NEW w \in Voices, Reported(s, w) PROVE Reported(t, w)
  <2>1. w \in s.end_flags => w \in t.end_flags
    BY <1>3, <1>9
  <2>2. CASE w # v
    BY <1>12, <1>15, <2>1, <2>2 DEF Reported
  <2>3. CASE w = v
    BY <1>3, <1>9, <1>11, <1>12, <1>15, <2>1, <2>3 DEF Reported, Playing
  <2> QED BY <2>2, <2>3
<1> QED BY <1>10, <1>13, <1>14, <1>15 DEF Goes, KeepsVoices

VoiceAfter(s, v) == With(s, LAMBDA t : RunVoice(t, v))

\* All the voices, one after the other.
LEMMA RunVoicesGoes ==
  ASSUME NEW s, Shape(s), NEW t, t = RunVoices(s)
  PROVE  Goes(s, t)
<1> DEFINE f == CHOOSE g : g = [n \in 0..VoiceCount |->
                    IF n = 0 THEN s
                    ELSE VoiceAfter(g[n - 1], n - 1)]
<1>1. t = f[VoiceCount]
  BY DEF RunVoices, VoiceAfter
<1>2. ASSUME NEW u, NEW n PROVE VoiceAfter(u, n) = RunVoice(u, n)
  BY DEF With, VoiceAfter
<1> DEFINE T == {k \in Nat : \E g : g = [n \in 0..k |->
                    IF n = 0 THEN s
                    ELSE VoiceAfter(g[n - 1], n - 1)]}
<1>3. 0 \in T
  <2> DEFINE g == [n \in 0..0 |-> s]
  <2>1. g = [n \in 0..0 |-> IF n = 0 THEN s
                            ELSE VoiceAfter(g[n - 1], n - 1)]
    OBVIOUS
  <2> HIDE DEF g
  <2> QED BY <2>1
<1>4. ASSUME NEW k \in Nat, k \in T PROVE k + 1 \in T
  <2>1. PICK g : g = [n \in 0..k |->
                        IF n = 0 THEN s
                        ELSE VoiceAfter(g[n - 1], n - 1)]
    BY <1>4
  <2> DEFINE h == [n \in 0..(k + 1) |->
                     IF n = k + 1 THEN RunVoice(g[k], k) ELSE g[n]]
  <2>2. \A n \in 0..(k + 1) : h[n] = IF n = k + 1 THEN RunVoice(g[k], k) ELSE g[n]
    OBVIOUS
  <2>3. h = [n \in 0..(k + 1) |-> h[n]]
    OBVIOUS
  <2> HIDE DEF h
  <2>4. ASSUME NEW n \in 0..(k + 1)
        PROVE  h[n] = IF n = 0 THEN s
                      ELSE VoiceAfter(h[n - 1], n - 1)
    <3>1. CASE n = k + 1
      <4>1. n # 0 /\ n - 1 = k /\ k \in 0..(k + 1) /\ k # k + 1
        BY <3>1
      <4>2. h[k] = g[k]
        BY <4>1, <2>2
      <4>3. h[n] = RunVoice(h[n - 1], n - 1)
        BY <3>1, <4>1, <4>2, <2>2
      <4> QED BY <4>1, <4>3, <1>2
    <3>2. CASE n # k + 1
      <4>1. n \in 0..k
        BY <3>2
      <4>2. h[n] = g[n]
        BY <2>2, <3>2
      <4>3. g[n] = IF n = 0 THEN s
                   ELSE VoiceAfter(g[n - 1], n - 1)
        BY <2>1, <4>1, Zenon
      <4>4. n # 0 => n - 1 \in 0..(k + 1) /\ n - 1 # k + 1
        BY <4>1
      <4>5. n # 0 => h[n - 1] = g[n - 1]
        BY <4>4, <2>2
      <4> QED BY <4>2, <4>3, <4>5
    <3> QED BY <3>1, <3>2
  <2>5. h = [n \in 0..(k + 1) |-> IF n = 0 THEN s
                                  ELSE VoiceAfter(h[n - 1], n - 1)]
    BY <2>3, <2>4
  <2> QED BY <2>5
<1>5. VoiceCount \in T
  <2>1. \A k \in Nat : k \in T => k + 1 \in T
    BY <1>4
  <2>2. VoiceCount \in Nat
    BY SpuConstants
  <2> HIDE DEF T
  <2> QED BY <1>3, <2>1, <2>2, SetInduction
<1>6. f = [n \in 0..VoiceCount |-> IF n = 0 THEN s
                                   ELSE VoiceAfter(f[n - 1], n - 1)]
  <2>1. \E g : g = [n \in 0..VoiceCount |->
                       IF n = 0 THEN s
                       ELSE VoiceAfter(g[n - 1], n - 1)]
    BY <1>5
  <2> QED BY <2>1, Zenon
<1> HIDE DEF f, T
<1> DEFINE E == {k \in Nat : k <= VoiceCount => Goes(s, f[k])}
<1>7. 0 \in E
  <2>1. f[0] = s
    BY <1>6, SpuConstants
  <2> QED BY <2>1, GoesNowhere
<1>8. ASSUME NEW k \in Nat, k \in E PROVE k + 1 \in E
  <2> SUFFICES ASSUME k + 1 <= VoiceCount PROVE Goes(s, f[k + 1])
    OBVIOUS
  <2>1. /\ k + 1 \in 0..VoiceCount /\ k + 1 # 0 /\ (k + 1) - 1 = k
        /\ k <= VoiceCount /\ k \in Voices
    BY <1>8, SpuConstants DEF Voices
  <2>2. f[k + 1] = VoiceAfter(f[k], k)
    BY <1>6, <2>1
  <2>3. f[k + 1] = RunVoice(f[k], k)
    BY <1>2, <2>2
  <2>4. Goes(s, f[k])
    BY <1>8, <2>1
  <2>5. Goes(f[k], f[k + 1])
    BY <2>1, <2>3, <2>4, RunVoiceGoes DEF Goes
  <2> QED BY <2>4, <2>5, GoesOn
<1>9. VoiceCount \in E
  <2>1. \A k \in Nat : k \in E => k + 1 \in E
    BY <1>8
  <2>2. VoiceCount \in Nat
    BY SpuConstants
  <2> HIDE DEF E
  <2> QED BY <1>7, <2>1, <2>2, SetInduction
<1> QED BY <1>1, <1>9, SpuConstants

-----------------------------------------------------------------------------
(* Captures and the reverberator.                                          *)

\* A stage that only writes to RAM where it may, moves the reverberator or
\* the capture on and touches the interrupt.
LEMMA FreeStageGoes ==
  ASSUME NEW s, Shape(s), NEW t, DOMAIN t = Fields,
         \A f \in Fields \ {"ram", "irq_flag", "irq_edge_pending",
                            "second_half_tick", "reverb_address"} : t[f] = s[f],
         KeepsInterrupt(s, t), t.reverb_address \in Int, DOMAIN t.ram = Address,
         \A a \in Address : t.ram[a] # s.ram[a] => Free(s, a)
  PROVE  Goes(s, t)
<1>1. /\ t.control = s.control /\ t.base_address = s.base_address
      /\ t.reverb_registers = s.reverb_registers
      /\ t.capture_offset = s.capture_offset
      /\ t.cycle_accumulator = s.cycle_accumulator /\ t.voices = s.voices
      /\ t.end_flags = s.end_flags /\ t.transfer_type = s.transfer_type
      /\ t.transfer_address = s.transfer_address
      /\ t.transfer_fifo = s.transfer_fifo
  BY DEF Fields
<1>2. Shape(t)
  BY <1>1 DEF Shape
<1>3. KeepsRegisters(s, t) /\ KeepsFifo(s, t) /\ KeepsRam(s, t) /\ Lands(s, t)
  BY <1>1 DEF KeepsRegisters, KeepsFifo, KeepsRam, Lands
<1>4. KeepsVoices(s, t)
  BY <1>1 DEF KeepsVoices, Reported
<1> QED BY <1>2, <1>3, <1>4 DEF Goes

LEMMA WriteCapturesGoes ==
  ASSUME NEW s, Shape(s), NEW t, t = WriteCaptures(s)
  PROVE  Goes(s, t)
<1>1. PICK b0, b1, b2, b3 \in Int :
         /\ b0 = CaptureAddress(s, 0) /\ b1 = CaptureAddress(s, 1)
         /\ b2 = CaptureAddress(s, 2) /\ b3 = CaptureAddress(s, 3)
  BY SpuConstants DEF CaptureAddress, Shape
<1>2. \A b \in {b0, b1, b2, b3} : b \in Address /\ b < 4 * CaptureHalfwords
  <2>1. PICK c \in 0..(CaptureHalfwords - 1) : c = s.capture_offset
    BY DEF Shape
  <2>2. /\ b0 = c /\ b1 = CaptureHalfwords + c /\ b2 = 2 * CaptureHalfwords + c
        /\ b3 = 3 * CaptureHalfwords + c
    BY <1>1, <2>1, SpuConstants DEF CaptureAddress
  <2> QED BY <2>2, SpuConstants DEF Address
<1> DEFINE output(v) == IF v \in Voices THEN s.voices[v].output ELSE 0
<1>3. PICK o1, o3 : o1 = output(1) /\ o3 = output(3)
  OBVIOUS
<1> HIDE DEF output
<1>4. PICK stored : stored = [s EXCEPT !.ram[b0] = 0, !.ram[b1] = 0,
                                       !.ram[b2] = o1, !.ram[b3] = o3]
  OBVIOUS
<1>5. t = stored \/ t = TouchIrq(stored, {CaptureAddress(s, b) : b \in 0..3})
  BY <1>1, <1>3, <1>4 DEF WriteCaptures, output
<1>6. DOMAIN s = Fields
  BY DEF Shape
<1>7. PICK r : r = [[[[s.ram EXCEPT ![b0] = 0] EXCEPT ![b1] = 0] EXCEPT ![b2] = o1]
                      EXCEPT ![b3] = o3]
  OBVIOUS
<1>8. /\ DOMAIN stored = Fields /\ stored.ram = r
      /\ \A f \in Fields \ {"ram"} : stored[f] = s[f]
  BY <1>4, <1>6, <1>7 DEF Fields
<1>9. /\ DOMAIN r = Address
      /\ \A a \in Address : r[a] # s.ram[a] => Free(s, a)
  <2>1. DOMAIN s.ram = Address
    BY DEF Shape
  <2>2. DOMAIN r = Address /\ \A a \in Address : r[a] # s.ram[a] => a \in {b0, b1, b2, b3}
    BY <1>7, <2>1
  <2> QED BY <1>2, <2>2 DEF Free
<1>10. /\ stored.irq_flag = s.irq_flag /\ stored.irq_edge_pending = s.irq_edge_pending
       /\ stored.control = s.control
  BY <1>8 DEF Fields
<1>11. KeepsInterrupt(s, stored) /\ KeepsInterrupt(stored, stored)
  BY <1>10 DEF KeepsInterrupt
<1>12. /\ DOMAIN t = Fields
       /\ \A f \in Fields \ {"irq_flag", "irq_edge_pending"} : t[f] = stored[f]
       /\ KeepsInterrupt(stored, t)
  <2>1. CASE t = stored
    BY <1>8, <1>11, <2>1
  <2>2. CASE t = TouchIrq(stored, {CaptureAddress(s, b) : b \in 0..3})
    BY <1>8, <2>2, TouchedKeeps
  <2> QED BY <1>5, <2>1, <2>2
<1>13. KeepsInterrupt(s, t)
  BY <1>10, <1>12 DEF KeepsInterrupt
<1>14. t.ram = r /\ t.reverb_address = s.reverb_address
  BY <1>8, <1>12 DEF Fields
<1>15. \A f \in Fields \ {"ram", "irq_flag", "irq_edge_pending",
                          "second_half_tick", "reverb_address"} : t[f] = s[f]
  BY <1>8, <1>12
<1>16. t.reverb_address \in Int
  BY <1>14 DEF Shape
<1>17. DOMAIN t.ram = Address /\ \A a \in Address : t.ram[a] # s.ram[a] => Free(s, a)
  BY <1>9, <1>14
<1> QED BY <1>12, <1>13, <1>15, <1>16, <1>17, FreeStageGoes

\* The reverberator's registers point into its area, whatever they hold.
LEMMA DisplacedStays ==
  ASSUME NEW s, Shape(s), NEW address \in Int, NEW d \in Int
  PROVE  /\ Displaced(s, address, d) \in Address
         /\ Displaced(s, address, d) >= s.base_address
<1>1. PICK b \in Address : b = s.base_address
  BY DEF Shape
<1>2. PICK size \in Nat \ {0} : size = RamHalfwords - b
  BY SpuConstants DEF Address
<1>3. PICK e \in Int : e = address - b + d
  BY DEF Address
<1>4. e % size \in Int /\ 0 <= e % size /\ e % size < size
  BY DivisionOf
<1>5. Displaced(s, address, d) = b + (e % size)
  BY <1>1, <1>2, <1>3 DEF Displaced
<1> QED BY <1>1, <1>2, <1>4, <1>5, SpuConstants DEF Address

LEMMA ReverbProcessGoes ==
  ASSUME NEW s, Shape(s), NEW t, t = ReverbProcess(s)
  PROVE  Goes(s, t)
<1>1. DOMAIN s = Fields /\ DOMAIN s.ram = Address
  BY DEF Shape
<1>2. CASE s.second_half_tick
  <2>1. t = [s EXCEPT !.second_half_tick = FALSE]
    BY <1>2 DEF ReverbProcess
  <2>2. /\ DOMAIN t = Fields
        /\ \A f \in Fields \ {"second_half_tick"} : t[f] = s[f]
    BY <1>1, <2>1 DEF Fields
  <2>3. /\ t.irq_flag = s.irq_flag /\ t.irq_edge_pending = s.irq_edge_pending
        /\ t.ram = s.ram /\ t.reverb_address = s.reverb_address
    BY <2>2 DEF Fields
  <2>4. KeepsInterrupt(s, t)
    BY <2>3 DEF KeepsInterrupt
  <2>5. t.reverb_address \in Int
    BY <2>3 DEF Shape
  <2>6. \A f \in Fields \ {"ram", "irq_flag", "irq_edge_pending",
                           "second_half_tick", "reverb_address"} : t[f] = s[f]
    BY <2>2
  <2> QED BY <1>1, <2>2, <2>3, <2>4, <2>5, <2>6, FreeStageGoes
<1>3. CASE ~s.second_half_tick
  <2>1. PICK written : written = IF s.control.reverb THEN ReverbWrites(s) ELSE {}
    OBVIOUS
  <2>2. PICK stored : stored = [a \in DOMAIN s.ram |->
                                  IF a \in written THEN Wet ELSE s.ram[a]]
    OBVIOUS
  <2>3. PICK touched : touched = ReverbReads(s) \cup written
    OBVIOUS
  <2>4. PICK u : u = TouchIrq(s, touched)
    OBVIOUS
  <2>5. /\ DOMAIN u = Fields /\ KeepsInterrupt(s, u)
        /\ \A f \in Fields \ {"irq_flag", "irq_edge_pending"} : u[f] = s[f]
    BY <1>1, <2>4, TouchedKeeps
  <2>6. t = [u EXCEPT !.ram = stored, !.second_half_tick = TRUE,
                      !.reverb_address = Displaced(s, @, 1)]
    BY <1>3, <2>1, <2>2, <2>3, <2>4 DEF ReverbProcess
  <2>7. u.reverb_address = s.reverb_address
    BY <2>5 DEF Fields
  <2>8. PICK next : next = Displaced(s, s.reverb_address, 1)
    OBVIOUS
  <2>9. t = [u EXCEPT !.ram = stored, !.second_half_tick = TRUE,
                      !.reverb_address = next]
    BY <2>6, <2>7, <2>8
  <2>10. /\ DOMAIN t = Fields /\ t.ram = stored /\ t.reverb_address = next
         /\ \A f \in Fields \ {"ram", "second_half_tick", "reverb_address"} : t[f] = u[f]
    BY <2>5, <2>9 DEF Fields
  <2>11. t.irq_flag = u.irq_flag /\ t.irq_edge_pending = u.irq_edge_pending
    BY <2>10 DEF Fields
  <2>12. KeepsInterrupt(s, t)
    BY <2>5, <2>11 DEF KeepsInterrupt
  <2>13. \A f \in Fields \ {"ram", "irq_flag", "irq_edge_pending",
                            "second_half_tick", "reverb_address"} : t[f] = s[f]
    BY <2>5, <2>10
  <2>14. next \in Int
    BY <2>8, DisplacedStays DEF Shape, Address
  <2>15. \A a \in ReverbWrites(s) : a >= s.base_address
    <3>1. PICK here \in Int : here = s.reverb_address
      BY DEF Shape
    <3>2. \A o \in Int : ReverbAt(s, o) >= s.base_address
      <4> TAKE o \in Int
      <4>1. o * UnitHalfwords \in Int
        BY SpuConstants
      <4> QED BY <3>1, <4>1, DisplacedStays DEF ReverbAt
    <3>3. /\ s.reverb_registers.walls \subseteq Int
          /\ s.reverb_registers.passes \subseteq Int \X Int
      BY DEF Shape, ReverbRegisters
    <3>4. \A p \in s.reverb_registers.passes : p[1] \in Int
      BY <3>3
    <3> QED BY <3>2, <3>3, <3>4 DEF ReverbWrites
  <2>16. ASSUME NEW a \in Address, t.ram[a] # s.ram[a] PROVE Free(s, a)
    <3>1. a \in written
      BY <1>1, <2>2, <2>10, <2>16
    <3> QED BY <2>1, <2>15, <3>1 DEF Free
  <2>17. DOMAIN t.ram = Address
    BY <1>1, <2>2, <2>10
  <2> QED BY <2>10, <2>12, <2>13, <2>14, <2>16, <2>17, FreeStageGoes
<1> QED BY <1>2, <1>3

-----------------------------------------------------------------------------
(* A sample, and the samples of a tick.                                    *)

LEMMA CounterGoes ==
  ASSUME NEW s, Shape(s), NEW f \in {"capture_offset", "cycle_accumulator"}, NEW x,
         f = "capture_offset" => x \in 0..(CaptureHalfwords - 1),
         f = "cycle_accumulator" => x \in Nat,
         NEW t, t = [s EXCEPT ![f] = x]
  PROVE  Goes(s, t)
<1>1. /\ DOMAIN t = Fields /\ t[f] = x
      /\ \A g \in Fields \ {f} : t[g] = s[g]
  BY DEF Shape, Fields
<1>2. /\ t.control = s.control /\ t.base_address = s.base_address
      /\ t.reverb_registers = s.reverb_registers
      /\ t.reverb_address = s.reverb_address /\ t.ram = s.ram
      /\ t.voices = s.voices /\ t.irq_flag = s.irq_flag
      /\ t.irq_edge_pending = s.irq_edge_pending
      /\ t.end_flags = s.end_flags /\ t.transfer_type = s.transfer_type
      /\ t.transfer_address = s.transfer_address
      /\ t.transfer_fifo = s.transfer_fifo
  BY <1>1 DEF Fields
<1>3. /\ t.capture_offset \in 0..(CaptureHalfwords - 1)
      /\ t.cycle_accumulator \in Nat
  <2>1. s.capture_offset \in 0..(CaptureHalfwords - 1) /\ s.cycle_accumulator \in Nat
    BY DEF Shape
  <2>2. CASE f = "capture_offset"
    BY <1>1, <2>1, <2>2 DEF Fields
  <2>3. CASE f = "cycle_accumulator"
    BY <1>1, <2>1, <2>3 DEF Fields
  <2> QED BY <2>2, <2>3
<1>4. Shape(t)
  BY <1>1, <1>2, <1>3 DEF Shape
<1>5. KeepsRegisters(s, t) /\ KeepsFifo(s, t) /\ KeepsRam(s, t) /\ Lands(s, t)
  BY <1>2 DEF KeepsRegisters, KeepsFifo, KeepsRam, Lands
<1>6. KeepsVoices(s, t) /\ KeepsInterrupt(s, t)
  BY <1>2 DEF KeepsVoices, Reported, KeepsInterrupt
<1> QED BY <1>4, <1>5, <1>6 DEF Goes

LEMMA ProduceSampleGoes ==
  ASSUME NEW s, Shape(s), NEW t, t = ProduceSample(s)
  PROVE  Goes(s, t)
<1>1. PICK flushed : flushed = IF s.control.mode = 1 THEN FlushTransferFifo(s) ELSE s
  OBVIOUS
<1>2. PICK ran : ran = RunVoices(flushed)
  OBVIOUS
<1>3. PICK captured : captured = WriteCaptures(ran)
  OBVIOUS
<1>4. PICK sampled : sampled = ReverbProcess(captured)
  OBVIOUS
<1>5. t = [sampled EXCEPT !.capture_offset = (@ + 1) % CaptureHalfwords]
  <2>1. With(flushed, RunVoices) = ran
    BY <1>2 DEF With
  <2>2. With(ran, WriteCaptures) = captured
    BY <1>3 DEF With
  <2>3. With(captured, ReverbProcess) = sampled
    BY <1>4 DEF With
  <2>4. With(With(With(flushed, RunVoices), WriteCaptures), ReverbProcess) = sampled
    BY <2>1, <2>2, <2>3
  <2> QED BY <1>1, <2>4 DEF ProduceSample
<1>6. Goes(s, flushed)
  BY <1>1, FlushGoes, GoesNowhere
<1>7. Goes(flushed, ran)
  BY <1>2, <1>6, RunVoicesGoes DEF Goes
<1>8. Goes(ran, captured)
  BY <1>3, <1>7, WriteCapturesGoes DEF Goes
<1>9. Goes(captured, sampled)
  BY <1>4, <1>8, ReverbProcessGoes DEF Goes
<1>10. Goes(sampled, t)
  <2>1. Shape(sampled)
    BY <1>9 DEF Goes
  <2>2. PICK x : x = (sampled.capture_offset + 1) % CaptureHalfwords
    OBVIOUS
  <2>3. PICK f \in {"capture_offset", "cycle_accumulator"} : f = "capture_offset"
    OBVIOUS
  <2>4. t = [sampled EXCEPT ![f] = x]
    BY <1>5, <2>2, <2>3
  <2>5. x \in 0..(CaptureHalfwords - 1)
    <3>1. PICK c \in Int : c = sampled.capture_offset + 1
      BY <2>1 DEF Shape
    <3>2. c % CaptureHalfwords \in 0..(CaptureHalfwords - 1)
      BY SpuConstants
    <3> QED BY <2>2, <3>1, <3>2
  <2> QED BY <2>1, <2>3, <2>4, <2>5, CounterGoes
<1>11. Goes(s, ran)
  BY <1>6, <1>7, GoesOn
<1>12. Goes(s, captured)
  BY <1>8, <1>11, GoesOn
<1>13. Goes(s, sampled)
  BY <1>9, <1>12, GoesOn
<1> QED BY <1>10, <1>13, GoesOn

SampleAfter(s) == With(s, ProduceSample)

LEMMA RunSamplesGoes ==
  ASSUME NEW s, Shape(s), NEW cycles \in Nat, NEW t, t = RunSamples(s, cycles)
  PROVE  Goes(s, t)
<1>1. PICK total \in Nat : total = s.cycle_accumulator + cycles
  BY DEF Shape
<1>2. PICK N \in Nat : N = total \div CyclesPerSample
  BY SpuConstants
<1>3. PICK s0 : s0 = [s EXCEPT !.cycle_accumulator = total % CyclesPerSample]
  OBVIOUS
<1>4. Goes(s, s0)
  <2>1. PICK x \in Nat : x = total % CyclesPerSample
    BY SpuConstants
  <2>2. PICK f \in {"capture_offset", "cycle_accumulator"} : f = "cycle_accumulator"
    OBVIOUS
  <2>3. s0 = [s EXCEPT ![f] = x]
    BY <1>3, <2>1, <2>2
  <2> QED BY <2>2, <2>3, CounterGoes
<1> DEFINE f == CHOOSE g : g = [n \in 0..N |->
                    IF n = 0 THEN s0 ELSE SampleAfter(g[n - 1])]
<1>5. t = f[N]
  BY <1>1, <1>2, <1>3 DEF RunSamples, SampleAfter
<1>6. ASSUME NEW u PROVE SampleAfter(u) = ProduceSample(u)
  BY DEF With, SampleAfter
<1> DEFINE T == {k \in Nat : \E g : g = [n \in 0..k |->
                    IF n = 0 THEN s0 ELSE SampleAfter(g[n - 1])]}
<1>7. 0 \in T
  <2> DEFINE g == [n \in 0..0 |-> s0]
  <2>1. g = [n \in 0..0 |-> IF n = 0 THEN s0 ELSE SampleAfter(g[n - 1])]
    OBVIOUS
  <2> HIDE DEF g
  <2> QED BY <2>1
<1>8. ASSUME NEW k \in Nat, k \in T PROVE k + 1 \in T
  <2>1. PICK g : g = [n \in 0..k |-> IF n = 0 THEN s0 ELSE SampleAfter(g[n - 1])]
    BY <1>8
  <2> DEFINE h == [n \in 0..(k + 1) |->
                     IF n = k + 1 THEN SampleAfter(g[k]) ELSE g[n]]
  <2>2. \A n \in 0..(k + 1) : h[n] = IF n = k + 1 THEN SampleAfter(g[k]) ELSE g[n]
    OBVIOUS
  <2>3. h = [n \in 0..(k + 1) |-> h[n]]
    OBVIOUS
  <2> HIDE DEF h
  <2>4. ASSUME NEW n \in 0..(k + 1)
        PROVE  h[n] = IF n = 0 THEN s0 ELSE SampleAfter(h[n - 1])
    <3>1. CASE n = k + 1
      <4>1. n # 0 /\ n - 1 = k /\ k \in 0..(k + 1) /\ k # k + 1
        BY <3>1
      <4>2. h[k] = g[k]
        BY <4>1, <2>2
      <4> QED BY <3>1, <4>1, <4>2, <2>2
    <3>2. CASE n # k + 1
      <4>1. n \in 0..k
        BY <3>2
      <4>2. h[n] = g[n]
        BY <2>2, <3>2
      <4>3. g[n] = IF n = 0 THEN s0 ELSE SampleAfter(g[n - 1])
        BY <2>1, <4>1, Zenon
      <4>4. n # 0 => n - 1 \in 0..(k + 1) /\ n - 1 # k + 1
        BY <4>1
      <4>5. n # 0 => h[n - 1] = g[n - 1]
        BY <4>4, <2>2
      <4> QED BY <4>2, <4>3, <4>5
    <3> QED BY <3>1, <3>2
  <2>5. h = [n \in 0..(k + 1) |-> IF n = 0 THEN s0 ELSE SampleAfter(h[n - 1])]
    BY <2>3, <2>4
  <2> QED BY <2>5
<1>9. N \in T
  <2>1. \A k \in Nat : k \in T => k + 1 \in T
    BY <1>8
  <2> HIDE DEF T
  <2> QED BY <1>7, <2>1, SetInduction
<1>10. f = [n \in 0..N |-> IF n = 0 THEN s0 ELSE SampleAfter(f[n - 1])]
  <2>1. \E g : g = [n \in 0..N |-> IF n = 0 THEN s0 ELSE SampleAfter(g[n - 1])]
    BY <1>9
  <2> QED BY <2>1, Zenon
<1> HIDE DEF f, T
<1> DEFINE E == {k \in Nat : k <= N => Goes(s, f[k])}
<1>11. 0 \in E
  <2>1. f[0] = s0
    BY <1>10
  <2> QED BY <1>4, <2>1
<1>12. ASSUME NEW k \in Nat, k \in E PROVE k + 1 \in E
  <2> SUFFICES ASSUME k + 1 <= N PROVE Goes(s, f[k + 1])
    OBVIOUS
  <2>1. k + 1 \in 0..N /\ k + 1 # 0 /\ (k + 1) - 1 = k /\ k <= N
    BY <1>12
  <2>2. f[k + 1] = SampleAfter(f[k])
    BY <1>10, <2>1
  <2>3. f[k + 1] = ProduceSample(f[k])
    BY <1>6, <2>2
  <2>4. Goes(s, f[k])
    BY <1>12, <2>1
  <2>5. Goes(f[k], f[k + 1])
    BY <2>3, <2>4, ProduceSampleGoes DEF Goes
  <2> QED BY <2>4, <2>5, GoesOn
<1>13. N \in E
  <2>1. \A k \in Nat : k \in E => k + 1 \in E
    BY <1>12
  <2> HIDE DEF E
  <2> QED BY <1>11, <2>1, SetInduction
<1> QED BY <1>5, <1>13

-----------------------------------------------------------------------------
(* The inductive invariant.                                                *)

\* The voices the guest keyed on are heard or reported.
KeyedAreReported == keyed \subseteq Voices /\ \A v \in keyed : Reported(spu, v)

\* upload tells what is in the FIFO and where it will go.
UploadIsKnown ==
    /\ DOMAIN upload = {"first", "data", "inPlace"}
    /\ (upload.inPlace /\ spu.transfer_fifo # << >>) =>
           upload.data = spu.transfer_fifo /\ upload.first = spu.transfer_address

SpuInv == Shape(spu) /\ InterruptIsOwed /\ KeyedAreReported /\ UploadIsKnown

\* What SamplesAreSafe and UploadLandsInPlace say of a step.
SafeStep ==
    \A a \in DOMAIN spu.ram :
        spu'.ram[a] # spu.ram[a] =>
            \/ a < 4 * CaptureHalfwords
            \/ spu.control.reverb /\ a >= spu.base_address
            \/ (a - spu.transfer_address) % RamHalfwords
                    < (spu'.transfer_address - spu.transfer_address) % RamHalfwords
LandingStep ==
    (upload.inPlace /\ spu.transfer_fifo # << >> /\ spu'.transfer_fifo = << >>)
        => /\ spu'.transfer_address
                  = (upload.first + Len(upload.data)) % RamHalfwords
           /\ \A i \in DOMAIN upload.data :
                  LET a == (upload.first + i - 1) % RamHalfwords
                  IN \/ spu.transfer_type # 2 \/ spu'.ram[a] = upload.data[i]
                     \/ a < 4 * CaptureHalfwords
                     \/ spu.control.reverb /\ a >= spu.base_address

StepIsFine == SpuInv' /\ SafeStep /\ LandingStep

UnitsFit == \A x \in Units : x \in Nat /\ x * UnitHalfwords \in Address

LEMMA UnitsAreAddresses == UnitsFit
<1> SUFFICES ASSUME NEW x \in Units PROVE x \in Nat /\ x * UnitHalfwords \in Address
  BY DEF UnitsFit
<1>1. PICK U \in Nat \ {0} : U = UnitHalfwords
  BY SpuConstants
<1>2. PICK R \in Nat \ {0} : R = RamHalfwords
  BY SpuConstants
<1>3. PICK q \in Int : q = R \div U
  OBVIOUS
<1>4. R = U * q + (R % U) /\ R % U \in Nat
  BY <1>3, DivisionOf
<1>5. x \in Nat /\ x <= q - 1
  BY <1>1, <1>2, <1>3, SpuAssumption
<1>6. PICK d \in Nat : d = q - 1 - x
  BY <1>5
<1>7. U * d \in Nat /\ x * U \in Nat
  BY <1>5
<1>8. U * q = x * U + U * d + U
  <2>1. q = x + d + 1
    BY <1>5, <1>6
  <2>2. U * (x + d + 1) = x * U + U * d + U
    BY <1>5
  <2> QED BY <2>1, <2>2
<1>9. x * U < R
  <2> DEFINE xu == x * U
             ud == U * d
             uq == U * q
             r == R % U
  <2>1. xu \in Nat /\ ud \in Nat /\ uq = xu + ud + U /\ R = uq + r /\ r \in Nat
    BY <1>4, <1>7, <1>8
  <2> HIDE DEF xu, ud, uq, r
  <2>2. xu < R
    BY <2>1
  <2> QED BY <2>2 DEF xu
<1> QED BY <1>1, <1>2, <1>5, <1>7, <1>9 DEF Address

LEMMA InterruptStays ==
  ASSUME InterruptIsOwed, NEW t, KeepsInterrupt(spu, t), t.control = spu.control,
         spu' = t,
         owed' = owed + (IF t.irq_flag /\ ~spu.irq_flag THEN 1 ELSE 0)
  PROVE  InterruptIsOwed'
<1>1. spu'.irq_flag => IrqEnabled(spu'.control)
  BY Zenon DEF InterruptIsOwed, KeepsInterrupt
<1>2. spu'.irq_edge_pending => spu'.irq_flag
  BY Zenon DEF InterruptIsOwed, KeepsInterrupt
<1>3. CASE spu.irq_flag
  <2>1. owed' = owed + 0
    BY <1>3
  <2>2. t.irq_edge_pending <=> spu.irq_edge_pending
    BY <1>3, Zenon DEF KeepsInterrupt
  <2>3. owed = 0 \/ owed = 1
    BY DEF InterruptIsOwed
  <2>4. owed' = owed
    BY <2>1, <2>3
  <2>5. CASE spu.irq_edge_pending
    <3>1. owed = 1
      BY <2>5 DEF InterruptIsOwed
    <3> QED BY <1>1, <1>2, <2>2, <2>4, <2>5, <3>1 DEF InterruptIsOwed
  <2>6. CASE ~spu.irq_edge_pending
    <3>1. owed = 0
      BY <2>6 DEF InterruptIsOwed
    <3> QED BY <1>1, <1>2, <2>2, <2>4, <2>6, <3>1 DEF InterruptIsOwed
  <2> QED BY <2>5, <2>6
<1>4. CASE ~spu.irq_flag
  <2>1. ~spu.irq_edge_pending /\ owed = 0
    BY <1>4 DEF InterruptIsOwed
  <2>2. t.irq_flag <=> t.irq_edge_pending
    BY <1>4, <2>1, Zenon DEF KeepsInterrupt
  <2>3. CASE t.irq_flag
    <3>1. owed' = 0 + 1
      BY <1>4, <2>1, <2>3
    <3> QED BY <1>1, <1>2, <2>2, <2>3, <3>1 DEF InterruptIsOwed
  <2>4. CASE ~t.irq_flag
    <3>1. owed' = 0 + 0
      BY <1>4, <2>1, <2>4
    <3> QED BY <1>1, <1>2, <2>2, <2>4, <3>1 DEF InterruptIsOwed
  <2> QED BY <2>3, <2>4
<1> QED BY <1>3, <1>4

\* A command that leaves RAM, the FIFO and the interrupt alone.
LEMMA QuietStep ==
  ASSUME SpuInv, NEW t, Command(t), Shape(t), t.control = spu.control,
         t.irq_flag = spu.irq_flag, t.irq_edge_pending = spu.irq_edge_pending,
         t.ram = spu.ram, t.transfer_fifo = spu.transfer_fifo,
         KeyedAreReported', UploadIsKnown'
  PROVE  StepIsFine
<1>1. KeepsInterrupt(spu, t)
  BY DEF KeepsInterrupt
<1>2. /\ spu' = t
      /\ owed' = owed + (IF t.irq_flag /\ ~spu.irq_flag THEN 1 ELSE 0)
  BY DEF Command
<1>3. InterruptIsOwed'
  BY <1>1, <1>2, InterruptStays DEF SpuInv
<1>4. SpuInv'
  BY <1>2, <1>3 DEF SpuInv
<1>5. SafeStep /\ LandingStep
  BY <1>2 DEF SafeStep, LandingStep
<1> QED BY <1>4, <1>5 DEF StepIsFine

\* What upload knows is not touched by a command that leaves FIFO and
\* transfer address alone.
LEMMA UploadStays ==
  ASSUME UploadIsKnown, NEW t, spu' = t, t.transfer_fifo = spu.transfer_fifo,
         t.transfer_address = spu.transfer_address, upload' = upload
  PROVE  UploadIsKnown'
  BY DEF UploadIsKnown

LEMMA UploadMoves ==
  ASSUME UploadIsKnown, upload' = Moved(upload)
  PROVE  UploadIsKnown'
<1>1. DOMAIN upload' = {"first", "data", "inPlace"} /\ ~upload'.inPlace
  BY DEF UploadIsKnown, Moved
<1> QED BY <1>1 DEF UploadIsKnown

LEMMA WriteControlIsFine ==
  ASSUME SpuInv, WriteControl
  PROVE  StepIsFine
<1>1. PICK control \in Controls :
         /\ spu' = IF IrqEnabled(control) THEN [spu EXCEPT !.control = control]
                   ELSE [[spu EXCEPT !.control = control]
                            EXCEPT !.irq_flag = FALSE, !.irq_edge_pending = FALSE]
         /\ owed' = IF IrqEnabled(control) THEN owed ELSE 0
         /\ UNCHANGED <<upload, keyed>>
  BY DEF WriteControl
<1>2. PICK w : w = [spu EXCEPT !.control = control]
  OBVIOUS
<1>3. DOMAIN spu = Fields
  BY DEF SpuInv, Shape
<1>4. /\ DOMAIN w = Fields /\ w.control = control
      /\ \A f \in Fields \ {"control"} : w[f] = spu[f]
  BY <1>2, <1>3 DEF Fields
<1>5. /\ DOMAIN spu' = Fields /\ spu'.control = control
      /\ \A f \in Fields \ {"control", "irq_flag", "irq_edge_pending"} :
             spu'[f] = spu[f]
  <2>1. CASE IrqEnabled(control)
    <3>1. spu' = w
      BY <1>1, <1>2, <2>1
    <3> QED BY <1>4, <3>1
  <2>2. CASE ~IrqEnabled(control)
    <3>1. spu' = [w EXCEPT !.irq_flag = FALSE, !.irq_edge_pending = FALSE]
      BY <1>1, <1>2, <2>2
    <3>2. /\ DOMAIN spu' = Fields
          /\ \A f \in Fields \ {"irq_flag", "irq_edge_pending"} : spu'[f] = w[f]
      BY <1>4, <3>1
    <3> QED BY <1>4, <3>2 DEF Fields
  <2> QED BY <2>1, <2>2
<1>6. /\ spu'.ram = spu.ram /\ spu'.voices = spu.voices
      /\ spu'.transfer_fifo = spu.transfer_fifo
      /\ spu'.transfer_address = spu.transfer_address
      /\ spu'.transfer_type = spu.transfer_type /\ spu'.end_flags = spu.end_flags
      /\ spu'.base_address = spu.base_address
      /\ spu'.reverb_address = spu.reverb_address
      /\ spu'.reverb_registers = spu.reverb_registers
      /\ spu'.capture_offset = spu.capture_offset
      /\ spu'.cycle_accumulator = spu.cycle_accumulator
  BY <1>5 DEF Fields
<1>7. Shape(spu)'
  BY <1>5, <1>6 DEF SpuInv, Shape
<1>8. KeyedAreReported' /\ UploadIsKnown'
  BY <1>1, <1>6 DEF SpuInv, KeyedAreReported, Reported, UploadIsKnown
<1>9. InterruptIsOwed'
  <2>1. CASE IrqEnabled(control)
    <3>1. /\ spu'.irq_flag = spu.irq_flag
          /\ spu'.irq_edge_pending = spu.irq_edge_pending
      BY <1>1, <1>2, <1>4, <2>1 DEF Fields
    <3>2. owed' = owed
      BY <1>1, <2>1
    <3> QED BY <1>5, <2>1, <3>1, <3>2 DEF SpuInv, InterruptIsOwed
  <2>2. CASE ~IrqEnabled(control)
    <3>1. spu' = [w EXCEPT !.irq_flag = FALSE, !.irq_edge_pending = FALSE]
      BY <1>1, <1>2, <2>2
    <3>2. spu'.irq_flag = FALSE /\ spu'.irq_edge_pending = FALSE
      BY <1>4, <3>1 DEF Fields
    <3>3. owed' = 0
      BY <1>1, <2>2
    <3> QED BY <3>2, <3>3 DEF InterruptIsOwed
  <2> QED BY <2>1, <2>2
<1>10. SafeStep /\ LandingStep
  BY <1>6 DEF SafeStep, LandingStep
<1> QED BY <1>7, <1>8, <1>9, <1>10 DEF StepIsFine, SpuInv

LEMMA WriteTransferAddressIsFine ==
  ASSUME SpuInv, WriteTransferAddress
  PROVE  StepIsFine
<1>1. PICK unit \in Units :
         /\ Command([spu EXCEPT !.transfer_address = unit * UnitHalfwords])
         /\ upload' = Moved(upload) /\ UNCHANGED keyed
  BY DEF WriteTransferAddress
<1>2. PICK a \in Address : a = unit * UnitHalfwords
  BY UnitsAreAddresses DEF UnitsFit
<1>3. PICK t : t = [spu EXCEPT !.transfer_address = a]
  OBVIOUS
<1>4. Command(t)
  BY <1>1, <1>2, <1>3
<1>5. DOMAIN spu = Fields
  BY DEF SpuInv, Shape
<1>6. /\ DOMAIN t = Fields /\ t.transfer_address = a
      /\ \A f \in Fields \ {"transfer_address"} : t[f] = spu[f]
  BY <1>3, <1>5 DEF Fields
<1>7. /\ t.ram = spu.ram /\ t.voices = spu.voices
      /\ t.transfer_fifo = spu.transfer_fifo /\ t.end_flags = spu.end_flags
      /\ t.base_address = spu.base_address
      /\ t.reverb_address = spu.reverb_address
      /\ t.reverb_registers = spu.reverb_registers
      /\ t.capture_offset = spu.capture_offset
      /\ t.cycle_accumulator = spu.cycle_accumulator
      /\ t.control = spu.control /\ t.irq_flag = spu.irq_flag
      /\ t.irq_edge_pending = spu.irq_edge_pending
  BY <1>6 DEF Fields
<1>8. Shape(t)
  BY <1>6, <1>7 DEF SpuInv, Shape
<1>9. spu' = t
  BY <1>4 DEF Command
<1>10. KeyedAreReported'
  BY <1>1, <1>7, <1>9 DEF SpuInv, KeyedAreReported, Reported
<1>11. UploadIsKnown'
  BY <1>1, UploadMoves DEF SpuInv
<1> QED BY <1>4, <1>7, <1>8, <1>10, <1>11, QuietStep

LEMMA WriteTransferFifoIsFine ==
  ASSUME SpuInv, WriteTransferFifo
  PROVE  StepIsFine
<1>1. PICK fifo \in Seq(Halfwords) : fifo = spu.transfer_fifo /\ Len(fifo) <= FifoDepth
  BY DEF SpuInv, Shape
<1>2. PICK h \in Halfwords :
        /\ Command([spu EXCEPT !.transfer_fifo =
              Append(IF Len(fifo) = FifoDepth THEN Tail(fifo) ELSE fifo, h)])
        /\ upload' = IF fifo = << >>
                     THEN [first |-> spu.transfer_address, data |-> <<h>>,
                           inPlace |-> TRUE]
                     ELSE [upload EXCEPT !.data = spu'.transfer_fifo,
                                         !.inPlace = @ /\ ~(Len(fifo) = FifoDepth)]
        /\ UNCHANGED keyed
  BY <1>1 DEF WriteTransferFifo
<1>3. PICK rest : rest = IF Len(fifo) = FifoDepth THEN Tail(fifo) ELSE fifo
  OBVIOUS
<1>4. PICK next : next = Append(rest, h)
  OBVIOUS
<1>5. PICK t : t = [spu EXCEPT !.transfer_fifo = next]
  OBVIOUS
<1>6. Command(t)
  BY <1>2, <1>3, <1>4, <1>5
<1>7. spu' = t
  BY <1>6 DEF Command
<1>8. DOMAIN spu = Fields
  BY DEF SpuInv, Shape
<1>9. /\ DOMAIN t = Fields /\ t.transfer_fifo = next
      /\ \A f \in Fields \ {"transfer_fifo"} : t[f] = spu[f]
  BY <1>5, <1>8 DEF Fields
<1>10. /\ t.ram = spu.ram /\ t.voices = spu.voices
       /\ t.transfer_address = spu.transfer_address /\ t.end_flags = spu.end_flags
       /\ t.base_address = spu.base_address
       /\ t.reverb_address = spu.reverb_address
       /\ t.reverb_registers = spu.reverb_registers
       /\ t.capture_offset = spu.capture_offset
       /\ t.cycle_accumulator = spu.cycle_accumulator
       /\ t.control = spu.control /\ t.irq_flag = spu.irq_flag
       /\ t.irq_edge_pending = spu.irq_edge_pending
  BY <1>9 DEF Fields
<1>11. rest \in Seq(Halfwords) /\ Len(rest) + 1 <= FifoDepth
  <2>1. CASE Len(fifo) = FifoDepth
    <3>1. fifo # << >>
      BY <2>1, SpuConstants
    <3>2. Tail(fifo) \in Seq(Halfwords) /\ Len(Tail(fifo)) = Len(fifo) - 1
      BY <3>1
    <3> QED BY <1>3, <2>1, <3>2
  <2>2. CASE Len(fifo) # FifoDepth
    BY <1>1, <1>3, <2>2, SpuConstants
  <2> QED BY <2>1, <2>2
<1>12. /\ next \in Seq(Halfwords) /\ Len(next) <= FifoDepth
       /\ Len(next) = Len(rest) + 1 /\ next # << >>
  BY <1>4, <1>11
<1>13. Shape(t)
  BY <1>9, <1>10, <1>12 DEF SpuInv, Shape
<1>14. KeyedAreReported'
  BY <1>2, <1>7, <1>10 DEF SpuInv, KeyedAreReported, Reported
<1>15. UploadIsKnown'
  <2>1. CASE fifo = << >>
    <3>1. upload' = [first |-> spu.transfer_address, data |-> <<h>>, inPlace |-> TRUE]
      BY <1>2, <2>1
    <3>2. Len(fifo) # FifoDepth
      BY <2>1, SpuConstants
    <3>3. next = <<h>>
      BY <1>3, <1>4, <2>1, <3>2
    <3> QED BY <1>7, <1>9, <1>10, <3>1, <3>3 DEF UploadIsKnown
  <2>2. CASE fifo # << >>
    <3>1. PICK full \in BOOLEAN : full <=> Len(fifo) = FifoDepth
      OBVIOUS
    <3>2. PICK in : in = (upload.inPlace /\ ~full)
      OBVIOUS
    <3>3. upload' = [upload EXCEPT !.data = next, !.inPlace = in]
      BY <1>2, <1>7, <1>9, <2>2, <3>1, <3>2
    <3>4. DOMAIN upload = {"first", "data", "inPlace"}
      BY DEF SpuInv, UploadIsKnown
    <3>5. /\ DOMAIN upload' = {"first", "data", "inPlace"}
          /\ upload'.data = next /\ upload'.inPlace = in
          /\ upload'.first = upload.first
      BY <3>3, <3>4
    <3>6. in => upload.first = spu.transfer_address
      BY <1>1, <2>2, <3>2 DEF SpuInv, UploadIsKnown
    <3> QED BY <1>7, <1>9, <1>10, <3>5, <3>6 DEF UploadIsKnown
  <2> QED BY <2>1, <2>2
<1>16. InterruptIsOwed'
  <2>1. KeepsInterrupt(spu, t)
    BY <1>10 DEF KeepsInterrupt
  <2>2. owed' = owed + (IF t.irq_flag /\ ~spu.irq_flag THEN 1 ELSE 0)
    BY <1>6 DEF Command
  <2> QED BY <1>7, <1>10, <2>1, <2>2, InterruptStays DEF SpuInv
<1>17. SafeStep /\ LandingStep
  BY <1>7, <1>9, <1>10, <1>12 DEF SafeStep, LandingStep
<1> QED BY <1>7, <1>13, <1>14, <1>15, <1>16, <1>17 DEF StepIsFine, SpuInv

\* Two half words on from a place in RAM are the next two places.
LEMMA TwoOn ==
  ASSUME NEW x \in Address, NEW y, NEW z, y = (x + 1) % RamHalfwords,
         z = (y + 1) % RamHalfwords
  PROVE  /\ y \in Address /\ z \in Address
         /\ (z - x) % RamHalfwords = 2
         /\ (x - x) % RamHalfwords = 0 /\ (y - x) % RamHalfwords = 1
<1>1. PICK R \in Nat \ {0} : R = RamHalfwords /\ R >= 4
  BY SpuConstants
<1>2. x \in 0..(R - 1)
  BY <1>1 DEF Address
<1>3. y \in 0..(R - 1) /\ y = (x + 1) % R
  BY <1>1, <1>2
<1>4. z \in 0..(R - 1) /\ z = (y + 1) % R
  BY <1>1, <1>3
<1>5. (y - x) % R = 1
  <2>1. 1 \in 0..(R - 1)
    BY <1>1
  <2> QED BY <1>2, <1>3, <2>1, RingPlace
<1>6. (z - x) % R = 2
  <2>1. PICK b \in Int : b = x + 1
    BY <1>2
  <2>2. ((b % R) + 1) % R = (b + 1) % R
    BY <2>1, RemainderAdds
  <2>3. b + 1 = x + 2
    BY <1>2, <2>1
  <2>4. (x + 2) % R = z
    BY <1>3, <1>4, <2>1, <2>2, <2>3
  <2>5. 2 \in 0..(R - 1)
    BY <1>1
  <2> QED BY <1>2, <1>4, <2>4, <2>5, RingPlace
<1>7. (x - x) % R = 0
  <2>1. x - x = 0
    BY <1>2
  <2> QED BY <2>1, <1>1
<1> QED BY <1>1, <1>3, <1>4, <1>5, <1>6, <1>7 DEF Address

\* A transfer of a word past the FIFO: two half words from the transfer
\* address on may change.
LEMMA WordIsFine ==
  ASSUME SpuInv, NEW t, Command(t), upload' = Moved(upload), UNCHANGED keyed,
         DOMAIN t = Fields, KeepsInterrupt(spu, t), DOMAIN t.ram = Address,
         \A f \in Fields \ {"ram", "transfer_address", "irq_flag",
                            "irq_edge_pending"} : t[f] = spu[f],
         NEW y, y = (spu.transfer_address + 1) % RamHalfwords,
         t.transfer_address = (y + 1) % RamHalfwords,
         \A a \in Address : t.ram[a] # spu.ram[a] => a \in {spu.transfer_address, y}
  PROVE  StepIsFine
<1>1. PICK x \in Address : x = spu.transfer_address
  BY DEF SpuInv, Shape
<1>2. PICK z : z = (y + 1) % RamHalfwords
  OBVIOUS
<1>3. /\ y \in Address /\ z \in Address
      /\ (z - x) % RamHalfwords = 2
      /\ (x - x) % RamHalfwords = 0 /\ (y - x) % RamHalfwords = 1
  BY <1>1, <1>2, TwoOn
<1>4. /\ t.voices = spu.voices /\ t.transfer_fifo = spu.transfer_fifo
      /\ t.end_flags = spu.end_flags /\ t.base_address = spu.base_address
      /\ t.reverb_address = spu.reverb_address
      /\ t.reverb_registers = spu.reverb_registers
      /\ t.capture_offset = spu.capture_offset
      /\ t.cycle_accumulator = spu.cycle_accumulator
      /\ t.control = spu.control
  BY DEF Fields
<1>5. t.transfer_address = z
  BY <1>2
<1>6. Shape(t)
  BY <1>3, <1>4, <1>5 DEF SpuInv, Shape
<1>7. /\ spu' = t
      /\ owed' = owed + (IF t.irq_flag /\ ~spu.irq_flag THEN 1 ELSE 0)
  BY DEF Command
<1>8. InterruptIsOwed'
  BY <1>4, <1>7, InterruptStays DEF SpuInv
<1>9. KeyedAreReported' /\ UploadIsKnown'
  BY <1>4, <1>7, UploadMoves DEF SpuInv, KeyedAreReported, Reported
<1>10. LandingStep
  BY <1>4, <1>7 DEF LandingStep
<1>11. SafeStep
  <2> SUFFICES ASSUME NEW a \in Address, t.ram[a] # spu.ram[a]
               PROVE  (a - x) % RamHalfwords < (z - x) % RamHalfwords
    BY <1>1, <1>5, <1>7 DEF SafeStep, SpuInv, Shape
  <2>1. a = x \/ a = y
    BY <1>1
  <2> QED BY <1>3, <2>1
<1> QED BY <1>6, <1>7, <1>8, <1>9, <1>10, <1>11 DEF StepIsFine, SpuInv

LEMMA DmaWrite32IsFine ==
  ASSUME SpuInv, DmaWrite32
  PROVE  StepIsFine
<1>1. PICK low, high \in Halfwords :
        /\ Command(WriteRamHalfword(WriteRamHalfword(spu, low), high))
        /\ upload' = Moved(upload) /\ UNCHANGED keyed
  BY DEF DmaWrite32
<1>2. PICK u : u = WriteRamHalfword(spu, low)
  OBVIOUS
<1>3. PICK t : t = WriteRamHalfword(u, high)
  OBVIOUS
<1>4. PICK y : y = (spu.transfer_address + 1) % RamHalfwords
  OBVIOUS
<1>5. DOMAIN spu = Fields /\ DOMAIN spu.ram = Address
  BY DEF SpuInv, Shape
<1>6. /\ DOMAIN u = Fields
      /\ \A f \in Fields \ {"ram", "transfer_address", "irq_flag",
                            "irq_edge_pending"} : u[f] = spu[f]
      /\ KeepsInterrupt(spu, u)
      /\ u.ram = [spu.ram EXCEPT ![spu.transfer_address] = low]
      /\ u.transfer_address = y
  BY <1>2, <1>4, <1>5, Writes
<1>7. /\ DOMAIN t = Fields
      /\ \A f \in Fields \ {"ram", "transfer_address", "irq_flag",
                            "irq_edge_pending"} : t[f] = u[f]
      /\ KeepsInterrupt(u, t)
      /\ t.ram = [u.ram EXCEPT ![y] = high]
      /\ t.transfer_address = (y + 1) % RamHalfwords
  BY <1>3, <1>6, Writes
<1>8. u.control = spu.control
  BY <1>6 DEF Fields
<1>9. KeepsInterrupt(spu, t)
  BY <1>6, <1>7, <1>8, InterruptGoesOn
<1>10. /\ DOMAIN t.ram = Address
       /\ \A a \in Address : t.ram[a] # spu.ram[a] => a \in {spu.transfer_address, y}
  BY <1>5, <1>6, <1>7
<1>11. \A f \in Fields \ {"ram", "transfer_address", "irq_flag",
                          "irq_edge_pending"} : t[f] = spu[f]
  BY <1>6, <1>7
<1>12. Command(t)
  BY <1>1, <1>2, <1>3
<1> QED BY <1>1, <1>4, <1>7, <1>9, <1>10, <1>11, <1>12, WordIsFine

LEMMA Reads ==
  ASSUME NEW s, DOMAIN s = Fields, NEW t, t = ReadRamHalfword(s)
  PROVE  /\ DOMAIN t = Fields
         /\ \A f \in Fields \ {"transfer_address", "irq_flag",
                               "irq_edge_pending"} : t[f] = s[f]
         /\ KeepsInterrupt(s, t)
         /\ t.transfer_address = (s.transfer_address + 1) % RamHalfwords
<1>1. PICK u : u = TouchIrq(s, {s.transfer_address})
  OBVIOUS
<1>2. /\ DOMAIN u = Fields /\ KeepsInterrupt(s, u)
      /\ \A f \in Fields \ {"irq_flag", "irq_edge_pending"} : u[f] = s[f]
  BY <1>1, TouchedKeeps
<1>3. t = [u EXCEPT !.transfer_address = (@ + 1) % RamHalfwords]
  BY <1>1 DEF ReadRamHalfword
<1>4. u.transfer_address = s.transfer_address
  BY <1>2 DEF Fields
<1>5. /\ DOMAIN t = Fields
      /\ t.transfer_address = (s.transfer_address + 1) % RamHalfwords
      /\ \A f \in Fields \ {"transfer_address"} : t[f] = u[f]
  <2>1. PICK next : next = (u.transfer_address + 1) % RamHalfwords
    OBVIOUS
  <2>2. t = [u EXCEPT !.transfer_address = next]
    BY <1>3, <2>1
  <2> QED BY <1>2, <1>4, <2>1, <2>2 DEF Fields
<1>6. t.irq_flag = u.irq_flag /\ t.irq_edge_pending = u.irq_edge_pending
  BY <1>5 DEF Fields
<1>7. KeepsInterrupt(s, t)
  BY <1>2, <1>6 DEF KeepsInterrupt
<1> QED BY <1>2, <1>5, <1>7

LEMMA DmaRead32IsFine ==
  ASSUME SpuInv, DmaRead32
  PROVE  StepIsFine
<1>1. PICK u : u = ReadRamHalfword(spu)
  OBVIOUS
<1>2. PICK t : t = ReadRamHalfword(u)
  OBVIOUS
<1>3. PICK y : y = (spu.transfer_address + 1) % RamHalfwords
  OBVIOUS
<1>4. DOMAIN spu = Fields /\ DOMAIN spu.ram = Address
  BY DEF SpuInv, Shape
<1>5. /\ DOMAIN u = Fields
      /\ \A f \in Fields \ {"transfer_address", "irq_flag",
                            "irq_edge_pending"} : u[f] = spu[f]
      /\ KeepsInterrupt(spu, u) /\ u.transfer_address = y
  BY <1>1, <1>3, <1>4, Reads
<1>6. /\ DOMAIN t = Fields
      /\ \A f \in Fields \ {"transfer_address", "irq_flag",
                            "irq_edge_pending"} : t[f] = u[f]
      /\ KeepsInterrupt(u, t) /\ t.transfer_address = (y + 1) % RamHalfwords
  BY <1>2, <1>5, Reads
<1>7. u.control = spu.control /\ t.ram = spu.ram
  BY <1>5, <1>6 DEF Fields
<1>8. KeepsInterrupt(spu, t)
  BY <1>5, <1>6, <1>7, InterruptGoesOn
<1>9. /\ DOMAIN t.ram = Address
      /\ \A a \in Address : t.ram[a] # spu.ram[a] => a \in {spu.transfer_address, y}
  BY <1>4, <1>7
<1>10. \A f \in Fields \ {"ram", "transfer_address", "irq_flag",
                          "irq_edge_pending"} : t[f] = spu[f]
  BY <1>5, <1>6
<1>11. Command(t) /\ upload' = Moved(upload) /\ UNCHANGED keyed
  BY <1>1, <1>2 DEF DmaRead32
<1> QED BY <1>3, <1>6, <1>8, <1>9, <1>10, <1>11, WordIsFine

\* A command to the voices, which the transfers and the interrupt do not see.
LEMMA VoicesAreFine ==
  ASSUME SpuInv, NEW t, Command(t), UNCHANGED upload, DOMAIN t = Fields,
         \A f \in Fields \ {"voices", "end_flags"} : t[f] = spu[f],
         DOMAIN t.voices = Voices, \A v \in Voices : VoiceShape(t.voices[v]),
         keyed' \subseteq Voices, \A v \in keyed' : Reported(t, v)
  PROVE  StepIsFine
<1>1. /\ t.ram = spu.ram /\ t.transfer_fifo = spu.transfer_fifo
      /\ t.transfer_address = spu.transfer_address
      /\ t.base_address = spu.base_address
      /\ t.reverb_address = spu.reverb_address
      /\ t.reverb_registers = spu.reverb_registers
      /\ t.capture_offset = spu.capture_offset
      /\ t.cycle_accumulator = spu.cycle_accumulator
      /\ t.control = spu.control /\ t.irq_flag = spu.irq_flag
      /\ t.irq_edge_pending = spu.irq_edge_pending
  BY DEF Fields
<1>2. Shape(t)
  BY <1>1 DEF SpuInv, Shape
<1>3. spu' = t
  BY DEF Command
<1>4. KeyedAreReported'
  BY <1>3 DEF KeyedAreReported
<1>5. UploadIsKnown'
  BY <1>1, <1>3, UploadStays DEF SpuInv
<1> QED BY <1>1, <1>2, <1>4, <1>5, QuietStep

LEMMA KeyOnIsFine ==
  ASSUME SpuInv, KeyOn
  PROVE  StepIsFine
<1>1. PICK mask \in SUBSET Voices :
        /\ Command([spu EXCEPT !.end_flags = @ \ mask,
                        !.voices = [v \in Voices |-> IF v \in mask
                                        THEN VoiceOn(spu.voices[v])
                                        ELSE spu.voices[v]]])
        /\ keyed' = keyed \cup mask /\ UNCHANGED upload
  BY DEF KeyOn
<1>2. PICK flags : flags = spu.end_flags \ mask
  OBVIOUS
<1>3. PICK voices : voices = [v \in Voices |-> IF v \in mask
                                THEN VoiceOn(spu.voices[v]) ELSE spu.voices[v]]
  OBVIOUS
<1>4. PICK t : t = [spu EXCEPT !.end_flags = flags, !.voices = voices]
  OBVIOUS
<1>5. DOMAIN spu = Fields /\ \A v \in Voices : VoiceShape(spu.voices[v])
  BY DEF SpuInv, Shape
<1>6. Command(t)
  BY <1>1, <1>2, <1>3, <1>4
<1>7. /\ DOMAIN t = Fields /\ t.voices = voices /\ t.end_flags = flags
      /\ \A f \in Fields \ {"voices", "end_flags"} : t[f] = spu[f]
  BY <1>4, <1>5 DEF Fields
<1>8. DOMAIN voices = Voices
  BY <1>3
<1>9. ASSUME NEW v \in Voices
      PROVE  /\ VoiceShape(voices[v])
             /\ v \in mask => voices[v].envelope.phase = "Attack"
             /\ v \notin mask => voices[v] = spu.voices[v]
  <2>1. CASE v \in mask
    <3>1. voices[v] = VoiceOn(spu.voices[v])
      BY <1>3, <2>1
    <3>2. PICK w : w = spu.voices[v]
      OBVIOUS
    <3>3. PICK a : a = w.start_address * UnitHalfwords
      OBVIOUS
    <3>4. voices[v] = [w EXCEPT !.envelope = EnvelopeOn, !.current_address = a,
                                !.block_position = 0, !.block_loaded = FALSE]
      BY <3>1, <3>2, <3>3 DEF VoiceOn
    <3>5. DOMAIN w = VoiceFields
      BY <1>5, <3>2 DEF VoiceShape
    <3>6. DOMAIN voices[v] = VoiceFields /\ voices[v].envelope = EnvelopeOn
      BY <3>4, <3>5 DEF VoiceFields
    <3>7. DOMAIN EnvelopeOn = EnvelopeFields /\ EnvelopeOn.phase = "Attack"
      BY DEF EnvelopeOn, Silence, EnvelopeFields
    <3> QED BY <2>1, <3>6, <3>7 DEF VoiceShape
  <2>2. CASE v \notin mask
    BY <1>3, <1>5, <2>2
  <2> QED BY <2>1, <2>2
<1>10. keyed' \subseteq Voices
  BY <1>1 DEF SpuInv, KeyedAreReported
<1>11. ASSUME NEW v \in keyed' PROVE Reported(t, v)
  <2>1. CASE v \in mask
    BY <1>7, <1>9, <1>10, <2>1 DEF Reported
  <2>2. CASE v \notin mask
    <3>1. v \in keyed /\ v \in Voices
      BY <1>1, <1>10, <2>2
    <3>2. Reported(spu, v)
      BY <3>1 DEF SpuInv, KeyedAreReported
    <3>3. t.voices[v] = spu.voices[v] /\ (v \in spu.end_flags => v \in t.end_flags)
      BY <1>2, <1>7, <1>9, <2>2, <3>1
    <3> QED BY <3>2, <3>3 DEF Reported
  <2> QED BY <2>1, <2>2
<1>12. DOMAIN t.voices = Voices /\ \A v \in Voices : VoiceShape(t.voices[v])
  BY <1>7, <1>8, <1>9
<1> QED BY <1>1, <1>6, <1>7, <1>10, <1>11, <1>12, VoicesAreFine

LEMMA KeyOffIsFine ==
  ASSUME SpuInv, KeyOff
  PROVE  StepIsFine
<1>1. PICK mask \in SUBSET Voices :
        /\ Command([spu EXCEPT !.voices = [v \in Voices |-> IF v \in mask
                                              THEN VoiceOff(spu.voices[v])
                                              ELSE spu.voices[v]]])
        /\ keyed' = keyed \ mask /\ UNCHANGED upload
  BY DEF KeyOff
<1>2. PICK voices : voices = [v \in Voices |-> IF v \in mask
                                THEN VoiceOff(spu.voices[v]) ELSE spu.voices[v]]
  OBVIOUS
<1>3. PICK t : t = [spu EXCEPT !.voices = voices]
  OBVIOUS
<1>4. DOMAIN spu = Fields /\ \A v \in Voices : VoiceShape(spu.voices[v])
  BY DEF SpuInv, Shape
<1>5. Command(t)
  BY <1>1, <1>2, <1>3
<1>6. /\ DOMAIN t = Fields /\ t.voices = voices /\ t.end_flags = spu.end_flags
      /\ \A f \in Fields \ {"voices"} : t[f] = spu[f]
  BY <1>3, <1>4 DEF Fields
<1>7. ASSUME NEW v \in Voices
      PROVE  /\ VoiceShape(voices[v])
             /\ v \notin mask => voices[v] = spu.voices[v]
  <2>1. CASE v \in mask
    <3>1. PICK w : w = spu.voices[v]
      OBVIOUS
    <3>2. VoiceShape(w)
      BY <1>4, <3>1
    <3>3. PICK e : e = EnvelopeOff(w.envelope)
      OBVIOUS
    <3>4. DOMAIN e = EnvelopeFields
      BY <3>2, <3>3 DEF EnvelopeOff, VoiceShape
    <3>5. voices[v] = [w EXCEPT !.envelope = e]
      BY <1>2, <2>1, <3>1, <3>3 DEF VoiceOff
    <3> QED BY <2>1, <3>2, <3>4, <3>5 DEF VoiceShape, VoiceFields
  <2>2. CASE v \notin mask
    BY <1>2, <1>4, <2>2
  <2> QED BY <2>1, <2>2
<1>8. keyed' \subseteq Voices
  BY <1>1 DEF SpuInv, KeyedAreReported
<1>9. ASSUME NEW v \in keyed' PROVE Reported(t, v)
  <2>1. v \in keyed /\ v \in Voices /\ v \notin mask
    BY <1>1, <1>8
  <2>2. Reported(spu, v)
    BY <2>1 DEF SpuInv, KeyedAreReported
  <2> QED BY <1>6, <1>7, <2>1, <2>2 DEF Reported
<1>10. DOMAIN t.voices = Voices /\ \A v \in Voices : VoiceShape(t.voices[v])
  BY <1>2, <1>6, <1>7
<1>11. \A f \in Fields \ {"voices", "end_flags"} : t[f] = spu[f]
  BY <1>6
<1> QED BY <1>1, <1>5, <1>6, <1>8, <1>9, <1>10, <1>11, VoicesAreFine

LEMMA WriteVoiceIsFine ==
  ASSUME SpuInv, WriteVoice
  PROVE  StepIsFine
<1>1. PICK v \in Voices :
        \/ \E x \in Pitches : Command([spu EXCEPT !.voices[v].pitch = x])
        \/ \E x \in Units : Command([spu EXCEPT !.voices[v].start_address = x])
        \/ \E x \in Units : Command([spu EXCEPT !.voices[v].repeat_address = x])
        \/ \E x \in Adsrs : Command([spu EXCEPT !.voices[v].adsr = x])
        \/ \E x \in Levels : Command([spu EXCEPT !.voices[v].envelope.level = x])
  BY DEF WriteVoice
<1>2. UNCHANGED <<upload, keyed>>
  BY DEF WriteVoice
<1>3. PICK w : w = spu.voices[v]
  OBVIOUS
<1>4. /\ DOMAIN spu = Fields /\ DOMAIN spu.voices = Voices
      /\ VoiceShape(w) /\ \A u \in Voices : VoiceShape(spu.voices[u])
  BY <1>3 DEF SpuInv, Shape
<1>5. PICK n : /\ Command([spu EXCEPT !.voices[v] = n])
               /\ VoiceShape(n) /\ n.envelope.phase = w.envelope.phase
  <2>1. ASSUME NEW x, Command([spu EXCEPT !.voices[v].pitch = x])
        PROVE  \E n : /\ Command([spu EXCEPT !.voices[v] = n])
                      /\ VoiceShape(n) /\ n.envelope.phase = w.envelope.phase
    <3>1. PICK n : n = [w EXCEPT !.pitch = x]
      OBVIOUS
    <3>2. Command([spu EXCEPT !.voices[v] = n])
      BY <1>3, <2>1, <3>1
    <3>3. VoiceShape(n) /\ n.envelope.phase = w.envelope.phase
      BY <1>4, <3>1 DEF VoiceShape, VoiceFields
    <3> QED BY <3>2, <3>3
  <2>2. ASSUME NEW x, Command([spu EXCEPT !.voices[v].start_address = x])
        PROVE  \E n : /\ Command([spu EXCEPT !.voices[v] = n])
                      /\ VoiceShape(n) /\ n.envelope.phase = w.envelope.phase
    <3>1. PICK n : n = [w EXCEPT !.start_address = x]
      OBVIOUS
    <3>2. Command([spu EXCEPT !.voices[v] = n])
      BY <1>3, <2>2, <3>1
    <3>3. VoiceShape(n) /\ n.envelope.phase = w.envelope.phase
      BY <1>4, <3>1 DEF VoiceShape, VoiceFields
    <3> QED BY <3>2, <3>3
  <2>3. ASSUME NEW x, Command([spu EXCEPT !.voices[v].repeat_address = x])
        PROVE  \E n : /\ Command([spu EXCEPT !.voices[v] = n])
                      /\ VoiceShape(n) /\ n.envelope.phase = w.envelope.phase
    <3>1. PICK n : n = [w EXCEPT !.repeat_address = x]
      OBVIOUS
    <3>2. Command([spu EXCEPT !.voices[v] = n])
      BY <1>3, <2>3, <3>1
    <3>3. VoiceShape(n) /\ n.envelope.phase = w.envelope.phase
      BY <1>4, <3>1 DEF VoiceShape, VoiceFields
    <3> QED BY <3>2, <3>3
  <2>4. ASSUME NEW x, Command([spu EXCEPT !.voices[v].adsr = x])
        PROVE  \E n : /\ Command([spu EXCEPT !.voices[v] = n])
                      /\ VoiceShape(n) /\ n.envelope.phase = w.envelope.phase
    <3>1. PICK n : n = [w EXCEPT !.adsr = x]
      OBVIOUS
    <3>2. Command([spu EXCEPT !.voices[v] = n])
      BY <1>3, <2>4, <3>1
    <3>3. VoiceShape(n) /\ n.envelope.phase = w.envelope.phase
      BY <1>4, <3>1 DEF VoiceShape, VoiceFields
    <3> QED BY <3>2, <3>3
  <2>5. ASSUME NEW x, Command([spu EXCEPT !.voices[v].envelope.level = x])
        PROVE  \E n : /\ Command([spu EXCEPT !.voices[v] = n])
                      /\ VoiceShape(n) /\ n.envelope.phase = w.envelope.phase
    <3>1. PICK e : e = [w.envelope EXCEPT !.level = x]
      OBVIOUS
    <3>2. PICK n : n = [w EXCEPT !.envelope = e]
      OBVIOUS
    <3>3. Command([spu EXCEPT !.voices[v] = n])
      BY <1>3, <2>5, <3>1, <3>2
    <3>4. DOMAIN e = EnvelopeFields /\ e.phase = w.envelope.phase
      BY <1>4, <3>1 DEF VoiceShape, EnvelopeFields
    <3>5. VoiceShape(n) /\ n.envelope.phase = w.envelope.phase
      BY <1>4, <3>2, <3>4 DEF VoiceShape, VoiceFields
    <3> QED BY <3>3, <3>5
  <2> QED BY <1>1, <2>1, <2>2, <2>3, <2>4, <2>5
<1>6. PICK voices : voices = [spu.voices EXCEPT ![v] = n]
  OBVIOUS
<1>7. PICK t : t = [spu EXCEPT !.voices = voices]
  OBVIOUS
<1>8. Command(t)
  BY <1>5, <1>6, <1>7
<1>9. /\ DOMAIN t = Fields /\ t.voices = voices /\ t.end_flags = spu.end_flags
      /\ \A f \in Fields \ {"voices"} : t[f] = spu[f]
  BY <1>4, <1>7 DEF Fields
<1>10. /\ DOMAIN voices = Voices
       /\ \A u \in Voices : voices[u] = IF u = v THEN n ELSE spu.voices[u]
  BY <1>4, <1>6
<1>11. DOMAIN t.voices = Voices /\ \A u \in Voices : VoiceShape(t.voices[u])
  BY <1>4, <1>5, <1>9, <1>10
<1>12. keyed' \subseteq Voices /\ \A u \in keyed' : Reported(t, u)
  <2>1. keyed' = keyed /\ keyed \subseteq Voices
    BY <1>2 DEF SpuInv, KeyedAreReported
  <2>2. ASSUME NEW u \in keyed PROVE Reported(t, u)
    <3>1. Reported(spu, u) /\ u \in Voices
      BY DEF SpuInv, KeyedAreReported
    <3>2. t.voices[u].envelope.phase = spu.voices[u].envelope.phase
      BY <1>3, <1>5, <1>9, <1>10, <3>1
    <3> QED BY <1>9, <3>1, <3>2 DEF Reported
  <2> QED BY <2>1, <2>2
<1>13. \A f \in Fields \ {"voices", "end_flags"} : t[f] = spu[f]
  BY <1>9
<1> QED BY <1>2, <1>8, <1>9, <1>11, <1>12, <1>13, VoicesAreFine

\* A command to the registers no transfer and no voice's phase looks at.
LEMMA SetupIsFine ==
  ASSUME SpuInv, NEW t, Command(t), UNCHANGED <<upload, keyed>>, DOMAIN t = Fields,
         \A f \in Fields \ {"transfer_type", "irq_address", "noise_mode",
                            "reverb_registers", "base_address",
                            "reverb_address"} : t[f] = spu[f],
         t.base_address \in Address, t.reverb_address \in Int,
         t.reverb_registers \in ReverbRegisters
  PROVE  StepIsFine
<1>1. /\ t.ram = spu.ram /\ t.transfer_fifo = spu.transfer_fifo
      /\ t.transfer_address = spu.transfer_address
      /\ t.voices = spu.voices /\ t.end_flags = spu.end_flags
      /\ t.capture_offset = spu.capture_offset
      /\ t.cycle_accumulator = spu.cycle_accumulator
      /\ t.control = spu.control /\ t.irq_flag = spu.irq_flag
      /\ t.irq_edge_pending = spu.irq_edge_pending
  BY DEF Fields
<1>2. Shape(t)
  BY <1>1 DEF SpuInv, Shape
<1>3. spu' = t
  BY DEF Command
<1>4. KeyedAreReported'
  BY <1>1, <1>3 DEF SpuInv, KeyedAreReported, Reported
<1>5. UploadIsKnown'
  BY <1>1, <1>3, UploadStays DEF SpuInv
<1> QED BY <1>1, <1>2, <1>4, <1>5, QuietStep

LEMMA WriteSetupIsFine ==
  ASSUME SpuInv, WriteSetup
  PROVE  StepIsFine
<1> DEFINE Loose == {"transfer_type", "irq_address", "noise_mode",
                     "reverb_registers", "base_address", "reverb_address"}
<1>1. UNCHANGED <<upload, keyed>>
  BY DEF WriteSetup
<1>2. /\ DOMAIN spu = Fields /\ spu.base_address \in Address
      /\ spu.reverb_address \in Int /\ spu.reverb_registers \in ReverbRegisters
  BY DEF SpuInv, Shape
<1>3. ASSUME NEW f \in {"transfer_type", "irq_address", "noise_mode"}, NEW x,
             Command([spu EXCEPT ![f] = x])
      PROVE  StepIsFine
  <2>1. PICK t : t = [spu EXCEPT ![f] = x]
    OBVIOUS
  <2>2. /\ DOMAIN t = Fields /\ \A g \in Fields \ {f} : t[g] = spu[g]
    BY <1>2, <2>1
  <2>3. /\ t.base_address = spu.base_address
        /\ t.reverb_address = spu.reverb_address
        /\ t.reverb_registers = spu.reverb_registers
    BY <2>2 DEF Fields
  <2>4. \A g \in Fields \ Loose : t[g] = spu[g]
    BY <2>2
  <2>5. Command(t)
    BY <1>3, <2>1
  <2> QED BY <1>1, <1>2, <2>2, <2>3, <2>4, <2>5, SetupIsFine
<1>4. ASSUME NEW x \in ReverbSetups, Command([spu EXCEPT !.reverb_registers = x])
      PROVE  StepIsFine
  <2>1. PICK t : t = [spu EXCEPT !.reverb_registers = x]
    OBVIOUS
  <2>2. /\ DOMAIN t = Fields /\ t.reverb_registers = x
        /\ \A g \in Fields \ {"reverb_registers"} : t[g] = spu[g]
    BY <1>2, <2>1 DEF Fields
  <2>3. /\ t.base_address = spu.base_address
        /\ t.reverb_address = spu.reverb_address
        /\ x \in ReverbRegisters
    BY <2>2, SpuAssumption DEF Fields, ReverbRegisters
  <2>4. \A g \in Fields \ Loose : t[g] = spu[g]
    BY <2>2
  <2>5. Command(t)
    BY <1>4, <2>1
  <2> QED BY <1>1, <1>2, <2>2, <2>3, <2>4, <2>5, SetupIsFine
<1>5. ASSUME NEW x \in Units,
             Command([spu EXCEPT !.base_address = x * UnitHalfwords,
                                 !.reverb_address = x * UnitHalfwords])
      PROVE  StepIsFine
  <2>1. PICK a \in Address : a = x * UnitHalfwords
    BY UnitsAreAddresses DEF UnitsFit
  <2>2. PICK t : t = [spu EXCEPT !.base_address = a, !.reverb_address = a]
    OBVIOUS
  <2>3. /\ DOMAIN t = Fields /\ t.base_address = a /\ t.reverb_address = a
        /\ \A g \in Fields \ {"base_address", "reverb_address"} : t[g] = spu[g]
    BY <1>2, <2>2 DEF Fields
  <2>4. t.reverb_registers = spu.reverb_registers /\ a \in Int
    BY <2>3 DEF Fields, Address
  <2>5. \A g \in Fields \ Loose : t[g] = spu[g]
    BY <2>3
  <2>6. Command(t)
    BY <1>5, <2>1, <2>2
  <2> QED BY <1>1, <1>2, <2>1, <2>3, <2>4, <2>5, <2>6, SetupIsFine
<1>6. \/ \E x \in TransferTypes : Command([spu EXCEPT !.transfer_type = x])
      \/ \E x \in Units : Command([spu EXCEPT !.irq_address = x])
      \/ \E x \in SUBSET Voices : Command([spu EXCEPT !.noise_mode = x])
      \/ \E x \in ReverbSetups : Command([spu EXCEPT !.reverb_registers = x])
      \/ \E x \in Units : Command([spu EXCEPT !.base_address = x * UnitHalfwords,
                                              !.reverb_address = x * UnitHalfwords])
  BY DEF WriteSetup
<1> QED BY <1>3, <1>4, <1>5, <1>6

LEMMA TickIsFine ==
  ASSUME SpuInv, SomeTick
  PROVE  StepIsFine
<1>1. PICK cycles \in Nat : Tick(cycles)
  BY SpuAssumption DEF SomeTick
<1>2. PICK ran : ran = RunSamples(spu, cycles)
  OBVIOUS
<1>3. /\ spu' = [ran EXCEPT !.irq_edge_pending = FALSE]
      /\ owed' = owed + (IF ran.irq_flag /\ ~spu.irq_flag THEN 1 ELSE 0)
                      - (IF ran.irq_edge_pending THEN 1 ELSE 0)
      /\ upload' = IF ran.transfer_fifo = << >> THEN NoUpload ELSE upload
      /\ UNCHANGED keyed
  BY <1>1, <1>2 DEF Tick
<1>4. Goes(spu, ran) /\ Shape(spu) /\ Shape(ran)
  BY <1>2, RunSamplesGoes DEF SpuInv, Goes
<1>5. /\ DOMAIN spu' = Fields /\ spu'.irq_edge_pending = FALSE
      /\ \A f \in Fields \ {"irq_edge_pending"} : spu'[f] = ran[f]
  <2>1. DOMAIN ran = Fields
    BY <1>4 DEF Shape
  <2> QED BY <1>3, <2>1 DEF Fields
<1>6. /\ spu'.ram = ran.ram /\ spu'.voices = ran.voices
      /\ spu'.transfer_fifo = ran.transfer_fifo
      /\ spu'.transfer_address = ran.transfer_address
      /\ spu'.end_flags = ran.end_flags /\ spu'.control = ran.control
      /\ spu'.base_address = ran.base_address
      /\ spu'.reverb_address = ran.reverb_address
      /\ spu'.reverb_registers = ran.reverb_registers
      /\ spu'.capture_offset = ran.capture_offset
      /\ spu'.cycle_accumulator = ran.cycle_accumulator
      /\ spu'.irq_flag = ran.irq_flag
  BY <1>5 DEF Fields
<1>7. Shape(spu)'
  BY <1>4, <1>5, <1>6 DEF Shape
<1>8. KeyedAreReported'
  <2>1. KeepsVoices(spu, ran)
    BY <1>4 DEF Goes
  <2>2. ASSUME NEW v \in keyed PROVE Reported(spu', v)
    <3>1. v \in Voices /\ Reported(spu, v)
      BY DEF SpuInv, KeyedAreReported
    <3>2. Reported(ran, v)
      BY <2>1, <3>1 DEF KeepsVoices
    <3> QED BY <1>6, <3>2 DEF Reported
  <2>3. keyed' = keyed /\ keyed \subseteq Voices
    BY <1>3 DEF SpuInv, KeyedAreReported
  <2> QED BY <2>2, <2>3 DEF KeyedAreReported
<1>9. InterruptIsOwed'
  <2>1. KeepsInterrupt(spu, ran) /\ ran.control = spu.control
    BY <1>4 DEF Goes, KeepsRegisters
  <2>2. spu'.irq_flag => IrqEnabled(spu'.control)
    <3>1. ran.irq_flag => IrqEnabled(ran.control)
      BY <2>1, Zenon DEF SpuInv, InterruptIsOwed, KeepsInterrupt
    <3> QED BY <1>6, <3>1
  <2>3. owed' = 0
    <3>1. CASE spu.irq_flag
      <4>1. ran.irq_edge_pending <=> spu.irq_edge_pending
        BY <2>1, <3>1, Zenon DEF KeepsInterrupt
      <4>2. CASE spu.irq_edge_pending
        <5>1. owed = 1
          BY <4>2 DEF SpuInv, InterruptIsOwed
        <5>2. owed' = 1 + 0 - 1
          BY <1>3, <3>1, <4>1, <4>2, <5>1
        <5> QED BY <5>2
      <4>3. CASE ~spu.irq_edge_pending
        <5>1. owed = 0
          BY <4>3 DEF SpuInv, InterruptIsOwed
        <5>2. owed' = 0 + 0 - 0
          BY <1>3, <3>1, <4>1, <4>3, <5>1
        <5> QED BY <5>2
      <4> QED BY <4>2, <4>3
    <3>2. CASE ~spu.irq_flag
      <4>1. ~spu.irq_edge_pending /\ owed = 0
        BY <3>2 DEF SpuInv, InterruptIsOwed
      <4>2. ran.irq_flag <=> ran.irq_edge_pending
        BY <2>1, <3>2, <4>1, Zenon DEF KeepsInterrupt
      <4>3. CASE ran.irq_flag
        <5>1. owed' = 0 + 1 - 1
          BY <1>3, <3>2, <4>1, <4>2, <4>3
        <5> QED BY <5>1
      <4>4. CASE ~ran.irq_flag
        <5>1. owed' = 0 + 0 - 0
          BY <1>3, <3>2, <4>1, <4>2, <4>4
        <5> QED BY <5>1
      <4> QED BY <4>3, <4>4
    <3> QED BY <3>1, <3>2
  <2>4. ~spu'.irq_edge_pending
    BY <1>5
  <2> QED BY <2>2, <2>3, <2>4 DEF InterruptIsOwed
<1>10. UploadIsKnown'
  <2>1. CASE ran.transfer_fifo = << >>
    <3>1. upload' = NoUpload
      BY <1>3, <2>1
    <3> QED BY <1>6, <2>1, <3>1 DEF UploadIsKnown, NoUpload
  <2>2. CASE ran.transfer_fifo # << >>
    <3>1. /\ ran.transfer_fifo = spu.transfer_fifo
          /\ ran.transfer_address = spu.transfer_address
      BY <1>4, <2>2 DEF Goes, KeepsFifo
    <3>2. upload' = upload
      BY <1>3, <2>2
    <3> QED BY <1>6, <3>1, <3>2 DEF SpuInv, UploadIsKnown
  <2> QED BY <2>1, <2>2
<1>11. PICK x \in Address : x = spu.transfer_address
  BY <1>4 DEF Shape
<1>12. PICK N \in Nat : N = Len(spu.transfer_fifo) /\ N < RamHalfwords
  BY <1>4, SpuConstants DEF Shape
<1>13. PICK R \in Nat \ {0} : R = RamHalfwords
  BY SpuConstants
<1>14. ran.transfer_fifo # spu.transfer_fifo => ran.transfer_address = (x + N) % R
  BY <1>4, <1>11, <1>12, <1>13 DEF Goes, KeepsFifo
<1>15. SafeStep
  <2> SUFFICES ASSUME NEW a \in Address, ran.ram[a] # spu.ram[a]
               PROVE  \/ a < 4 * CaptureHalfwords
                      \/ spu.control.reverb /\ a >= spu.base_address
                      \/ (a - x) % RamHalfwords
                              < (ran.transfer_address - x) % RamHalfwords
    BY <1>4, <1>6, <1>11 DEF SafeStep, Shape
  <2>1. \/ Free(spu, a)
        \/ /\ ran.transfer_fifo # spu.transfer_fifo
           /\ (a - x) % RamHalfwords < N
    BY <1>4, <1>11, <1>12 DEF Goes, KeepsRam
  <2>2. CASE Free(spu, a)
    BY <2>2 DEF Free
  <2>3. CASE ran.transfer_fifo # spu.transfer_fifo /\ (a - x) % RamHalfwords < N
    <3>1. PICK y \in 0..(R - 1) : y = ran.transfer_address
      BY <1>4, <1>13 DEF Shape, Address
    <3>2. (x + N) % R = y
      BY <1>14, <2>3, <3>1
    <3>3. x \in Int /\ N \in 0..(R - 1)
      BY <1>11, <1>12, <1>13 DEF Address
    <3>4. (y - x) % R = N
      BY <3>2, <3>3, RingPlace
    <3> QED BY <1>13, <2>3, <3>1, <3>4
  <2> QED BY <2>1, <2>2, <2>3
<1>16. LandingStep
  <2> SUFFICES ASSUME upload.inPlace, spu.transfer_fifo # << >>,
                      ran.transfer_fifo = << >>
      PROVE /\ ran.transfer_address
                    = (upload.first + Len(upload.data)) % RamHalfwords
            /\ \A i \in DOMAIN upload.data :
                  LET a == (upload.first + i - 1) % RamHalfwords
                  IN \/ spu.transfer_type # 2 \/ ran.ram[a] = upload.data[i]
                     \/ a < 4 * CaptureHalfwords
                     \/ spu.control.reverb /\ a >= spu.base_address
    BY <1>6 DEF LandingStep
  <2>1. upload.data = spu.transfer_fifo /\ upload.first = x
    BY <1>11 DEF SpuInv, UploadIsKnown
  <2>2. ran.transfer_address = (x + N) % RamHalfwords
    BY <1>13, <1>14
  <2>3. DOMAIN upload.data = 1..N
    BY <1>4, <1>12, <2>1 DEF Shape
  <2>4. ASSUME NEW i \in 1..N, NEW a, a = (x + i - 1) % RamHalfwords
        PROVE  \/ spu.transfer_type # 2 \/ ran.ram[a] = upload.data[i]
               \/ a < 4 * CaptureHalfwords
               \/ spu.control.reverb /\ a >= spu.base_address
    <3>1. a \in Address
      <4>1. x + i - 1 \in Int
        BY <1>11 DEF Address
      <4> QED BY <1>13, <2>4, <4>1 DEF Address
    <3>2. CASE spu.transfer_type = 2
      <4>1. ran.ram[a] = spu.transfer_fifo[i] \/ Free(spu, a)
        BY <1>4, <1>11, <1>12, <2>4, <3>1, <3>2 DEF Goes, Lands
      <4> QED BY <2>1, <4>1 DEF Free
    <3> QED BY <3>2
  <2> QED BY <1>12, <2>1, <2>2, <2>3, <2>4
<1> QED BY <1>7, <1>8, <1>9, <1>10, <1>15, <1>16 DEF StepIsFine, SpuInv

LEMMA SpuStarts == Init => SpuInv
<1> SUFFICES ASSUME Init PROVE SpuInv
  OBVIOUS
<1>1. PICK setup \in Setups :
        /\ spu = [ram |-> setup.ram,
                  voices |-> [v \in Voices |->
                      LET new == NewVoice(setup.adsr, setup.pitch, setup.start)
                      IN IF v \in setup.on THEN VoiceOn(new) ELSE new],
                  control |-> setup.control,
                  transfer_address |-> setup.start * UnitHalfwords,
                  transfer_fifo |-> setup.fifo, transfer_type |-> 2,
                  irq_address |-> setup.irq, noise_mode |-> {},
                  end_flags |-> {}, cycle_accumulator |-> 0,
                  capture_offset |-> 0, irq_flag |-> FALSE,
                  irq_edge_pending |-> FALSE, reverb_registers |-> setup.reverb,
                  base_address |-> setup.base * UnitHalfwords,
                  reverb_address |-> setup.base * UnitHalfwords,
                  second_half_tick |-> FALSE]
        /\ upload = [first |-> spu.transfer_address, data |-> setup.fifo,
                      inPlace |-> TRUE]
        /\ keyed = setup.on
  BY DEF Init
<1>2. PICK voices : voices = [v \in Voices |->
          LET new == NewVoice(setup.adsr, setup.pitch, setup.start)
          IN IF v \in setup.on THEN VoiceOn(new) ELSE new]
  OBVIOUS
<1>3. /\ DOMAIN setup.ram = Address
      /\ setup.start \in Units /\ setup.base \in Units
      /\ setup.reverb \in ReverbSetups /\ setup.on \subseteq Voices
      /\ setup.fifo \in Seq(Halfwords) /\ Len(setup.fifo) <= FifoDepth
  BY SpuAssumption DEF Address, Voices
<1>4. PICK first, base \in Address :
        first = setup.start * UnitHalfwords /\ base = setup.base * UnitHalfwords
  BY <1>3, UnitsAreAddresses DEF UnitsFit
<1>5. /\ spu.ram = setup.ram /\ spu.voices = voices
      /\ spu.transfer_address = first /\ spu.transfer_fifo = setup.fifo
      /\ spu.cycle_accumulator = 0 /\ spu.capture_offset = 0
      /\ ~spu.irq_flag /\ ~spu.irq_edge_pending
      /\ spu.reverb_registers = setup.reverb
      /\ spu.base_address = base /\ spu.reverb_address = base
  BY <1>1, <1>2, <1>4
<1>6. DOMAIN spu = Fields
  BY <1>1 DEF Fields
<1>7. /\ DOMAIN voices = Voices
      /\ \A v \in Voices :
            /\ VoiceShape(voices[v])
            /\ v \in setup.on => voices[v].envelope.phase = "Attack"
  <2>1. PICK new : new = NewVoice(setup.adsr, setup.pitch, setup.start)
    OBVIOUS
  <2>2. DOMAIN new = VoiceFields /\ new.envelope = Silence
    BY <2>1 DEF NewVoice, VoiceFields
  <2>3. PICK a : a = new.start_address * UnitHalfwords
    OBVIOUS
  <2>4. VoiceOn(new) = [new EXCEPT !.envelope = EnvelopeOn, !.current_address = a,
                                   !.block_position = 0, !.block_loaded = FALSE]
    BY <2>3 DEF VoiceOn
  <2>5. PICK on : on = VoiceOn(new)
    OBVIOUS
  <2>6. DOMAIN on = VoiceFields /\ on.envelope = EnvelopeOn
    BY <2>2, <2>4, <2>5 DEF VoiceFields
  <2>7. /\ DOMAIN EnvelopeOn = EnvelopeFields /\ EnvelopeOn.phase = "Attack"
        /\ DOMAIN Silence = EnvelopeFields
    BY DEF EnvelopeOn, Silence, EnvelopeFields
  <2>8. DOMAIN voices = Voices
    BY <1>2
  <2>9. \A v \in Voices : voices[v] = IF v \in setup.on THEN on ELSE new
    BY <1>2, <2>1, <2>5
  <2> QED BY <2>2, <2>6, <2>7, <2>8, <2>9 DEF VoiceShape
<1>8. Shape(spu)
  <2>1. spu.reverb_registers \in ReverbRegisters
    BY <1>3, <1>5, SpuAssumption DEF ReverbRegisters
  <2>2. base \in Int /\ 0 \in Nat /\ 0 \in 0..(CaptureHalfwords - 1)
    BY SpuConstants DEF Address
  <2> QED BY <1>3, <1>5, <1>6, <1>7, <2>1, <2>2 DEF Shape
<1>9. InterruptIsOwed
  <2>1. owed = 0
    BY DEF Init
  <2> QED BY <1>5, <2>1 DEF InterruptIsOwed
<1>10. KeyedAreReported
  <2>1. keyed = setup.on
    BY <1>1
  <2> QED BY <1>3, <1>5, <1>7, <2>1 DEF KeyedAreReported, Reported
<1>11. UploadIsKnown
  <2>1. upload = [first |-> first, data |-> setup.fifo, inPlace |-> TRUE]
    BY <1>1, <1>5
  <2> QED BY <1>5, <2>1 DEF UploadIsKnown
<1> QED BY <1>8, <1>9, <1>10, <1>11 DEF SpuInv

LEMMA StillIsFine ==
  ASSUME SpuInv, UNCHANGED <<spu, owed, upload, keyed>>
  PROVE  StepIsFine
<1>1. SpuInv'
  BY DEF SpuInv, Shape, InterruptIsOwed, KeyedAreReported, Reported, UploadIsKnown
<1>2. SafeStep /\ LandingStep
  BY DEF SafeStep, LandingStep
<1> QED BY <1>1, <1>2 DEF StepIsFine

LEMMA SpuGoesOn == SpuInv /\ [Next]_vars => StepIsFine
<1> SUFFICES ASSUME SpuInv, [Next]_vars PROVE StepIsFine
  OBVIOUS
<1>1. CASE WriteControl
  BY <1>1, WriteControlIsFine
<1>2. CASE WriteTransferAddress
  BY <1>2, WriteTransferAddressIsFine
<1>3. CASE WriteTransferFifo
  BY <1>3, WriteTransferFifoIsFine
<1>4. CASE DmaWrite32
  BY <1>4, DmaWrite32IsFine
<1>5. CASE DmaRead32
  BY <1>5, DmaRead32IsFine
<1>6. CASE KeyOn
  BY <1>6, KeyOnIsFine
<1>7. CASE KeyOff
  BY <1>7, KeyOffIsFine
<1>8. CASE WriteVoice
  BY <1>8, WriteVoiceIsFine
<1>9. CASE WriteSetup
  BY <1>9, WriteSetupIsFine
<1>10. CASE AcknowledgeIstat
  BY <1>10, StillIsFine DEF AcknowledgeIstat
<1>11. CASE SomeTick
  BY <1>11, TickIsFine
<1>12. CASE UNCHANGED vars
  BY <1>12, StillIsFine DEF vars
<1> QED BY <1>1, <1>2, <1>3, <1>4, <1>5, <1>6, <1>7, <1>8, <1>9, <1>10, <1>11,
           <1>12 DEF Next, Guest

LEMMA SpuInvHolds == Spec => []SpuInv
<1>1. SpuInv /\ [Next]_vars => SpuInv'
  BY SpuGoesOn DEF StepIsFine
<1> QED BY SpuStarts, <1>1, PTL DEF Spec

\* For any number of voices, size of RAM and FIFO and any registers, every
\* rise of the interrupt flag is owed to the CPU exactly once, until a tick
\* reports its edge or the guest withdraws it (raise_irq, tick).
THEOREM RisesAreOwed == Spec => []InterruptIsOwed
<1>1. SpuInv => InterruptIsOwed
  BY DEF SpuInv
<1> QED BY <1>1, SpuInvHolds, PTL

\* Of any number of voices, whatever the sound RAM holds and whichever of
\* them are keyed on, none that was not keyed off falls silent without its
\* bit in ENDX (Voice::tick, key_on).
THEOREM EndsAreReported == Spec => []EndedVoicesAreReported
<1>1. SpuInv => EndedVoicesAreReported
  BY DEF SpuInv, KeyedAreReported, Reported, EndedVoicesAreReported
<1> QED BY <1>1, SpuInvHolds, PTL

\* Whatever the reverberator's registers hold and however many samples a
\* tick makes, sound RAM changes only in the captures, at the transfer
\* address and in the reverberator's area (Reverb::displaced).
THEOREM SamplesStaySafe == Spec => SamplesAreSafe
<1>1. SpuInv /\ [Next]_vars => SafeStep
  BY SpuGoesOn DEF StepIsFine
<1> QED BY <1>1, SpuInvHolds, PTL DEF Spec, SamplesAreSafe, SafeStep

\* An upload nothing else disturbs lands where it was aimed, whenever its
\* sample comes and wherever in RAM it wraps (flush_transfer_fifo).
THEOREM UploadsLand == Spec => UploadLandsInPlace
<1>1. SpuInv /\ [Next]_vars => LandingStep
  BY SpuGoesOn DEF StepIsFine
<1> QED BY <1>1, SpuInvHolds, PTL DEF Spec, UploadLandsInPlace, LandingStep
=============================================================================
