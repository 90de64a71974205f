------------------------------- MODULE SpuVoice -------------------------------
(***************************************************************************)
(* One voice of the SPU: src/ps1-core/src/audio/voice.rs and the ADSR      *)
(* envelope of envelope.rs, with the widths and rates of the code.         *)
(*                                                                         *)
(* What a voice plays is abstracted: a block of ADPCM is its flags and one *)
(* half word of sound, read when the block is decoded.  Where it reads,    *)
(* when it advances, jumps, ends and falls silent is the code's.  RAM is   *)
(* addressed by half words; the address registers count units of eight     *)
(* bytes, and a block is two of them.                                      *)
(***************************************************************************)
EXTENDS Integers

CONSTANTS
    UnitHalfwords,  \* half words in a unit: 4
    RamHalfwords,   \* SPU_RAM_SIZE / 2
    BlockEnd,       \* BLOCK_POSITION_END: 28 samples of 0x1000
    MaxStep         \* a voice advances at most 0x4000 in one sample

ASSUME VoiceAssumption ==
    /\ {UnitHalfwords, RamHalfwords, BlockEnd, MaxStep} \subseteq Nat \ {0}
    /\ RamHalfwords % UnitHalfwords = 0
    /\ MaxStep <= BlockEnd

\* F(x) with x evaluated once, for stages one after the other.
With(x, F(_)) == CHOOSE y \in {F(z) : z \in {x}} : TRUE

AtMost(x, bound) == IF x > bound THEN bound ELSE x
AtLeast(x, bound) == IF x < bound THEN bound ELSE x

-----------------------------------------------------------------------------
(* The envelope: [level, counter, phase].                                  *)

Silence == [level |-> 0, counter |-> 0, phase |-> "Off"]
EnvelopeOn == [Silence EXCEPT !.phase = "Attack"]
EnvelopeOff(e) ==
    IF e.phase = "Off" THEN e ELSE [e EXCEPT !.counter = 0, !.phase = "Release"]

\* Faulty: a falling curve is rounded towards zero.
RateStepRounded(rate, level) ==
    LET base == IF rate.decreasing THEN -1 - (7 - rate.step) ELSE 7 - rate.step
        step == base * 2^AtLeast(11 - rate.shift, 0)
    IN IF rate.exponential /\ rate.decreasing
       THEN -((-step * level) \div 32768) ELSE step
\* How much the level moves when the counter runs over, and how much the
\* counter gains in a sample; -1 - x is the code's !x, \div its >>.
RateStep(rate, level) ==
    LET base == IF rate.decreasing THEN -1 - (7 - rate.step) ELSE 7 - rate.step
        step == base * 2^AtLeast(11 - rate.shift, 0)
    IN CASE rate.exponential /\ rate.decreasing -> (step * level) \div 32768
         [] rate.exponential /\ ~rate.decreasing /\ level > 24576 ->
                IF rate.shift < 10 THEN step \div 4
                ELSE IF rate.shift = 10 THEN step \div 2 ELSE step
         [] OTHER -> step
RateIncrement(rate, level) ==
    LET increment == AtLeast(32768 \div 2^AtLeast(rate.shift - 11, 0), 1)
    IN CASE ~(rate.exponential /\ ~rate.decreasing /\ level > 24576) -> increment
         [] rate.shift < 10 -> increment
         [] rate.shift = 10 -> AtLeast(increment \div 2, 1)
         [] OTHER -> AtLeast(increment \div 4, 1)

StepEnvelope(e, rate) ==
    LET counter == e.counter + RateIncrement(rate, e.level)
        moved == e.level + RateStep(rate, e.level)
    IN CASE rate.frozen -> e
         [] ~rate.frozen /\ counter < 32768 -> [e EXCEPT !.counter = counter]
         [] OTHER ->
                [e EXCEPT !.counter = counter - 32768,
                          !.level = IF rate.decreasing THEN AtLeast(moved, 0)
                                    ELSE AtLeast(AtMost(moved, 32767), -32768)]

\* The rates the voice's ADSR registers give each phase.
Rate(adsr, phase) ==
    CASE phase = "Attack" ->
            [shift |-> adsr.attackShift, step |-> adsr.attackStep,
             exponential |-> adsr.attackExponential, decreasing |-> FALSE,
             frozen |-> adsr.attackShift = 31 /\ adsr.attackStep = 3]
      [] phase = "Decay" ->
            [shift |-> adsr.decayShift, step |-> 0, exponential |-> TRUE,
             decreasing |-> TRUE, frozen |-> FALSE]
      [] phase = "Sustain" ->
            [shift |-> adsr.sustainShift, step |-> adsr.sustainStep,
             exponential |-> adsr.sustainExponential,
             decreasing |-> adsr.sustainDecreasing,
             frozen |-> adsr.sustainShift = 31 /\ adsr.sustainStep = 3]
      [] phase = "Release" ->
            [shift |-> adsr.releaseShift, step |-> 0,
             exponential |-> adsr.releaseExponential, decreasing |-> TRUE,
             frozen |-> adsr.releaseShift = 31]
SustainTarget(adsr) == AtMost((adsr.sustainLevel + 1) * 2048, 32767)

\* The phase ends when the level e has come to asks for it.
EndPhase(e, adsr) ==
    CASE e.phase = "Attack" /\ e.level >= 32767 ->
            [level |-> 32767, counter |-> 0, phase |-> "Decay"]
      [] e.phase = "Decay" /\ e.level <= SustainTarget(adsr) ->
            [level |-> SustainTarget(adsr), counter |-> 0, phase |-> "Sustain"]
      [] e.phase = "Release" /\ e.level <= 0 -> Silence
      [] OTHER -> e
EnvelopeTick(e, adsr) ==
    IF e.phase = "Off" THEN e
    ELSE With(With(Rate(adsr, e.phase), LAMBDA rate : StepEnvelope(e, rate)),
              LAMBDA stepped : EndPhase(stepped, adsr))

-----------------------------------------------------------------------------
(* The voice.                                                              *)

NewVoice(adsr, pitch, start) ==
    [pitch |-> pitch, start_address |-> start, repeat_address |-> 0, adsr |-> adsr,
     envelope |-> Silence, current_address |-> 0, block_position |-> 0,
     block_flags |-> 0, block_loaded |-> FALSE, sound |-> 0,
     output |-> 0]

VoiceOn(v) ==
    [v EXCEPT !.envelope = EnvelopeOn,
              !.current_address = v.start_address * UnitHalfwords,
              !.block_position = 0, !.block_loaded = FALSE]
VoiceOff(v) == [v EXCEPT !.envelope = EnvelopeOff(@)]

\* The flags are the high byte of a block's first half word; a half word of
\* the model stands for the flags it would be read as.
EndsSound(flags) == flags % 2 = 1
RepeatsAfterEnd(flags) == (flags \div 2) % 2 = 1
StartsLoop(flags) == (flags \div 4) % 2 = 1

\* range_contains_wrapped over the sixteen bytes of the block.
UnitOf(address) == address \div UnitHalfwords
BlockTouches(address, unit) ==
    unit \in {UnitOf(address), UnitOf((address + UnitHalfwords) % RamHalfwords)}

\* The twenty-eight samples of a block, as one half word.
DecodedSound(ram, address) == ram[(address + 1) % RamHalfwords]

DecodeBlock(v, ram) ==
    LET flags == ram[v.current_address]
    IN [v EXCEPT !.block_flags = flags, !.block_loaded = TRUE,
                 !.sound = DecodedSound(ram, v.current_address),
                 !.repeat_address = IF StartsLoop(flags)
                                    THEN UnitOf(v.current_address) ELSE @]

FinishBlock(v) ==
    LET next == [v EXCEPT !.block_loaded = FALSE]
        jump == [next EXCEPT !.current_address = v.repeat_address * UnitHalfwords]
    IN CASE ~EndsSound(v.block_flags) ->
                [next EXCEPT !.current_address = (@ + 2 * UnitHalfwords) % RamHalfwords]
         [] EndsSound(v.block_flags) /\ RepeatsAfterEnd(v.block_flags) -> jump
         [] OTHER -> [jump EXCEPT !.envelope = Silence]

\* A voice in noise mode decodes its block once and never advances in it; its
\* sound is the one value 1.  Pitch modulation, which only changes the step
\* within the same bound, is left out.
Advance(v, noise) ==
    LET position == v.block_position + AtMost(v.pitch, MaxStep)
    IN CASE noise -> v
         [] ~noise /\ position < BlockEnd -> [v EXCEPT !.block_position = position]
         [] OTHER -> FinishBlock([v EXCEPT !.block_position = position - BlockEnd])

\* v's next state and what it reports, from v with its envelope ticked,
\* that with its block decoded, and that moved on.
Ticked(v, irq_address, noise, decoded, advanced) ==
    [voice |-> [advanced EXCEPT !.output =
                   CASE decoded.envelope.level = 0 -> 0
                     [] decoded.envelope.level # 0 /\ noise -> 1
                     [] OTHER -> decoded.sound],
     end_reached |-> ~advanced.block_loaded /\ EndsSound(decoded.block_flags),
     irq |-> ~v.block_loaded /\ BlockTouches(v.current_address, irq_address)]
VoiceTick(v, ram, irq_address, noise) ==
    With([v EXCEPT !.envelope = EnvelopeTick(@, v.adsr)], LAMBDA enveloped :
        IF enveloped.envelope.phase = "Off"
        THEN [voice |-> [enveloped EXCEPT !.output = 0],
              end_reached |-> FALSE, irq |-> FALSE]
        ELSE With(IF enveloped.block_loaded THEN enveloped
                  ELSE DecodeBlock(enveloped, ram), LAMBDA decoded :
                With(Advance(decoded, noise), LAMBDA advanced :
                    Ticked(v, irq_address, noise, decoded, advanced))))
=============================================================================
