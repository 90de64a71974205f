---------------------------------- MODULE Spu ----------------------------------
(***************************************************************************)
(* The sound processor: src/ps1-core/src/audio/spu.rs with the voices of   *)
(* SpuVoice, the reverberator's reach into RAM (reverb.rs) and the step of *)
(* Bus::tick that turns its interrupt into a bit of I_STAT.                *)
(*                                                                         *)
(* Guest stores, DMA words and the samples of Bus::tick share the sound    *)
(* RAM, the transfer address and one interrupt flag.  The mixer and the    *)
(* volumes are left out: nothing reads them back but the output queue.     *)
(* No part of the program calls push_cd_sample, so a CD sample is 0.       *)
(***************************************************************************)
EXTENDS SpuVoice, Sequences

CONSTANTS
    VoiceCount,       \* 24
    CaptureHalfwords, \* 0x200: half words of a capture buffer
    FifoDepth,        \* 32
    CyclesPerSample,  \* SPU_CYCLES_PER_SAMPLE
    Setups,           \* RAM and registers the guest has set up at the start
    Controls,         \* what it writes to the control register
    Halfwords,        \* what it and the DMA write to sound RAM
    TransferTypes,    \* transfer control: the value of bits 1 to 3
    Units,            \* what it writes to the address registers,
    Adsrs, Pitches, Levels,    \* and to a voice's other registers
    ReverbSetups,     \* the reverb's address registers
    Wet,              \* the value all its writes stand for
    TickCycles,       \* cycles of a CPU step
    MaxWrites         \* bound: commands of the guest

ASSUME SpuAssumption ==
    /\ {VoiceCount, CaptureHalfwords, FifoDepth, CyclesPerSample} \subseteq Nat \ {0}
    /\ 4 * CaptureHalfwords <= RamHalfwords /\ FifoDepth < RamHalfwords
    /\ TickCycles \subseteq Nat \ {0} /\ MaxWrites \in Nat
    /\ Units \subseteq 0..(RamHalfwords \div UnitHalfwords - 1)
    /\ ReverbSetups \subseteq [walls : SUBSET Int, passes : SUBSET (Int \X Int),
                              taps : SUBSET Int]
    /\ \A setup \in Setups :
          /\ DOMAIN setup.ram = 0..(RamHalfwords - 1)
          /\ {setup.start, setup.base} \subseteq Units
          /\ setup.reverb \in ReverbSetups
          /\ setup.on \subseteq 0..(VoiceCount - 1)
          /\ setup.fifo \in Seq(Halfwords) /\ Len(setup.fifo) <= FifoDepth

VARIABLES
    spu,      \* the fields of Spu and of its Reverb
    istat,    \* the SPU's bit of I_STAT
    writes,   \* commands so far, for the bound
    \* Observations:
    owed,     \* rises of the flag, less requests and cancellations
    upload,   \* the half words written to the FIFO since it was last empty
    keyed     \* voices keyed on and not keyed off since

vars == <<spu, istat, writes, owed, upload, keyed>>

Voices == 0..(VoiceCount - 1)

NoUpload == [first |-> 0, data |-> << >>, inPlace |-> FALSE]

\* The guest has set the registers up, queued half words where the
\* sound starts and just started the voices of setup.on.
Init ==
    /\ \E setup \in Setups :
        /\ spu = [ram |-> setup.ram,
                  voices |-> [v \in Voices |->
                      LET new == NewVoice(setup.adsr, setup.pitch, setup.start)
                      IN IF v \in setup.on THEN VoiceOn(new) ELSE new],
                  control |-> setup.control,
                  transfer_address |-> setup.start * UnitHalfwords,
                  transfer_fifo |-> setup.fifo, transfer_type |-> 2,
                  irq_address |-> setup.irq, noise_mode |-> {},
                  end_flags |-> {}, cycle_accumulator |-> 0,
                  capture_offset |-> 0, irq_flag |-> FALSE,
                  irq_edge_pending |-> FALSE, reverb_registers |-> setup.reverb,
                  base_address |-> setup.base * UnitHalfwords,
                  reverb_address |-> setup.base * UnitHalfwords,
                  second_half_tick |-> FALSE]
        /\ upload = [first |-> spu.transfer_address, data |-> setup.fifo,
                      inPlace |-> TRUE]
        /\ keyed = setup.on
    /\ istat = FALSE /\ writes = 0 /\ owed = 0

-----------------------------------------------------------------------------
(* The interrupt flag and the edge that Bus::tick reports.                 *)

IrqEnabled(control) == control.enable /\ control.irq

\* Faulty: the edge does not look at the flag.
RaiseEveryTouch(s) ==
    IF IrqEnabled(s.control)
    THEN [s EXCEPT !.irq_flag = TRUE, !.irq_edge_pending = TRUE] ELSE s
RaiseIrq(s) ==
    IF IrqEnabled(s.control) /\ ~s.irq_flag
    THEN [s EXCEPT !.irq_flag = TRUE, !.irq_edge_pending = TRUE] ELSE s
TouchIrq(s, addresses) ==
    IF \E a \in addresses : UnitOf(a) = s.irq_address THEN RaiseIrq(s) ELSE s

-----------------------------------------------------------------------------
(* Transfers.                                                              *)

\* Faulty: the address moves on before the store.
MoveThenWrite(s, h) ==
    LET a == (s.transfer_address + 1) % RamHalfwords
    IN [TouchIrq(s, {a}) EXCEPT !.ram[a] = h, !.transfer_address = a]
WriteRamHalfword(s, h) ==
    LET a == s.transfer_address
    IN [TouchIrq(s, {a}) EXCEPT !.ram[a] = h,
                                !.transfer_address = (a + 1) % RamHalfwords]
ReadRamHalfword(s) ==
    [TouchIrq(s, {s.transfer_address}) EXCEPT
        !.transfer_address = (@ + 1) % RamHalfwords]

\* Every group of the input becomes copies of the one at source in it, or
\* of its last when it is shorter.
RepeatGroups(input, group, source) ==
    [i \in DOMAIN input |->
        LET first == i - ((i - 1) % group)
        IN input[AtMost(first + source, AtMost(first + group - 1, Len(input)))]]
Arranged(input, type) ==
    CASE type = 2 -> input
      [] type = 3 -> RepeatGroups(input, 2, 0)
      [] type = 4 -> RepeatGroups(input, 4, 0)
      [] type = 5 -> RepeatGroups(input, 8, 7)
      [] OTHER -> [i \in DOMAIN input |-> input[Len(input)]]

FlushTransferFifo(s) ==
    LET input == Arranged(s.transfer_fifo, s.transfer_type)
        flushed[n \in 0..Len(s.transfer_fifo)] ==
            IF n = 0 THEN [s EXCEPT !.transfer_fifo = << >>]
            ELSE WriteRamHalfword(flushed[n - 1], input[n])
    IN flushed[Len(s.transfer_fifo)]

-----------------------------------------------------------------------------
(* One sample.                                                             *)

\* Faulty: wraps round the RAM and not round the area.
DisplacedInRam(s, address, displacement) ==
    (address + displacement) % RamHalfwords
\* Where the reverberator's registers point: inside the area from its base
\* to the end of RAM, round which its own address runs.
Displaced(s, address, displacement) ==
    s.base_address
        + ((address - s.base_address + displacement) % (RamHalfwords - s.base_address))
ReverbAt(s, offset) == Displaced(s, s.reverb_address, offset * UnitHalfwords)

\* walls are written and read one half word behind; passes, as <<offset,
\* delay>>, written and read that much behind; taps only read.
ReverbWrites(s) ==
    {ReverbAt(s, o) : o \in s.reverb_registers.walls}
        \cup {ReverbAt(s, p[1]) : p \in s.reverb_registers.passes}
ReverbReads(s) ==
    {Displaced(s, ReverbAt(s, o), -1) : o \in s.reverb_registers.walls}
        \cup {ReverbAt(s, o) : o \in s.reverb_registers.taps}
        \cup {Displaced(s, ReverbAt(s, p[1]), -(p[2] * UnitHalfwords)) :
                p \in s.reverb_registers.passes}

\* It works on every other sample; all it writes is the one value Wet.
ReverbProcess(s) ==
    LET written == IF s.control.reverb THEN ReverbWrites(s) ELSE {}
        stored == [a \in DOMAIN s.ram |-> IF a \in written THEN Wet ELSE s.ram[a]]
    IN IF s.second_half_tick THEN [s EXCEPT !.second_half_tick = FALSE]
       ELSE [TouchIrq(s, ReverbReads(s) \cup written) EXCEPT
                !.ram = stored, !.second_half_tick = TRUE,
                !.reverb_address = Displaced(s, @, 1)]

CaptureAddress(s, buffer) == buffer * CaptureHalfwords + s.capture_offset

\* The CD's two channels, then voices 1 and 3.
WriteCaptures(s) ==
    LET at(buffer) == CaptureAddress(s, buffer)
        output(v) == IF v \in Voices THEN s.voices[v].output ELSE 0
        stored == [s EXCEPT !.ram[at(0)] = 0, !.ram[at(1)] = 0,
                            !.ram[at(2)] = output(1), !.ram[at(3)] = output(3)]
    IN IF s.transfer_type \in 2..7
       THEN TouchIrq(stored, {at(b) : b \in 0..3}) ELSE stored

Ran(s, v, tick) ==
    LET ran == [s EXCEPT !.voices[v] = tick.voice,
                         !.end_flags = IF tick.end_reached THEN @ \cup {v} ELSE @]
    IN IF tick.irq THEN RaiseIrq(ran) ELSE ran
RunVoice(s, v) ==
    With(VoiceTick(s.voices[v], s.ram, s.irq_address, v \in s.noise_mode),
         LAMBDA tick : Ran(s, v, tick))
RunVoices(s) ==
    LET ran[n \in 0..VoiceCount] ==
            IF n = 0 THEN s ELSE With(ran[n - 1], LAMBDA t : RunVoice(t, n - 1))
    IN ran[VoiceCount]

ProduceSample(s) ==
    LET flushed == IF s.control.mode = 1 THEN FlushTransferFifo(s) ELSE s
        sampled == With(With(With(flushed, RunVoices), WriteCaptures), ReverbProcess)
    IN [sampled EXCEPT !.capture_offset = (@ + 1) % CaptureHalfwords]

\* Spu::tick without the report of its edge.
RunSamples(s, cycles) ==
    LET total == s.cycle_accumulator + cycles
        samples == total \div CyclesPerSample
        ran[n \in 0..samples] ==
            IF n = 0 THEN [s EXCEPT !.cycle_accumulator = total % CyclesPerSample]
            ELSE With(ran[n - 1], ProduceSample)
    IN ran[samples]

\* Bus::tick, as far as the SPU goes.
Tick(cycles) ==
    \E ran \in {RunSamples(spu, cycles)} :
       /\ spu' = [ran EXCEPT !.irq_edge_pending = FALSE]
       /\ istat' = (istat \/ ran.irq_edge_pending)
       /\ owed' = owed + (IF ran.irq_flag /\ ~spu.irq_flag THEN 1 ELSE 0)
                       - (IF ran.irq_edge_pending THEN 1 ELSE 0)
       /\ upload' = IF ran.transfer_fifo = << >> THEN NoUpload ELSE upload
       /\ UNCHANGED <<writes, keyed>>

-----------------------------------------------------------------------------
(* The guest.                                                              *)

Command(s) ==
    /\ writes < MaxWrites /\ writes' = writes + 1
    /\ spu' = s /\ owed' = owed + (IF s.irq_flag /\ ~spu.irq_flag THEN 1 ELSE 0)
    /\ UNCHANGED istat

\* Clearing either enable acknowledges the flag and withdraws an edge that
\* no tick has reported yet.
WriteControl ==
    \E control \in Controls :
        LET written == [spu EXCEPT !.control = control]
        IN /\ writes < MaxWrites /\ writes' = writes + 1
           /\ spu' = IF IrqEnabled(control) THEN written
                     ELSE [written EXCEPT !.irq_flag = FALSE,
                                          !.irq_edge_pending = FALSE]
           /\ owed' = IF IrqEnabled(control) THEN owed ELSE 0
           /\ UNCHANGED <<istat, upload, keyed>>

Moved(u) == [u EXCEPT !.inPlace = FALSE]

WriteTransferAddress ==
    \E unit \in Units :
        /\ Command([spu EXCEPT !.transfer_address = unit * UnitHalfwords])
        /\ upload' = Moved(upload) /\ UNCHANGED keyed

\* A full FIFO loses its oldest half word.
WriteTransferFifo ==
    \E h \in Halfwords :
        LET fifo == spu.transfer_fifo
            full == Len(fifo) = FifoDepth
        IN /\ Command([spu EXCEPT !.transfer_fifo =
                          Append(IF full THEN Tail(fifo) ELSE fifo, h)])
           /\ upload' = IF fifo = << >>
                        THEN [first |-> spu.transfer_address, data |-> <<h>>,
                              inPlace |-> TRUE]
                        ELSE [upload EXCEPT !.data = spu'.transfer_fifo,
                                            !.inPlace = @ /\ ~full]
           /\ UNCHANGED keyed

DmaWrite32 ==
    \E low, high \in Halfwords :
        /\ Command(WriteRamHalfword(WriteRamHalfword(spu, low), high))
        /\ upload' = Moved(upload) /\ UNCHANGED keyed
DmaRead32 ==
    /\ Command(ReadRamHalfword(ReadRamHalfword(spu)))
    /\ upload' = Moved(upload) /\ UNCHANGED keyed

\* Faulty: starting a voice clears the end flags of all.
KeyOnClearingAll ==
    \E mask \in SUBSET Voices \ {{}} :
        /\ Command([spu EXCEPT !.end_flags = {},
                        !.voices = [v \in Voices |-> IF v \in mask
                                        THEN VoiceOn(spu.voices[v])
                                        ELSE spu.voices[v]]])
        /\ keyed' = keyed \cup mask /\ UNCHANGED upload
KeyOn ==
    \E mask \in SUBSET Voices \ {{}} :
        /\ Command([spu EXCEPT !.end_flags = @ \ mask,
                        !.voices = [v \in Voices |-> IF v \in mask
                                        THEN VoiceOn(spu.voices[v])
                                        ELSE spu.voices[v]]])
        /\ keyed' = keyed \cup mask /\ UNCHANGED upload
KeyOff ==
    \E mask \in SUBSET Voices \ {{}} :
        /\ Command([spu EXCEPT !.voices = [v \in Voices |-> IF v \in mask
                                              THEN VoiceOff(spu.voices[v])
                                              ELSE spu.voices[v]]])
        /\ keyed' = keyed \ mask /\ UNCHANGED upload

WriteVoice ==
    /\ \E v \in Voices :
        \/ \E x \in Pitches : Command([spu EXCEPT !.voices[v].pitch = x])
        \/ \E x \in Units : Command([spu EXCEPT !.voices[v].start_address = x])
        \/ \E x \in Units : Command([spu EXCEPT !.voices[v].repeat_address = x])
        \/ \E x \in Adsrs : Command([spu EXCEPT !.voices[v].adsr = x])
        \/ \E x \in Levels : Command([spu EXCEPT !.voices[v].envelope.level = x])
    /\ UNCHANGED <<upload, keyed>>

WriteSetup ==
    /\ \/ \E x \in TransferTypes : Command([spu EXCEPT !.transfer_type = x])
       \/ \E x \in Units : Command([spu EXCEPT !.irq_address = x])
       \/ \E x \in SUBSET Voices : Command([spu EXCEPT !.noise_mode = x])
       \/ \E x \in ReverbSetups : Command([spu EXCEPT !.reverb_registers = x])
       \/ \E x \in Units : Command([spu EXCEPT !.base_address = x * UnitHalfwords,
                                               !.reverb_address = x * UnitHalfwords])
    /\ UNCHANGED <<upload, keyed>>

AcknowledgeIstat ==
    istat /\ istat' = FALSE /\ UNCHANGED <<spu, writes, owed, upload, keyed>>

Guest ==
    \/ WriteControl \/ WriteTransferAddress \/ WriteTransferFifo
    \/ DmaWrite32 \/ DmaRead32 \/ KeyOn \/ KeyOff \/ WriteVoice \/ WriteSetup
    \/ AcknowledgeIstat

SomeTick == \E cycles \in TickCycles : Tick(cycles)
Next == Guest \/ SomeTick

\* Ps1::step ticks the bus after every instruction, whatever the guest does:
\* forever again SPU time passes.  SomeTick is always enabled; only it changes
\* spu without being a write.
TimePasses == spu' # spu /\ UNCHANGED writes
Spec == Init /\ [][Next]_vars /\ []<><<TimePasses>>_vars

-----------------------------------------------------------------------------
(* Properties.                                                             *)

Phases == {"Off", "Attack", "Decay", "Sustain", "Release"}

\* Every rise of the interrupt flag is owed to the CPU exactly once: the edge
\* is pending until a tick reports it or a control write withdraws it, and
\* the flag is never up while the control register disables it
\* (Spu::raise_irq, write_control and tick; Bus::tick).
InterruptIsOwed ==
    /\ owed = (IF spu.irq_edge_pending THEN 1 ELSE 0)
    /\ spu.irq_edge_pending => spu.irq_flag
    /\ spu.irq_flag => IrqEnabled(spu.control)

\* A voice that fell silent by itself, keyed on and never off, has its bit in
\* ENDX: a guest that polls ENDX before starting the next sound misses none,
\* whichever other voices are keyed on (key_on, Voice::tick, force_off).
EndedVoicesAreReported ==
    \A v \in keyed :
        spu.voices[v].envelope.phase = "Off" => v \in spu.end_flags

\* Half words written to the FIFO with nothing else using the transfer
\* address meanwhile land one behind the other from where it pointed at the
\* first, whenever the sample that takes them comes; captures and the
\* reverberator may overwrite them in that same tick (flush_transfer_fifo).
UploadLandsInPlace ==
    [][ (upload.inPlace /\ spu.transfer_fifo # << >> /\ spu'.transfer_fifo = << >>)
            => /\ spu'.transfer_address
                      = (upload.first + Len(upload.data)) % RamHalfwords
               /\ \A i \in DOMAIN upload.data :
                      LET a == (upload.first + i - 1) % RamHalfwords
                      IN \/ spu.transfer_type # 2 \/ spu'.ram[a] = upload.data[i]
                         \/ a < 4 * CaptureHalfwords
                         \/ spu.control.reverb /\ a >= spu.base_address ]_vars

\* Sound RAM changes only in the capture buffers, where the transfer address
\* passed, and, when the reverberator may write, in its own area: whatever
\* its offsets, it never reaches the samples below its base
\* (Reverb::displaced, write_capture, write_ram_halfword).
SamplesAreSafe ==
    [][ \A a \in DOMAIN spu.ram :
            spu'.ram[a] # spu.ram[a] =>
                \/ a < 4 * CaptureHalfwords
                \/ spu.control.reverb /\ a >= spu.base_address
                \/ (a - spu.transfer_address) % RamHalfwords
                        < (spu'.transfer_address - spu.transfer_address)
                              % RamHalfwords ]_vars

\* A released voice falls silent, however its level is poked, unless its
\* release rate is the one that stands still (AdsrEnvelope::tick).
ReleasedFallsSilent ==
    \A v \in Voices :
        spu.voices[v].envelope.phase = "Release"
            ~> \/ spu.voices[v].envelope.phase # "Release"
               \/ spu.voices[v].adsr.releaseShift = 31
=============================================================================
