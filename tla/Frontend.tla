------------------------------- MODULE Frontend -------------------------------
(***************************************************************************)
(* The headless frontend over the main loop:                               *)
(* src/ps1-frontend/src/harness.rs and audio.rs, with the PS-EXE test      *)
(* runner (src/ps1-core/src/test_runner.rs) and the output queue of the    *)
(* sound processor.                                                        *)
(*                                                                         *)
(* A run reads its inputs, steps the machine under the tracing loop or     *)
(* under the test runner, writes the sound it made and saves its memory    *)
(* cards.  Any file operation may fail, which ends the run there, and the  *)
(* process may be killed; then somebody starts it again.  The machine may  *)
(* as well be driven by another host through run_cycles and reset.         *)
(*                                                                         *)
(* A card image is where it came from and the guest's writes to it since.  *)
(* A stereo sample is its number since the machine was made.               *)
(***************************************************************************)
EXTENDS Ps1, Sequences, FiniteSetsExt

CONSTANTS
    ArgSets,     \* command lines: paths, disc, test, pass, trace, audio
    Paths,       \* files a card may be mounted from
    Cues,        \* texts of .cue sheets, as sequences of lines
    Steps,       \* --steps
    Period,      \* SPU_CYCLES_PER_SAMPLE
    Chunk,       \* samples of the buffer the loop drains into
    Capacity,    \* samples the output queue holds
    MaxWrites, MaxRuns   \* bounds: guest writes, starts of the process

\* The lines of a sheet that say anything.
CueLineType ==
    [kind : {"FILE"}, name : STRING \ {"none"}] \cup
    [kind : {"TRACK"}, mode : {"AUDIO", "data", "unsupported"}] \cup
    [kind : {"INDEX"}, number : {"00", "01", "malformed"}, frames : Nat]

\* The most samples a step adds to the output queue.
MostMade == (Period - 1 + MaxCost) \div Period

ASSUME FrontendAssumption ==
    /\ "none" \notin Paths
    /\ ArgSets \subseteq
           [paths : [{0, 1} -> Paths \cup {"none"}], disc : BOOLEAN,
            test : BOOLEAN, pass : BOOLEAN, trace : BOOLEAN, audio : BOOLEAN]
    /\ Cues \subseteq Seq(CueLineType)
    /\ {Steps, Period, Chunk} \subseteq Nat \ {0}
    /\ Capacity \in Nat /\ MaxWrites \in Nat /\ MaxRuns \in Nat
    /\ MostMade <= Chunk /\ Chunk - 1 + MostMade <= Capacity

VARIABLES
    args, phase,
    files,      \* what is at each path
    cards,      \* the card in each port
    cue, disc,  \* the sheet --disc names and what was made of it
    step,
    report,     \* the last line about its outcome that the run has printed
    accumulated, produced, output,  \* Spu: cycles, samples, the output queue
    wav,        \* the audio dump
    writes, runs   \* observation: writes by the guest, starts

io == <<files, cards, cue, disc, wav>>
machine == <<timestamp, queue, run, vblanks>>
sound == <<accumulated, produced, output>>
frontend == <<args, phase, files, cards, cue, disc, step, report, sound, wav,
              writes, runs>>
allVars == <<machine, frontend>>

Missing == [from |-> "missing", writes |-> {}]
Short == [from |-> "short", writes |-> {}]    \* any length but a card's
Old == [from |-> "old", writes |-> {}]
Formatted == [from |-> "formatted", writes |-> {}]
Empty == [from |-> "none", writes |-> {}]
Whole(image) == image.from \in {"old", "formatted"}

NoWav == [header |-> 0, data |-> << >>]
NoDisc == [ok |-> FALSE]

Powered ==
    /\ timestamp = 0 /\ queue = FirstEvents /\ run = NoRun /\ vblanks = 0
    /\ accumulated = 0 /\ produced = 0 /\ output = << >>

InitFrontend ==
    /\ Powered
    /\ args \in ArgSets /\ phase \in {"bios", "embedded"}
    /\ files \in [Paths -> {Missing, Short, Old}]
    /\ cards = [p \in {0, 1} |-> Empty]
    /\ cue = << >> /\ disc = NoDisc
    /\ step = 0 /\ report = "none" /\ wav = NoWav
    /\ writes = 0 /\ runs = 1

-----------------------------------------------------------------------------
(* Start: harness::run up to the choice of a loop.                         *)

Go(next) == phase' = next
Fail == Go("failed")

ReadBios ==
    /\ phase = "bios" /\ (Go("mount0") \/ Fail)
    /\ UNCHANGED <<args, io, step, report, sound, machine, writes, runs>>

\* Faulty: a card that cannot be read starts formatted.
MountOrFormat(p, next) ==
    /\ LET path == args.paths[p] IN
       IF path = "none" THEN Go(next) /\ UNCHANGED cards
       ELSE \/ Go(next) /\ cards' = [cards EXCEPT ![p] = Formatted]
            \/ /\ Whole(files[path]) /\ Go(next)
               /\ cards' = [cards EXCEPT ![p] = files[path]]
    /\ UNCHANGED <<args, files, cue, disc, wav, step, report, sound, machine,
                   writes, runs>>

\* Only a file that is not there starts a formatted card.
MountCard(p, next) ==
    /\ LET path == args.paths[p] IN
       IF path = "none" THEN Go(next) /\ UNCHANGED cards
       ELSE \/ Fail /\ UNCHANGED cards
            \/ /\ files[path] = Missing /\ Go(next)
               /\ cards' = [cards EXCEPT ![p] = Formatted]
            \/ /\ Whole(files[path]) /\ Go(next)
               /\ cards' = [cards EXCEPT ![p] = files[path]]
    /\ UNCHANGED <<args, files, cue, disc, wav, step, report, sound, machine,
                   writes, runs>>

MountCards ==
    \/ phase = "mount0" /\ MountCard(0, "mount1")
    \/ phase = "mount1" /\ MountCard(1, "disc")

\* One line of a cue sheet, as parse_cue_disc_spec reads it.  sheet holds the
\* current FILE, the data track selected, whether it is still open, and
\* whether its INDEX 01 has been seen.
NoSheet == [file |-> "none", image |-> "none", frames |-> 0,
            open |-> FALSE, index |-> FALSE, error |-> FALSE]
\* Faulty: a FILE line leaves the track open.
FileKeepingTrack(sheet, line) == [sheet EXCEPT !.file = line.name]
CueFile(sheet, line) == [sheet EXCEPT !.file = line.name, !.open = FALSE]
CueTrack(sheet, line) ==
    IF sheet.image # "none" \/ line.mode = "AUDIO" THEN [sheet EXCEPT !.open = FALSE]
    ELSE IF line.mode = "unsupported" \/ sheet.file = "none"
    THEN [sheet EXCEPT !.error = TRUE]
    ELSE [sheet EXCEPT !.image = sheet.file, !.open = TRUE]
CueIndex(sheet, line) ==
    CASE line.number = "malformed" -> [sheet EXCEPT !.error = TRUE]
      [] line.number = "00" -> sheet
      [] line.number = "01" ->
             [sheet EXCEPT !.frames = line.frames, !.open = FALSE, !.index = TRUE]
CueLine(sheet, line) ==
    CASE sheet.error -> sheet
      [] ~sheet.error /\ line.kind = "FILE" -> CueFile(sheet, line)
      [] ~sheet.error /\ line.kind = "TRACK" -> CueTrack(sheet, line)
      [] ~sheet.error /\ line.kind = "INDEX" ->
             IF sheet.open THEN CueIndex(sheet, line) ELSE sheet
ParseCue(lines) ==
    LET parsed[n \in 0..Len(lines)] ==
            IF n = 0 THEN NoSheet ELSE CueLine(parsed[n - 1], lines[n])
        sheet == parsed[Len(lines)]
    IN  IF sheet.error \/ sheet.image = "none" \/ ~sheet.index THEN NoDisc
        ELSE [ok |-> TRUE, image |-> sheet.image, frames |-> sheet.frames]

LoadDisc ==
    /\ phase = "disc"
    /\ IF ~args.disc THEN Go("exe") /\ UNCHANGED <<cue, disc>>
       ELSE \E lines \in Cues :
                /\ cue' = lines /\ disc' = ParseCue(lines)
                /\ (disc'.ok /\ Go("exe")) \/ Fail
    /\ UNCHANGED <<args, files, cards, wav, step, report, sound, machine,
                   writes, runs>>

\* The test runner wants an executable; the loop needs none.
LoadExe ==
    /\ phase = "exe"
    /\ (Go(IF args.test THEN "test" ELSE "open")) \/ Fail
    /\ cue' = << >>
    /\ UNCHANGED <<args, files, cards, disc, wav, step, report, sound, machine,
                   writes, runs>>

-----------------------------------------------------------------------------
(* The machine makes a step: the main loop, the sound it adds to the       *)
(* output queue, and what the guest writes to a card.                      *)

PushOutput(samples) ==
    LET all == output \o samples IN
    IF Len(all) <= Capacity THEN all
    ELSE SubSeq(all, Len(all) - Capacity + 1, Len(all))

GuestWrites ==
    \/ UNCHANGED <<cards, writes>>
    \/ \E p \in {0, 1} :
           /\ cards[p] # Empty /\ writes < MaxWrites /\ writes' = writes + 1
           /\ cards' = [cards EXCEPT ![p].writes = @ \cup {writes'}]

Made(c) == (accumulated + c) \div Period
Queue(c) == PushOutput([k \in 1..Made(c) |-> produced + k])

MachineStep(c) ==
    /\ StepOne(c) /\ step' = step + 1
    /\ accumulated' = (accumulated + c) % Period
    /\ produced' = produced + Made(c)
    /\ GuestWrites

\* WavWriter::append; one that fails may have written part of the samples.
Appended(samples) == wav' = [wav EXCEPT !.data = @ \o samples]
AppendFails(samples) ==
    /\ \E n \in 0..Len(samples) : Appended(SubSeq(samples, 1, n))
    /\ Fail

-----------------------------------------------------------------------------
(* The tracing loop.                                                       *)

\* The trace and the dump are created before the first step.
OpenFiles ==
    /\ phase = "open"
    /\ \/ (args.trace \/ args.audio) /\ Fail /\ wav' \in {wav, NoWav}
       \/ Go("loop") /\ wav' = IF args.audio THEN NoWav ELSE wav
    /\ UNCHANGED <<args, files, cards, cue, disc, step, report, sound, machine,
                   writes, runs>>

\* One chunk at most is drained after each step.
LoopStep ==
    /\ phase = "loop" /\ step < Steps
    /\ \E c \in MinCost..MaxCost :
           /\ MachineStep(c)
           /\ LET queued == Queue(c) IN
              IF args.audio /\ Len(queued) >= Chunk
              THEN LET chunk == SubSeq(queued, 1, Chunk) IN
                   /\ output' = SubSeq(queued, Chunk + 1, Len(queued))
                   /\ (Appended(chunk) /\ Go("loop")) \/ AppendFails(chunk)
              ELSE output' = queued /\ Go("loop") /\ UNCHANGED wav
    /\ UNCHANGED <<args, files, cue, disc, report, runs>>

\* A trace line or the flush at the end cannot be written.
TraceFails ==
    /\ phase = "loop" /\ args.trace /\ Fail
    /\ UNCHANGED <<args, io, step, report, sound, machine, writes, runs>>

EndLoop ==
    /\ phase = "loop" /\ step = Steps
    /\ Go(IF args.audio THEN "finish" ELSE "save0")
    /\ UNCHANGED <<args, io, step, report, sound, machine, writes, runs>>

-----------------------------------------------------------------------------
(* The test runner, run_loaded_psx_exe_test.                               *)

TestStep ==
    /\ phase = "test" /\ step < Steps
    /\ \E c \in MinCost..MaxCost : MachineStep(c) /\ output' = Queue(c)
    /\ UNCHANGED <<args, phase, files, cue, disc, report, wav, runs>>

\* The guest may meet a stop condition before the first step or after any;
\* what it left decides the pass conditions.  The verdict is printed at once,
\* before the sound is dumped and the cards are saved.
Dumping == IF args.audio THEN "create" ELSE "save0"
Stops ==
    /\ phase = "test" /\ Go(Dumping)
    /\ report' \in IF args.pass THEN {"Passed", "Failed"} ELSE {"Stopped"}
    /\ UNCHANGED <<args, io, step, sound, machine, writes, runs>>
TimesOut ==
    /\ phase = "test" /\ step = Steps /\ Go(Dumping)
    /\ report' = "TimedOut"
    /\ UNCHANGED <<args, io, step, sound, machine, writes, runs>>

CreateDump ==
    /\ phase = "create"
    /\ (Go("finish") /\ wav' = NoWav) \/ (Fail /\ wav' \in {wav, NoWav})
    /\ UNCHANGED <<args, files, cards, cue, disc, step, report, sound, machine,
                   writes, runs>>

-----------------------------------------------------------------------------
(* The end of either: the rest of the sound, then the cards.               *)

\* Faulty: the last drain leaves what does not fill the buffer.
DrainChunks ==
    /\ wav' = [header |-> Len(wav.data) + Chunk * (Len(output) \div Chunk),
               data |-> wav.data \o
                   SubSeq(output, 1, Chunk * (Len(output) \div Chunk))]
    /\ output' = << >>
DrainAll ==
    /\ wav' = [header |-> Len(wav.data) + Len(output), data |-> wav.data \o output]
    /\ output' = << >>

\* The sizes in the header are written last.
FinishDump ==
    /\ phase = "finish"
    /\ \/ DrainAll /\ (Go("save0") \/ Fail)
       \/ AppendFails(output) /\ UNCHANGED output
    /\ UNCHANGED <<args, files, cards, cue, disc, step, report, accumulated,
                   produced, machine, writes, runs>>

\* fs::write: a failure leaves the old image or a short one.
Written(path, image) == files' = [files EXCEPT ![path] = image]

\* Faulty: the first port without a card ends the saving.
SaveUntilEmpty(p, next) ==
    /\ LET path == args.paths[p] IN
       IF cards[p] = Empty THEN Go("done") /\ UNCHANGED files
       ELSE \/ Written(path, cards[p]) /\ Go(next)
            \/ Fail /\ (Written(path, Short) \/ UNCHANGED files)
    /\ UNCHANGED <<args, cards, cue, disc, step, report, sound, wav, machine,
                   writes, runs>>
SaveCard(p, next) ==
    /\ LET path == args.paths[p] IN
       IF cards[p] = Empty THEN Go(next) /\ UNCHANGED files
       ELSE \/ Written(path, cards[p]) /\ Go(next)
            \/ Fail /\ (Written(path, Short) \/ UNCHANGED files)
    /\ UNCHANGED <<args, cards, cue, disc, step, report, sound, wav, machine,
                   writes, runs>>

SaveCards ==
    \/ phase = "save0" /\ SaveCard(0, "save1")
    \/ phase = "save1" /\ SaveCard(1, IF args.test THEN "done" ELSE "print")

\* The loop says how it went when everything is on disk.
PrintSummary ==
    /\ phase = "print" /\ Go("done") /\ report' = "Summary"
    /\ UNCHANGED <<args, io, step, sound, machine, writes, runs>>

-----------------------------------------------------------------------------
(* The process.                                                            *)

Over == {"done", "failed", "killed"}

\* A kill in the middle of a save leaves a short file.
Killed ==
    /\ phase \notin Over \cup {"embedded"} /\ Go("killed")
    /\ \/ UNCHANGED files
       \/ \E p \in {0, 1} :
              /\ phase = (IF p = 0 THEN "save0" ELSE "save1") /\ cards[p] # Empty
              /\ Written(args.paths[p], Short)
    /\ UNCHANGED <<args, cards, cue, disc, step, report, sound, wav, machine,
                   writes, runs>>

\* Started again with the same arguments.
RunAgain ==
    /\ phase \in Over /\ runs < MaxRuns /\ runs' = runs + 1
    /\ Go("bios")
    /\ timestamp' = 0 /\ queue' = FirstEvents /\ run' = NoRun /\ vblanks' = 0
    /\ accumulated' = 0 /\ produced' = 0 /\ output' = << >>
    /\ cards' = [p \in {0, 1} |-> Empty]
    /\ cue' = << >> /\ disc' = NoDisc /\ step' = 0 /\ report' = "none"
    /\ UNCHANGED <<args, files, wav, writes>>

\* A host that embeds the machine calls run_cycles and reset as it likes.
Embedded == phase = "embedded" /\ Next /\ UNCHANGED frontend

FrontendNext ==
    \/ ReadBios \/ MountCards \/ LoadDisc \/ LoadExe
    \/ OpenFiles \/ LoopStep \/ TraceFails \/ EndLoop
    \/ TestStep \/ Stops \/ TimesOut \/ CreateDump
    \/ FinishDump \/ SaveCards \/ PrintSummary
    \/ Killed \/ RunAgain \/ Embedded

FrontendSpec == InitFrontend /\ [][FrontendNext]_allVars

-----------------------------------------------------------------------------
(* Properties.                                                             *)

\* A run that came to its end, a failed test included, and a run that
\* printed the loop's summary have saved every card they mounted, with the
\* guest's last write; where both ports name one file the second port's
\* (save_memory_cards).  The verdict of a test promises no such thing.
SavedAtTheEnd ==
    phase = "done" \/ report = "Summary" => \A p \in {0, 1} :
        cards[p] # Empty /\ (p = 0 => args.paths[1] # args.paths[0])
            => files[args.paths[p]] = cards[p] /\ Whole(cards[p])

\* "Existing raw images are updated with writes made by emulated software"
\* (README.md:71-73): a run that ends by itself, killed or stopped by the
\* saving itself excepted, leaves no write of the guest behind.  It does: a
\* trace or a dump that cannot be written ends the run before the saving,
\* after a test's verdict was printed as well.
RunsUpdateImages ==
    [][phase \notin {"save0", "save1"} /\ phase' \in {"done", "failed"}
       /\ args.paths[0] # args.paths[1] =>
           \A p \in {0, 1} : cards'[p] # Empty =>
               cards'[p].writes \subseteq files'[args.paths[p]].writes]_allVars

\* Runs after runs, failing or killed anywhere, a card file never goes back:
\* it keeps every write it had and is never replaced by a fresh card; only a
\* save cut short loses it, and then the next run refuses it.  Two ports
\* that share a file are excepted (mount_memory_cards, save_memory_cards).
Keeps(old, new) ==
    \/ old = Missing \/ new = Short
    \/ old.from = new.from /\ old.writes \subseteq new.writes
NoWriteIsUndoneNow ==
    args.paths[0] # args.paths[1] =>
        \A path \in Paths : Keeps(files[path], files'[path])
NoWriteIsUndone == [][NoWriteIsUndoneNow]_allVars

\* What the dump holds once it is finished: the last n samples, in order.
DumpIsDone == args.audio /\ phase \in {"save0", "save1", "print", "done"}
DumpHolds(n) == wav.data = [k \in 1..n |-> produced - n + k]

\* No chunk drained from the output queue is lost, cut or written twice: the
\* dump of the loop holds the sound of the run in order, that of a test what
\* the queue still holds when it stops; its header never claims more than is
\* there and describes it once the run went on (drain_audio_chunk,
\* WavWriter::finish).  That a test loses the rest is DumpStreams' business.
WavIsComplete ==
    /\ wav.header \in {0, Len(wav.data)}
    /\ DumpIsDone =>
           /\ wav.header = Len(wav.data)
           /\ DumpHolds(IF args.test THEN Min({produced, Capacity}) ELSE produced)

\* "--audio-dump PATH streams the SPU's native output to a WAV file"
\* (README.md:75): the file of every run holds every sample the run made.
\* That of a test does not: nothing drains the output queue before the test
\* stops, and it keeps the last Capacity samples (write_queued_audio_dump).
DumpStreams == DumpIsDone => DumpHolds(produced)

\* What a sheet mounts is its first data track: the file named last before
\* it, from the first INDEX 01 that follows before another TRACK or FILE; a
\* sheet without one mounts nothing (parse_cue_disc_spec).
DataTrack(i) ==
    /\ cue[i].kind = "TRACK" /\ cue[i].mode # "AUDIO"
    /\ \A k \in 1..(i - 1) : cue[k].kind = "TRACK" => cue[k].mode = "AUDIO"
StartOf(i, j) ==
    /\ i < j /\ cue[j].kind = "INDEX" /\ cue[j].number = "01"
    /\ \A k \in (i + 1)..(j - 1) : cue[k].kind = "INDEX" /\ cue[k].number = "00"
FileOf(f, i) ==
    /\ f < i /\ cue[f].kind = "FILE"
    /\ \A k \in (f + 1)..(i - 1) : cue[k].kind # "FILE"
Mounts(f, i, j) ==
    DataTrack(i) /\ cue[i].mode = "data" /\ FileOf(f, i) /\ StartOf(i, j)
Mounted ==
    UNION {{[ok |-> TRUE, image |-> cue[f].name, frames |-> cue[j].frames] :
               j \in {j \in DOMAIN cue : \E i \in DOMAIN cue : Mounts(f, i, j)}} :
           f \in DOMAIN cue}
CueMountsDataTrack ==
    cue # << >> => IF Mounted = {} THEN ~disc.ok ELSE {disc} = Mounted
=============================================================================
