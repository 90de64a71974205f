------------------------------ MODULE Ps1Proofs ------------------------------
(***************************************************************************)
(* Proofs about the main loop and the headless frontend over it, for every *)
(* frame length, every cost of a step, every run the host asks for, every  *)
(* command line and every place a run may fail or be killed.               *)
(***************************************************************************)
EXTENDS Frontend, Iteration, FiniteSetTheorems

LEMMA ConstantTypes ==
  /\ Frame \in Nat /\ Frame > 0
  /\ MinCost \in Nat /\ MinCost > 0
  /\ MaxCost \in Nat /\ MaxCost >= MinCost
  /\ \A n \in Runs : n \in Nat
  BY Ps1Assumption

-----------------------------------------------------------------------------
(* The inductive invariant: one VBlank is queued, at a time t that lies in  *)
(* the frame ahead, keeps the frame rate and falls within the run in        *)
(* progress unless that run has had its VBlank already.                     *)

Ahead(t) ==
  /\ t > timestamp /\ t <= timestamp + Frame
  /\ queue = {[time |-> t, id |-> vblanks]}

OnTime(t) ==
  /\ (vblanks + 1) * Frame <= t
  /\ t <= (vblanks + 1) * Frame + vblanks * (MaxCost - 1)
  /\ vblanks * Frame <= timestamp

InRun(t) ==
  run # NoRun =>
    /\ run.target \in Nat /\ run.cycles \in Nat /\ run.from \in Nat
    /\ run.from <= vblanks
    /\ run.cycles >= Frame /\ run.from = vblanks => t <= run.target

IInv ==
  /\ timestamp \in Nat /\ vblanks \in Nat
  /\ \E t \in Nat : Ahead(t) /\ OnTime(t) /\ InRun(t)

-----------------------------------------------------------------------------
(* What the loop of step_one does to a queue of one event.                  *)

LEMMA DrainOne ==
  ASSUME NEW t \in Nat, NEW now \in Nat, vblanks \in Nat,
         queue = {[time |-> t, id |-> vblanks]}
  PROVE  /\ t <= now =>
              /\ (queue \ DueEvents(now)) \cup Rescheduled(now)
                   = {[time |-> now + Frame, id |-> vblanks + 1]}
              /\ vblanks + Cardinality(DueEvents(now)) = vblanks + 1
         /\ t > now =>
              /\ (queue \ DueEvents(now)) \cup Rescheduled(now) = queue
              /\ vblanks + Cardinality(DueEvents(now)) = vblanks
<1>1. CASE t <= now
  <2>1. DueEvents(now) = queue
    BY <1>1 DEF DueEvents, Due
  <2>2. Cardinality(DueEvents(now)) = 1
    BY <2>1, FS_Singleton
  <2>3. 1..1 = {1}
    OBVIOUS
  <2>4. Rescheduled(now) = {[time |-> now + Frame, id |-> vblanks + 1]}
    BY <2>2, <2>3 DEF Rescheduled
  <2> QED BY <1>1, <2>1, <2>2, <2>4
<1>2. CASE t > now
  <2>1. DueEvents(now) = {}
    BY <1>2 DEF DueEvents, Due
  <2>2. Cardinality(DueEvents(now)) = 0
    BY <2>1, FS_EmptySet
  <2>3. Rescheduled(now) = {}
    BY <2>2 DEF Rescheduled
  <2> QED BY <1>2, <2>1, <2>2, <2>3
<1> QED BY <1>1, <1>2

(* One more VBlank moves both bounds of the frame rate by one frame and one *)
(* overshoot.                                                               *)
LEMMA NextBounds ==
  ASSUME NEW v \in Nat
  PROVE  /\ (v + 1 + 1) * Frame = (v + 1) * Frame + Frame
         /\ (v + 1) * (MaxCost - 1) = v * (MaxCost - 1) + (MaxCost - 1)
  BY ConstantTypes

-----------------------------------------------------------------------------
LEMMA InitHolds == Init => IInv
<1> SUFFICES ASSUME Init PROVE IInv
  OBVIOUS
<1>1. timestamp = 0 /\ vblanks = 0 /\ run = NoRun
      /\ queue = {[time |-> Frame, id |-> 0]}
  BY DEF Init, FirstEvents
<1>2. Ahead(Frame) /\ OnTime(Frame) /\ InRun(Frame)
  BY <1>1, ConstantTypes DEF Ahead, OnTime, InRun
<1> QED BY <1>1, <1>2, ConstantTypes DEF IInv

LEMMA StepHolds ==
  ASSUME IInv, NEW c \in MinCost..MaxCost, StepOne(c)
  PROVE  IInv'
<1> DEFINE now == timestamp + c
<1>1. PICK t \in Nat : Ahead(t) /\ OnTime(t) /\ InRun(t)
  BY DEF IInv
<1>2. /\ timestamp \in Nat /\ vblanks \in Nat
      /\ c \in Nat /\ c > 0 /\ c <= MaxCost
      /\ timestamp' = now /\ now \in Nat /\ run' = run
  BY ConstantTypes DEF IInv, StepOne
<1>3. /\ queue' = (queue \ DueEvents(now)) \cup Rescheduled(now)
      /\ vblanks' = vblanks + Cardinality(DueEvents(now))
  BY DEF StepOne, DrainedAt
<1>4. CASE t <= now
  <2>0. PICK u \in Nat : u = now + Frame   \* rigid, to stand under a prime
    BY <1>2, ConstantTypes
  <2>1. queue' = {[time |-> u, id |-> vblanks']} /\ vblanks' = vblanks + 1
    BY <1>1, <1>2, <1>3, <1>4, <2>0, DrainOne DEF Ahead
  <2>2. u \in Nat /\ Ahead(u)'
    BY <1>2, <2>0, <2>1, ConstantTypes DEF Ahead
  <2>3. OnTime(u)'
    <3> DEFINE A == (vblanks + 1) * Frame
               B == vblanks * (MaxCost - 1)
    <3>1. A \in Int /\ B \in Int
      BY <1>2, ConstantTypes
    <3>2. A <= t /\ t <= A + B /\ t > timestamp
      BY <1>1 DEF Ahead, OnTime
    <3>3. (vblanks' + 1) * Frame = A + Frame
      BY <1>2, <2>1, NextBounds
    <3>4. vblanks' * (MaxCost - 1) = B + (MaxCost - 1)
      BY <1>2, <2>1, NextBounds
    <3>5. vblanks' * Frame = A
      BY <2>1
    <3>6. A + Frame <= u
      <4> HIDE DEF A, B
      <4> QED BY <1>2, <1>4, <2>0, <3>1, <3>2, ConstantTypes
    <3>7. u <= A + Frame + (B + (MaxCost - 1))
      <4> HIDE DEF A, B
      <4> QED BY <1>2, <2>0, <3>1, <3>2, ConstantTypes
    <3>8. A <= now
      <4> HIDE DEF A, B
      <4> QED BY <1>2, <1>4, <3>1, <3>2
    <3> HIDE DEF A, B, now
    <3> QED BY <1>2, <3>3, <3>4, <3>5, <3>6, <3>7, <3>8 DEF OnTime
  <2>4. InRun(u)'
    BY <1>1, <1>2, <2>1 DEF InRun
  <2> QED BY <1>2, <2>0, <2>1, <2>2, <2>3, <2>4 DEF IInv
<1>5. CASE t > now
  <2>1. queue' = queue /\ vblanks' = vblanks
    BY <1>1, <1>2, <1>3, <1>5, DrainOne DEF Ahead
  <2>2. Ahead(t)'
    BY <1>1, <1>2, <1>5, <2>1, ConstantTypes DEF Ahead
  <2>3. OnTime(t)'
    <3>1. vblanks * Frame \in Int
      BY <1>2, ConstantTypes
    <3>2. vblanks * Frame <= timestamp'
      <4> DEFINE A == vblanks * Frame
      <4>1. A <= timestamp
        BY <1>1 DEF OnTime
      <4> HIDE DEF A
      <4> QED BY <1>2, <3>1, <4>1 DEF A
    <3> QED BY <1>1, <2>1, <3>2 DEF OnTime
  <2>4. InRun(t)'
    BY <1>1, <1>2, <2>1 DEF InRun
  <2> QED BY <1>2, <2>1, <2>2, <2>3, <2>4 DEF IInv
<1> QED BY <1>1, <1>2, <1>4, <1>5

LEMMA RunCyclesHolds ==
  ASSUME IInv, NEW n \in Runs, RunCycles(n)
  PROVE  IInv'
<1>1. PICK t \in Nat : Ahead(t) /\ OnTime(t) /\ InRun(t)
  BY DEF IInv
<1>2. UNCHANGED <<timestamp, queue, vblanks>>
      /\ timestamp \in Nat /\ vblanks \in Nat /\ n \in Nat
  BY ConstantTypes DEF IInv, RunCycles
<1>3. Ahead(t)' /\ OnTime(t)'
  BY <1>1, <1>2 DEF Ahead, OnTime
<1>4. InRun(t)'
  <2>1. run' = [target |-> timestamp + n, cycles |-> n, from |-> vblanks]
    BY DEF RunCycles
  <2>2. run'.target = timestamp + n /\ run'.cycles = n /\ run'.from = vblanks
    BY <2>1
  <2>3. n >= Frame => t <= timestamp + n
    BY <1>1, <1>2, ConstantTypes DEF Ahead
  <2> QED BY <1>2, <2>2, <2>3 DEF InRun
<1> QED BY <1>2, <1>3, <1>4 DEF IInv

LEMMA NextHolds == IInv /\ [Next]_vars => IInv'
<1> SUFFICES ASSUME IInv, [Next]_vars PROVE IInv'
  OBVIOUS
<1>1. ASSUME NEW c \in MinCost..MaxCost, StepOne(c) PROVE IInv'
  BY <1>1, StepHolds
<1>2. ASSUME NEW n \in Runs, RunCycles(n) PROVE IInv'
  BY <1>2, RunCyclesHolds
<1>3. CASE RunReturns
  BY <1>3 DEF RunReturns, IInv, Ahead, OnTime, InRun
<1>4. CASE Reset
  <2>1. timestamp' = 0 /\ vblanks' = 0 /\ run' = NoRun
        /\ queue' = {[time |-> Frame, id |-> 0]}
    BY <1>4 DEF Reset, QueueAfterReset, FirstEvents
  <2>2. Ahead(Frame)' /\ OnTime(Frame)' /\ InRun(Frame)'
    BY <2>1, ConstantTypes DEF Ahead, OnTime, InRun
  <2> QED BY <2>1, <2>2, ConstantTypes DEF IInv
<1>5. CASE UNCHANGED vars
  BY <1>5 DEF vars, IInv, Ahead, OnTime, InRun
<1> QED BY <1>1, <1>2, <1>3, <1>4, <1>5 DEF Next

\* The strengthening of all three properties holds in every state.
THEOREM InvCorrect == Spec => []IInv
  BY InitHolds, NextHolds, PTL DEF Spec

-----------------------------------------------------------------------------
(* The three properties.                                                    *)

LEMMA InvImplies == IInv => OneVBlankAhead /\ EveryFrameHasVBlank /\ FrameRate
<1> SUFFICES ASSUME IInv
             PROVE  OneVBlankAhead /\ EveryFrameHasVBlank /\ FrameRate
  OBVIOUS
<1>1. PICK t \in Nat : Ahead(t) /\ OnTime(t) /\ InRun(t)
  BY DEF IInv
<1>2. timestamp \in Nat /\ vblanks \in Nat
  BY DEF IInv
<1>3. OneVBlankAhead
  BY <1>1, <1>2, ConstantTypes DEF OneVBlankAhead, Ahead
<1>4. EveryFrameHasVBlank
  BY <1>1, <1>2, ConstantTypes DEF EveryFrameHasVBlank, Ahead, InRun
<1>5. FrameRate
  <2> DEFINE A == (vblanks + 1) * Frame + vblanks * (MaxCost - 1)
  <2>1. A \in Int /\ t <= A /\ timestamp < t
    BY <1>1, <1>2, ConstantTypes DEF OnTime, Ahead
  <2>2. timestamp < A
    <3> HIDE DEF A
    <3> QED BY <1>2, <2>1
  <2> QED BY <1>1, <2>2 DEF FrameRate, OnTime
<1> QED BY <1>3, <1>4, <1>5

\* Exactly one VBlank is queued, at most a frame ahead (Scheduler, with
\* Ps1::dispatch_event and Ps1::reset).
THEOREM OneVBlankAlways == Spec => []OneVBlankAhead
  BY InvCorrect, InvImplies, PTL

\* A run of a frame or more, run_frame above all, raises a VBlank.
THEOREM FramesHaveVBlanks == Spec => []EveryFrameHasVBlank
  BY InvCorrect, InvImplies, PTL

\* The VBlanks keep the frame rate up to one overshoot each.
THEOREM FrameRateKept == Spec => []FrameRate
  BY InvCorrect, InvImplies, PTL

-----------------------------------------------------------------------------
(* The main loop under the frontend.                                        *)

LEMMA FrontendConstants ==
  /\ Period \in Nat /\ Period > 0 /\ Chunk \in Nat /\ Chunk > 0
  /\ Capacity \in Nat /\ MostMade <= Chunk /\ Chunk - 1 + MostMade <= Capacity
  /\ "none" \notin Paths
  /\ \A a \in ArgSets :
        a.paths \in [{0, 1} -> Paths \cup {"none"}] /\ a.audio \in BOOLEAN
        /\ a.test \in BOOLEAN
  BY FrontendAssumption

\* A machine that was just switched on satisfies the invariant.
LEMMA PoweredHolds ==
  ASSUME timestamp = 0, queue = FirstEvents, run = NoRun, vblanks = 0
  PROVE  IInv
<1>1. Init
  BY DEF Init
<1> QED BY <1>1, InitHolds

\* Every step of a run leaves the machine alone, steps it or starts it anew.
MachineMoves ==
  \/ UNCHANGED vars
  \/ \E c \in MinCost..MaxCost : StepOne(c)
  \/ timestamp' = 0 /\ queue' = FirstEvents /\ run' = NoRun /\ vblanks' = 0
  \/ Next

LEMMA FrontendMovesMachine == [FrontendNext]_allVars => MachineMoves
<1> SUFFICES ASSUME [FrontendNext]_allVars PROVE MachineMoves
  OBVIOUS
<1> USE DEF MachineMoves, machine, vars
<1>1. CASE ReadBios
  BY <1>1 DEF ReadBios
<1>2. CASE MountCards
  BY <1>2 DEF MountCards, MountCard
<1>3. CASE LoadDisc \/ LoadExe
  BY <1>3 DEF LoadDisc, LoadExe
<1>4. CASE OpenFiles \/ TraceFails \/ EndLoop
  BY <1>4 DEF OpenFiles, TraceFails, EndLoop
<1>5. CASE LoopStep
  BY <1>5 DEF LoopStep, MachineStep
<1>6. CASE TestStep
  BY <1>6 DEF TestStep, MachineStep
<1>7. CASE Stops \/ TimesOut \/ CreateDump \/ FinishDump
  BY <1>7 DEF Stops, TimesOut, CreateDump, FinishDump
<1>8. CASE SaveCards \/ PrintSummary
  BY <1>8 DEF SaveCards, SaveCard, PrintSummary
<1>9. CASE Killed \/ RunAgain
  BY <1>9 DEF Killed, RunAgain
<1>10. CASE Embedded
  BY <1>10 DEF Embedded
<1>11. CASE UNCHANGED allVars
  BY <1>11 DEF allVars
<1> QED
  BY <1>1, <1>2, <1>3, <1>4, <1>5, <1>6, <1>7, <1>8, <1>9, <1>10, <1>11
  DEF FrontendNext

LEMMA MachineHolds == IInv /\ [FrontendNext]_allVars => IInv'
<1> SUFFICES ASSUME IInv, [FrontendNext]_allVars PROVE IInv'
  OBVIOUS
<1>1. CASE timestamp' = 0 /\ queue' = FirstEvents /\ run' = NoRun /\ vblanks' = 0
  <2>1. (timestamp = 0 /\ queue = FirstEvents /\ run = NoRun /\ vblanks = 0 => IInv)'
    BY PoweredHolds, PTL
  <2>2. FirstEvents' = FirstEvents /\ NoRun' = NoRun
    BY DEF FirstEvents, NoRun
  <2> QED BY <1>1, <2>1, <2>2
<1>2. CASE UNCHANGED vars \/ Next \/ \E c \in MinCost..MaxCost : StepOne(c)
  BY <1>2, NextHolds, StepHolds
<1> QED BY <1>1, <1>2, FrontendMovesMachine DEF MachineMoves

LEMMA FrontendStartsMachine == InitFrontend => IInv
  BY PoweredHolds DEF InitFrontend, Powered

\* Whatever loop drives the machine, and however often the process starts
\* again, the VBlanks keep the frame rate and none is lost.
THEOREM FrameRateInEveryRun == FrontendSpec => [](FrameRate /\ OneVBlankAhead)
<1>1. FrontendSpec => []IInv
  BY FrontendStartsMachine, MachineHolds, PTL DEF FrontendSpec
<1> QED BY <1>1, InvImplies, PTL

-----------------------------------------------------------------------------
(* The memory card files.                                                   *)

Ports == {0, 1}
Origins == {"none", "missing", "short", "old", "formatted"}
Image == [from : Origins, writes : SUBSET Nat]
Phases ==
  {"bios", "mount0", "mount1", "disc", "exe", "open", "loop", "test", "create",
   "finish", "save0", "save1", "print", "done", "failed", "killed", "embedded"}

FilesTyped ==
  /\ args \in ArgSets /\ phase \in Phases
  /\ files \in [Paths -> Image] /\ cards \in [Ports -> Image]
  /\ writes \in Nat

\* A mounted card is a whole image and has a path to go back to.
CardsMounted ==
  \A p \in Ports :
    cards[p] # Empty => Whole(cards[p]) /\ args.paths[p] \in Paths

\* What has been saved so far is in its file, unless the other port shares it.
SavedSoFar ==
  /\ phase = "save1" /\ cards[0] # Empty => files[args.paths[0]] = cards[0]
  /\ phase \in {"print", "done"} =>
       /\ cards[1] # Empty => files[args.paths[1]] = cards[1]
       /\ cards[0] # Empty /\ args.paths[1] # args.paths[0]
            => files[args.paths[0]] = cards[0]

\* A card is never behind its file: it came from it, or there was none.
CardAhead(p) ==
  LET file == files[args.paths[p]] IN
  \/ file = Missing
  \/ file.from = cards[p].from /\ file.writes \subseteq cards[p].writes
CardsAhead ==
  phase \notin {"failed", "killed"} /\ args.paths[0] # args.paths[1] =>
    \A p \in Ports : cards[p] # Empty => CardAhead(p)

CardInv == FilesTyped /\ CardsMounted /\ SavedSoFar /\ CardsAhead

\* The loop's summary is the last thing that a run does.
SummaryIsLast == report = "Summary" => phase = "done"

LEMMA ImagesTyped ==
  /\ {Missing, Short, Old, Formatted, Empty} \subseteq Image
  /\ Whole(Formatted)
  /\ \A f \in Image : Whole(f) => f # Empty
  /\ Missing # Empty /\ Formatted # Empty
  BY DEF Missing, Short, Old, Formatted, Empty, Image, Origins, Whole

LEMMA CardsStart == InitFrontend => CardInv
<1> SUFFICES ASSUME InitFrontend PROVE CardInv
  OBVIOUS
<1>1. /\ args \in ArgSets /\ phase \in {"bios", "embedded"}
      /\ files \in [Paths -> {Missing, Short, Old}]
      /\ cards = [p \in Ports |-> Empty] /\ writes = 0
  BY DEF InitFrontend, Ports
<1>2. FilesTyped
  BY <1>1, ImagesTyped DEF FilesTyped, Phases
<1>3. \A p \in Ports : cards[p] = Empty
  BY <1>1
<1> QED BY <1>1, <1>2, <1>3 DEF CardInv, CardsMounted, SavedSoFar, CardsAhead, Ports

\* A step that touches neither cards nor files keeps the invariant, if it
\* does not end the saving.
LEMMA QuietKeepsCards ==
  ASSUME CardInv, UNCHANGED <<args, files, cards, writes>>, phase' \in Phases,
         \/ phase' \notin {"save1", "print", "done"} \/ phase' = phase
         \/ phase = "print" /\ phase' = "done",
         phase \in {"failed", "killed"} => phase' \in {"failed", "killed"}
  PROVE  CardInv' /\ UNCHANGED files
<1>1. FilesTyped' /\ CardsMounted'
  BY DEF CardInv, FilesTyped, CardsMounted
<1>2. SavedSoFar'
  BY DEF CardInv, SavedSoFar
<1>3. CardsAhead'
  BY DEF CardInv, CardsAhead, CardAhead
<1> QED BY <1>1, <1>2, <1>3 DEF CardInv

LEMMA MountKeepsCards ==
  ASSUME CardInv, NEW p \in Ports, NEW next \in {"mount1", "disc"},
         phase \in {"mount0", "mount1"}, MountCard(p, next)
  PROVE  CardInv' /\ UNCHANGED files
<1>1. /\ UNCHANGED <<args, files, writes>> /\ phase' \in {next, "failed"}
      /\ FilesTyped /\ CardsMounted /\ CardsAhead
  BY DEF MountCard, Go, Fail, CardInv
<1>2. CASE UNCHANGED cards
  BY <1>1, <1>2, QuietKeepsCards DEF Phases
<1>3. CASE cards' # cards
  <2>1. PICK image \in Image : /\ cards' = [cards EXCEPT ![p] = image]
                               /\ Whole(image) /\ args.paths[p] # "none"
                               /\ files[args.paths[p]] \in {Missing, image}
    <3>1. args.paths[p] # "none"
      BY <1>3 DEF MountCard
    <3>2. args.paths[p] \in Paths
      BY <1>1, <3>1, FrontendConstants DEF FilesTyped, Ports
    <3>3. files[args.paths[p]] \in Image
      BY <1>1, <3>2 DEF FilesTyped
    <3>4. CASE /\ files[args.paths[p]] = Missing
               /\ cards' = [cards EXCEPT ![p] = Formatted]
      BY <3>1, <3>4, ImagesTyped
    <3>5. CASE /\ Whole(files[args.paths[p]])
               /\ cards' = [cards EXCEPT ![p] = files[args.paths[p]]]
      BY <3>1, <3>3, <3>5
    <3> QED BY <1>3, <3>1, <3>4, <3>5 DEF MountCard
  <2>2. args.paths[p] \in Paths
    BY <1>1, <2>1, FrontendConstants DEF FilesTyped, Ports
  <2>3. FilesTyped'
    BY <1>1, <2>1 DEF FilesTyped, Phases
  <2>4. \A q \in Ports : cards'[q] = IF q = p THEN image ELSE cards[q]
    BY <1>1, <2>1 DEF FilesTyped
  <2>5. CardsMounted'
    BY <1>1, <2>1, <2>2, <2>4 DEF CardsMounted
  <2>6. SavedSoFar'
    BY <1>1 DEF SavedSoFar
  <2>7. CardsAhead'
    BY <1>1, <2>1, <2>4 DEF CardsAhead, CardAhead
  <2> QED BY <1>1, <2>3, <2>5, <2>6, <2>7 DEF CardInv
<1> QED BY <1>2, <1>3

LEMMA StepKeepsCards ==
  ASSUME CardInv, GuestWrites, UNCHANGED <<args, files>>,
         phase \in {"loop", "test"}, phase' \in {"loop", "test", "failed"}
  PROVE  CardInv' /\ UNCHANGED files
<1>1. FilesTyped /\ CardsMounted /\ CardsAhead
  BY DEF CardInv
<1>2. CASE UNCHANGED <<cards, writes>>
  BY <1>2, QuietKeepsCards DEF Phases
<1>3. ASSUME NEW p \in Ports, cards[p] # Empty, writes' = writes + 1,
             cards' = [cards EXCEPT ![p].writes = @ \cup {writes'}]
      PROVE  CardInv'
  <2> DEFINE image == [cards[p] EXCEPT !.writes = @ \cup {writes'}]
  <2>1. cards[p] \in Image /\ writes' \in Nat
    BY <1>1, <1>3 DEF FilesTyped
  <2>2. /\ image \in Image /\ image.from = cards[p].from
        /\ cards[p].writes \subseteq image.writes
    BY <2>1 DEF Image
  <2>3. \A q \in Ports : cards'[q] = IF q = p THEN image ELSE cards[q]
    BY <1>1, <1>3 DEF FilesTyped
  <2>4. cards' \in [Ports -> Image]
    BY <1>1, <1>3, <2>2 DEF FilesTyped
  <2> HIDE DEF image
  <2>5. FilesTyped'
    BY <1>1, <2>1, <2>4 DEF FilesTyped, Phases
  <2>6. CardsMounted'
    BY <1>1, <1>3, <2>2, <2>3 DEF CardsMounted, Whole
  <2>7. SavedSoFar'
    BY DEF SavedSoFar
  <2>8. CardsAhead'
    BY <1>1, <1>3, <2>2, <2>3 DEF CardsAhead, CardAhead
  <2> QED BY <2>5, <2>6, <2>7, <2>8 DEF CardInv
<1> QED BY <1>2, <1>3 DEF GuestWrites, Ports

LEMMA SaveKeepsCards ==
  ASSUME CardInv, SaveCards
  PROVE  CardInv' /\ NoWriteIsUndoneNow
<1> DEFINE p == IF phase = "save0" THEN 0 ELSE 1
           next == IF phase = "save0" THEN "save1"
                   ELSE IF args.test THEN "done" ELSE "print"
           path == args.paths[p]
<1>1. /\ SaveCard(p, next) /\ phase \in {"save0", "save1"} /\ p \in Ports
      /\ FilesTyped /\ CardsMounted /\ SavedSoFar /\ CardsAhead
      /\ UNCHANGED <<args, cards, writes>>
  BY DEF SaveCards, SaveCard, CardInv, Ports
<1>2. CASE cards[p] = Empty
  <2>1. UNCHANGED files /\ phase' = next
    BY <1>1, <1>2 DEF SaveCard, Go
  <2>2. FilesTyped' /\ CardsMounted' /\ CardsAhead'
    BY <1>1, <2>1 DEF FilesTyped, CardsMounted, CardsAhead, CardAhead, Phases
  <2>3. SavedSoFar'
    BY <1>1, <1>2, <2>1 DEF SavedSoFar
  <2> QED BY <2>1, <2>2, <2>3 DEF CardInv, NoWriteIsUndoneNow, Keeps
<1>3. CASE cards[p] # Empty
  <2>1. /\ path \in Paths /\ cards[p] \in Image /\ files[path] \in Image
    BY <1>1, <1>3 DEF CardsMounted, FilesTyped
  <2>2. PICK image \in {cards[p], Short, files[path]} :
          /\ files' = [files EXCEPT ![path] = image]
          /\ \/ phase' = next /\ image = cards[p]
             \/ phase' = "failed" /\ image \in {Short, files[path]}
    <3>1. \/ Written(path, cards[p]) /\ phase' = next
          \/ phase' = "failed" /\ (Written(path, Short) \/ UNCHANGED files)
      BY <1>1, <1>3 DEF SaveCard, Go, Fail
    <3>2. files = [files EXCEPT ![path] = files[path]]
      BY <1>1 DEF FilesTyped
    <3> QED BY <3>1, <3>2 DEF Written
  <2>3. \A x \in Paths : files'[x] = IF x = path THEN image ELSE files[x]
    BY <1>1, <2>2 DEF FilesTyped
  <2>4. FilesTyped' /\ CardsMounted'
    BY <1>1, <2>1, <2>2, ImagesTyped DEF FilesTyped, CardsMounted, Phases
  <2>5. SavedSoFar'
    BY <1>1, <2>1, <2>2, <2>3 DEF SavedSoFar, CardsMounted, Ports
  <2>6. CardsAhead'
    <3> SUFFICES ASSUME phase' # "failed", args.paths[0] # args.paths[1],
                        NEW q \in Ports, cards[q] # Empty
                 PROVE  CardAhead(q)'
      BY <1>1 DEF CardsAhead
    <3>1. image = cards[p]
      BY <2>2
    <3>2. CASE q = p
      BY <1>1, <2>1, <2>3, <3>1, <3>2 DEF CardAhead
    <3>3. CASE q # p
      <4>1. args.paths[q] \in Paths /\ args.paths[q] # path
        BY <1>1, <3>3 DEF CardsMounted, Ports
      <4>2. CardAhead(q)
        BY <1>1 DEF CardsAhead
      <4> QED BY <1>1, <2>3, <4>1, <4>2 DEF CardAhead
    <3> QED BY <3>2, <3>3
  <2>7. NoWriteIsUndoneNow
    <3> SUFFICES ASSUME args.paths[0] # args.paths[1]
                 PROVE  Keeps(files[path], image)
      BY <2>1, <2>3 DEF NoWriteIsUndoneNow, Keeps
    <3>1. CardAhead(p)
      BY <1>1, <1>3 DEF CardsAhead
    <3> QED BY <2>1, <3>1 DEF Keeps, CardAhead
  <2> QED BY <2>4, <2>5, <2>6, <2>7 DEF CardInv
<1> QED BY <1>2, <1>3

LEMMA KillKeepsCards ==
  ASSUME CardInv, Killed
  PROVE  CardInv' /\ NoWriteIsUndoneNow
<1>1. /\ UNCHANGED <<args, cards, writes>> /\ phase' = "killed"
      /\ FilesTyped /\ CardsMounted
  BY DEF Killed, Go, CardInv
<1>2. files' \in [Paths -> Image]
  BY <1>1, ImagesTyped DEF Killed, Written, FilesTyped
<1>3. CardInv'
  BY <1>1, <1>2 DEF CardInv, FilesTyped, CardsMounted, SavedSoFar, CardsAhead, Phases
<1>4. \A x \in Paths : files'[x] \in {files[x], Short}
  BY <1>1 DEF Killed, Written, FilesTyped
<1> QED BY <1>3, <1>4 DEF NoWriteIsUndoneNow, Keeps

LEMMA AgainKeepsCards ==
  ASSUME CardInv, RunAgain
  PROVE  CardInv' /\ UNCHANGED files
<1>1. /\ UNCHANGED <<args, files, writes>> /\ phase' = "bios"
      /\ cards' = [p \in Ports |-> Empty] /\ FilesTyped
  BY DEF RunAgain, Go, CardInv, Ports
<1>2. cards' \in [Ports -> Image]
  BY <1>1, ImagesTyped
<1> QED BY <1>1, <1>2
        DEF CardInv, FilesTyped, CardsMounted, SavedSoFar, CardsAhead, Phases

\* Every step of a run, on the cards and their files.
LEMMA CardsHold ==
  CardInv /\ [FrontendNext]_allVars => CardInv' /\ NoWriteIsUndoneNow
<1> SUFFICES ASSUME CardInv, [FrontendNext]_allVars
             PROVE  CardInv' /\ NoWriteIsUndoneNow
  OBVIOUS
<1>0. UNCHANGED files => NoWriteIsUndoneNow
  BY DEF NoWriteIsUndoneNow, Keeps
<1>1. CASE ReadBios \/ LoadDisc \/ LoadExe \/ OpenFiles \/ TraceFails \/ EndLoop
  <2>1. /\ UNCHANGED <<args, files, cards, writes>>
        /\ phase \in {"bios", "disc", "exe", "open", "loop"}
        /\ phase' \in {"mount0", "exe", "test", "open", "loop", "finish", "save0",
                       "failed"}
    BY <1>1 DEF ReadBios, LoadDisc, LoadExe, OpenFiles, TraceFails, EndLoop, Go,
                Fail, io
  <2> QED BY <1>0, <2>1, QuietKeepsCards DEF Phases
<1>2. CASE Stops \/ TimesOut \/ CreateDump \/ FinishDump
  <2>1. /\ UNCHANGED <<args, files, cards, writes>>
        /\ phase \in {"test", "create", "finish"}
        /\ phase' \in {"create", "finish", "save0", "failed"}
    BY <1>2 DEF Stops, TimesOut, CreateDump, FinishDump, AppendFails, Dumping, Go,
                Fail, io
  <2> QED BY <1>0, <2>1, QuietKeepsCards DEF Phases
<1>3. CASE MountCards
  BY <1>0, <1>3, MountKeepsCards DEF MountCards, Ports
<1>4. CASE LoopStep
  <2>1. GuestWrites /\ UNCHANGED <<args, files>> /\ phase = "loop"
    BY <1>4 DEF LoopStep, MachineStep
  <2>2. phase' \in {"loop", "failed"}
    BY <1>4 DEF LoopStep, AppendFails, Go, Fail
  <2> QED BY <1>0, <2>1, <2>2, StepKeepsCards
<1>5. CASE TestStep
  BY <1>0, <1>5, StepKeepsCards DEF TestStep, MachineStep
<1>6. CASE SaveCards
  BY <1>6, SaveKeepsCards
<1>10. CASE PrintSummary
  <2>1. /\ UNCHANGED <<args, files, cards, writes>>
        /\ phase = "print" /\ phase' = "done"
    BY <1>10 DEF PrintSummary, Go, io
  <2> QED BY <1>0, <2>1, QuietKeepsCards DEF Phases
<1>7. CASE Killed
  BY <1>7, KillKeepsCards
<1>8. CASE RunAgain
  BY <1>0, <1>8, AgainKeepsCards
<1>9. CASE Embedded \/ UNCHANGED allVars
  <2>1. UNCHANGED <<args, files, cards, writes, phase>>
    BY <1>9 DEF Embedded, frontend, allVars
  <2>2. phase' \in Phases
    BY <2>1 DEF CardInv, FilesTyped
  <2> QED BY <1>0, <2>1, <2>2, QuietKeepsCards
<1> QED
  BY <1>1, <1>2, <1>3, <1>4, <1>5, <1>6, <1>7, <1>8, <1>9, <1>10 DEF FrontendNext

\* Only a run that is over has printed its summary, and it does no more.
LEMMA SummaryStaysLast ==
  SummaryIsLast /\ [FrontendNext]_allVars => SummaryIsLast'
<1> SUFFICES ASSUME SummaryIsLast, [FrontendNext]_allVars, report' = "Summary"
             PROVE  phase' = "done"
  BY DEF SummaryIsLast
<1> USE DEF SummaryIsLast
<1>1. CASE ReadBios \/ MountCards \/ LoadDisc \/ LoadExe
  BY <1>1 DEF ReadBios, MountCards, MountCard, LoadDisc, LoadExe
<1>2. CASE OpenFiles \/ LoopStep \/ TraceFails \/ EndLoop
  BY <1>2 DEF OpenFiles, LoopStep, TraceFails, EndLoop
<1>3. CASE TestStep \/ CreateDump \/ FinishDump \/ SaveCards
  BY <1>3 DEF TestStep, CreateDump, FinishDump, SaveCards, SaveCard
<1>4. CASE Stops \/ TimesOut
  <2>1. report' \in {"Passed", "Failed", "Stopped", "TimedOut"}
    BY <1>4 DEF Stops, TimesOut
  <2> QED BY <2>1
<1>5. CASE PrintSummary
  BY <1>5 DEF PrintSummary, Go
<1>6. CASE Killed \/ RunAgain
  BY <1>6 DEF Killed, RunAgain, Over
<1>7. CASE Embedded \/ UNCHANGED allVars
  BY <1>7 DEF Embedded, frontend, allVars
<1> QED BY <1>1, <1>2, <1>3, <1>4, <1>5, <1>6, <1>7 DEF FrontendNext

LEMMA SummaryAlwaysLast == FrontendSpec => []SummaryIsLast
<1>1. InitFrontend => SummaryIsLast
  BY DEF InitFrontend, SummaryIsLast
<1> QED BY <1>1, SummaryStaysLast, PTL DEF FrontendSpec

LEMMA CardInvAlways == FrontendSpec => []CardInv
  BY CardsStart, CardsHold, PTL DEF FrontendSpec

\* A run that came to its end, or printed the loop's summary, has saved every
\* card it mounted, with the guest's last write; the verdict of a test, which
\* is printed before, promises nothing (save_memory_cards, run).
THEOREM EndedRunsHaveSaved == FrontendSpec => []SavedAtTheEnd
<1>1. CardInv /\ SummaryIsLast => SavedAtTheEnd
  BY DEF CardInv, CardsMounted, SavedSoFar, SummaryIsLast, SavedAtTheEnd, Ports
<1> QED BY <1>1, CardInvAlways, SummaryAlwaysLast, PTL

\* Over any number of runs, failing or killed anywhere, no card file loses a
\* write except to a save cut short.
THEOREM FilesNeverGoBack == FrontendSpec => NoWriteIsUndone
<1>1. CardInv /\ [FrontendNext]_allVars => [NoWriteIsUndoneNow]_allVars
  BY CardsHold
<1> QED
  BY <1>1, CardInvAlways, PTL DEF FrontendSpec, NoWriteIsUndone, NoWriteIsUndoneNow

-----------------------------------------------------------------------------
(* The sound and its dump.                                                  *)

\* The samples after the a-th up to the b-th.
Samples(a, b) == [k \in 1..(b - a) |-> a + k]

LEMMA SamplesAre ==
  ASSUME NEW a \in Nat, NEW b \in Nat, a <= b
  PROVE  Samples(a, b) \in Seq(Nat) /\ Len(Samples(a, b)) = b - a
  BY DEF Samples

LEMMA NoSamples == \A a \in Nat : Samples(a, a) = << >>
  BY DEF Samples

LEMMA JoinIs ==
  ASSUME NEW x \in Seq(Nat), NEW y \in Seq(Nat), NEW k \in 1..(Len(x) + Len(y))
  PROVE  (x \o y)[k] = IF k <= Len(x) THEN x[k] ELSE y[k - Len(x)]
  OBVIOUS

LEMMA SamplesJoin ==
  ASSUME NEW a \in Nat, NEW b \in Nat, NEW c \in Nat, a <= b, b <= c
  PROVE  Samples(a, b) \o Samples(b, c) = Samples(a, c)
<1> DEFINE s == Samples(a, b)
           t == Samples(b, c)
<1>1. s \in Seq(Nat) /\ t \in Seq(Nat) /\ Len(s) = b - a /\ Len(t) = c - b
  BY SamplesAre
<1>2. \A k \in 1..(c - a) : (s \o t)[k] = a + k
  <2> SUFFICES ASSUME NEW k \in 1..(c - a) PROVE (s \o t)[k] = a + k
    OBVIOUS
  <2>1. CASE k <= b - a
    <3>1. (s \o t)[k] = s[k]
      <4> HIDE DEF s, t
      <4> QED BY <1>1, <2>1, JoinIs
    <3> QED BY <2>1, <3>1 DEF Samples
  <2>2. CASE k > b - a
    <3>1. (s \o t)[k] = t[k - (b - a)]
      <4> HIDE DEF s, t
      <4> QED BY <1>1, <2>2, JoinIs
    <3>2. PICK j \in 1..(c - b) : j = k - (b - a)
      BY <2>2
    <3>3. t[j] = b + j
      BY DEF Samples
    <3>4. b + j = a + k
      BY <2>2, <3>2
    <3> QED BY <3>1, <3>2, <3>3, <3>4, Zenon
  <2>3. k <= b - a \/ k > b - a
    OBVIOUS
  <2> QED BY <2>1, <2>2, <2>3, Zenon
<1>3. s \o t \in Seq(Nat) /\ Len(s \o t) = c - a
  BY <1>1
<1>4. Samples(a, c) = [k \in 1..(c - a) |-> (s \o t)[k]]
  BY <1>2 DEF Samples
<1>5. s \o t = [k \in 1..(c - a) |-> (s \o t)[k]]
  <2> DEFINE z == s \o t
  <2>1. z \in Seq(Nat) /\ Len(z) = c - a
    BY <1>3
  <2> HIDE DEF z
  <2>2. z = [k \in 1..(c - a) |-> z[k]]
    BY <2>1
  <2> QED BY <2>2 DEF z
<1> QED BY <1>4, <1>5

Part(s, m, n) == SubSeq(s, m + 1, n)

LEMMA SamplesPart ==
  \A a, b, m, n \in Nat : a <= b /\ m <= n /\ n <= b - a =>
    Part(Samples(a, b), m, n) = Samples(a + m, a + n)
<1> SUFFICES ASSUME NEW a \in Nat, NEW b \in Nat, a <= b,
                    NEW m \in Nat, NEW n \in Nat, m <= n, n <= b - a
             PROVE  Part(Samples(a, b), m, n) = Samples(a + m, a + n)
  OBVIOUS
<1>1. SubSeq(Samples(a, b), m + 1, n)
        = [k \in 1..(n - m) |-> Samples(a, b)[k + (m + 1) - 1]]
  BY SamplesAre
<1>2. \A k \in 1..(n - m) : Samples(a, b)[k + (m + 1) - 1] = a + m + k
  BY DEF Samples
<1>3. (a + n) - (a + m) = n - m
  OBVIOUS
<1> QED BY <1>1, <1>2, <1>3 DEF Samples, Part

LEMMA MadeIs ==
  ASSUME accumulated \in Nat, accumulated < Period, NEW c \in MinCost..MaxCost
  PROVE  /\ Made(c) \in Nat /\ Made(c) <= MostMade
         /\ (accumulated + c) % Period \in Nat
         /\ (accumulated + c) % Period < Period
<1>1. /\ c \in Nat /\ accumulated + c \in Nat
      /\ Period - 1 + MaxCost \in Nat /\ accumulated + c <= Period - 1 + MaxCost
  BY ConstantTypes, FrontendConstants
<1>2. Period \in Nat \ {0} /\ (accumulated + c) % Period >= 0
  BY <1>1, DivisionOf, FrontendConstants
<1>3. Made(c) \in Nat
  BY <1>1, <1>2 DEF Made
<1>4. Made(c) <= MostMade
  BY <1>1, <1>2, DivisionGrows DEF Made, MostMade
<1>5. (accumulated + c) % Period \in Int /\ (accumulated + c) % Period < Period
  BY <1>1, <1>2, DivisionOf
<1> QED BY <1>2, <1>3, <1>4, <1>5

\* The output queue holds the last samples made, after the a-th.
Queued(a) == a \in Nat /\ a <= produced /\ output = Samples(a, produced)

LEMMA QueueIs ==
  ASSUME produced \in Nat, NEW a, Queued(a), NEW c, Made(c) \in Nat
  PROVE  LET all == produced + Made(c) IN
         Queue(c) = Samples(IF all - a <= Capacity THEN a ELSE all - Capacity, all)
<1>0. PICK all \in Nat : all = produced + Made(c)
  OBVIOUS
<1> DEFINE more == [k \in 1..Made(c) |-> produced + k]
<1>1. all \in Nat /\ produced <= all /\ all - produced = Made(c)
      /\ a \in Nat /\ a <= produced /\ a <= all
  BY <1>0 DEF Queued
<1>2. more = Samples(produced, all)
  BY <1>1 DEF Samples
<1> HIDE DEF more
<1>3. output \o more = Samples(a, all)
  BY <1>1, <1>2, SamplesJoin DEF Queued
<1>4. Len(output \o more) = all - a
  BY <1>1, <1>3, SamplesAre
<1>5. CASE all - a <= Capacity
  BY <1>0, <1>3, <1>4, <1>5 DEF Queue, PushOutput, more
<1>6. CASE ~ all - a <= Capacity
  <2>1. Capacity \in Nat /\ (all - a) - Capacity \in Nat /\ all - a \in Nat
    BY <1>1, <1>6, FrontendConstants
  <2>2. (all - a) - Capacity <= all - a
    BY <2>1
  <2>3. PICK lost \in Nat, len \in Nat : lost = (all - a) - Capacity /\ len = all - a
    BY <2>1
  <2>4. a \in Nat /\ all \in Nat /\ a <= all /\ lost <= len /\ len <= all - a
    BY <1>1, <2>1, <2>2, <2>3
  <2>5. a + lost = all - Capacity /\ a + len = all
    BY <1>1, <2>1, <2>3
  <2>6. SubSeq(Samples(a, all), lost + 1, len) = Samples(a + lost, a + len)
    <3>1. Part(Samples(a, all), lost, len) = Samples(a + lost, a + len)
      BY <2>4, SamplesPart
    <3> QED BY <3>1, Zenon DEF Part
  <2>7. Queue(c) = SubSeq(output \o more, lost + 1, len)
    BY <1>4, <1>6, <2>3 DEF Queue, PushOutput, more
  <2>8. Queue(c) = Samples(all - Capacity, all)
    BY <1>3, <2>5, <2>6, <2>7, Zenon
  <2> QED BY <1>0, <1>6, <2>8
<1> QED BY <1>5, <1>6

\* Samples that a full queue has lost, when nothing drains it.
Lost == IF produced <= Capacity THEN 0 ELSE produced - Capacity

SoundTyped ==
  /\ accumulated \in Nat /\ accumulated < Period /\ produced \in Nat
  /\ wav \in [header : Nat, data : Seq(Nat)]
  /\ wav.header \in {0, Len(wav.data)}

\* What the command line says of the phases it selects.
Selected ==
  /\ args \in ArgSets
  /\ phase \in {"open", "loop"} => ~args.test
  /\ phase \in {"test", "create"} => args.test
  /\ phase \in {"create", "finish"} => args.audio

Starting == {"bios", "mount0", "mount1", "disc", "exe", "open"}
Testing ==
  \/ phase \in {"test", "create"}
  \/ phase = "finish" /\ args.test
Draining ==
  \/ phase = "loop" /\ args.audio
  \/ phase = "finish" /\ ~args.test
Dumped == phase \in {"save0", "save1", "print", "done"} /\ args.audio

\* Between the dump and the queue no sample is missing or there twice.
DumpFits(a) ==
  /\ phase \in Starting => produced = 0
  /\ Testing => a = Lost
  /\ Draining => produced - a < Chunk /\ wav = [header |-> 0, data |-> Samples(0, a)]
  /\ Testing /\ phase = "finish" => wav = NoWav
  /\ Dumped =>
       /\ wav.header = Len(wav.data)
       /\ wav.data = Samples(IF args.test THEN Lost ELSE 0, produced)

SoundInv == SoundTyped /\ Selected /\ \E a \in Nat : Queued(a) /\ DumpFits(a)

LEMMA NoWavTyped ==
  /\ NoWav \in [header : Nat, data : Seq(Nat)] /\ NoWav.header = 0
  /\ NoWav = [header |-> 0, data |-> Samples(0, 0)]
  BY NoSamples DEF NoWav

LEMMA PoweredSound ==
  ASSUME accumulated = 0, produced = 0, output = << >>, phase \in {"bios", "embedded"},
         wav \in [header : Nat, data : Seq(Nat)], wav.header \in {0, Len(wav.data)},
         args \in ArgSets
  PROVE  SoundInv
<1>1. SoundTyped /\ Selected
  BY FrontendConstants DEF SoundTyped, Selected
<1>2. Queued(0)
  BY NoSamples DEF Queued
<1>3. DumpFits(0)
  BY DEF DumpFits, Testing, Draining, Dumped
<1> QED BY <1>1, <1>2, <1>3 DEF SoundInv

LEMMA SoundStarts == InitFrontend => SoundInv
  BY PoweredSound, NoWavTyped DEF InitFrontend, Powered

\* A step that makes no sound and leaves the dump alone.
LEMMA QuietKeepsSound ==
  ASSUME SoundInv, UNCHANGED <<args, accumulated, produced, output, wav>>, Selected',
         phase' \in Starting => phase \in Starting,
         Testing' => Testing \/ phase = "exe", (Testing /\ phase = "finish")' => wav = NoWav,
         Draining' => Draining,
         Dumped' => Dumped
  PROVE  SoundInv'
<1>1. PICK a \in Nat : Queued(a) /\ DumpFits(a)
  BY DEF SoundInv
<1>2. SoundTyped'
  BY DEF SoundInv, SoundTyped
<1>3. Queued(a)'
  BY <1>1 DEF Queued
<1>4. Lost' = Lost
  BY DEF Lost
<1>5. phase = "exe" => a = Lost
  <2> SUFFICES ASSUME phase = "exe" PROVE a = Lost
    OBVIOUS
  <2>1. produced = 0 /\ a \in Nat /\ a <= produced
    BY <1>1 DEF DumpFits, Starting, Queued
  <2> QED BY <2>1, FrontendConstants DEF Lost
<1>6. DumpFits(a)'
  BY <1>1, <1>4, <1>5 DEF DumpFits
<1> QED BY <1>2, <1>3, <1>6 DEF SoundInv

\* An append that fails has written part of the samples.
LEMMA PartWritten ==
  ASSUME NEW samples \in Seq(Nat), AppendFails(samples)
  PROVE  \E part \in Seq(Nat) : wav' = [wav EXCEPT !.data = @ \o part]
<1>1. PICK n \in 0..Len(samples) :
        wav' = [wav EXCEPT !.data = @ \o SubSeq(samples, 1, n)]
  BY DEF AppendFails, Appended
<1>2. SubSeq(samples, 1, n) \in Seq(Nat)
  OBVIOUS
<1> QED BY <1>1, <1>2, Zenon

LEMMA DumpGrows ==
  ASSUME NEW dump \in [header : Nat, data : Seq(Nat)], NEW part \in Seq(Nat)
  PROVE  LET new == [dump EXCEPT !.data = @ \o part] IN
         new \in [header : Nat, data : Seq(Nat)] /\ new.header = dump.header
<1> DEFINE data == dump.data \o part
<1>1. data \in Seq(Nat)
  <2>1. dump.data \in Seq(Nat)
    OBVIOUS
  <2>2. \A s, t \in Seq(Nat) : s \o t \in Seq(Nat)
    OBVIOUS
  <2> QED BY <2>1, <2>2
<1>2. [dump EXCEPT !.data = @ \o part] = [dump EXCEPT !.data = data]
  OBVIOUS
<1> HIDE DEF data
<1> QED BY <1>1, <1>2

LEMMA LoopKeepsSound ==
  ASSUME SoundInv, LoopStep
  PROVE  SoundInv'
<1>1. PICK a \in Nat : Queued(a) /\ DumpFits(a)
  BY DEF SoundInv
<1>2. SoundTyped /\ Selected /\ phase = "loop" /\ UNCHANGED args /\ ~args.test
  BY DEF SoundInv, LoopStep, Selected
<1>3. PICK c \in MinCost..MaxCost :
        /\ MachineStep(c)
        /\ LET queued == Queue(c) IN
           IF args.audio /\ Len(queued) >= Chunk
           THEN LET chunk == SubSeq(queued, 1, Chunk) IN
                /\ output' = SubSeq(queued, Chunk + 1, Len(queued))
                /\ (Appended(chunk) /\ Go("loop")) \/ AppendFails(chunk)
           ELSE output' = queued /\ Go("loop") /\ UNCHANGED wav
  BY DEF LoopStep
<1> DEFINE sum == produced + Made(c)
<1>a. PICK all \in Nat : all = sum
  <2>1. sum \in Nat
    BY <1>1, <1>2, <1>3, MadeIs DEF SoundTyped
  <2> QED BY <2>1
<1> DEFINE b == IF all - a <= Capacity THEN a ELSE all - Capacity
<1>4. /\ Made(c) \in Nat /\ Made(c) <= MostMade /\ all \in Nat
      /\ produced' = all /\ produced \in Nat /\ a <= produced
      /\ accumulated' \in Nat /\ accumulated' < Period
  BY <1>1, <1>2, <1>3, <1>a, MadeIs DEF SoundTyped, MachineStep, Queued
<1>5. b \in Nat /\ b <= all /\ Queue(c) = Samples(b, all)
  <2>1. b \in Nat /\ b <= all
    BY <1>1, <1>4, <1>a, FrontendConstants
  <2> QED BY <1>1, <1>4, <1>a, <2>1, QueueIs
<1>6. Len(Queue(c)) = all - b /\ Queue(c) \in Seq(Nat)
  BY <1>4, <1>5, SamplesAre
<1>7. args.audio => b = a /\ produced - a < Chunk /\ all - a < Chunk + Chunk
                    /\ wav = [header |-> 0, data |-> Samples(0, a)]
  <2> SUFFICES ASSUME args.audio
               PROVE  b = a /\ produced - a < Chunk /\ all - a < Chunk + Chunk
                      /\ wav = [header |-> 0, data |-> Samples(0, a)]
    OBVIOUS
  <2>1. produced - a < Chunk /\ wav = [header |-> 0, data |-> Samples(0, a)]
    BY <1>1, <1>2 DEF DumpFits, Draining
  <2>2. MostMade \in Int /\ all - a <= Chunk - 1 + MostMade
    <3>1. MostMade \in Nat
      BY ConstantTypes, FrontendConstants, DivisionOf DEF MostMade
    <3> QED BY <1>1, <1>4, <1>a, <2>1, <3>1, FrontendConstants
  <2> QED BY <1>1, <1>4, <2>1, <2>2, FrontendConstants
<1> HIDE DEF b, sum
<1>8. CASE ~ (args.audio /\ Len(Queue(c)) >= Chunk)
  <2>1. output' = Queue(c) /\ phase' = "loop" /\ UNCHANGED wav
    BY <1>3, <1>8 DEF Go
  <2>2. SoundTyped' /\ Selected'
    BY <1>2, <1>4, <2>1 DEF SoundTyped, Selected
  <2>3. Queued(b)'
    BY <1>4, <1>5, <2>1 DEF Queued
  <2>4. phase' \notin Starting /\ ~Testing' /\ ~Dumped'
    BY <2>1 DEF Testing, Dumped, Starting
  <2>5. Draining' => args.audio
    BY <1>2, <2>1 DEF Draining
  <2>6. args.audio => all - b < Chunk
    BY <1>4, <1>5, <1>6, <1>8, FrontendConstants
  <2>7. DumpFits(b)'
    BY <1>4, <1>7, <2>1, <2>4, <2>5, <2>6 DEF DumpFits
  <2> QED BY <1>5, <2>2, <2>3, <2>7 DEF SoundInv
<1>9. CASE args.audio /\ Len(Queue(c)) >= Chunk
  <2>1. /\ output' = SubSeq(Queue(c), Chunk + 1, Len(Queue(c)))
        /\ \/ Appended(SubSeq(Queue(c), 1, Chunk)) /\ phase' = "loop"
           \/ AppendFails(SubSeq(Queue(c), 1, Chunk))
    BY <1>3, <1>9 DEF Go
  <2>2. /\ Chunk \in Nat /\ Chunk > 0 /\ a + Chunk <= all /\ all - a < Chunk + Chunk
        /\ Queue(c) = Samples(a, all) /\ Len(Queue(c)) = all - a
    BY <1>1, <1>4, <1>5, <1>6, <1>7, <1>9, FrontendConstants
  <2>3. SubSeq(Queue(c), 1, Chunk) = Samples(a, a + Chunk)
    <3>1. 0 \in Nat /\ 0 <= Chunk /\ Chunk <= all - a /\ a <= all
      BY <1>1, <1>4, <2>2
    <3>2. Part(Samples(a, all), 0, Chunk) = Samples(a + 0, a + Chunk)
      BY <1>1, <2>2, <3>1, SamplesPart
    <3>3. 0 + 1 = 1 /\ a + 0 = a
      BY <1>1
    <3> QED BY <2>2, <3>2, <3>3, Zenon DEF Part
  <2>4. output' = Samples(a + Chunk, all)
    <3>1. PICK len \in Nat : len = all - a
      BY <1>1, <1>4, <2>2
    <3>2. /\ Chunk <= len /\ len <= all - a /\ a <= all
          /\ a \in Nat /\ all \in Nat /\ Chunk \in Nat
      BY <1>1, <1>4, <2>2, <3>1
    <3>3. Len(Queue(c)) = len /\ a + len = all
      BY <1>1, <1>4, <2>2, <3>1
    <3>4. Part(Samples(a, all), Chunk, len) = Samples(a + Chunk, a + len)
      BY <3>2, SamplesPart
    <3> QED BY <2>1, <2>2, <3>3, <3>4, Zenon DEF Part
  <2>5. Queued(a + Chunk)' /\ a + Chunk \in Nat
    BY <1>1, <1>4, <2>2, <2>4 DEF Queued
  <2>6. CASE Appended(SubSeq(Queue(c), 1, Chunk)) /\ phase' = "loop"
    <3>1. Samples(0, a) \o Samples(a, a + Chunk) = Samples(0, a + Chunk)
      <4>1. 0 \in Nat /\ 0 <= a /\ a + Chunk \in Nat /\ a <= a + Chunk
        BY <1>1, <2>2
      <4> QED BY <4>1, SamplesJoin, Zenon
    <3>2. wav = [header |-> 0, data |-> Samples(0, a)] /\ wav.data = Samples(0, a)
      BY <1>7, <1>9
    <3>3. wav' = [wav EXCEPT !.data = Samples(0, a + Chunk)]
      BY <2>3, <2>6, <3>1, <3>2, Zenon DEF Appended
    <3>4. wav' = [header |-> 0, data |-> Samples(0, a + Chunk)]
      BY <3>2, <3>3
    <3>5. Samples(0, a + Chunk) \in Seq(Nat)
      BY <2>5, SamplesAre
    <3>6. SoundTyped' /\ Selected'
      BY <1>2, <1>4, <2>6, <3>4, <3>5 DEF SoundTyped, Selected
    <3>7. phase' \notin Starting /\ ~Testing' /\ ~Dumped'
      BY <2>6 DEF Testing, Dumped, Starting
    <3>8. all - (a + Chunk) < Chunk
      BY <1>1, <1>4, <2>2
    <3>9. DumpFits(a + Chunk)'
      BY <1>4, <3>4, <3>7, <3>8 DEF DumpFits
    <3> QED BY <2>5, <3>6, <3>9 DEF SoundInv
  <2>7. CASE AppendFails(SubSeq(Queue(c), 1, Chunk))
    <3>1. phase' = "failed"
      BY <2>7 DEF AppendFails, Fail, Go
    <3>2. SubSeq(Queue(c), 1, Chunk) \in Seq(Nat)
      <4>1. Samples(a, a + Chunk) \in Seq(Nat)
        BY <1>1, <2>2, SamplesAre
      <4> QED BY <2>3, <4>1, Zenon
    <3>3. PICK part \in Seq(Nat) : wav' = [wav EXCEPT !.data = @ \o part]
      BY <2>7, <3>2, PartWritten
    <3>4. wav' \in [header : Nat, data : Seq(Nat)] /\ wav'.header = 0
      <4>1. wav \in [header : Nat, data : Seq(Nat)] /\ wav.header = 0
        BY <1>2, <1>7, <1>9 DEF SoundTyped
      <4> QED BY <3>3, <4>1, DumpGrows
    <3>5. SoundTyped' /\ Selected'
      BY <1>2, <1>4, <3>1, <3>4 DEF SoundTyped, Selected
    <3>6. DumpFits(a + Chunk)'
      BY <3>1 DEF DumpFits, Testing, Draining, Dumped, Starting
    <3> QED BY <2>5, <3>5, <3>6 DEF SoundInv
  <2> QED BY <2>1, <2>6, <2>7
<1> QED BY <1>8, <1>9

LEMMA TestKeepsSound ==
  ASSUME SoundInv, TestStep
  PROVE  SoundInv'
<1>1. PICK a \in Nat : Queued(a) /\ DumpFits(a)
  BY DEF SoundInv
<1>2. /\ SoundTyped /\ Selected /\ phase = "test" /\ UNCHANGED <<args, phase, wav>>
      /\ args.test
  BY DEF SoundInv, TestStep, Selected
<1>3. PICK c \in MinCost..MaxCost : MachineStep(c) /\ output' = Queue(c)
  BY DEF TestStep
<1> DEFINE sum == produced + Made(c)
<1>a. PICK all \in Nat : all = sum
  <2>1. sum \in Nat
    BY <1>1, <1>2, <1>3, MadeIs DEF SoundTyped
  <2> QED BY <2>1
<1> DEFINE b == IF all - a <= Capacity THEN a ELSE all - Capacity
<1>4. /\ Made(c) \in Nat /\ all \in Nat /\ produced <= all
      /\ produced' = all /\ produced \in Nat /\ a <= produced
      /\ accumulated' \in Nat /\ accumulated' < Period
  BY <1>1, <1>2, <1>3, <1>a, MadeIs DEF SoundTyped, MachineStep, Queued
<1>5. b \in Nat /\ b <= all /\ Queue(c) = Samples(b, all)
  <2>1. b \in Nat /\ b <= all
    BY <1>1, <1>4, <1>a, FrontendConstants
  <2> QED BY <1>1, <1>4, <1>a, <2>1, QueueIs
<1>6. a = Lost
  BY <1>1, <1>2 DEF DumpFits, Testing
<1>7. b = Lost'
  BY <1>1, <1>4, <1>6, FrontendConstants DEF Lost
<1> HIDE DEF b
<1>8. SoundTyped' /\ Selected'
  BY <1>2, <1>4 DEF SoundTyped, Selected
<1>9. Queued(b)'
  BY <1>3, <1>4, <1>5 DEF Queued
<1>10. DumpFits(b)'
  BY <1>2, <1>7 DEF DumpFits, Draining, Dumped, Starting
<1> QED BY <1>5, <1>8, <1>9, <1>10 DEF SoundInv

LEMMA FinishKeepsSound ==
  ASSUME SoundInv, FinishDump
  PROVE  SoundInv'
<1>1. PICK a \in Nat : Queued(a) /\ DumpFits(a)
  BY DEF SoundInv
<1>2. /\ SoundTyped /\ Selected /\ phase = "finish" /\ args.audio
      /\ UNCHANGED <<args, accumulated, produced>>
  BY DEF SoundInv, FinishDump, Selected
<1>3. /\ a <= produced /\ produced \in Nat /\ output = Samples(a, produced)
      /\ output \in Seq(Nat) /\ Len(output) = produced - a
  BY <1>1, <1>2, SamplesAre DEF Queued, SoundTyped
<1> DEFINE first == IF args.test THEN a ELSE 0
<1>4. /\ first \in Nat /\ first <= a
      /\ wav.header = 0 /\ wav.data = Samples(first, a)
      /\ args.test => a = Lost
  <2>1. CASE args.test
    BY <1>1, <1>2, <2>1, NoSamples DEF DumpFits, Testing, NoWav
  <2>2. CASE ~args.test
    BY <1>1, <1>2, <2>2 DEF DumpFits, Draining
  <2> QED BY <2>1, <2>2
<1>5. args.test => Lost' = first
  BY <1>2, <1>4 DEF Lost
<1>6. wav.data \in Seq(Nat) /\ Len(wav.data) = a - first
  BY <1>4, SamplesAre
<1>7. ~args.test => first = 0
  OBVIOUS
<1> HIDE DEF first
<1>8. Selected' \/ phase' \notin {"save0", "failed"}
  BY <1>2 DEF Selected
<1>9. CASE DrainAll /\ phase' \in {"save0", "failed"}
  <2>1. /\ output' = << >> /\ wav'.header = Len(wav.data) + Len(output)
        /\ wav'.data = wav.data \o output
        /\ wav' \in [header : Nat, data : Seq(Nat)]
    BY <1>2, <1>3, <1>6, <1>9 DEF DrainAll, SoundTyped
  <2>2. wav'.data = Samples(first, produced)
    <3>1. Samples(first, a) \o Samples(a, produced) = Samples(first, produced)
      BY <1>1, <1>3, <1>4, SamplesJoin
    <3> QED BY <1>3, <1>4, <2>1, <3>1, Zenon
  <2>3. wav'.header = Len(wav'.data)
    BY <1>3, <1>6, <2>1
  <2>4. SoundTyped' /\ Selected'
    BY <1>2, <1>8, <1>9, <2>1, <2>3 DEF SoundTyped
  <2>a. PICK all \in Nat : all = produced
    BY <1>3
  <2>5. Queued(all)'
    BY <1>2, <2>1, <2>a, NoSamples DEF Queued
  <2>6. DumpFits(all)'
    BY <1>2, <1>5, <1>7, <1>9, <2>2, <2>3
    DEF DumpFits, Testing, Draining, Dumped, Starting
  <2> QED BY <2>4, <2>5, <2>6 DEF SoundInv
<1>10. CASE AppendFails(output) /\ UNCHANGED output
  <2>1. phase' = "failed"
    BY <1>10 DEF AppendFails, Fail, Go
  <2>2. PICK part \in Seq(Nat) : wav' = [wav EXCEPT !.data = @ \o part]
    BY <1>3, <1>10, PartWritten
  <2>4. wav' \in [header : Nat, data : Seq(Nat)] /\ wav'.header = 0
    <3>1. wav \in [header : Nat, data : Seq(Nat)]
      BY <1>2 DEF SoundTyped
    <3> QED BY <1>4, <2>2, <3>1, DumpGrows
  <2>5. SoundTyped' /\ Selected'
    BY <1>2, <1>8, <2>1, <2>4 DEF SoundTyped
  <2>6. Queued(a)'
    BY <1>1, <1>2, <1>10 DEF Queued
  <2>7. DumpFits(a)'
    BY <2>1 DEF DumpFits, Testing, Draining, Dumped, Starting
  <2> QED BY <2>5, <2>6, <2>7 DEF SoundInv
<1> QED BY <1>9, <1>10 DEF FinishDump, Go, Fail

\* The dump is created: empty, or not at all.
LEMMA DumpCreated ==
  ASSUME SoundInv, UNCHANGED <<args, accumulated, produced, output>>, Selected',
         wav' \in {wav, NoWav},
         \/ phase = "open" /\ phase' = "loop" /\ (args.audio => wav' = NoWav)
         \/ phase = "create" /\ phase' = "finish" /\ wav' = NoWav
         \/ phase' = "failed"
  PROVE  SoundInv'
<1>1. PICK a \in Nat : Queued(a) /\ DumpFits(a)
  BY DEF SoundInv
<1>2. SoundTyped'
  BY NoWavTyped DEF SoundInv, SoundTyped
<1>3. Queued(a)' /\ Lost' = Lost
  BY <1>1 DEF Queued, Lost
<1>4. phase = "create" => args.test
  BY DEF SoundInv, Selected
<1>5. phase = "open" => produced = 0 /\ a = 0 /\ ~args.test
  <2> SUFFICES ASSUME phase = "open" PROVE produced = 0 /\ a = 0 /\ ~args.test
    OBVIOUS
  <2>1. produced = 0 /\ ~args.test
    BY <1>1 DEF DumpFits, Starting, SoundInv, Selected
  <2> QED BY <1>1, <2>1 DEF Queued
<1>6. DumpFits(a)'
  BY <1>1, <1>3, <1>4, <1>5, NoWavTyped, FrontendConstants
  DEF DumpFits, Testing, Draining, Dumped, Starting
<1> QED BY <1>2, <1>3, <1>6 DEF SoundInv

\* Every step of a run, on the sound and its dump.
LEMMA SoundHolds == SoundInv /\ [FrontendNext]_allVars => SoundInv'
<1> SUFFICES ASSUME SoundInv, [FrontendNext]_allVars PROVE SoundInv'
  OBVIOUS
<1> DEFINE Silent == UNCHANGED <<args, accumulated, produced, output, wav>>
<1>0. Selected
  BY DEF SoundInv
<1>1. CASE ReadBios \/ MountCards \/ LoadDisc \/ LoadExe \/ SaveCards \/ PrintSummary
  <2>1. /\ Silent
        /\ \/ phase' = "failed"
           \/ phase \in {"bios", "mount0", "mount1", "disc"}
              /\ phase' \in {"mount0", "mount1", "disc", "exe"}
           \/ phase = "exe" /\ phase' = IF args.test THEN "test" ELSE "open"
           \/ /\ phase \in {"save0", "save1", "print"}
              /\ phase' \in {"save1", "print", "done"}
    BY <1>1 DEF ReadBios, MountCards, MountCard, LoadDisc, LoadExe, SaveCards,
                SaveCard, PrintSummary, Go, Fail, io, sound
  <2>2. Selected' /\ (phase' \in Starting => phase \in Starting)
    BY <1>0, <2>1 DEF Selected, Starting
  <2>3. Testing' => Testing \/ phase = "exe"
    BY <1>0, <2>1 DEF Selected, Testing
  <2>4. ~ (Testing /\ phase = "finish")' \/ phase' = phase
    BY <1>0, <2>1 DEF Selected, Testing
  <2>5. (Draining' => Draining) /\ (Dumped' => Dumped)
    BY <1>0, <2>1 DEF Selected, Draining, Dumped
  <2>6. (Testing /\ phase = "finish")' => wav = NoWav
    BY <2>1, <2>4 DEF Testing, SoundInv, DumpFits
  <2> QED BY <2>1, <2>2, <2>3, <2>5, <2>6, QuietKeepsSound
<1>2. CASE TraceFails \/ EndLoop \/ Stops \/ TimesOut
  <2>1. /\ Silent
        /\ \/ phase' = "failed"
           \/ phase = "loop" /\ phase' = IF args.audio THEN "finish" ELSE "save0"
           \/ phase = "test" /\ phase' = IF args.audio THEN "create" ELSE "save0"
    BY <1>2 DEF TraceFails, EndLoop, Stops, TimesOut, Dumping, Go, Fail, io, sound
  <2>2. Selected' /\ (phase' \in Starting => phase \in Starting)
    BY <1>0, <2>1 DEF Selected, Starting
  <2>3. Testing' => Testing \/ phase = "exe"
    BY <1>0, <2>1 DEF Selected, Testing
  <2>4. ~ (Testing /\ phase = "finish")' \/ phase' = phase
    BY <1>0, <2>1 DEF Selected, Testing
  <2>5. (Draining' => Draining) /\ (Dumped' => Dumped)
    BY <1>0, <2>1 DEF Selected, Draining, Dumped
  <2>6. (Testing /\ phase = "finish")' => wav = NoWav
    BY <2>1, <2>4 DEF Testing, SoundInv, DumpFits
  <2> QED BY <2>1, <2>2, <2>3, <2>5, <2>6, QuietKeepsSound
<1>3. CASE OpenFiles \/ CreateDump
  <2>1. /\ UNCHANGED <<args, accumulated, produced, output>>
        /\ wav' \in {wav, NoWav}
        /\ \/ phase = "open" /\ phase' = "loop" /\ (args.audio => wav' = NoWav)
           \/ phase = "create" /\ phase' = "finish" /\ wav' = NoWav
           \/ phase' = "failed"
    BY <1>3 DEF OpenFiles, CreateDump, Go, Fail, sound
  <2>2. Selected'
    BY <1>0, <2>1 DEF Selected
  <2> QED BY <2>1, <2>2, DumpCreated
<1>4. CASE LoopStep
  BY <1>4, LoopKeepsSound
<1>5. CASE TestStep
  BY <1>5, TestKeepsSound
<1>6. CASE FinishDump
  BY <1>6, FinishKeepsSound
<1>7. CASE Killed \/ Embedded \/ UNCHANGED allVars
  <2>1. Silent /\ phase' \in {phase, "killed"}
    BY <1>7 DEF Killed, Embedded, allVars, frontend, sound, Go
  <2>2. Selected' /\ (phase' \in Starting => phase \in Starting)
    BY <1>0, <2>1 DEF Selected, Starting
  <2>3. Testing' => Testing \/ phase = "exe"
    BY <1>0, <2>1 DEF Selected, Testing
  <2>4. ~ (Testing /\ phase = "finish")' \/ phase' = phase
    BY <1>0, <2>1 DEF Selected, Testing
  <2>5. (Draining' => Draining) /\ (Dumped' => Dumped)
    BY <1>0, <2>1 DEF Selected, Draining, Dumped
  <2>6. (Testing /\ phase = "finish")' => wav = NoWav
    BY <2>1, <2>4 DEF Testing, SoundInv, DumpFits
  <2> QED BY <2>1, <2>2, <2>3, <2>5, <2>6, QuietKeepsSound
<1>8. CASE RunAgain
  <2>1. /\ UNCHANGED <<args, wav>> /\ phase' = "bios"
        /\ accumulated' = 0 /\ produced' = 0 /\ output' = << >>
    BY <1>8 DEF RunAgain, Go
  <2>2. /\ wav \in [header : Nat, data : Seq(Nat)] /\ wav.header \in {0, Len(wav.data)}
        /\ args \in ArgSets
    BY DEF SoundInv, SoundTyped, Selected
  <2>3. (/\ accumulated = 0 /\ produced = 0 /\ output = << >>
         /\ phase \in {"bios", "embedded"}
         /\ wav \in [header : Nat, data : Seq(Nat)] /\ wav.header \in {0, Len(wav.data)}
         /\ args \in ArgSets)' => SoundInv'
    BY PoweredSound, PTL
  <2> QED BY <2>1, <2>2, <2>3
<1> QED
  BY <1>1, <1>2, <1>3, <1>4, <1>5, <1>6, <1>7, <1>8 DEF FrontendNext

LEMMA LeastOfTwo ==
  ASSUME NEW x \in Nat, NEW y \in Nat
  PROVE  Min({x, y}) = IF x <= y THEN x ELSE y
<1> DEFINE z == IF x <= y THEN x ELSE y
<1>1. z \in {x, y} /\ \A u \in {x, y} : z <= u
  OBVIOUS
<1>2. \A v \in {x, y} : (\A u \in {x, y} : v <= u) => v = z
  OBVIOUS
<1> QED BY <1>1, <1>2 DEF Min

LEMMA SoundFits == SoundInv => WavIsComplete
<1> SUFFICES ASSUME SoundInv PROVE WavIsComplete
  OBVIOUS
<1>1. wav.header \in {0, Len(wav.data)} /\ produced \in Nat
  BY DEF SoundInv, SoundTyped
<1> DEFINE held == IF args.test THEN Min({produced, Capacity}) ELSE produced
           first == IF args.test THEN Lost ELSE 0
<1>2. first = produced - held /\ held = produced - first
  BY <1>1, LeastOfTwo, FrontendConstants DEF Lost
<1>3. ASSUME DumpIsDone
      PROVE  wav.header = Len(wav.data) /\ DumpHolds(held)
  <2>1. wav.header = Len(wav.data) /\ wav.data = Samples(first, produced)
    BY <1>3 DEF SoundInv, DumpFits, Dumped, DumpIsDone
  <2> HIDE DEF held, first
  <2> QED BY <1>2, <2>1 DEF Samples, DumpHolds
<1> QED BY <1>1, <1>3 DEF WavIsComplete

\* The dump holds the sound of the run in order, all of it or as much of the
\* end as the output queue holds, and its header says so: no chunk drained
\* from the queue is lost, cut or there twice (drain_audio_chunk,
\* WavWriter::finish).
THEOREM DumpHoldsTheSound == FrontendSpec => []WavIsComplete
<1>1. FrontendSpec => []SoundInv
  BY SoundStarts, SoundHolds, PTL DEF FrontendSpec
<1> QED BY <1>1, SoundFits, PTL

-----------------------------------------------------------------------------
(* The cue sheet: what parse_cue_disc_spec knows after its first n lines.   *)

Skips(k) == cue[k].kind = "INDEX" /\ cue[k].number = "00"

FileSeen(n, sheet) ==
  IF sheet.file = "none" THEN \A k \in 1..n : cue[k].kind # "FILE"
  ELSE \E f \in 1..n : FileOf(f, n + 1) /\ cue[f].name = sheet.file

\* The data track selected is i: its INDEX 01 is still awaited, will not come
\* any more, or has come.
StartSeen(n, sheet, i) ==
  \/ sheet.open /\ ~sheet.index /\ \A k \in (i + 1)..n : Skips(k)
  \/ /\ ~sheet.open /\ ~sheet.index
     /\ \E k \in (i + 1)..n :
           cue[k].kind # "INDEX" /\ \A l \in (i + 1)..(k - 1) : Skips(l)
  \/ /\ ~sheet.open /\ sheet.index
     /\ \E j \in (i + 1)..n : StartOf(i, j) /\ cue[j].frames = sheet.frames

TrackSeen(n, sheet) ==
  IF sheet.image = "none"
  THEN /\ \A k \in 1..n : cue[k].kind = "TRACK" => cue[k].mode = "AUDIO"
       /\ ~sheet.open /\ ~sheet.index
  ELSE \E f, i \in 1..n :
          /\ DataTrack(i) /\ cue[i].mode = "data"
          /\ FileOf(f, i) /\ cue[f].name = sheet.image
          /\ StartSeen(n, sheet, i)

\* Why the parser gave up.
Refused(n) ==
  \E i \in 1..n :
    /\ DataTrack(i)
    /\ \/ cue[i].mode = "unsupported"
       \/ \A f \in 1..(i - 1) : cue[f].kind # "FILE"
       \/ \E k \in (i + 1)..n :
             /\ cue[k].kind = "INDEX" /\ cue[k].number = "malformed"
             /\ \A l \in (i + 1)..(k - 1) : Skips(l)

SheetRead(n, sheet) ==
  IF sheet.error THEN Refused(n) ELSE FileSeen(n, sheet) /\ TrackSeen(n, sheet)

Sheets ==
  [file : STRING \cup {"none"}, image : STRING \cup {"none"}, frames : Nat,
   open : BOOLEAN, index : BOOLEAN, error : BOOLEAN]

LEMMA LineTyped ==
  ASSUME NEW line \in CueLineType
  PROVE  \/ line.kind = "FILE" /\ line.name \in STRING /\ line.name # "none"
         \/ line.kind = "TRACK" /\ line.mode \in {"AUDIO", "data", "unsupported"}
         \/ /\ line.kind = "INDEX" /\ line.number \in {"00", "01", "malformed"}
            /\ line.frames \in Nat
  BY DEF CueLineType

LEMMA CueLineIs ==
  ASSUME NEW sheet \in Sheets, NEW line \in CueLineType
  PROVE  /\ sheet.error => CueLine(sheet, line) = sheet
         /\ ~sheet.error /\ line.kind = "FILE" =>
              CueLine(sheet, line) = CueFile(sheet, line)
         /\ ~sheet.error /\ line.kind = "TRACK" =>
              CueLine(sheet, line) = CueTrack(sheet, line)
         /\ ~sheet.error /\ line.kind = "INDEX" =>
              CueLine(sheet, line) =
                IF sheet.open THEN CueIndex(sheet, line) ELSE sheet
<1>1. sheet.error => CueLine(sheet, line) = sheet
  BY DEF CueLine
<1>2. ASSUME ~sheet.error, line.kind = "FILE"
      PROVE  CueLine(sheet, line) = CueFile(sheet, line)
  BY <1>2 DEF CueLine
<1>3. ASSUME ~sheet.error, line.kind = "TRACK"
      PROVE  CueLine(sheet, line) = CueTrack(sheet, line)
  BY <1>3 DEF CueLine
<1>4. ASSUME ~sheet.error, line.kind = "INDEX"
      PROVE  CueLine(sheet, line) =
               IF sheet.open THEN CueIndex(sheet, line) ELSE sheet
  BY <1>4 DEF CueLine
<1> QED BY <1>1, <1>2, <1>3, <1>4

LEMMA CueIndexIs ==
  ASSUME NEW sheet \in Sheets, NEW line \in CueLineType, line.kind = "INDEX"
  PROVE  /\ line.number = "malformed" =>
              CueIndex(sheet, line) = [sheet EXCEPT !.error = TRUE]
         /\ line.number = "00" => CueIndex(sheet, line) = sheet
         /\ line.number = "01" =>
              CueIndex(sheet, line) =
                [sheet EXCEPT !.frames = line.frames, !.open = FALSE, !.index = TRUE]
<1>1. ASSUME line.number = "malformed"
      PROVE  CueIndex(sheet, line) = [sheet EXCEPT !.error = TRUE]
  BY <1>1 DEF CueIndex
<1>2. ASSUME line.number = "00" PROVE CueIndex(sheet, line) = sheet
  BY <1>2 DEF CueIndex
<1>3. ASSUME line.number = "01"
      PROVE  CueIndex(sheet, line) =
               [sheet EXCEPT !.frames = line.frames, !.open = FALSE, !.index = TRUE]
  BY <1>3 DEF CueIndex
<1> QED BY <1>1, <1>2, <1>3

LEMMA SheetTyped ==
  ASSUME NEW sheet \in Sheets, NEW line \in CueLineType
  PROVE  CueLine(sheet, line) \in Sheets
<1>1. CASE sheet.error
  BY <1>1, CueLineIs
<1>2. CASE ~sheet.error /\ line.kind = "FILE"
  <2>1. line.name \in STRING
    BY <1>2, LineTyped
  <2>2. CueFile(sheet, line) \in Sheets
    BY <2>1 DEF CueFile, Sheets
  <2> QED BY <1>2, <2>2, CueLineIs
<1>3. CASE ~sheet.error /\ line.kind = "TRACK"
  <2>1. CueTrack(sheet, line) \in Sheets
    BY DEF CueTrack, Sheets
  <2> QED BY <1>3, <2>1, CueLineIs
<1>4. CASE ~sheet.error /\ line.kind = "INDEX"
  <2>1. line.number \in {"00", "01", "malformed"} /\ line.frames \in Nat
    BY <1>4, LineTyped
  <2>2. CueIndex(sheet, line) \in Sheets
    <3>1. /\ [sheet EXCEPT !.error = TRUE] \in Sheets
          /\ [sheet EXCEPT !.frames = line.frames, !.open = FALSE, !.index = TRUE]
               \in Sheets
      BY <2>1 DEF Sheets
    <3> QED BY <1>4, <2>1, <3>1, CueIndexIs
  <2> QED BY <1>4, <2>2, CueLineIs
<1> QED BY <1>1, <1>2, <1>3, <1>4, LineTyped

\* One more line.
LEMMA FileGoesOn ==
  ASSUME NEW n \in Nat, NEW sheet, FileSeen(n, sheet), cue[n + 1].kind # "FILE"
  PROVE  FileSeen(n + 1, sheet)
  BY DEF FileSeen, FileOf

LEMMA TrackGoesOn ==
  ASSUME NEW n \in Nat, NEW sheet, TrackSeen(n, sheet), ~sheet.open,
         NEW next, next.image = sheet.image, next.frames = sheet.frames,
         next.index = sheet.index, ~next.open,
         sheet.image = "none" =>
            (cue[n + 1].kind = "TRACK" => cue[n + 1].mode = "AUDIO")
  PROVE  TrackSeen(n + 1, next)
<1>1. CASE sheet.image = "none"
  BY <1>1 DEF TrackSeen
<1>2. CASE sheet.image # "none"
  <2>1. PICK f, i \in 1..n :
          /\ DataTrack(i) /\ cue[i].mode = "data"
          /\ FileOf(f, i) /\ cue[f].name = sheet.image
          /\ StartSeen(n, sheet, i)
    BY <1>2 DEF TrackSeen
  <2>2. StartSeen(n + 1, next, i)
    BY <2>1 DEF StartSeen
  <2>3. f \in 1..(n + 1) /\ i \in 1..(n + 1)
    OBVIOUS
  <2> QED BY <1>2, <2>1, <2>2, <2>3 DEF TrackSeen
<1> QED BY <1>1, <1>2

\* A TRACK or a FILE closes the track that was selected.
LEMMA TrackCloses ==
  ASSUME NEW n \in Nat, NEW sheet \in Sheets, TrackSeen(n, sheet),
         sheet.image # "none", cue[n + 1].kind # "INDEX",
         NEW next, next.image = sheet.image, next.frames = sheet.frames,
         next.index = sheet.index, ~next.open
  PROVE  TrackSeen(n + 1, next)
<1>1. CASE ~sheet.open
  BY <1>1, TrackGoesOn
<1>2. CASE sheet.open
  <2>1. PICK f, i \in 1..n :
          /\ DataTrack(i) /\ cue[i].mode = "data"
          /\ FileOf(f, i) /\ cue[f].name = sheet.image
          /\ StartSeen(n, sheet, i)
    BY DEF TrackSeen
  <2>2. ~next.index /\ \A k \in (i + 1)..n : Skips(k)
    BY <1>2, <2>1 DEF StartSeen
  <2>3. n + 1 \in (i + 1)..(n + 1) /\ (n + 1) - 1 = n
    BY <2>1
  <2>4. StartSeen(n + 1, next, i)
    BY <2>2, <2>3 DEF StartSeen
  <2>5. f \in 1..(n + 1) /\ i \in 1..(n + 1)
    OBVIOUS
  <2> QED BY <2>1, <2>4, <2>5 DEF TrackSeen
<1> QED BY <1>1, <1>2

LEMMA FileRead ==
  ASSUME NEW n \in Nat, NEW sheet \in Sheets, FileSeen(n, sheet), TrackSeen(n, sheet),
         cue[n + 1].kind = "FILE", cue[n + 1].name # "none"
  PROVE  LET next == CueFile(sheet, cue[n + 1]) IN
         FileSeen(n + 1, next) /\ TrackSeen(n + 1, next)
<1> DEFINE next == CueFile(sheet, cue[n + 1])
<1>1. /\ next.file = cue[n + 1].name /\ next.image = sheet.image
      /\ next.frames = sheet.frames /\ next.index = sheet.index /\ ~next.open
  BY DEF CueFile, Sheets
<1> HIDE DEF next
<1>2. FileSeen(n + 1, next)
  <2>1. n + 1 \in 1..(n + 1) /\ FileOf(n + 1, (n + 1) + 1)
    BY DEF FileOf
  <2> QED BY <1>1, <2>1 DEF FileSeen
<1>3. TrackSeen(n + 1, next)
  <2>1. CASE sheet.image = "none"
    <3>1. ~sheet.open
      BY <2>1 DEF TrackSeen
    <3> QED BY <1>1, <3>1, TrackGoesOn
  <2>2. CASE sheet.image # "none"
    BY <1>1, <2>2, TrackCloses
  <2> QED BY <2>1, <2>2
<1> QED BY <1>2, <1>3 DEF next

LEMMA TrackRead ==
  ASSUME NEW n \in Nat, NEW sheet \in Sheets, FileSeen(n, sheet), TrackSeen(n, sheet),
         ~sheet.error, cue[n + 1].kind = "TRACK",
         cue[n + 1].mode \in {"AUDIO", "data", "unsupported"}
  PROVE  SheetRead(n + 1, CueTrack(sheet, cue[n + 1]))
<1> DEFINE next == CueTrack(sheet, cue[n + 1])
<1>1. CASE sheet.image # "none" \/ cue[n + 1].mode = "AUDIO"
  <2>1. /\ next = [sheet EXCEPT !.open = FALSE]
        /\ next.image = sheet.image /\ next.frames = sheet.frames
        /\ next.index = sheet.index /\ ~next.open /\ next.file = sheet.file
        /\ ~next.error
    BY <1>1 DEF CueTrack, Sheets
  <2> HIDE DEF next
  <2>2. FileSeen(n + 1, next)
    <3>1. FileSeen(n + 1, sheet)
      BY FileGoesOn
    <3> QED BY <2>1, <3>1 DEF FileSeen
  <2>3. TrackSeen(n + 1, next)
    <3>1. CASE sheet.image = "none"
      <4>1. ~sheet.open
        BY <3>1 DEF TrackSeen
      <4> QED BY <1>1, <2>1, <4>1, TrackGoesOn
    <3>2. CASE sheet.image # "none"
      BY <2>1, <3>2, TrackCloses
    <3> QED BY <3>1, <3>2
  <2> QED BY <2>1, <2>2, <2>3 DEF SheetRead, next
<1>2. CASE sheet.image = "none" /\ cue[n + 1].mode # "AUDIO"
  <2>1. DataTrack(n + 1) /\ n + 1 \in 1..(n + 1)
    BY <1>2 DEF TrackSeen, DataTrack
  <2>2. ~sheet.open /\ ~sheet.index
    BY <1>2 DEF TrackSeen
  <2>3. CASE cue[n + 1].mode = "unsupported" \/ sheet.file = "none"
    <3>1. next.error
      BY <1>2, <2>3 DEF CueTrack, Sheets
    <3>2. Refused(n + 1)
      BY <2>1, <2>3 DEF Refused, FileSeen
    <3> QED BY <3>1, <3>2 DEF SheetRead
  <2>4. CASE cue[n + 1].mode # "unsupported" /\ sheet.file # "none"
    <3>1. /\ next = [sheet EXCEPT !.image = sheet.file, !.open = TRUE]
          /\ next.image = sheet.file /\ next.open /\ ~next.error
          /\ next.index = sheet.index /\ next.file = sheet.file
      BY <1>2, <2>4 DEF CueTrack, Sheets
    <3> HIDE DEF next
    <3>2. FileSeen(n + 1, next)
      <4>1. FileSeen(n + 1, sheet)
        BY FileGoesOn
      <4> QED BY <3>1, <4>1 DEF FileSeen
    <3>3. PICK f \in 1..n : FileOf(f, n + 1) /\ cue[f].name = sheet.file
      BY <2>4 DEF FileSeen
    <3>4. StartSeen(n + 1, next, n + 1)
      BY <2>2, <3>1 DEF StartSeen
    <3>5. cue[n + 1].mode = "data" /\ f \in 1..(n + 1)
      BY <1>2, <2>4
    <3>6. TrackSeen(n + 1, next)
      BY <2>1, <2>4, <3>1, <3>3, <3>4, <3>5 DEF TrackSeen
    <3> QED BY <3>1, <3>2, <3>6 DEF SheetRead, next
  <2> QED BY <2>3, <2>4
<1> QED BY <1>1, <1>2

LEMMA IndexRead ==
  ASSUME NEW n \in Nat, NEW sheet \in Sheets, FileSeen(n, sheet), TrackSeen(n, sheet),
         ~sheet.error, sheet.open,
         cue[n + 1] \in CueLineType, cue[n + 1].kind = "INDEX"
  PROVE  SheetRead(n + 1, CueIndex(sheet, cue[n + 1]))
<1> DEFINE line == cue[n + 1]
           next == CueIndex(sheet, line)
<1>0. /\ line.number = "malformed" => next = [sheet EXCEPT !.error = TRUE]
      /\ line.number = "00" => next = sheet
      /\ line.number = "01" => next =
           [sheet EXCEPT !.frames = line.frames, !.open = FALSE, !.index = TRUE]
  BY CueIndexIs
<1>1. FileSeen(n + 1, sheet)
  BY FileGoesOn
<1>2. sheet.image # "none"
  BY DEF TrackSeen
<1>3. PICK f, i \in 1..n :
        /\ DataTrack(i) /\ cue[i].mode = "data"
        /\ FileOf(f, i) /\ cue[f].name = sheet.image
        /\ StartSeen(n, sheet, i)
  BY <1>2 DEF TrackSeen
<1>4. ~sheet.index /\ \A k \in (i + 1)..n : Skips(k)
  BY <1>3 DEF StartSeen
<1>5. /\ n + 1 \in (i + 1)..(n + 1) /\ (n + 1) - 1 = n /\ i < n + 1
      /\ f \in 1..(n + 1) /\ i \in 1..(n + 1)
  BY <1>3
<1>6. CASE cue[n + 1].number = "malformed"
  <2>1. next.error
    BY <1>0, <1>6 DEF Sheets
  <2>2. Refused(n + 1)
    BY <1>3, <1>4, <1>5, <1>6 DEF Refused
  <2> QED BY <2>1, <2>2 DEF SheetRead
<1>7. CASE cue[n + 1].number = "00"
  <2>1. next = sheet
    BY <1>0, <1>7
  <2>2. StartSeen(n + 1, sheet, i)
    BY <1>4, <1>5, <1>7 DEF StartSeen, Skips
  <2>3. TrackSeen(n + 1, sheet)
    BY <1>2, <1>3, <1>5, <2>2 DEF TrackSeen
  <2> QED BY <1>1, <2>1, <2>3 DEF SheetRead
<1>8. CASE cue[n + 1].number = "01"
  <2>1. /\ next.image = sheet.image /\ next.file = sheet.file /\ ~next.error
        /\ next.frames = cue[n + 1].frames /\ next.index /\ ~next.open
    BY <1>0, <1>8 DEF Sheets
  <2> HIDE DEF next
  <2>2. StartOf(i, n + 1)
    BY <1>4, <1>5, <1>8 DEF StartOf, Skips
  <2>3. StartSeen(n + 1, next, i)
    BY <1>5, <2>1, <2>2 DEF StartSeen
  <2>4. TrackSeen(n + 1, next)
    BY <1>2, <1>3, <1>5, <2>1, <2>3 DEF TrackSeen
  <2>5. FileSeen(n + 1, next)
    BY <1>1, <2>1 DEF FileSeen
  <2> QED BY <2>1, <2>4, <2>5 DEF SheetRead, next
<1> QED BY <1>6, <1>7, <1>8, LineTyped

LEMMA LineRead ==
  ASSUME NEW n \in Nat, NEW sheet \in Sheets, SheetRead(n, sheet),
         cue[n + 1] \in CueLineType
  PROVE  SheetRead(n + 1, CueLine(sheet, cue[n + 1]))
<1> DEFINE line == cue[n + 1]
<1>1. CASE sheet.error
  <2>1. CueLine(sheet, line) = sheet
    BY <1>1, CueLineIs
  <2>2. Refused(n)
    BY <1>1 DEF SheetRead
  <2>3. Refused(n + 1)
    BY <2>2 DEF Refused
  <2> QED BY <1>1, <2>1, <2>3 DEF SheetRead
<1>2. CASE ~sheet.error
  <2>0. FileSeen(n, sheet) /\ TrackSeen(n, sheet)
    BY <1>2 DEF SheetRead
  <2>1. CASE line.kind = "FILE"
    <3>1. line.name # "none" /\ CueLine(sheet, line) = CueFile(sheet, line)
      BY <1>2, <2>1, LineTyped, CueLineIs
    <3>2. ~CueFile(sheet, line).error
      BY <1>2 DEF CueFile, Sheets
    <3> QED BY <2>0, <2>1, <3>1, <3>2, FileRead DEF SheetRead
  <2>2. CASE line.kind = "TRACK"
    BY <1>2, <2>0, <2>2, LineTyped, CueLineIs, TrackRead
  <2>3. CASE line.kind = "INDEX"
    <3>1. CASE sheet.open
      BY <1>2, <2>0, <2>3, <3>1, LineTyped, CueLineIs, IndexRead
    <3>2. CASE ~sheet.open
      <4>1. CueLine(sheet, line) = sheet
        BY <1>2, <2>3, <3>2, CueLineIs
      <4>2. FileSeen(n + 1, sheet)
        BY <2>0, <2>3, FileGoesOn
      <4>3. TrackSeen(n + 1, sheet)
        BY <2>0, <2>3, <3>2, TrackGoesOn
      <4> QED BY <1>2, <4>1, <4>2, <4>3 DEF SheetRead
    <3> QED BY <3>1, <3>2
  <2> QED BY <2>1, <2>2, <2>3, LineTyped
<1> QED BY <1>1, <1>2

\* What the parser makes of the whole sheet.
DiscOf(sheet) ==
  IF sheet.error \/ sheet.image = "none" \/ ~sheet.index THEN NoDisc
  ELSE [ok |-> TRUE, image |-> sheet.image, frames |-> sheet.frames]

LEMMA SheetIsRead ==
  ASSUME cue \in Seq(CueLineType)
  PROVE  \E sheet \in Sheets :
            SheetRead(Len(cue), sheet) /\ ParseCue(cue) = DiscOf(sheet)
<1>1. PICK lines \in Seq(CueLineType) : lines = cue
  OBVIOUS
<1> DEFINE N == Len(lines)
           byLine == [n \in Nat |-> [s \in Sheets |->
                      IF n \in 1..N THEN CueLine(s, lines[n]) ELSE s]]
           parsed == CHOOSE f : f = [n \in 0..Len(lines) |->
                       IF n = 0 THEN NoSheet ELSE CueLine(f[n - 1], lines[n])]
<1>2. N \in Nat /\ \A n \in 1..N : lines[n] \in CueLineType
  OBVIOUS
<1>3. NoSheet \in Sheets
  BY DEF NoSheet, Sheets
<1>4. byLine \in [Nat -> [Sheets -> Sheets]]
  <2>1. ASSUME NEW n \in Nat, NEW s \in Sheets
        PROVE  (IF n \in 1..N THEN CueLine(s, lines[n]) ELSE s) \in Sheets
    BY <1>2, SheetTyped
  <2> HIDE DEF N
  <2> QED BY <2>1
<1>5. \E f : f = [n \in 0..Len(lines) |->
                    IF n = 0 THEN NoSheet ELSE CueLine(f[n - 1], lines[n])]
  <2>1. PICK f \in [0..N -> Sheets] : Iterates(f, N, NoSheet, byLine)
    <3> HIDE DEF N, byLine
    <3> QED BY <1>2, <1>3, <1>4, IteratesExists
  <2>2. \A n \in 0..N : n # 0 => byLine[n][f[n - 1]] = CueLine(f[n - 1], lines[n])
    <3> SUFFICES ASSUME NEW n \in 0..N, n # 0
                 PROVE  byLine[n][f[n - 1]] = CueLine(f[n - 1], lines[n])
      OBVIOUS
    <3>1. n \in Nat /\ n \in 1..N /\ n - 1 \in 0..N
      BY <1>2
    <3>2. f[n - 1] \in Sheets
      BY <3>1
    <3> HIDE DEF N
    <3> QED BY <3>1, <3>2
  <2> HIDE DEF byLine
  <2>3. f = [n \in 0..Len(lines) |->
               IF n = 0 THEN NoSheet ELSE CueLine(f[n - 1], lines[n])]
    BY <2>1, <2>2 DEF Iterates
  <2> QED BY <2>3
<1>6. parsed = [n \in 0..N |->
                  IF n = 0 THEN NoSheet ELSE CueLine(parsed[n - 1], lines[n])]
  BY <1>5
<1>7. ParseCue(lines) = DiscOf(parsed[N])
  BY DEF ParseCue, DiscOf
<1> HIDE DEF parsed, N, byLine
<1>8. parsed[0] = NoSheet
  BY <1>2, <1>6
<1>9. ASSUME NEW n \in Nat, n < N
      PROVE  parsed[n + 1] = CueLine(parsed[n], lines[n + 1])
  <2>1. n + 1 \in 0..N /\ n + 1 # 0 /\ (n + 1) - 1 = n
    BY <1>2, <1>9
  <2> QED BY <1>6, <2>1
<1> DEFINE T == {k \in Nat : k <= N => parsed[k] \in Sheets /\ SheetRead(k, parsed[k])}
<1>10. 0 \in T
  <2>1. SheetRead(0, NoSheet)
    BY DEF SheetRead, FileSeen, TrackSeen, NoSheet
  <2> QED BY <1>3, <1>8, <2>1
<1>11. ASSUME NEW n \in Nat, n \in T PROVE n + 1 \in T
  <2> SUFFICES ASSUME n + 1 <= N
               PROVE  parsed[n + 1] \in Sheets /\ SheetRead(n + 1, parsed[n + 1])
    OBVIOUS
  <2>1. n < N /\ n <= N /\ n + 1 \in 1..N
    BY <1>2
  <2>2. parsed[n] \in Sheets /\ SheetRead(n, parsed[n])
    BY <1>11, <2>1
  <2>3. cue[n + 1] \in CueLineType /\ cue[n + 1] = lines[n + 1]
    BY <1>1, <1>2, <2>1
  <2>4. parsed[n + 1] = CueLine(parsed[n], cue[n + 1])
    BY <1>9, <2>1, <2>3
  <2>5. CueLine(parsed[n], cue[n + 1]) \in Sheets
    BY <2>2, <2>3, SheetTyped
  <2>6. SheetRead(n + 1, CueLine(parsed[n], cue[n + 1]))
    BY <2>2, <2>3, LineRead
  <2> QED BY <2>4, <2>5, <2>6
<1>12. N \in T
  <2> HIDE DEF T
  <2>1. \A n \in Nat : n \in T => n + 1 \in T
    BY <1>11
  <2> QED BY <1>2, <1>10, <2>1, SetInduction
<1>13. parsed[N] \in Sheets /\ SheetRead(N, parsed[N])
  BY <1>2, <1>12
<1> QED BY <1>1, <1>7, <1>13 DEF N

LEMMA OneTrack ==
  ASSUME NEW i \in Nat, NEW j \in Nat, i > 0, j > 0, DataTrack(i), DataTrack(j)
  PROVE  i = j
<1>1. ASSUME NEW k \in Nat, NEW l \in Nat, k > 0, k < l, DataTrack(k), DataTrack(l)
      PROVE  FALSE
  BY <1>1 DEF DataTrack
<1> QED BY <1>1

LEMMA OneFile ==
  ASSUME NEW i \in Nat, NEW f \in Nat, NEW g \in Nat, FileOf(f, i), FileOf(g, i)
  PROVE  f = g
<1>1. ASSUME NEW k \in Nat, NEW l \in Nat, k < l, FileOf(k, i), FileOf(l, i)
      PROVE  FALSE
  BY <1>1 DEF FileOf
<1> QED BY <1>1

\* Between the track and where it starts there is nothing but INDEX 00.
LEMMA OnlySkipped ==
  ASSUME NEW i \in Nat, NEW j \in Nat, StartOf(i, j),
         NEW k \in Nat, k > i, \A l \in (i + 1)..(k - 1) : Skips(l)
  PROVE  k <= j /\ (k < j => Skips(k))
<1>1. ~ Skips(j) /\ i < j
  BY DEF StartOf, Skips
<1>2. k <= j
  BY <1>1
<1> QED BY <1>2 DEF StartOf, Skips

LEMMA MountedIs ==
  \A x : x \in Mounted <=>
    \E f, i, j \in DOMAIN cue :
      Mounts(f, i, j) /\ x = [ok |-> TRUE, image |-> cue[f].name, frames |-> cue[j].frames]
  BY DEF Mounted

LEMMA SheetIsMounted ==
  ASSUME cue \in Seq(CueLineType), NEW sheet \in Sheets, SheetRead(Len(cue), sheet)
  PROVE  IF DiscOf(sheet) = NoDisc THEN Mounted = {} ELSE Mounted = {DiscOf(sheet)}
<1> DEFINE N == Len(cue)
<1>1. N \in Nat /\ DOMAIN cue = 1..N
  OBVIOUS
<1> HIDE DEF N
<1>2. CASE sheet.error
  <2>1. PICK t \in 1..N :
          /\ DataTrack(t)
          /\ \/ cue[t].mode = "unsupported"
             \/ \A f \in 1..(t - 1) : cue[f].kind # "FILE"
             \/ \E k \in (t + 1)..N :
                   /\ cue[k].kind = "INDEX" /\ cue[k].number = "malformed"
                   /\ \A l \in (t + 1)..(k - 1) : Skips(l)
    BY <1>2 DEF SheetRead, Refused, N
  <2>2. ASSUME NEW f \in 1..N, NEW i \in 1..N, NEW j \in 1..N, Mounts(f, i, j)
        PROVE  FALSE
    <3>1. i = t /\ cue[i].mode = "data" /\ FileOf(f, i) /\ StartOf(i, j)
      BY <1>1, <2>1, <2>2, OneTrack DEF Mounts
    <3>2. f \in 1..(t - 1) /\ cue[f].kind = "FILE"
      BY <1>1, <3>1 DEF FileOf
    <3>3. PICK k \in (t + 1)..N :
            /\ cue[k].kind = "INDEX" /\ cue[k].number = "malformed"
            /\ \A l \in (t + 1)..(k - 1) : Skips(l)
      BY <2>1, <3>1, <3>2
    <3>4. k <= j /\ (k < j => Skips(k))
      BY <1>1, <3>1, <3>3, OnlySkipped
    <3>5. ~Skips(k) /\ k # j
      BY <3>1, <3>3 DEF Skips, StartOf
    <3> QED BY <1>1, <3>4, <3>5
  <2> QED BY <1>1, <1>2, <2>2, MountedIs DEF DiscOf
<1>3. CASE ~sheet.error /\ sheet.image = "none"
  <2>1. ASSUME NEW f \in 1..N, NEW i \in 1..N, NEW j \in 1..N, Mounts(f, i, j)
        PROVE  FALSE
    BY <1>3, <2>1 DEF SheetRead, TrackSeen, Mounts, DataTrack, N
  <2> QED BY <1>1, <1>3, <2>1, MountedIs DEF DiscOf
<1>4. CASE ~sheet.error /\ sheet.image # "none"
  <2>1. PICK g, t \in 1..N :
          /\ DataTrack(t) /\ cue[t].mode = "data"
          /\ FileOf(g, t) /\ cue[g].name = sheet.image
          /\ StartSeen(N, sheet, t)
    BY <1>4 DEF SheetRead, TrackSeen, N
  <2>2. ASSUME NEW f \in 1..N, NEW i \in 1..N, NEW j \in 1..N, Mounts(f, i, j)
        PROVE  f = g /\ i = t /\ StartOf(t, j)
    <3>1. i = t /\ FileOf(f, t) /\ StartOf(t, j)
      BY <1>1, <2>1, <2>2, OneTrack DEF Mounts
    <3> QED BY <1>1, <2>1, <3>1, OneFile
  <2>3. CASE ~sheet.index
    <3>1. ASSUME NEW f \in 1..N, NEW i \in 1..N, NEW j \in 1..N, Mounts(f, i, j)
          PROVE  FALSE
      <4>1. StartOf(t, j)
        BY <2>2, <3>1
      <4>2. ~Skips(j) /\ j \in (t + 1)..N
        BY <1>1, <4>1 DEF StartOf, Skips
      <4>3. PICK k \in (t + 1)..N :
              cue[k].kind # "INDEX" /\ \A l \in (t + 1)..(k - 1) : Skips(l)
        BY <2>1, <2>3, <4>2 DEF StartSeen
      <4>4. k <= j /\ (k < j => Skips(k))
        BY <1>1, <4>1, <4>3, OnlySkipped
      <4>5. ~Skips(k) /\ k # j
        BY <4>1, <4>3 DEF Skips, StartOf
      <4> QED BY <1>1, <4>4, <4>5
    <3> QED BY <1>1, <2>3, <3>1, MountedIs DEF DiscOf
  <2>4. CASE sheet.index
    <3>1. PICK s \in (t + 1)..N : StartOf(t, s) /\ cue[s].frames = sheet.frames
      BY <2>1, <2>4 DEF StartSeen
    <3>2. Mounts(g, t, s) /\ s \in 1..N
      BY <2>1, <3>1 DEF Mounts
    <3>3. ASSUME NEW f \in 1..N, NEW i \in 1..N, NEW j \in 1..N, Mounts(f, i, j)
          PROVE  f = g /\ j = s
      <4>1. f = g /\ StartOf(t, j)
        BY <2>2, <3>3
      <4>2. ~Skips(s) /\ \A l \in (t + 1)..(s - 1) : Skips(l)
        BY <3>1 DEF StartOf, Skips
      <4>3. ~Skips(j) /\ j > t /\ \A l \in (t + 1)..(j - 1) : Skips(l)
        BY <4>1 DEF StartOf, Skips
      <4>4. s <= j
        BY <1>1, <4>1, <4>2, OnlySkipped
      <4>5. j <= s
        BY <1>1, <3>1, <4>3, OnlySkipped
      <4> QED BY <1>1, <4>1, <4>4, <4>5
    <3>4. /\ DiscOf(sheet) = [ok |-> TRUE, image |-> cue[g].name, frames |-> cue[s].frames]
          /\ DiscOf(sheet) # NoDisc
      <4>1. DiscOf(sheet) = [ok |-> TRUE, image |-> sheet.image, frames |-> sheet.frames]
        BY <1>4, <2>4 DEF DiscOf
      <4>2. NoDisc.ok = FALSE /\ DiscOf(sheet).ok = TRUE
        BY <4>1 DEF NoDisc
      <4> QED BY <2>1, <3>1, <4>1, <4>2
    <3>5. \A x : x \in Mounted <=> x = DiscOf(sheet)
      <4> DEFINE Disc(f, j) ==
                   [ok |-> TRUE, image |-> cue[f].name, frames |-> cue[j].frames]
      <4>1. \A x : x \in Mounted <=>
              \E f, i, j \in 1..N : Mounts(f, i, j) /\ x = Disc(f, j)
        BY <1>1, MountedIs
      <4>2. DiscOf(sheet) = Disc(g, s)
        BY <3>4
      <4> HIDE DEF Disc
      <4> QED BY <3>2, <3>3, <4>1, <4>2
    <3> QED BY <3>4, <3>5
  <2> QED BY <2>3, <2>4
<1> QED BY <1>2, <1>3, <1>4

\* The disc is what the parser made of the sheet, if there is one.
DiscInv == cue # << >> => cue \in Cues /\ disc = ParseCue(cue)

LEMMA DiscHolds == DiscInv /\ [FrontendNext]_allVars => DiscInv'
<1> SUFFICES ASSUME DiscInv, [FrontendNext]_allVars PROVE DiscInv'
  OBVIOUS
<1> USE DEF DiscInv
<1>1. CASE UNCHANGED <<cue, disc>>
  BY <1>1
<1>2. CASE cue' = << >>
  BY <1>2
<1>3. CASE LoadDisc /\ args.disc
  <2>1. PICK lines \in Cues : cue' = lines /\ disc' = ParseCue(lines)
    BY <1>3 DEF LoadDisc
  <2> QED BY <2>1
<1>4. (LoadDisc /\ args.disc) \/ cue' = << >> \/ UNCHANGED <<cue, disc>>
  <2>1. CASE ReadBios \/ MountCards \/ LoadExe \/ OpenFiles \/ TraceFails \/ EndLoop
    BY <2>1 DEF ReadBios, MountCards, MountCard, LoadExe, OpenFiles, TraceFails,
                EndLoop, io
  <2>2. CASE LoopStep \/ TestStep \/ Stops \/ TimesOut \/ CreateDump \/ FinishDump
    BY <2>2 DEF LoopStep, TestStep, Stops, TimesOut, CreateDump, FinishDump, io
  <2>3. CASE SaveCards \/ PrintSummary \/ Killed \/ RunAgain \/ Embedded
             \/ UNCHANGED allVars
    BY <2>3 DEF SaveCards, SaveCard, PrintSummary, Killed, RunAgain, Embedded, io,
                frontend, allVars
  <2>4. CASE LoadDisc
    BY <2>4 DEF LoadDisc
  <2> QED BY <2>1, <2>2, <2>3, <2>4 DEF FrontendNext
<1> QED BY <1>1, <1>2, <1>3, <1>4

\* Whatever the sheet says, what is mounted is its first data track, from the
\* file named last before it and from its first INDEX 01, or nothing at all
\* (parse_cue_disc_spec).
THEOREM DataTrackIsMounted == FrontendSpec => []CueMountsDataTrack
<1>1. InitFrontend => DiscInv
  BY DEF InitFrontend, DiscInv
<1>2. DiscInv => CueMountsDataTrack
  <2> SUFFICES ASSUME DiscInv, cue # << >>
               PROVE  IF Mounted = {} THEN ~disc.ok ELSE {disc} = Mounted
    BY DEF CueMountsDataTrack
  <2>1. cue \in Seq(CueLineType) /\ disc = ParseCue(cue)
    BY FrontendAssumption DEF DiscInv
  <2>2. PICK sheet \in Sheets : SheetRead(Len(cue), sheet) /\ disc = DiscOf(sheet)
    BY <2>1, SheetIsRead
  <2>3. IF disc = NoDisc THEN Mounted = {} ELSE Mounted = {disc}
    BY <2>1, <2>2, SheetIsMounted
  <2> QED BY <2>3 DEF NoDisc
<1> QED BY <1>1, <1>2, DiscHolds, PTL DEF FrontendSpec
=============================================================================
