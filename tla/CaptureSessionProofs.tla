------------------------- MODULE CaptureSessionProofs -------------------------
\* What holds of a capture session for every command line and any faults.
EXTENDS CaptureSession, SequenceTheorems, FiniteSetTheorems, WellFoundedInduction, TLAPS

\* The session follows a command sequence.
Planned == cfg.plan # <<>> /\ ~semantic_targets_enabled(cfg)

PlanAt(n) == cfg.plan[IF n < Len(cfg.plan) THEN n + 1 ELSE Len(cfg.plan)]

RunShape ==
  /\ run = [attempts |-> run.attempts, valid |-> run.valid,
            counts |-> run.counts, setup |-> run.setup]
  /\ run.valid \in Nat

\* The planner is as far as the run has valid samples, and the sample under way
\* asks for the command it stands at.
Follows ==
  /\ planner = [next |-> planner.next, plan |-> planner.plan]
  /\ planner.plan = IF run.valid < Len(cfg.plan) THEN run.valid ELSE Len(cfg.plan)
  /\ phase = "waiting" /\ run.setup => action = PlanAt(planner.plan)

PlanInv ==
  /\ cfg.plan \in Seq(Commands)
  /\ RunShape
  /\ Planned => Follows

-----------------------------------------------------------------------------

LEMMA PlanStart == ASSUME Init PROVE PlanInv
<1>1. cfg \in Configs /\ CommandLine(cfg)
  BY CaptureAssumption DEF Init
<1>2. cfg.plan \in Seq(Commands)
  BY <1>1 DEF CommandLine
<1>3. RunShape /\ run.valid = 0
  BY DEF Init, RunShape
<1>4. Len(cfg.plan) \in Nat
  BY <1>2
<1>5. Follows
  BY <1>3, <1>4 DEF Init, Follows
<1> QED BY <1>2, <1>3, <1>5 DEF PlanInv

\* The steps of the receivers, the operator and the session itself.
LEMMA OtherSteps ==
  ASSUME PlanInv, UNCHANGED runner, phase' = phase \/ phase' # "waiting"
  PROVE  PlanInv'
<1>1. UNCHANGED <<cfg, run, planner, action>>
  BY DEF runner
<1>2. cfg'.plan \in Seq(Commands) /\ RunShape'
  BY <1>1 DEF PlanInv, RunShape
<1>3. Planned' => Follows'
  BY <1>1 DEF PlanInv, Planned, Follows, PlanAt
<1> QED BY <1>2, <1>3 DEF PlanInv

LEMMA PreparedFollows ==
  ASSUME PlanInv, PrepareSample
  PROVE  PlanInv'
<1>1. UNCHANGED cfg /\ run' = [run EXCEPT !.attempts = @ + 1]
  BY DEF PrepareSample
<1>2. /\ run'.valid = run.valid /\ run'.setup = run.setup /\ RunShape'
  BY <1>1 DEF PlanInv, RunShape
<1>3. cfg'.plan \in Seq(Commands)
  BY <1>1 DEF PlanInv
<1>4. ASSUME Planned PROVE Follows'
  <2>1. next_action(cfg, run, planner, state) = Choice(planner, PlanAt(planner.plan))
    BY <1>4 DEF Planned, next_action, choose_next_action, PlanAt
  <2>2. UNCHANGED planner /\ (run.setup => action' = PlanAt(planner.plan))
    BY <2>1 DEF PrepareSample, Choice
  <2> QED  BY <1>1, <1>2, <1>4, <2>2 DEF PlanInv, Follows, PlanAt
<1> QED BY <1>1, <1>2, <1>3, <1>4 DEF PlanInv, Planned

\* The verdict on a sample: one that counts had the command of the plan.
LEMMA JudgedFollows ==
  ASSUME PlanInv, phase = "waiting", UNCHANGED cfg, phase' # "waiting",
         NEW r, NEW l, NEW y, Judge(r, l, y)
  PROVE  /\ PlanInv'
         /\ Counted /\ Planned => action = PlanAt(run.valid)
<1> DEFINE valid  == SourceValid(r, l, y)
           counts == /\ valid /\ run.setup /\ semantic_target_accepted(cfg, r)
                     /\ Canonical(r) => transition_accepted(action, state, r.state)
           settled == ~run.setup /\ valid /\ Canonical(r)
<1>1. run' = RunAfter(r, counts, settled) /\ planner' = PlannerAfter(valid, counts)
  BY DEF Judge
<1>2. counts => run.setup
  OBVIOUS
<1> HIDE DEF valid, counts, settled
<1>3. /\ run'.valid = IF counts THEN run.valid + 1 ELSE run.valid
      /\ RunShape'
  <2> DEFINE v == IF counts THEN run.valid + 1 ELSE run.valid
             n == IF counts /\ semantic_targets_enabled(cfg)
                  THEN [run.counts EXCEPT ![r.state] = @ + 1] ELSE run.counts
             s == run.setup \/ settled
  <2>1. run' = [run EXCEPT !.valid = v, !.counts = n, !.setup = s]
    BY <1>1, Zenon DEF RunAfter
  <2>2. v \in Nat
    BY DEF PlanInv, RunShape
  <2> HIDE DEF v, n, s
  <2>3. run' = [attempts |-> run.attempts, valid |-> v, counts |-> n, setup |-> s]
    BY <2>1 DEF PlanInv, RunShape
  <2> QED  BY <2>2, <2>3 DEF RunShape, v
<1>4. cfg'.plan \in Seq(Commands) /\ Len(cfg.plan) \in Nat /\ run.valid \in Nat
  BY DEF PlanInv, RunShape
<1>5. ASSUME Planned, counts PROVE action = PlanAt(planner.plan)
  BY <1>2, <1>5 DEF PlanInv, Follows
<1>6. ASSUME Planned, counts PROVE action = PlanAt(run.valid)
  BY <1>4, <1>5, <1>6 DEF PlanInv, Follows, PlanAt
<1>7. ASSUME Planned, counts PROVE Follows'
  <2>1. planner' = record_valid_action(cfg, planner, action)
    BY <1>1, <1>7 DEF PlannerAfter
  <2>2. /\ planner' = [next |-> planner'.next, plan |-> planner'.plan]
        /\ planner'.plan = IF planner.plan < Len(cfg.plan) THEN planner.plan + 1 ELSE planner.plan
    BY <1>5, <1>7, <2>1 DEF PlanInv, Follows, PlanAt, record_valid_action
  <2>3. planner'.plan = IF run'.valid < Len(cfg.plan) THEN run'.valid ELSE Len(cfg.plan)
    BY <1>3, <1>4, <1>7, <2>2 DEF PlanInv, Follows
  <2> QED  BY <2>2, <2>3 DEF Follows
<1>8. ASSUME Planned, ~counts PROVE Follows'
  BY <1>1, <1>3, <1>8 DEF PlannerAfter, PlanInv, Follows
<1>9. Counted => counts
  BY <1>3, <1>4 DEF Counted
<1>10. Planned' => Planned
  BY DEF Planned
<1> QED BY <1>3, <1>4, <1>6, <1>7, <1>8, <1>9, <1>10 DEF PlanInv

\* Only a verdict counts a sample.
LEMMA NothingCounted == ASSUME PlanInv, run'.valid = run.valid PROVE ~Counted
BY DEF PlanInv, RunShape, Counted

LEMMA EveryStep ==
  ASSUME PlanInv, [Next]_vars
  PROVE  /\ PlanInv'
         /\ Counted /\ Planned => action = PlanAt(run.valid)
<1>1. ASSUME UNCHANGED runner, phase' = phase \/ phase' # "waiting"
      PROVE  PlanInv' /\ ~Counted
  <2>1. run' = run
    BY <1>1 DEF runner
  <2> QED  BY <1>1, <2>1, OtherSteps, NothingCounted
<1>2. CASE StartSession \/ StartRefused \/ EndSession
  <2>1. UNCHANGED runner /\ phase' # "waiting"
    BY <1>2 DEF StartSession, StartRefused, EndSession
  <2> QED  BY <1>1, <2>1
<1>3. CASE PrepareSample
  <2>1. run'.valid = run.valid
    BY <1>3 DEF PrepareSample, PlanInv, RunShape
  <2> QED  BY <1>3, <2>1, PreparedFollows, NothingCounted
<1>4. CASE PollRtl \/ PollLilygo \/ PollYardstick
  <2>1. UNCHANGED runner /\ phase' = phase
    BY <1>4 DEF PollRtl, PollLilygo, PollYardstick
  <2> QED  BY <1>1, <2>1
<1>5. CASE FinalizeSample
  <2>1. PICK n \in 0..Len(pipe.rtl), m \in 0..Len(pipe.lilygo) :
          /\ phase = "waiting" /\ UNCHANGED cfg /\ phase' = "next"
          /\ Judge(RtlResult(n).selected,
                   IF LilygoResult(m).complete THEN LilygoResult(m).record ELSE Nothing,
                   YardstickResult.result)
    BY <1>5 DEF FinalizeSample
  <2>2. phase' # "waiting"
    BY <2>1
  <2> QED  BY <2>1, <2>2, JudgedFollows
<1>6. CASE World
  <2>1. UNCHANGED runner /\ phase' = phase
    BY <1>6 DEF World, Press, CaptureComplete, ReceiveFails
  <2> QED  BY <1>1, <2>1
<1>7. CASE UNCHANGED vars
  <2>1. UNCHANGED runner /\ phase' = phase
    BY <1>7 DEF vars
  <2> QED  BY <1>1, <2>1
<1> QED BY <1>2, <1>3, <1>4, <1>5, <1>6, <1>7 DEF Next, Runner

\* A session with a command sequence counts its samples in that order, a rejected
\* one is asked for again, and the last command repeats (ActionPlanner,
\* _record_sample_evaluation): for every command line, whatever is lost or pressed.
THEOREM PlannedSamples == Spec => PlanIsFollowed
<1>1. PlanInv /\ [Next]_vars => PlanInv'
  BY EveryStep
<1>2. PlanInv /\ [Next]_vars =>
        (Counted /\ cfg.plan # <<>> /\ ~semantic_targets_enabled(cfg) =>
           action = cfg.plan[IF run.valid < Len(cfg.plan) THEN run.valid + 1 ELSE Len(cfg.plan)])
  BY EveryStep DEF Planned, PlanAt
<1> QED BY <1>1, <1>2, PlanStart, PTL DEF Spec, PlanIsFollowed

-----------------------------------------------------------------------------
\* Induction over numbers, and functions defined from one number to the next.

LEMMA NumbersFromZero ==
  ASSUME NEW S \in SUBSET Nat, 0 \in S, \A n \in S : n + 1 \in S
  PROVE  S = Nat
<1> DEFINE R == OpToRel(<, Nat)
           T == Nat \ S
<1>1. SUFFICES ASSUME T # {} PROVE FALSE
  OBVIOUS
<1>2. IsWellFoundedOn(R, Nat)
  BY NatLessThanWellFounded
<1>3. \A a, b \in Nat : a < b => <<a, b>> \in R
  BY DEF OpToRel
<1>4. T \in SUBSET Nat
  OBVIOUS
<1>5. PICK x \in T : \A y \in T : <<y, x>> \notin R
  <2> HIDE DEF R, T
  <2> QED  BY <1>1, <1>2, <1>4, WFMin
<1> HIDE DEF R
<1>6. x \in Nat /\ x # 0 /\ x \notin S
  OBVIOUS
<1>7. x - 1 \in Nat /\ x - 1 < x /\ (x - 1) + 1 = x
  BY <1>6
<1>8. x - 1 \in S
  BY <1>3, <1>5, <1>6, <1>7
<1> QED BY <1>6, <1>7, <1>8

\* Values that are made one from the other are all of their type, and exist.
LEMMA Iterated ==
  ASSUME NEW S, NEW c \in S, NEW n \in Nat, NEW step \in [1..n -> [S -> S]]
  PROVE  \E f \in [0..n -> S] : f[0] = c /\ \A i \in 1..n : f[i] = step[i][f[i - 1]]
<1> DEFINE Follow(k, f) == \A i \in 1..k : f[i] = step[i][f[i - 1]]
           Some(k) == \E f \in [0..k -> S] : f[0] = c /\ Follow(k, f)
           T == {k \in Nat : k <= n => Some(k)}
<1>1. 0 \in T
  <2> DEFINE f == [i \in 0..0 |-> c]
  <2>1. f \in [0..0 -> S] /\ f[0] = c /\ Follow(0, f)
    OBVIOUS
  <2>2. Some(0)
    BY <2>1
  <2> HIDE DEF Some
  <2> QED  BY <2>2
<1>2. ASSUME NEW k \in T PROVE k + 1 \in T
  <2>1. ASSUME k + 1 <= n PROVE Some(k + 1)
    <3>1. k \in Nat /\ k <= n /\ k + 1 \in 1..n
      BY <2>1
    <3>2. PICK f \in [0..k -> S] : f[0] = c /\ Follow(k, f)
      BY <3>1
    <3> DEFINE g == [i \in 0..(k + 1) |-> IF i = k + 1 THEN step[k + 1][f[k]] ELSE f[i]]
    <3>3. step[k + 1][f[k]] \in S
      BY <3>1
    <3>4. g \in [0..(k + 1) -> S]
      BY <3>1, <3>3
    <3>5. g[0] = c
      BY <3>1, <3>2
    <3>6. Follow(k + 1, g)
      BY <3>1, <3>2
    <3> QED  BY <3>4, <3>5, <3>6
  <2>2. k + 1 \in Nat
    OBVIOUS
  <2> HIDE DEF Some
  <2> QED  BY <2>1, <2>2
<1>3. n \in T
  <2>1. T \in SUBSET Nat
    OBVIOUS
  <2> HIDE DEF T
  <2> QED  BY <1>1, <1>2, <2>1, NumbersFromZero
<1> QED BY <1>3

-----------------------------------------------------------------------------
\* What a receiver decodes.

Actual == [Fields -> Nat]
Known  == [id : {"remote"}, state : Actual]
Frames == Known \cup {Nothing}

RtlLines == [kind : {"time", "fields"}, frame : Known] \cup [kind : {"blank"}, frame : {Nothing}]
Rtls     == [pending : Frames, whole : BOOLEAN, selected : Frames]

LEMMA BlockClosed == ASSUME NEW c \in Rtls PROVE finalize_pending_block(c) \in Rtls
BY DEF finalize_pending_block, Rtls, Frames

LEMMA LineFed ==
  ASSUME NEW c \in Rtls, NEW line \in RtlLines
  PROVE  feed_stdout_line(c, line) \in Rtls
<1>1. CASE line.kind = "blank"
  BY <1>1, BlockClosed DEF feed_stdout_line
<1>2. CASE line.kind = "time"
  <2>1. line.frame \in Frames
    BY <1>2 DEF RtlLines, Frames
  <2>2. feed_stdout_line(c, line) = [finalize_pending_block(c) EXCEPT !.pending = line.frame]
    BY <1>2 DEF feed_stdout_line
  <2> QED  BY <2>1, <2>2, BlockClosed DEF Rtls
<1>3. CASE line.kind = "fields"
  <2>1. line.frame \in Frames
    BY <1>3 DEF RtlLines, Frames
  <2>2. \/ feed_stdout_line(c, line) = c
        \/ feed_stdout_line(c, line) = [c EXCEPT !.pending = line.frame, !.whole = TRUE]
    BY <1>3 DEF feed_stdout_line
  <2> QED  BY <2>1, <2>2 DEF Rtls
<1> QED BY <1>1, <1>2, <1>3 DEF RtlLines

\* What n lines are read into, one after the other.
Reading(c, n, lines, f) ==
  f = [i \in 0..n |-> IF i = 0 THEN c ELSE feed_stdout_line(f[i - 1], lines[i])]

LEMMA RtlsIterated ==
  ASSUME NEW c \in Rtls, NEW n \in Nat
  PROVE  \A step \in [1..n -> [Rtls -> Rtls]] :
           \E f \in [0..n -> Rtls] : f[0] = c /\ \A i \in 1..n : f[i] = step[i][f[i - 1]]
BY Iterated

LEMMA ReadingExists ==
  ASSUME NEW c \in Rtls, NEW n \in Nat, NEW lines \in [1..n -> RtlLines]
  PROVE  \E f : Reading(c, n, lines, f)
<1>1. PICK step \in [1..n -> [Rtls -> Rtls]] :
        \A i \in 1..n, a \in Rtls : step[i][a] = feed_stdout_line(a, lines[i])
  <2> DEFINE s == [i \in 1..n |-> [a \in Rtls |-> feed_stdout_line(a, lines[i])]]
  <2>1. s \in [1..n -> [Rtls -> Rtls]]
    BY LineFed
  <2>2. \A i \in 1..n, a \in Rtls : s[i][a] = feed_stdout_line(a, lines[i])
    BY Zenon
  <2> HIDE DEF s
  <2> QED  BY <2>1, <2>2
<1>2. PICK f \in [0..n -> Rtls] : f[0] = c /\ \A i \in 1..n : f[i] = step[i][f[i - 1]]
  BY <1>1, RtlsIterated
<1>3. \A i \in 1..n : f[i - 1] \in Rtls
  OBVIOUS
<1>4. \A i \in 1..n : f[i] = feed_stdout_line(f[i - 1], lines[i])
  BY <1>1, <1>2, <1>3
<1>5. \A i \in 0..n : f[i] = IF i = 0 THEN c ELSE feed_stdout_line(f[i - 1], lines[i])
  <2>1. \A i \in 0..n : i # 0 => i \in 1..n
    OBVIOUS
  <2> QED  BY <1>2, <1>4, <2>1
<1>6. f = [i \in 0..n |-> IF i = 0 THEN c ELSE feed_stdout_line(f[i - 1], lines[i])]
  <2>1. f = [i \in 0..n |-> f[i]]
    OBVIOUS
  <2> QED  BY <1>5, <2>1, Zenon
<1> QED BY <1>6 DEF Reading

\* However many lines are read, what they are read into keeps its type.
LEMMA LinesFed ==
  ASSUME NEW c \in Rtls, NEW lines \in Seq(RtlLines)
  PROVE  Fed(feed_stdout_line, c, lines) \in Rtls
<1> DEFINE n == Len(lines)
           read == CHOOSE f : Reading(c, n, lines, f)
<1>1. n \in Nat /\ \A i \in 1..n : lines[i] \in RtlLines
  OBVIOUS
<1>2. lines \in [1..n -> RtlLines]
  OBVIOUS
<1>3. Reading(c, n, lines, read)
  <2> HIDE DEF n
  <2>1. \E f : Reading(c, n, lines, f)
    BY <1>1, <1>2, ReadingExists
  <2> QED  BY <2>1, Zenon
<1> DEFINE T == {i \in Nat : i <= n => read[i] \in Rtls}
<1>4. 0 \in T
  <2>1. 0 \in 0..n
    BY <1>1
  <2> HIDE DEF read
  <2> QED  BY <1>3, <2>1 DEF Reading
<1>5. ASSUME NEW i \in T PROVE i + 1 \in T
  <2>1. SUFFICES ASSUME i + 1 <= n PROVE read[i + 1] \in Rtls
    OBVIOUS
  <2>2. i + 1 \in 0..n /\ i + 1 # 0 /\ (i + 1) - 1 = i /\ read[i] \in Rtls
    BY <1>1, <2>1
  <2> HIDE DEF read
  <2>3. read[i + 1] = feed_stdout_line(read[i], lines[i + 1])
    BY <1>3, <2>2 DEF Reading
  <2> QED  BY <1>1, <2>1, <2>2, <2>3, LineFed
<1>6. n \in T
  <2>1. T \in SUBSET Nat
    OBVIOUS
  <2> HIDE DEF T
  <2> QED  BY <1>1, <1>4, <1>5, <2>1, NumbersFromZero
<1>7. Fed(feed_stdout_line, c, lines) = read[n]
  BY DEF Fed, Reading
<1> QED BY <1>1, <1>6, <1>7
-----------------------------------------------------------------------------
\* What the runner knows of the fireplace was decoded in some sample, the last one
\* that decoded anything, and the receivers hear what the fireplace was told.
StateIsHeard ==
  /\ cfg.limit \in [Fields -> Nat]
  /\ fireplace \in Actual
  /\ heard \in Actual \cup {NoState}
  /\ Has("rtl433") => state \in {NoState, heard}
  /\ rtl \in Rtls
  /\ pipe = [rtl |-> pipe.rtl, lilygo |-> pipe.lilygo] /\ pipe.rtl \in Seq(RtlLines)

LEMMA NewRtlIsRtl == NewRtl \in Rtls
BY DEF NewRtl, Rtls, Frames

LEMMA Applied ==
  ASSUME NEW c, c.limit \in [Fields -> Nat], NEW s \in Actual, NEW command
  PROVE  apply_action(c, s, command) \in Actual
<1>1. CASE command = "power_toggle"
  BY <1>1 DEF apply_action, Actual, Fields
<1>2. ASSUME command # "power_toggle", command \in MoveCommands
      PROVE  apply_action(c, s, command) \in Actual
  <2> DEFINE m == Moves[command]
             w == Within(c, m.field, s[m.field] + m.by)
  <2>1. m.field \in Fields /\ m.by \in Int
    BY <1>2 DEF MoveCommands, Moves, Fields
  <2>2. w \in Nat
    BY <2>1 DEF Within, Actual
  <2>3. apply_action(c, s, command) \in {s, [s EXCEPT ![m.field] = w]}
    BY <1>2 DEF apply_action
  <2> HIDE DEF m, w
  <2> QED  BY <2>1, <2>2, <2>3 DEF Actual
<1>3. ASSUME command # "power_toggle", command \notin MoveCommands
      PROVE  apply_action(c, s, command) \in Actual
  BY <1>3 DEF apply_action
<1> QED BY <1>1, <1>2, <1>3

LEMMA HeardStart == ASSUME Init PROVE StateIsHeard
<1>1. cfg.limit \in [Fields -> Nat]
  BY CaptureAssumption DEF Init, CommandLine
<1>2. fireplace \in Actual
  BY DEF Init, Actual
<1>3. pipe = [rtl |-> <<>>, lilygo |-> <<>>] /\ <<>> \in Seq(RtlLines)
  BY DEF Init
<1>4. rtl \in Rtls
  BY NewRtlIsRtl DEF Init
<1> QED BY <1>1, <1>2, <1>3, <1>4 DEF Init, StateIsHeard

\* What is left to read is lines as well, and what is read keeps its type.
LEMMA RtlRead ==
  ASSUME StateIsHeard, NEW n \in 0..Len(pipe.rtl)
  PROVE  ReadRtl(n) \in Rtls /\ Left("rtl", n) \in Seq(RtlLines)
<1>1. pipe.rtl \in Seq(RtlLines) /\ rtl \in Rtls
  BY DEF StateIsHeard
<1>2. SubSeq(pipe.rtl, 1, n) \in Seq(RtlLines) /\ SubSeq(pipe.rtl, n + 1, Len(pipe.rtl)) \in Seq(RtlLines)
  BY <1>1
<1>3. Fed(feed_stdout_line, rtl, SubSeq(pipe.rtl, 1, n)) \in Rtls
  BY <1>1, <1>2, LinesFed
<1> QED BY <1>2, <1>3 DEF ReadRtl, Left

\* What rtl_433 prints of a press is lines.
LEMMA PressPrints ==
  ASSUME NEW frame \in Known, NEW block \in Printed(frame) \cup Misprinted(frame)
  PROVE  block \in Seq(RtlLines)
<1> DEFINE t == [kind |-> "time", frame |-> frame]
           f == [kind |-> "fields", frame |-> frame]
           b == [kind |-> "blank", frame |-> Nothing]
<1>1. t \in RtlLines /\ f \in RtlLines /\ b \in RtlLines
  BY DEF RtlLines
<1>2. block \in {<<t, f>>, <<t, f>> \o <<b>>, <<>>, SubSeq(<<t, f>>, 1, 1), SubSeq(<<t, f>>, 2, 2)}
  BY DEF Printed, Misprinted, Whole, Blank
<1> HIDE DEF t, f, b
<1>3. <<t, f>> \in Seq(RtlLines) /\ <<b>> \in Seq(RtlLines) /\ Len(<<t, f>>) = 2
  BY <1>1
<1>4. <<t, f>> \o <<b>> \in Seq(RtlLines)
  BY <1>3
<1>5. SubSeq(<<t, f>>, 1, 1) \in Seq(RtlLines) /\ SubSeq(<<t, f>>, 2, 2) \in Seq(RtlLines)
  BY <1>3
<1>6. <<>> \in Seq(RtlLines)
  OBVIOUS
<1> QED BY <1>2, <1>3, <1>4, <1>5, <1>6, Zenon

LEMMA PressHeard ==
  ASSUME StateIsHeard, NEW command \in Commands, Press(command)
  PROVE  StateIsHeard'
<1>1. UNCHANGED <<cfg, heard, state, rtl>>
  BY DEF Press, runner, collectors
<1>2. Pressed(command) \in Actual
  BY Applied DEF StateIsHeard, Pressed
<1> DEFINE frame == [id |-> "remote", state |-> Pressed(command)]
<1>3. frame \in Known
  BY <1>2 DEF Known
<1>4. PICK block \in Printed(frame) \cup Misprinted(frame) :
        pipe' = IF Has("rtl433") THEN [pipe EXCEPT !.rtl = @ \o block] ELSE pipe
  BY DEF Press
<1>5. block \in Seq(RtlLines)
  <2> HIDE DEF frame
  <2> QED  BY <1>3, <1>4, PressPrints
<1>6. pipe.rtl \o block \in Seq(RtlLines)
  BY <1>5 DEF StateIsHeard
<1>7. pipe' = [rtl |-> pipe'.rtl, lilygo |-> pipe'.lilygo] /\ pipe'.rtl \in Seq(RtlLines)
  BY <1>4, <1>6 DEF StateIsHeard
<1>8. fireplace' \in Actual
  BY <1>2 DEF Press
<1> QED BY <1>1, <1>7, <1>8 DEF StateIsHeard, Has

\* The verdict on a sample, of which rtl_433 decoded r.
LEMMA JudgedHeard ==
  ASSUME StateIsHeard, NEW r \in Frames, Has("rtl433") \/ r = Nothing, NEW l, NEW y,
         Judge(r, l, y)
  PROVE  /\ heard' \in Actual \cup {NoState}
         /\ Has("rtl433") => state' \in {NoState, heard'}
<1>1. r # Nothing => r.state \in Actual
  BY DEF Frames, Known
<1>2. heard' = IF r # Nothing THEN r.state ELSE heard
  BY DEF Judge
<1>3. state' = StateAfter(r, SourceValid(r, l, y))
  BY DEF Judge
<1>4. ASSUME Has("rtl433") PROVE state' \in {NoState, heard'}
  <2>1. SourceValid(r, l, y) => r # Nothing
    BY <1>4 DEF SourceValid
  <2>2. Canonical(r) => r # Nothing
    BY DEF Canonical
  <2>3. ~semantic_targets_enabled(cfg) /\ r # Nothing => Canonical(r)
    BY DEF Canonical
  <2>4. state \in {NoState, heard}
    BY <1>4 DEF StateIsHeard
  <2> QED  BY <1>2, <1>3, <2>1, <2>2, <2>3, <2>4 DEF StateAfter
<1> QED BY <1>1, <1>2, <1>4 DEF StateIsHeard

LEMMA FinalizedHeard ==
  ASSUME StateIsHeard, FinalizeSample
  PROVE  StateIsHeard'
<1>1. PICK n \in 0..Len(pipe.rtl), m \in 0..Len(pipe.lilygo) :
        /\ UNCHANGED <<cfg, fireplace>>
        /\ Judge(RtlResult(n).selected,
                 IF LilygoResult(m).complete THEN LilygoResult(m).record ELSE Nothing,
                 YardstickResult.result)
        /\ rtl' = RtlResult(n) /\ lilygo' = LilygoResult(m)
        /\ pipe' = [rtl |-> Left("rtl", n), lilygo |-> Left("lilygo", m)]
  BY DEF FinalizeSample
<1>2. RtlResult(n) \in Rtls
  BY RtlRead, BlockClosed, NewRtlIsRtl DEF RtlResult
<1>3. RtlResult(n).selected \in Frames /\ (Has("rtl433") \/ RtlResult(n).selected = Nothing)
  BY <1>2 DEF RtlResult, Rtls, NewRtl
<1>4. heard' \in Actual \cup {NoState} /\ (Has("rtl433") => state' \in {NoState, heard'})
  BY <1>1, <1>3, JudgedHeard
<1>5. pipe' = [rtl |-> pipe'.rtl, lilygo |-> pipe'.lilygo] /\ pipe'.rtl \in Seq(RtlLines)
  BY <1>1, RtlRead
<1> QED BY <1>1, <1>2, <1>4, <1>5 DEF StateIsHeard, Has

LEMMA HeardKept ==
  ASSUME StateIsHeard, [Next]_vars
  PROVE  StateIsHeard'
<1>1. ASSUME UNCHANGED <<runner, fireplace>>, rtl' \in Rtls, pipe'.rtl \in Seq(RtlLines),
             pipe' = [rtl |-> pipe'.rtl, lilygo |-> pipe'.lilygo]
      PROVE  StateIsHeard'
  BY <1>1 DEF StateIsHeard, runner, Has
<1>2. rtl \in Rtls /\ pipe.rtl \in Seq(RtlLines) /\ pipe = [rtl |-> pipe.rtl, lilygo |-> pipe.lilygo]
  BY DEF StateIsHeard
<1>3. CASE \/ StartSession \/ StartRefused \/ PollYardstick \/ EndSession \/ ReceiveFails
           \/ UNCHANGED vars
  <2>1. UNCHANGED <<runner, rtl, pipe, fireplace>>
    BY <1>3 DEF StartSession, StartRefused, PollYardstick, EndSession, ReceiveFails,
                vars, collectors, world
  <2> QED  BY <1>1, <1>2, <2>1
<1>4. CASE PrepareSample
  BY <1>4, NewRtlIsRtl DEF PrepareSample, StateIsHeard, Has
<1>5. CASE PollRtl
  <2>1. PICK n \in 1..Len(pipe.rtl) :
          /\ rtl' = ReadRtl(n) /\ pipe' = [pipe EXCEPT !.rtl = Left("rtl", n)]
          /\ UNCHANGED <<runner, fireplace>>
    BY <1>5 DEF PollRtl
  <2>2. ReadRtl(n) \in Rtls /\ Left("rtl", n) \in Seq(RtlLines)
    BY <1>2, RtlRead
  <2> QED  BY <1>1, <1>2, <2>1, <2>2
<1>6. CASE PollLilygo
  <2>1. PICK n \in 1..Len(pipe.lilygo) :
          /\ pipe' = [pipe EXCEPT !.lilygo = Left("lilygo", n)]
          /\ UNCHANGED <<runner, rtl, fireplace>>
    BY <1>6 DEF PollLilygo
  <2> QED  BY <1>1, <1>2, <2>1
<1>7. CASE CaptureComplete
  <2>1. /\ UNCHANGED <<runner, rtl, fireplace>>
        /\ \E s : pipe' = [pipe EXCEPT !.lilygo = s]
    BY <1>7 DEF CaptureComplete, collectors
  <2> QED  BY <1>1, <1>2, <2>1
<1> QED BY <1>3, <1>4, <1>5, <1>6, <1>7, FinalizedHeard, PressHeard DEF Next, Runner, World

\* What a sample that counts showed, of a state that was known.
LEMMA CountedShows ==
  ASSUME StateIsHeard, PlanInv, [Next]_vars, Counted, Has("rtl433")
  PROVE  /\ state # NoState => state = heard
         /\ state # NoState /\ action \in MoveCommands =>
              LET m == Moves[action] IN heard'[m.field] = heard[m.field] + m.by
         /\ state # NoState /\ action = "power_toggle" => heard'.power # heard.power
         /\ Has("lilygo") => lilygo'.record.state = heard'
<1>1. FinalizeSample
  <2>1. ASSUME run'.valid = run.valid PROVE FALSE
    BY <2>1, NothingCounted
  <2>2. ASSUME PrepareSample PROVE run'.valid = run.valid
    BY <2>2 DEF PrepareSample, PlanInv, RunShape
  <2>3. ASSUME UNCHANGED runner PROVE run'.valid = run.valid
    BY <2>3 DEF runner
  <2>4. CASE StartSession \/ StartRefused \/ EndSession
    BY <2>1, <2>3, <2>4 DEF StartSession, StartRefused, EndSession
  <2>5. CASE PollRtl \/ PollLilygo \/ PollYardstick
    BY <2>1, <2>3, <2>5 DEF PollRtl, PollLilygo, PollYardstick
  <2>6. CASE World \/ UNCHANGED vars
    BY <2>1, <2>3, <2>6 DEF World, Press, CaptureComplete, ReceiveFails, vars
  <2> QED  BY <2>1, <2>2, <2>4, <2>5, <2>6 DEF Next, Runner
<1>2. PICK n \in 0..Len(pipe.rtl), m \in 0..Len(pipe.lilygo) :
        /\ Judge(RtlResult(n).selected,
                 IF LilygoResult(m).complete THEN LilygoResult(m).record ELSE Nothing,
                 YardstickResult.result)
        /\ lilygo' = LilygoResult(m)
  BY <1>1 DEF FinalizeSample
<1> DEFINE r == RtlResult(n).selected
           l == IF LilygoResult(m).complete THEN LilygoResult(m).record ELSE Nothing
           y == YardstickResult.result
           counts == /\ SourceValid(r, l, y) /\ run.setup /\ semantic_target_accepted(cfg, r)
                     /\ Canonical(r) => transition_accepted(action, state, r.state)
           settled == ~run.setup /\ SourceValid(r, l, y) /\ Canonical(r)
<1>3. run' = RunAfter(r, counts, settled) /\ heard' = IF r # Nothing THEN r.state ELSE heard
  BY <1>2 DEF Judge
<1>4. counts
  <2>1. ASSUME ~counts PROVE run'.valid = run.valid
    <3> HIDE DEF r, l, y, settled
    <3>1. run' = [run EXCEPT !.valid = run.valid, !.counts = run.counts, !.setup = run.setup \/ settled]
      BY <1>3, <2>1 DEF RunAfter
    <3> QED  BY <3>1 DEF PlanInv, RunShape
  <2> QED  BY <2>1, NothingCounted
<1>5. r \in Frames
  BY RtlRead, BlockClosed, NewRtlIsRtl DEF RtlResult, Rtls
<1> HIDE DEF r, y
<1>6. r # Nothing
  BY <1>4 DEF SourceValid
<1>7. r.state \in Actual /\ heard' = r.state
  BY <1>3, <1>5, <1>6 DEF Frames, Known
<1>8. transition_accepted(action, state, r.state)
  BY <1>4, <1>6 DEF Canonical, semantic_target_accepted
<1>9. ASSUME state # NoState PROVE state = heard /\ heard \in Actual
  BY <1>9 DEF StateIsHeard
<1>10. ASSUME state # NoState, action \in MoveCommands
       PROVE  LET v == Moves[action] IN heard'[v.field] = heard[v.field] + v.by
  <2> DEFINE v == Moves[action]
  <2>1. v.field \in Fields /\ v.by \in Int
    BY <1>10 DEF MoveCommands, Moves, Fields
  <2>2. \/ heard[v.field] = Unknown \/ r.state[v.field] = Unknown
        \/ r.state[v.field] - heard[v.field] = v.by
    BY <1>8, <1>9, <1>10 DEF transition_accepted
  <2> HIDE DEF v
  <2>3. heard[v.field] \in Nat /\ r.state[v.field] \in Nat
    BY <1>7, <1>9, <1>10, <2>1 DEF Actual
  <2>4. heard'[v.field] = heard[v.field] + v.by
    BY <1>7, <2>1, <2>2, <2>3 DEF Unknown
  <2> QED  BY <2>4 DEF v
<1>11. ASSUME state # NoState, action = "power_toggle" PROVE heard'.power # heard.power
  <2>1. heard.power \in Nat /\ r.state.power \in Nat
    BY <1>7, <1>9, <1>11 DEF Actual, Fields
  <2> QED  BY <1>7, <1>8, <1>9, <1>11, <2>1 DEF transition_accepted, Unknown
<1>12. ASSUME Has("lilygo") PROVE lilygo'.record.state = heard'
  <2>1. l # Nothing /\ l = r
    BY <1>4, <1>6, <1>12 DEF SourceValid, LilygoMatches
  <2>2. l = LilygoResult(m).record
    BY <2>1
  <2> QED  BY <1>2, <1>7, <2>1, <2>2
<1> QED BY <1>9, <1>10, <1>11, <1>12

\* A sample that counts shows the command it was asked for, one step away from the
\* state decoded last, and both receivers agree on it (_record_sample_evaluation,
\* _resolve_state_after_sample): for every command line and whatever the receivers
\* print of however many presses.
THEOREM CountedSamples == Spec => CountedStepsAreSeen
<1> DEFINE I == PlanInv /\ StateIsHeard
           Seen == Counted /\ Has("rtl433") =>
             /\ state # NoState => state = heard
             /\ state # NoState /\ action \in MoveCommands =>
                  LET m == Moves[action] IN heard'[m.field] = heard[m.field] + m.by
             /\ state # NoState /\ action = "power_toggle" => heard'.power # heard.power
             /\ Has("lilygo") => lilygo'.record.state = heard'
<1>1. Init => I
  BY PlanStart, HeardStart
<1>2. I /\ [Next]_vars => I'
  BY EveryStep, HeardKept
<1>3. I /\ [Next]_vars => Seen
  BY CountedShows
<1>4. CountedStepsAreSeen <=> [][Seen]_vars
  BY PTL DEF CountedStepsAreSeen
<1> QED BY <1>1, <1>2, <1>3, <1>4, PTL DEF Spec

-----------------------------------------------------------------------------
\* Sessions in which nothing goes wrong.

\* A session that counts valid samples, can turn the power on, and whose setup
\* sample, if it has one, can be decoded; its attempts are enough for both.
Plain(c) ==
  /\ c.targets = <<>> /\ c.plan = <<>> /\ "power_toggle" \in Enabled(c)
  /\ c.setup => "rtl433" \in c.sources
  /\ c.attempts >= c.valid + (IF c.setup THEN 1 ELSE 0)

\* How far rtl_433 and the LilyGO are with the report of a press: what is read of
\* it, and what is still to be read.
RtlStages(frame) ==
  LET t == [kind |-> "time", frame |-> frame]
      f == [kind |-> "fields", frame |-> frame]
      b == [kind |-> "blank", frame |-> Nothing]
      open(whole) == [pending |-> frame, whole |-> whole, selected |-> Nothing]
  IN {<<NewRtl, <<t, f>>>>, <<NewRtl, <<t, f, b>>>>, <<open(FALSE), <<f>>>>, <<open(FALSE), <<f, b>>>>,
      <<open(TRUE), <<>>>>, <<open(TRUE), <<b>>>>,
      <<[pending |-> Nothing, whole |-> FALSE, selected |-> frame], <<>>>>}

Exported(frame) == [probe |-> Nothing, record |-> frame, complete |-> TRUE]

LilygoStages(frame) ==
  LET begin == [kind |-> "begin", frame |-> Nothing]
      chunk == [kind |-> "chunk", frame |-> frame]
      end   == [kind |-> "end",   frame |-> Nothing]
  IN {<<NewLilygo, <<begin, chunk, end>>>>, <<NewLilygo, <<chunk, end>>>>,
      <<[probe |-> frame, record |-> Nothing, complete |-> FALSE], <<end>>>>, <<Exported(frame), <<>>>>}

Shown == [id |-> "remote", state |-> fireplace]

\* Nothing of an earlier press is left anywhere.
Silent ==
  /\ Has("rtl433") => pipe.rtl = <<>>
  /\ Has("lilygo") => pipe.lilygo = <<>> /\ window = {}

Between ==
  /\ todo = "none" /\ Silent
  /\ Has("yardstick") => future.state # "running"
  /\ Has("rtl433") => state \in {NoState, fireplace}

\* The command asked for moves what it is about, as far as is known.
Asked ==
  run.setup /\ Has("rtl433") /\ state # NoState /\ action # "power_toggle" =>
    /\ action \in MoveCommands /\ state.power = 1
    /\ is_action_eligible(cfg, state, action)

Unpressed ==
  /\ todo = action /\ action \in Commands \cup {"setup_state"}
  /\ run.setup => action \in Commands
  /\ Silent /\ Asked
  /\ rtl = NewRtl /\ lilygo = NewLilygo
  /\ Has("yardstick") => yardstick = NewYardstick /\ future.state = "running"
  /\ Has("rtl433") => state \in {NoState, fireplace}

\* Every receiver has the press, or will have it when all is read.
Reported ==
  /\ todo = "none"
  /\ Has("rtl433") => <<rtl, pipe.rtl>> \in RtlStages(Shown)
  /\ Has("lilygo") =>
       \/ lilygo = NewLilygo /\ pipe.lilygo = <<>> /\ window = {Shown}
       \/ window = {} /\ <<lilygo, pipe.lilygo>> \in LilygoStages(Shown)
  /\ Has("yardstick") =>
       \/ yardstick = NewYardstick /\ future = [state |-> "done", result |-> Shown]
       \/ yardstick = [complete |-> TRUE, result |-> Shown] /\ future = NoReceive
  /\ run.setup /\ Has("rtl433") => transition_accepted(action, state, fireplace)

\* Every sample so far was the setup sample or counted.
SetupSamples == IF cfg.setup /\ run.setup THEN 1 ELSE 0

Tally ==
  /\ run.attempts \in Nat /\ run.valid \in Nat /\ run.setup \in BOOLEAN
  /\ ~run.setup => cfg.setup /\ run.valid = 0
  /\ phase \in {"start", "next"} => run.attempts = run.valid + SetupSamples
  /\ phase = "waiting" => run.attempts = run.valid + SetupSamples + 1

\* Whatever goes wrong.
SessionTyped ==
  /\ faults \in Nat /\ phase \in {"start", "next", "waiting", "ended"}
  /\ CommandLine(cfg)
  /\ planner = [next |-> planner.next, plan |-> planner.plan] /\ planner.next \in 0..(Len(cfg.commands) - 1)
  /\ \A f \in {"flame", "fan"} : fireplace[f] <= cfg.limit[f]
  /\ phase = "start" => run.attempts = 0

Progress ==
  /\ Tally
  /\ phase \in {"start", "next"} => Between
  /\ phase = "waiting" => Unpressed \/ Reported
  /\ phase = "ended" /\ run.attempts > 0 => run.setup /\ target_reached(cfg, run)

FaultlessInv == SessionTyped /\ (faults = 0 /\ Plain(cfg) => Progress)


-----------------------------------------------------------------------------
\* Reading a report line by line, from stage to stage.

LEMMA RestOf ==
  ASSUME NEW L, NEW lines \in Seq(L), NEW i \in Nat, i < Len(lines)
  PROVE  LET rest == SubSeq(lines, i + 1, Len(lines)) IN
         rest # <<>> /\ Head(rest) = lines[i + 1] /\ Tail(rest) = SubSeq(lines, (i + 1) + 1, Len(lines))
<1> DEFINE rest == SubSeq(lines, i + 1, Len(lines))
           a == Tail(rest)
           b == SubSeq(lines, (i + 1) + 1, Len(lines))
<1>1. Len(lines) \in Nat /\ i + 1 \in 1..Len(lines)
  OBVIOUS
<1>2. rest \in Seq(L) /\ Len(rest) = Len(lines) - i /\ \A k \in 1..Len(rest) : rest[k] = lines[i + k]
  BY <1>1
<1>3. b \in Seq(L) /\ Len(b) = Len(lines) - (i + 1) /\ \A k \in 1..Len(b) : b[k] = lines[(i + 1) + k]
  BY <1>1
<1> HIDE DEF rest, b
<1>4. Len(rest) # 0 /\ rest # <<>> /\ Head(rest) = lines[i + 1]
  BY <1>1, <1>2
<1>5. a \in Seq(L) /\ Len(a) = Len(rest) - 1 /\ \A k \in 1..Len(a) : a[k] = rest[k + 1]
  BY <1>2, <1>4
<1>6. Len(a) = Len(b)
  BY <1>1, <1>2, <1>3, <1>5
<1>7. \A k \in 1..Len(a) : a[k] = b[k]
  <2> SUFFICES ASSUME NEW k \in 1..Len(a) PROVE a[k] = b[k]
    OBVIOUS
  <2>1. k + 1 \in 1..Len(rest) /\ k \in 1..Len(b) /\ i + (k + 1) = (i + 1) + k
    BY <1>1, <1>2, <1>3, <1>5
  <2> HIDE DEF a
  <2> QED  BY <1>2, <1>3, <1>5, <2>1
<1> HIDE DEF a
<1>8. a = b
  BY <1>3, <1>5, <1>6, <1>7, SeqEqual
<1> QED BY <1>4, <1>8 DEF rest, a, b

\* A stage is what was read so far and what is left to read; G is a set of stages that
\* reading a line by step does not leave, f what the first n lines are read into.
StaysIn(step, G) == \A g \in G : g[2] # <<>> => <<step[g[1]][Head(g[2])], Tail(g[2])>> \in G

ReadsBy(f, c, n, step, lines) == f[0] = c /\ \A i \in 1..n : f[i] = step[f[i - 1]][lines[i]]

\* A set of stages that is closed under reading a line is closed under reading lines.
LEMMA Followed ==
  ASSUME NEW S, NEW L, NEW step \in [S -> [L -> S]], NEW G \in SUBSET (S \X Seq(L)),
         StaysIn(step, G), NEW c, NEW lines \in Seq(L), <<c, lines>> \in G,
         NEW n \in 0..Len(lines), NEW f, ReadsBy(f, c, n, step, lines)
  PROVE  <<f[n], SubSeq(lines, n + 1, Len(lines))>> \in G
<1> DEFINE Rest(i) == SubSeq(lines, i + 1, Len(lines))
           T == {i \in Nat : i <= n => <<f[i], Rest(i)>> \in G}
<1>1. n \in Nat /\ Len(lines) \in Nat /\ n <= Len(lines)
  OBVIOUS
<1>2. 0 \in T
  <2>1. Rest(0) = lines
    OBVIOUS
  <2> QED  BY <2>1 DEF ReadsBy
<1>3. ASSUME NEW i \in T PROVE i + 1 \in T
  <2>1. SUFFICES ASSUME i + 1 <= n PROVE <<f[i + 1], Rest(i + 1)>> \in G
    OBVIOUS
  <2>2. i \in Nat /\ i < Len(lines) /\ i + 1 \in 1..n /\ (i + 1) - 1 = i
    BY <1>1, <2>1
  <2>3. <<f[i], Rest(i)>> \in G
    BY <2>1
  <2>4. Rest(i) # <<>> /\ Head(Rest(i)) = lines[i + 1] /\ Tail(Rest(i)) = Rest(i + 1)
    BY <2>2, RestOf
  <2>5. f[i + 1] = step[f[i]][lines[i + 1]]
    BY <2>2 DEF ReadsBy
  <2> HIDE DEF Rest
  <2>6. <<step[f[i]][Head(Rest(i))], Tail(Rest(i))>> \in G
    <3> DEFINE g == <<f[i], Rest(i)>>
    <3>1. g \in G /\ g[1] = f[i] /\ g[2] = Rest(i)
      BY <2>3
    <3> HIDE DEF g
    <3> QED  BY <2>4, <3>1 DEF StaysIn
  <2> QED  BY <2>4, <2>5, <2>6
<1>4. n \in T
  <2>1. T \in SUBSET Nat
    OBVIOUS
  <2> HIDE DEF T
  <2> QED  BY <1>1, <1>2, <1>3, <2>1, NumbersFromZero
<1> QED BY <1>1, <1>4

LEMMA PartOf ==
  ASSUME NEW L, NEW lines \in Seq(L), NEW n \in 0..Len(lines)
  PROVE  LET part == SubSeq(lines, 1, n) IN
         n \in Nat /\ part \in Seq(L) /\ Len(part) = n /\ \A i \in 1..n : part[i] = lines[i]
OBVIOUS

LEMMA ReadingTyped ==
  ASSUME NEW c \in Rtls, NEW n \in Nat, NEW part \in [1..n -> RtlLines], NEW read,
         read[0] = c, \A i \in 1..n : read[i] = feed_stdout_line(read[i - 1], part[i])
  PROVE  \A i \in 0..n : read[i] \in Rtls
<1> DEFINE T == {i \in Nat : i <= n => read[i] \in Rtls}
<1>1. ASSUME NEW i \in T PROVE i + 1 \in T
  <2>1. SUFFICES ASSUME i + 1 <= n PROVE read[i + 1] \in Rtls
    OBVIOUS
  <2>2. i + 1 \in 1..n /\ (i + 1) - 1 = i /\ read[i] \in Rtls /\ part[i + 1] \in RtlLines
    BY <2>1
  <2> QED  BY <2>2, LineFed
<1>2. 0 \in T
  OBVIOUS
<1>3. T = Nat
  <2>1. T \in SUBSET Nat
    OBVIOUS
  <2> HIDE DEF T
  <2> QED  BY <1>1, <1>2, <2>1, NumbersFromZero
<1> QED BY <1>3

\* The same of the lines rtl_433 printed.
LEMMA RtlFollowed ==
  ASSUME NEW G \in SUBSET (Rtls \X Seq(RtlLines)),
         \A g \in G : g[2] # <<>> => <<feed_stdout_line(g[1], Head(g[2])), Tail(g[2])>> \in G,
         NEW c, NEW lines \in Seq(RtlLines), <<c, lines>> \in G, NEW n \in 0..Len(lines)
  PROVE  <<Fed(feed_stdout_line, c, SubSeq(lines, 1, n)), SubSeq(lines, n + 1, Len(lines))>> \in G
<1> DEFINE part == SubSeq(lines, 1, n)
           read == CHOOSE f : Reading(c, n, part, f)
<1>1. PICK step \in [Rtls -> [RtlLines -> Rtls]] :
        \A a \in Rtls, line \in RtlLines : step[a][line] = feed_stdout_line(a, line)
  <2> DEFINE s == [a \in Rtls |-> [line \in RtlLines |-> feed_stdout_line(a, line)]]
  <2>1. s \in [Rtls -> [RtlLines -> Rtls]]
    BY LineFed
  <2>2. \A a \in Rtls, line \in RtlLines : s[a][line] = feed_stdout_line(a, line)
    BY Zenon
  <2> HIDE DEF s
  <2> QED  BY <2>1, <2>2
<1>2. c \in Rtls
  OBVIOUS
<1>3. n \in Nat /\ part \in Seq(RtlLines) /\ Len(part) = n /\ \A i \in 1..n : part[i] = lines[i]
  BY PartOf
<1> HIDE DEF part
<1>4. part \in [1..n -> RtlLines] /\ \A i \in 1..n : lines[i] \in RtlLines
  BY <1>3
<1>5. Reading(c, n, part, read)
  <2>1. \E f : Reading(c, n, part, f)
    BY <1>2, <1>3, <1>4, ReadingExists
  <2> QED  BY <2>1, Zenon
<1> HIDE DEF read
<1>6. read[0] = c /\ \A i \in 1..n : read[i] = feed_stdout_line(read[i - 1], part[i])
  <2>1. 0 \in 0..n /\ \A i \in 1..n : i \in 0..n /\ i # 0
    BY <1>3
  <2> QED  BY <1>5, <2>1 DEF Reading
<1>7. \A i \in 0..n : read[i] \in Rtls
  BY <1>2, <1>3, <1>4, <1>6, ReadingTyped
<1>8. \A i \in 1..n : read[i] = step[read[i - 1]][lines[i]]
  <2> SUFFICES ASSUME NEW i \in 1..n PROVE read[i] = step[read[i - 1]][lines[i]]
    OBVIOUS
  <2>1. i - 1 \in 0..n
    BY <1>3
  <2>2. read[i - 1] \in Rtls /\ lines[i] \in RtlLines
    BY <1>4, <1>7, <2>1, Zenon
  <2>3. read[i] = feed_stdout_line(read[i - 1], lines[i])
    BY <1>3, <1>6, Zenon
  <2> QED  BY <1>1, <2>2, <2>3, Zenon
<1>9. \A g \in G : g[2] # <<>> => <<step[g[1]][Head(g[2])], Tail(g[2])>> \in G
  <2> SUFFICES ASSUME NEW g \in G, g[2] # <<>>
               PROVE  <<step[g[1]][Head(g[2])], Tail(g[2])>> \in G
    OBVIOUS
  <2>1. g[1] \in Rtls /\ g[2] \in Seq(RtlLines)
    OBVIOUS
  <2>2. Head(g[2]) \in RtlLines
    BY <2>1
  <2>3. step[g[1]][Head(g[2])] = feed_stdout_line(g[1], Head(g[2]))
    BY <1>1, <2>1, <2>2
  <2> QED  BY <2>3
<1>10. <<read[n], SubSeq(lines, n + 1, Len(lines))>> \in G
  <2>1. StaysIn(step, G)
    BY <1>9 DEF StaysIn
  <2>2. ReadsBy(read, c, n, step, lines)
    BY <1>6, <1>8 DEF ReadsBy
  <2> QED  BY <2>1, <2>2, Followed, Zenon
<1>11. Fed(feed_stdout_line, c, part) = read[n]
  BY <1>3 DEF Fed, Reading, read
<1> QED BY <1>10, <1>11 DEF part

\* The same of the lines the LilyGO sent.
Lilygos     == [probe : Frames, record : Frames, complete : BOOLEAN]
LilygoLines == [kind : {"begin", "chunk", "end"}, frame : Frames]

LEMMA LilygoLineFed ==
  ASSUME NEW c \in Lilygos, NEW line \in LilygoLines
  PROVE  feed_line(c, line) \in Lilygos
<1>1. CASE line.kind = "begin"
  BY <1>1 DEF feed_line, Lilygos, Frames
<1>2. CASE line.kind = "chunk"
  BY <1>2 DEF feed_line, Lilygos, LilygoLines
<1>3. CASE line.kind = "end"
  BY <1>3 DEF feed_line, Lilygos, Frames
<1> QED BY <1>1, <1>2, <1>3 DEF LilygoLines

LilygoReading(c, n, lines, f) ==
  f = [i \in 0..n |-> IF i = 0 THEN c ELSE feed_line(f[i - 1], lines[i])]

LEMMA LilygosIterated ==
  ASSUME NEW c \in Lilygos, NEW n \in Nat
  PROVE  \A step \in [1..n -> [Lilygos -> Lilygos]] :
           \E f \in [0..n -> Lilygos] : f[0] = c /\ \A i \in 1..n : f[i] = step[i][f[i - 1]]
BY Iterated

LEMMA LilygoReadingExists ==
  ASSUME NEW c \in Lilygos, NEW n \in Nat, NEW lines \in [1..n -> LilygoLines]
  PROVE  \E f : LilygoReading(c, n, lines, f)
<1>1. PICK step \in [1..n -> [Lilygos -> Lilygos]] :
        \A i \in 1..n, a \in Lilygos : step[i][a] = feed_line(a, lines[i])
  <2> DEFINE s == [i \in 1..n |-> [a \in Lilygos |-> feed_line(a, lines[i])]]
  <2>1. s \in [1..n -> [Lilygos -> Lilygos]]
    BY LilygoLineFed
  <2>2. \A i \in 1..n, a \in Lilygos : s[i][a] = feed_line(a, lines[i])
    BY Zenon
  <2> HIDE DEF s
  <2> QED  BY <2>1, <2>2
<1>2. PICK f \in [0..n -> Lilygos] : f[0] = c /\ \A i \in 1..n : f[i] = step[i][f[i - 1]]
  BY <1>1, LilygosIterated
<1>3. \A i \in 1..n : f[i - 1] \in Lilygos
  OBVIOUS
<1>4. \A i \in 1..n : f[i] = feed_line(f[i - 1], lines[i])
  BY <1>1, <1>2, <1>3
<1>5. \A i \in 0..n : f[i] = IF i = 0 THEN c ELSE feed_line(f[i - 1], lines[i])
  <2>1. \A i \in 0..n : i # 0 => i \in 1..n
    OBVIOUS
  <2> QED  BY <1>2, <1>4, <2>1
<1>6. f = [i \in 0..n |-> IF i = 0 THEN c ELSE feed_line(f[i - 1], lines[i])]
  <2>1. f = [i \in 0..n |-> f[i]]
    OBVIOUS
  <2> QED  BY <1>5, <2>1, Zenon
<1> QED BY <1>6 DEF LilygoReading

LEMMA LilygoReadingTyped ==
  ASSUME NEW c \in Lilygos, NEW n \in Nat, NEW part \in [1..n -> LilygoLines], NEW read,
         read[0] = c, \A i \in 1..n : read[i] = feed_line(read[i - 1], part[i])
  PROVE  \A i \in 0..n : read[i] \in Lilygos
<1> DEFINE T == {i \in Nat : i <= n => read[i] \in Lilygos}
<1>1. ASSUME NEW i \in T PROVE i + 1 \in T
  <2>1. SUFFICES ASSUME i + 1 <= n PROVE read[i + 1] \in Lilygos
    OBVIOUS
  <2>2. i + 1 \in 1..n /\ (i + 1) - 1 = i /\ read[i] \in Lilygos /\ part[i + 1] \in LilygoLines
    BY <2>1
  <2> QED  BY <2>2, LilygoLineFed
<1>2. 0 \in T
  OBVIOUS
<1>3. T = Nat
  <2>1. T \in SUBSET Nat
    OBVIOUS
  <2> HIDE DEF T
  <2> QED  BY <1>1, <1>2, <2>1, NumbersFromZero
<1> QED BY <1>3

LEMMA LilygoFollowed ==
  ASSUME NEW G \in SUBSET (Lilygos \X Seq(LilygoLines)),
         \A g \in G : g[2] # <<>> => <<feed_line(g[1], Head(g[2])), Tail(g[2])>> \in G,
         NEW c, NEW lines \in Seq(LilygoLines), <<c, lines>> \in G, NEW n \in 0..Len(lines)
  PROVE  <<Fed(feed_line, c, SubSeq(lines, 1, n)), SubSeq(lines, n + 1, Len(lines))>> \in G
<1> DEFINE part == SubSeq(lines, 1, n)
           read == CHOOSE f : LilygoReading(c, n, part, f)
<1>1. PICK step \in [Lilygos -> [LilygoLines -> Lilygos]] :
        \A a \in Lilygos, line \in LilygoLines : step[a][line] = feed_line(a, line)
  <2> DEFINE s == [a \in Lilygos |-> [line \in LilygoLines |-> feed_line(a, line)]]
  <2>1. s \in [Lilygos -> [LilygoLines -> Lilygos]]
    BY LilygoLineFed
  <2>2. \A a \in Lilygos, line \in LilygoLines : s[a][line] = feed_line(a, line)
    BY Zenon
  <2> HIDE DEF s
  <2> QED  BY <2>1, <2>2
<1>2. c \in Lilygos
  OBVIOUS
<1>3. n \in Nat /\ part \in Seq(LilygoLines) /\ Len(part) = n /\ \A i \in 1..n : part[i] = lines[i]
  BY PartOf
<1> HIDE DEF part
<1>4. part \in [1..n -> LilygoLines] /\ \A i \in 1..n : lines[i] \in LilygoLines
  BY <1>3
<1>5. LilygoReading(c, n, part, read)
  <2>1. \E f : LilygoReading(c, n, part, f)
    BY <1>2, <1>3, <1>4, LilygoReadingExists
  <2> QED  BY <2>1, Zenon
<1> HIDE DEF read
<1>6. read[0] = c /\ \A i \in 1..n : read[i] = feed_line(read[i - 1], part[i])
  <2>1. 0 \in 0..n /\ \A i \in 1..n : i \in 0..n /\ i # 0
    BY <1>3
  <2> QED  BY <1>5, <2>1 DEF LilygoReading
<1>7. \A i \in 0..n : read[i] \in Lilygos
  BY <1>2, <1>3, <1>4, <1>6, LilygoReadingTyped
<1>8. \A i \in 1..n : read[i] = step[read[i - 1]][lines[i]]
  <2> SUFFICES ASSUME NEW i \in 1..n PROVE read[i] = step[read[i - 1]][lines[i]]
    OBVIOUS
  <2>1. i - 1 \in 0..n
    BY <1>3
  <2>2. read[i - 1] \in Lilygos /\ lines[i] \in LilygoLines
    BY <1>4, <1>7, <2>1, Zenon
  <2>3. read[i] = feed_line(read[i - 1], lines[i])
    BY <1>3, <1>6, Zenon
  <2> QED  BY <1>1, <2>2, <2>3, Zenon
<1>9. \A g \in G : g[2] # <<>> => <<step[g[1]][Head(g[2])], Tail(g[2])>> \in G
  <2> SUFFICES ASSUME NEW g \in G, g[2] # <<>>
               PROVE  <<step[g[1]][Head(g[2])], Tail(g[2])>> \in G
    OBVIOUS
  <2>1. g[1] \in Lilygos /\ g[2] \in Seq(LilygoLines)
    OBVIOUS
  <2>2. Head(g[2]) \in LilygoLines
    BY <2>1
  <2>3. step[g[1]][Head(g[2])] = feed_line(g[1], Head(g[2]))
    BY <1>1, <2>1, <2>2
  <2> QED  BY <2>3
<1>10. <<read[n], SubSeq(lines, n + 1, Len(lines))>> \in G
  <2>1. StaysIn(step, G)
    BY <1>9 DEF StaysIn
  <2>2. ReadsBy(read, c, n, step, lines)
    BY <1>6, <1>8 DEF ReadsBy
  <2> QED  BY <2>1, <2>2, Followed, Zenon
<1>11. Fed(feed_line, c, part) = read[n]
  BY <1>3 DEF Fed, LilygoReading, read
<1> QED BY <1>10, <1>11 DEF part

\* What the heads and the rests of short sequences are.
LEMMA ShortRests ==
  ASSUME NEW L, NEW a \in L, NEW b \in L, NEW c \in L
  PROVE  /\ <<a>> \in Seq(L) /\ Head(<<a>>) = a /\ Tail(<<a>>) = <<>>
         /\ <<a, b>> \in Seq(L) /\ Head(<<a, b>>) = a /\ Tail(<<a, b>>) = <<b>>
         /\ <<a, b, c>> \in Seq(L) /\ Head(<<a, b, c>>) = a /\ Tail(<<a, b, c>>) = <<b, c>>
         /\ <<a, b>> \o <<c>> = <<a, b, c>>
         /\ <<>> \in Seq(L) /\ <<>> \o <<a, b>> = <<a, b>> /\ <<>> \o <<a, b, c>> = <<a, b, c>>
<1>1. Tail(<<a>>) = <<>>
  OBVIOUS
<1>2. Tail(<<a, b>>) = <<b>>
  OBVIOUS
<1>3. Tail(<<a, b, c>>) = <<b, c>>
  OBVIOUS
<1>4. <<a, b>> \o <<c>> = <<a, b, c>>
  <2> DEFINE u == <<a, b>>
             v == <<a, b, c>>
             x == <<c>>
             w == u \o x
  <2>1. u \in Seq(L) /\ Len(u) = 2 /\ u[1] = a /\ u[2] = b /\ x \in Seq(L) /\ Len(x) = 1 /\ x[1] = c
    OBVIOUS
  <2>2. v \in Seq(L) /\ Len(v) = 3 /\ v[1] = a /\ v[2] = b /\ v[3] = c
    OBVIOUS
  <2> HIDE DEF u, v, x
  <2>3. w \in Seq(L) /\ Len(w) = 3 /\ w[1] = a /\ w[2] = b /\ w[3] = c
    <3>1. /\ w \in Seq(L) /\ Len(w) = Len(u) + Len(x)
          /\ \A i \in 1..(Len(u) + Len(x)) : w[i] = IF i <= Len(u) THEN u[i] ELSE x[i - Len(u)]
      <4>1. u \in Seq(L) /\ x \in Seq(L)
        BY <2>1
      <4> QED  BY <4>1, ConcatProperties, Zenon
    <3> HIDE DEF w
    <3> QED  BY <2>1, <3>1
  <2> HIDE DEF w
  <2>4. \A i \in 1..Len(w) : w[i] = v[i]
    BY <2>2, <2>3
  <2>5. w = v
    BY <2>2, <2>3, <2>4, SeqEqual
  <2> QED  BY <2>5 DEF u, v, w, x
<1>5. <<>> \o <<a, b>> = <<a, b>> /\ <<>> \o <<a, b, c>> = <<a, b, c>>
  OBVIOUS
<1> QED BY <1>1, <1>2, <1>3, <1>4, <1>5

\* A press that rtl_433 prints whole is decoded from its lines, however they are read.
LEMMA RtlStagesFollow ==
  ASSUME NEW frame \in Known
  PROVE  /\ RtlStages(frame) \in SUBSET (Rtls \X Seq(RtlLines))
         /\ \A g \in RtlStages(frame) : g[2] # <<>> =>
              <<feed_stdout_line(g[1], Head(g[2])), Tail(g[2])>> \in RtlStages(frame)
<1> DEFINE t == [kind |-> "time", frame |-> frame]
           f == [kind |-> "fields", frame |-> frame]
           b == [kind |-> "blank", frame |-> Nothing]
           half == [pending |-> frame, whole |-> FALSE, selected |-> Nothing]
           full == [pending |-> frame, whole |-> TRUE, selected |-> Nothing]
           done == [pending |-> Nothing, whole |-> FALSE, selected |-> frame]
<1>1. frame # Nothing
  BY DEF Known, Nothing
<1>2. /\ t \in RtlLines /\ f \in RtlLines /\ b \in RtlLines
      /\ NewRtl \in Rtls /\ half \in Rtls /\ full \in Rtls /\ done \in Rtls
  BY DEF RtlLines, Rtls, Frames, NewRtl
<1>3. feed_stdout_line(NewRtl, t) = half
  BY DEF feed_stdout_line, finalize_pending_block, NewRtl
<1>4. feed_stdout_line(half, f) = full
  BY <1>1 DEF feed_stdout_line
<1>5. feed_stdout_line(full, b) = done
  BY DEF feed_stdout_line, finalize_pending_block
<1>6. RtlStages(frame) = {<<NewRtl, <<t, f>>>>, <<NewRtl, <<t, f, b>>>>, <<half, <<f>>>>, <<half, <<f, b>>>>,
                          <<full, <<>>>>, <<full, <<b>>>>, <<done, <<>>>>}
  BY DEF RtlStages
<1> HIDE DEF t, f, b, half, full, done
<1>7. /\ <<t, f>> \in Seq(RtlLines) /\ <<t, f, b>> \in Seq(RtlLines) /\ <<f>> \in Seq(RtlLines)
      /\ <<f, b>> \in Seq(RtlLines) /\ <<b>> \in Seq(RtlLines) /\ <<>> \in Seq(RtlLines)
  BY <1>2, ShortRests
<1>8. ASSUME NEW g \in RtlStages(frame) PROVE g \in Rtls \X Seq(RtlLines)
  <2>1. \A c \in Rtls, s \in Seq(RtlLines) : <<c, s>> \in Rtls \X Seq(RtlLines)
    OBVIOUS
  <2> QED  BY <1>2, <1>6, <1>7, <2>1, Zenon
<1>9. ASSUME NEW g \in RtlStages(frame), g[2] # <<>>
      PROVE  <<feed_stdout_line(g[1], Head(g[2])), Tail(g[2])>> \in RtlStages(frame)
  <2>1. CASE g = <<NewRtl, <<t, f>>>>
    BY <1>2, <1>3, <1>6, <2>1, ShortRests
  <2>2. CASE g = <<NewRtl, <<t, f, b>>>>
    BY <1>2, <1>3, <1>6, <2>2, ShortRests
  <2>3. CASE g = <<half, <<f>>>>
    BY <1>2, <1>4, <1>6, <2>3, ShortRests
  <2>4. CASE g = <<half, <<f, b>>>>
    BY <1>2, <1>4, <1>6, <2>4, ShortRests
  <2>5. CASE g = <<full, <<b>>>>
    BY <1>2, <1>5, <1>6, <2>5, ShortRests
  <2> QED  BY <1>6, <1>9, <2>1, <2>2, <2>3, <2>4, <2>5
<1> QED BY <1>8, <1>9

\* And one that the LilyGO exported whole.
LEMMA LilygoStagesFollow ==
  ASSUME NEW frame \in Known
  PROVE  /\ LilygoStages(frame) \in SUBSET (Lilygos \X Seq(LilygoLines))
         /\ \A g \in LilygoStages(frame) : g[2] # <<>> =>
              <<feed_line(g[1], Head(g[2])), Tail(g[2])>> \in LilygoStages(frame)
<1> DEFINE t == [kind |-> "begin", frame |-> Nothing]
           f == [kind |-> "chunk", frame |-> frame]
           b == [kind |-> "end", frame |-> Nothing]
           full == [probe |-> frame, record |-> Nothing, complete |-> FALSE]
<1>1. /\ t \in LilygoLines /\ f \in LilygoLines /\ b \in LilygoLines
      /\ NewLilygo \in Lilygos /\ full \in Lilygos /\ Exported(frame) \in Lilygos
  BY DEF LilygoLines, Lilygos, Frames, NewLilygo, Exported
<1>2. feed_line(NewLilygo, t) = NewLilygo
  BY DEF feed_line, NewLilygo
<1>3. feed_line(NewLilygo, f) = full
  BY DEF feed_line, NewLilygo
<1>4. feed_line(full, b) = Exported(frame)
  BY DEF feed_line, Exported
<1>5. LilygoStages(frame) = {<<NewLilygo, <<t, f, b>>>>, <<NewLilygo, <<f, b>>>>, <<full, <<b>>>>,
                             <<Exported(frame), <<>>>>}
  BY DEF LilygoStages
<1> HIDE DEF t, f, b, full
<1>6. /\ <<t, f, b>> \in Seq(LilygoLines) /\ <<f, b>> \in Seq(LilygoLines)
      /\ <<b>> \in Seq(LilygoLines) /\ <<>> \in Seq(LilygoLines)
  BY <1>1, ShortRests
<1>7. ASSUME NEW g \in LilygoStages(frame) PROVE g \in Lilygos \X Seq(LilygoLines)
  <2>1. \A c \in Lilygos, s \in Seq(LilygoLines) : <<c, s>> \in Lilygos \X Seq(LilygoLines)
    OBVIOUS
  <2> QED  BY <1>1, <1>5, <1>6, <2>1, Zenon
<1>8. ASSUME NEW g \in LilygoStages(frame), g[2] # <<>>
      PROVE  <<feed_line(g[1], Head(g[2])), Tail(g[2])>> \in LilygoStages(frame)
  <2>1. CASE g = <<NewLilygo, <<t, f, b>>>>
    BY <1>1, <1>2, <1>5, <2>1, ShortRests
  <2>2. CASE g = <<NewLilygo, <<f, b>>>>
    BY <1>1, <1>3, <1>5, <2>2, ShortRests
  <2>3. CASE g = <<full, <<b>>>>
    BY <1>1, <1>4, <1>5, <2>3, ShortRests
  <2> QED  BY <1>5, <1>8, <2>1, <2>2, <2>3
<1> QED BY <1>7, <1>8

LEMMA ShownKnown == ASSUME StateIsHeard PROVE Shown \in Known /\ Shown # Nothing /\ Shown.state = fireplace
BY DEF StateIsHeard, Shown, Known, Nothing

LEMMA RtlAhead ==
  ASSUME StateIsHeard, <<rtl, pipe.rtl>> \in RtlStages(Shown), NEW n \in 0..Len(pipe.rtl)
  PROVE  <<ReadRtl(n), Left("rtl", n)>> \in RtlStages(Shown)
<1> DEFINE G == RtlStages(Shown)
<1>1. G \in SUBSET (Rtls \X Seq(RtlLines))
  BY ShownKnown, RtlStagesFollow
<1>2. \A g \in G : g[2] # <<>> => <<feed_stdout_line(g[1], Head(g[2])), Tail(g[2])>> \in G
  BY ShownKnown, RtlStagesFollow
<1>3. pipe.rtl \in Seq(RtlLines) /\ <<rtl, pipe.rtl>> \in G
  BY DEF StateIsHeard
<1> HIDE DEF G
<1>4. <<Fed(feed_stdout_line, rtl, SubSeq(pipe.rtl, 1, n)), SubSeq(pipe.rtl, n + 1, Len(pipe.rtl))>> \in G
  BY <1>1, <1>2, <1>3, RtlFollowed
<1> QED BY <1>4 DEF ReadRtl, Left, G

\* What has been read when nothing is left: the press; and a decode means nothing is left.
LEMMA RtlStagesEnd ==
  ASSUME NEW frame \in Known, NEW c, NEW lines, <<c, lines>> \in RtlStages(frame)
  PROVE  /\ lines = <<>> => finalize_pending_block(c).selected = frame
         /\ c.selected # Nothing => lines = <<>>
<1> DEFINE t == [kind |-> "time", frame |-> frame]
           f == [kind |-> "fields", frame |-> frame]
           b == [kind |-> "blank", frame |-> Nothing]
<1>1. <<t, f>> # <<>> /\ <<t, f, b>> # <<>> /\ <<f>> # <<>> /\ <<f, b>> # <<>> /\ <<b>> # <<>>
  OBVIOUS
<1>2. \/ c = NewRtl /\ lines # <<>>
      \/ c = [pending |-> frame, whole |-> FALSE, selected |-> Nothing] /\ lines # <<>>
      \/ c = [pending |-> frame, whole |-> TRUE, selected |-> Nothing]
      \/ c = [pending |-> Nothing, whole |-> FALSE, selected |-> frame] /\ lines = <<>>
  BY <1>1 DEF RtlStages
<1>3. frame # Nothing
  BY DEF Known, Nothing
<1> QED BY <1>2, <1>3 DEF finalize_pending_block, NewRtl

\* The LilyGO's export may still be to come.
LEMMA LilygoAhead ==
  ASSUME StateIsHeard, NEW n \in 0..Len(pipe.lilygo),
         <<lilygo, pipe.lilygo>> \in LilygoStages(Shown) \cup {<<NewLilygo, <<>>>>}
  PROVE  /\ <<ReadLilygo(n), Left("lilygo", n)>> \in LilygoStages(Shown) \cup {<<NewLilygo, <<>>>>}
         /\ <<lilygo, pipe.lilygo>> \in LilygoStages(Shown) =>
              <<ReadLilygo(n), Left("lilygo", n)>> \in LilygoStages(Shown)
<1> DEFINE G == LilygoStages(Shown)
           H == G \cup {<<NewLilygo, <<>>>>}
           after == <<Fed(feed_line, lilygo, SubSeq(pipe.lilygo, 1, n)), SubSeq(pipe.lilygo, n + 1, Len(pipe.lilygo))>>
<1>1. G \in SUBSET (Lilygos \X Seq(LilygoLines))
  BY ShownKnown, LilygoStagesFollow
<1>2. \A g \in G : g[2] # <<>> => <<feed_line(g[1], Head(g[2])), Tail(g[2])>> \in G
  BY ShownKnown, LilygoStagesFollow
<1> HIDE DEF G
<1>3. NewLilygo \in Lilygos /\ <<>> \in Seq(LilygoLines)
  BY DEF NewLilygo, Lilygos, Frames
<1>4. H \in SUBSET (Lilygos \X Seq(LilygoLines))
  <2>1. <<NewLilygo, <<>>>> \in Lilygos \X Seq(LilygoLines)
    BY <1>3
  <2> QED  BY <1>1, <2>1, Zenon
<1>5. \A g \in H : g[2] # <<>> => <<feed_line(g[1], Head(g[2])), Tail(g[2])>> \in H
  BY <1>2
<1>6. <<lilygo, pipe.lilygo>> \in H
  BY DEF G
<1>7. pipe.lilygo \in Seq(LilygoLines)
  BY <1>4, <1>6
<1>8. ASSUME <<lilygo, pipe.lilygo>> \in G PROVE after \in G
  BY <1>1, <1>2, <1>7, <1>8, LilygoFollowed
<1>9. after \in H
  <2> HIDE DEF H
  <2> QED  BY <1>4, <1>5, <1>6, <1>7, LilygoFollowed
<1>10. after = <<ReadLilygo(n), Left("lilygo", n)>>
  BY DEF ReadLilygo, Left
<1> HIDE DEF after
<1> QED BY <1>8, <1>9, <1>10 DEF G

LEMMA LilygoStagesEnd ==
  ASSUME NEW frame, NEW c, NEW lines, <<c, lines>> \in LilygoStages(frame), lines = <<>> \/ c.complete
  PROVE  lines = <<>> /\ c = Exported(frame)
<1> DEFINE t == [kind |-> "begin", frame |-> Nothing]
           f == [kind |-> "chunk", frame |-> frame]
           b == [kind |-> "end", frame |-> Nothing]
<1>1. <<t, f, b>> # <<>> /\ <<f, b>> # <<>> /\ <<b>> # <<>>
  OBVIOUS
<1>2. \/ c = NewLilygo /\ lines # <<>>
      \/ c = [probe |-> frame, record |-> Nothing, complete |-> FALSE] /\ lines # <<>>
      \/ c = Exported(frame) /\ lines = <<>>
  BY <1>1 DEF LilygoStages
<1> QED BY <1>2 DEF NewLilygo

-----------------------------------------------------------------------------
\* The next command.

\* Counting modulo n.
LEMMA TurnOf ==
  ASSUME NEW n \in Nat, NEW a \in 0..(n - 1)
  PROVE  a % n = a /\ (a + n) % n = a
<1>1. n \in Int /\ n > 0 /\ a \in Int
  OBVIOUS
<1> QED BY <1>1

LEMMA TurnRange ==
  ASSUME NEW n \in Nat, n # 0, NEW a \in Int
  PROVE  a % n \in 0..(n - 1)
OBVIOUS

\* Some place of the rotation is eligible, so there is a first one.
LEMMA FirstOffset ==
  ASSUME NEW n \in Nat, NEW S \in SUBSET (0..(n - 1)), S # {}
  PROVE  \E o \in S : \A p \in 0..(o - 1) : p \notin S
<1> DEFINE T == {k \in Nat : \A p \in 0..(k - 1) : p \notin S}
<1>1. SUFFICES ASSUME \A o \in S : \E p \in 0..(o - 1) : p \in S PROVE FALSE
  OBVIOUS
<1>2. 0 \in T
  OBVIOUS
<1>3. ASSUME NEW k \in T PROVE k + 1 \in T
  <2>1. k \notin S
    BY <1>1
  <2>2. \A p \in 0..((k + 1) - 1) : p = k \/ p \in 0..(k - 1)
    OBVIOUS
  <2> QED  BY <2>1, <2>2
<1>4. T = Nat
  <2>1. T \in SUBSET Nat
    OBVIOUS
  <2> HIDE DEF T
  <2> QED  BY <1>2, <1>3, <2>1, NumbersFromZero
<1>5. n \in T
  BY <1>4
<1> QED BY <1>5

\* The rotation finds an eligible command, if there is one.
LEMMA RotationFinds ==
  ASSUME NEW c, c.commands \in Seq(Commands), NEW p, p = [next |-> p.next, plan |-> p.plan],
         p.next \in 0..(Len(c.commands) - 1), NEW eligible, eligible \cap Enabled(c) # {}
  PROVE  /\ Rotated(c, p, eligible).command \in eligible \cap Enabled(c)
         /\ Rotated(c, p, eligible).planner = [next |-> Rotated(c, p, eligible).planner.next, plan |-> p.plan]
         /\ Rotated(c, p, eligible).planner.next \in 0..(Len(c.commands) - 1)
<1> DEFINE n == Len(c.commands)
           at(o) == ((p.next + o) % n) + 1
           S == {o \in 0..(n - 1) : c.commands[at(o)] \in eligible}
           offset == CHOOSE o \in 0..(n - 1) :
                       /\ c.commands[at(o)] \in eligible
                       /\ \A q \in 0..(o - 1) : c.commands[at(q)] \notin eligible
<1>1. n \in Nat /\ n # 0 /\ p.next \in 0..(n - 1)
  OBVIOUS
<1>2. PICK i \in 1..n : c.commands[i] \in eligible
  BY DEF Enabled
<1>3. \E o \in 0..(n - 1) : at(o) = i
  <2> HIDE DEF n
  <2>1. CASE i - 1 >= p.next
    <3> DEFINE o == (i - 1) - p.next
    <3>1. o \in 0..(n - 1) /\ p.next + o = i - 1 /\ i - 1 \in 0..(n - 1)
      BY <1>1, <1>2, <2>1
    <3>2. (p.next + o) % n = i - 1
      BY <1>1, <3>1, TurnOf
    <3> QED  BY <1>2, <3>1, <3>2
  <2>2. CASE i - 1 < p.next
    <3> DEFINE o == ((i - 1) - p.next) + n
    <3>1. o \in 0..(n - 1) /\ p.next + o = (i - 1) + n /\ i - 1 \in 0..(n - 1)
      <4>1. i \in Int /\ n \in Int /\ p.next \in Int /\ 1 <= i /\ i <= n /\ 0 <= p.next /\ p.next <= n - 1
        BY <1>1, <1>2
      <4> QED  BY <2>2, <4>1
    <3>2. (p.next + o) % n = i - 1
      BY <1>1, <3>1, TurnOf
    <3> QED  BY <1>2, <3>1, <3>2
  <2> QED  BY <1>1, <1>2, <2>1, <2>2
<1>4. S # {}
  BY <1>2, <1>3
<1>5. \E o \in 0..(n - 1) : o \in S /\ \A q \in 0..(o - 1) : q \notin S
  <2>1. S \in SUBSET (0..(n - 1))
    OBVIOUS
  <2> HIDE DEF S, n
  <2>2. PICK o \in S : \A q \in 0..(o - 1) : q \notin S
    BY <1>1, <1>4, <2>1, FirstOffset
  <2> QED  BY <2>1, <2>2
<1>6. \A o \in 0..(n - 1) : \A q \in 0..(o - 1) : q \in 0..(n - 1)
  BY <1>1
<1>7. \E o \in 0..(n - 1) : /\ c.commands[at(o)] \in eligible
                            /\ \A q \in 0..(o - 1) : c.commands[at(q)] \notin eligible
  <2> HIDE DEF n, at
  <2> QED  BY <1>5, <1>6
<1>8. offset \in 0..(n - 1) /\ c.commands[at(offset)] \in eligible
  <2> HIDE DEF n, at
  <2> QED  BY <1>7
<1>9. at(offset) \in 1..n /\ at(offset) % n \in 0..(n - 1)
  <2> HIDE DEF n, offset
  <2>1. p.next + offset \in Int
    BY <1>1, <1>8
  <2>2. (p.next + offset) % n \in 0..(n - 1)
    BY <1>1, <2>1, TurnRange
  <2>3. at(offset) \in 1..n /\ at(offset) \in Int
    BY <1>1, <2>2
  <2> HIDE DEF at
  <2> QED  BY <1>1, <2>3, TurnRange
<1>10. Rotated(c, p, eligible) = [command |-> c.commands[at(offset)],
                                  planner |-> [p EXCEPT !.next = at(offset) % n]]
  BY Zenon DEF Rotated, Choice
<1>11. c.commands[at(offset)] \in Enabled(c)
  <2>1. at(offset) \in DOMAIN c.commands
    BY <1>9
  <2> HIDE DEF at, offset
  <2> QED  BY <2>1 DEF Enabled
<1> HIDE DEF n, at, offset
<1> QED BY <1>8, <1>9, <1>10, <1>11 DEF n

\* The planner's own choice. With the power known to be on, it moves what can move.
LEMMA Chosen ==
  ASSUME CommandLine(cfg), planner = [next |-> planner.next, plan |-> planner.plan],
         planner.next \in 0..(Len(cfg.commands) - 1)
  PROVE  LET next == choose_next_action(cfg, planner, state) IN
         /\ next.planner = [next |-> next.planner.next, plan |-> planner.plan]
         /\ next.planner.next \in 0..(Len(cfg.commands) - 1)
         /\ cfg.plan = <<>> /\ "power_toggle" \in Enabled(cfg) =>
              /\ next.command \in Commands
              /\ next.command # "power_toggle" =>
                   state.power = 1 /\ is_action_eligible(cfg, state, next.command)
<1> DEFINE next == choose_next_action(cfg, planner, state)
           eligible == {c \in Enabled(cfg) : is_action_eligible(cfg, state, c)}
<1>1. cfg.commands \in Seq(Commands) /\ Enabled(cfg) \subseteq Commands
  BY DEF CommandLine, Enabled
<1>2. CASE cfg.plan # <<>>
  <2>1. next.planner = planner
    BY <1>2 DEF choose_next_action, Choice
  <2> QED  BY <1>2, <2>1
<1>3. CASE cfg.plan = <<>> /\ state.power # 1
  <2>1. /\ next.planner = planner
        /\ "power_toggle" \in Enabled(cfg) => next.command = "power_toggle"
    BY <1>3 DEF choose_next_action, Choice
  <2> QED  BY <2>1 DEF Commands
<1>4. CASE cfg.plan = <<>> /\ state.power = 1 /\ eligible = {}
  <2>1. next.planner = planner
    BY <1>4 DEF choose_next_action, Choice
  <2>2. "power_toggle" \notin Enabled(cfg)
    BY <1>4 DEF is_action_eligible
  <2> QED  BY <2>1, <2>2
<1>5. CASE cfg.plan = <<>> /\ state.power = 1 /\ eligible # {}
  <2>1. next = Rotated(cfg, planner, eligible)
    BY <1>5 DEF choose_next_action
  <2>2. eligible \cap Enabled(cfg) # {}
    BY <1>5
  <2>3. \A c \in eligible : is_action_eligible(cfg, state, c)
    OBVIOUS
  <2> HIDE DEF next, eligible
  <2>4. /\ next.command \in eligible \cap Enabled(cfg)
        /\ next.planner = [next |-> next.planner.next, plan |-> planner.plan]
        /\ next.planner.next \in 0..(Len(cfg.commands) - 1)
    BY <1>1, <2>1, <2>2, RotationFinds
  <2> QED  BY <1>1, <1>5, <2>3, <2>4 DEF next
<1> QED BY <1>2, <1>3, <1>4, <1>5

\* The planner after the choice of any session.
LEMMA PlannerKept ==
  ASSUME SessionTyped, NEW r
  PROVE  LET p == next_action(cfg, r, planner, state).planner IN
         p = [next |-> p.next, plan |-> p.plan] /\ p.next \in 0..(Len(cfg.commands) - 1)
<1> DEFINE next == next_action(cfg, r, planner, state)
           own == choose_next_action(cfg, planner, state)
<1>1. next = own \/ next.planner = planner
  BY DEF next_action, Choice
<1>2. own.planner = [next |-> own.planner.next, plan |-> planner.plan] /\ own.planner.next \in 0..(Len(cfg.commands) - 1)
  BY Chosen DEF SessionTyped
<1> HIDE DEF next, own
<1>3. next.planner = planner \/ next.planner = own.planner
  BY <1>1
<1> QED BY <1>2, <1>3 DEF SessionTyped, next

LEMMA WithinLimit ==
  ASSUME NEW c, c.limit \in [Fields -> Nat], NEW f \in Fields, NEW v \in Int
  PROVE  Within(c, f, v) \in Nat /\ Within(c, f, v) <= c.limit[f]
BY DEF Within

LEMMA PressWithin ==
  ASSUME SessionTyped, StateIsHeard, NEW command \in Commands
  PROVE  \A f \in {"flame", "fan"} : Pressed(command)[f] <= cfg.limit[f]
<1>1. cfg.limit \in [Fields -> Nat] /\ fireplace \in [Fields -> Nat]
  BY DEF StateIsHeard, Actual
<1>2. \A f \in {"flame", "fan"} : fireplace[f] <= cfg.limit[f]
  BY DEF SessionTyped
<1>3. CASE Pressed(command) = fireplace
  BY <1>2, <1>3
<1>4. CASE Pressed(command) = [fireplace EXCEPT !["power"] = IF @ = 1 THEN 0 ELSE 1]
  BY <1>1, <1>2, <1>4
<1>5. ASSUME command \in MoveCommands,
             Pressed(command) = [fireplace EXCEPT ![Moves[command].field] =
                                   Within(cfg, Moves[command].field, @ + Moves[command].by)]
      PROVE  \A f \in {"flame", "fan"} : Pressed(command)[f] <= cfg.limit[f]
  <2> DEFINE m == Moves[command]
             w == Within(cfg, m.field, fireplace[m.field] + m.by)
  <2>1. m.field \in Fields /\ m.by \in Int
    BY <1>5 DEF MoveCommands, Moves, Fields
  <2>2. w <= cfg.limit[m.field]
    BY <1>1, <2>1, WithinLimit
  <2>3. Pressed(command) = [fireplace EXCEPT ![m.field] = w]
    BY <1>5
  <2> HIDE DEF m, w
  <2> QED  BY <1>1, <1>2, <2>1, <2>2, <2>3
<1> QED BY <1>3, <1>4, <1>5 DEF Pressed, apply_action

LEMMA TypedJudged ==
  ASSUME SessionTyped, FinalizeSample
  PROVE  SessionTyped'
<1>1. PICK n \in 0..Len(pipe.rtl), m \in 0..Len(pipe.lilygo) :
        /\ UNCHANGED <<cfg, fireplace>> /\ phase' = "next"
        /\ faults' = faults \/ faults' = faults + 1
        /\ Judge(RtlResult(n).selected,
                 IF LilygoResult(m).complete THEN LilygoResult(m).record ELSE Nothing,
                 YardstickResult.result)
  BY DEF FinalizeSample
<1>2. planner' = planner \/ planner' = [planner EXCEPT !.plan = @ + 1]
  BY <1>1 DEF Judge, PlannerAfter, record_valid_action
<1>3. planner' = [next |-> planner'.next, plan |-> planner'.plan] /\ planner'.next = planner.next
  BY <1>2 DEF SessionTyped
<1> QED BY <1>1, <1>3 DEF SessionTyped

LEMMA TypedStep ==
  ASSUME SessionTyped, StateIsHeard, PlanInv, [Next]_vars
  PROVE  SessionTyped'
<1>1. ASSUME UNCHANGED <<cfg, run, planner, fireplace>>, faults' \in Nat,
             phase' = phase \/ phase' \in {"next", "ended"}
      PROVE  SessionTyped'
  BY <1>1 DEF SessionTyped
<1>2. faults \in Nat /\ faults + 1 \in Nat
  BY DEF SessionTyped
<1>3. CASE StartSession \/ StartRefused \/ EndSession
  BY <1>1, <1>2, <1>3 DEF StartSession, StartRefused, EndSession, runner, world
<1>4. CASE PrepareSample
  <2> DEFINE next == next_action(cfg, run, planner, state)
  <2>1. /\ UNCHANGED <<cfg, fireplace, faults>> /\ phase' = "waiting"
        /\ planner' = planner \/ planner' = next.planner
    BY <1>4 DEF PrepareSample
  <2>2. next.planner = [next |-> next.planner.next, plan |-> next.planner.plan]
        /\ next.planner.next \in 0..(Len(cfg.commands) - 1)
    BY PlannerKept
  <2> HIDE DEF next
  <2> QED  BY <2>1, <2>2 DEF SessionTyped
<1>5. CASE PollRtl \/ PollLilygo \/ PollYardstick
  BY <1>1, <1>2, <1>5 DEF PollRtl, PollLilygo, PollYardstick, runner, world
<1>6. ASSUME NEW command \in Commands, Press(command) PROVE SessionTyped'
  <2>1. /\ UNCHANGED <<cfg, run, planner, phase>> /\ fireplace' = Pressed(command)
        /\ faults' = faults \/ faults' = faults + 1
    BY <1>6 DEF Press, runner
  <2>2. \A f \in {"flame", "fan"} : fireplace'[f] <= cfg'.limit[f]
    BY <2>1, PressWithin
  <2> QED  BY <1>2, <2>1, <2>2 DEF SessionTyped
<1>7. CASE CaptureComplete \/ ReceiveFails
  BY <1>1, <1>2, <1>7 DEF CaptureComplete, ReceiveFails, runner, world
<1>8. CASE UNCHANGED vars
  BY <1>1, <1>2, <1>8 DEF vars, runner, world
<1> QED BY <1>3, <1>4, <1>5, <1>6, <1>7, <1>8, TypedJudged DEF Next, Runner, World

-----------------------------------------------------------------------------
\* The steps of a session in which nothing has gone wrong.

LEMMA FaultlessStart == ASSUME Init PROVE FaultlessInv
<1>1. CommandLine(cfg) /\ cfg.limit \in [Fields -> Nat]
  BY CaptureAssumption DEF Init, CommandLine
<1>2. cfg.commands \in Seq(Commands) /\ cfg.commands # <<>>
  BY <1>1 DEF CommandLine
<1>3. 0 \in 0..(Len(cfg.commands) - 1)
  BY <1>2
<1>4. \A f \in {"flame", "fan"} : fireplace[f] <= cfg.limit[f]
  BY DEF Init, Fields
<1>5. SessionTyped
  BY <1>1, <1>3, <1>4 DEF Init, SessionTyped
<1>6. cfg.setup \in BOOLEAN
  BY <1>1 DEF CommandLine
<1>7. run.attempts = 0 /\ run.valid = 0 /\ phase = "start"
  BY DEF Init
<1>8. Tally
  <2>1. CASE cfg.setup = TRUE
    <3>1. run.setup = FALSE
      BY <2>1 DEF Init
    <3>2. SetupSamples = 0
      BY <2>1, <3>1, Zenon DEF SetupSamples
    <3>3. run.setup \in BOOLEAN /\ (~run.setup => cfg.setup)
      BY <2>1, <3>1, Zenon
    <3> QED  BY <1>7, <3>2, <3>3 DEF Tally
  <2>2. CASE cfg.setup = FALSE
    <3>1. run.setup = TRUE
      BY <2>2 DEF Init
    <3>2. SetupSamples = 0
      BY <2>2, <3>1, Zenon DEF SetupSamples
    <3>3. run.setup \in BOOLEAN /\ (~run.setup => cfg.setup)
      BY <2>2, <3>1, Zenon
    <3> QED  BY <1>7, <3>2, <3>3 DEF Tally
  <2> QED  BY <1>6, <2>1, <2>2
<1>9. Between
  BY DEF Init, Between, Silent, NoReceive
<1> QED BY <1>5, <1>8, <1>9 DEF Init, FaultlessInv, Progress

LEMMA PreparedAsks ==
  ASSUME SessionTyped, StateIsHeard, PlanInv, Plain(cfg), Progress, PrepareSample
  PROVE  Progress'
<1> DEFINE next == next_action(cfg, run, planner, state)
<1>1. phase = "next" /\ phase' = "waiting"
  BY DEF PrepareSample
<1>2. /\ UNCHANGED <<cfg, state, pipe, fireplace, window>> /\ todo' = action'
      /\ run' = [run EXCEPT !.attempts = @ + 1]
      /\ action' = IF run.setup THEN next.command ELSE "setup_state"
      /\ rtl' = NewRtl /\ lilygo' = NewLilygo /\ yardstick' = BeginYardstick /\ future' = Begun
  BY DEF PrepareSample
<1>3. Tally /\ Between
  BY <1>1 DEF Progress
<1>4. run'.setup = run.setup /\ run'.valid = run.valid /\ run'.attempts = run.attempts + 1
  BY <1>2 DEF PlanInv, RunShape
<1>5. Tally'
  <2>1. run.attempts \in Nat /\ run.attempts = run.valid + SetupSamples
    BY <1>1, <1>3 DEF Tally
  <2>2. SetupSamples' = SetupSamples
    BY <1>2, <1>4 DEF SetupSamples
  <2> QED  BY <1>1, <1>2, <1>3, <1>4, <2>1, <2>2 DEF Tally
<1>6. next = choose_next_action(cfg, planner, state)
  BY DEF Plain, semantic_targets_enabled, next_action
<1>7. /\ next.command \in Commands
      /\ next.command # "power_toggle" => state.power = 1 /\ is_action_eligible(cfg, state, next.command)
  BY <1>6, Chosen DEF SessionTyped, Plain
<1> HIDE DEF next
<1>8. Asked'
  BY <1>2, <1>4, <1>7 DEF Asked, Has, Commands
<1>9. Has("yardstick") => yardstick' = NewYardstick /\ future'.state = "running"
  BY <1>2, <1>3 DEF Between, BeginYardstick, Begun
<1>10. Unpressed'
  BY <1>2, <1>3, <1>4, <1>7, <1>8, <1>9 DEF Unpressed, Between, Silent, Has
<1> QED BY <1>1, <1>5, <1>10 DEF Progress

\* A press of the command asked for does what it is about.
LEMMA PressMoves ==
  ASSUME SessionTyped, StateIsHeard, Asked, run.setup, Has("rtl433"), action \in Commands,
         state \in {NoState, fireplace}
  PROVE  transition_accepted(action, state, Pressed(action))
<1>1. cfg.limit \in [Fields -> Nat] /\ fireplace \in [Fields -> Nat]
  BY DEF StateIsHeard, Actual
<1>2. CASE state = NoState
  <2>1. \A f \in Fields : state[f] = Unknown
    BY <1>2 DEF NoState
  <2>2. action \in MoveCommands => Moves[action].field \in Fields
    BY DEF MoveCommands, Moves, Fields
  <2>3. state.power = Unknown
    BY <2>1 DEF Fields
  <2> QED  BY <2>1, <2>2, <2>3 DEF transition_accepted
<1>3. ASSUME state = fireplace, action = "power_toggle"
      PROVE  transition_accepted(action, state, Pressed(action))
  <2>1. Pressed(action) = [fireplace EXCEPT !["power"] = IF @ = 1 THEN 0 ELSE 1]
    BY <1>3 DEF Pressed, apply_action
  <2>2. Pressed(action).power # fireplace.power
    BY <1>1, <2>1 DEF Fields
  <2> QED  BY <1>3, <2>2 DEF transition_accepted, MoveCommands, Moves
<1>4. ASSUME state = fireplace, state # NoState, action # "power_toggle"
      PROVE  transition_accepted(action, state, Pressed(action))
  <2> DEFINE m == Moves[action]
             v == fireplace[m.field]
             w == Within(cfg, m.field, v + m.by)
  <2>1. action \in MoveCommands /\ state.power = 1 /\ is_action_eligible(cfg, state, action)
    BY <1>4 DEF Asked
  <2>2. m.field \in {"flame", "fan"} /\ m.by \in {1, -1}
    BY <2>1 DEF MoveCommands, Moves
  <2>3. m.field \in Fields /\ v \in Nat /\ cfg.limit[m.field] \in Nat /\ v <= cfg.limit[m.field]
    BY <1>1, <2>2 DEF Fields, SessionTyped
  <2>4. w # v
    BY <1>4, <2>1, <2>3 DEF is_action_eligible, Unknown
  <2>5. Pressed(action) = [fireplace EXCEPT ![m.field] = w]
    <3>1. fireplace.power # 0 /\ fireplace.power = 1 /\ fireplace[m.field] # Unknown
      BY <1>4, <2>1, <2>3 DEF Unknown
    <3> QED  BY <1>4, <2>1, <3>1 DEF Pressed, apply_action
  <2> HIDE DEF m
  <2>6. w - v = m.by
    BY <2>2, <2>3, <2>4 DEF Within
  <2> HIDE DEF w
  <2>7. Pressed(action)[m.field] - fireplace[m.field] = m.by
    BY <1>1, <2>3, <2>5, <2>6
  <2> QED  BY <1>4, <2>7 DEF transition_accepted, m
<1> QED BY <1>2, <1>3, <1>4

LEMMA PressReports ==
  ASSUME SessionTyped, StateIsHeard, Plain(cfg), Progress, NEW command \in Commands,
         Press(command), faults' = 0
  PROVE  Progress'
<1>1. /\ todo # "none" /\ phase \in {"waiting", "next"} /\ faults \in Nat
      /\ UNCHANGED <<cfg, run, state, action, phase, rtl, lilygo, yardstick>>
  BY DEF Press, runner, collectors, SessionTyped
<1>2. phase = "waiting" /\ Unpressed
  BY <1>1 DEF Progress, Between, Reported
<1> DEFINE frame == [id |-> "remote", state |-> Pressed(command)]
<1>3. PICK block \in Printed(frame) \cup Misprinted(frame) :
        /\ todo \in Commands => command = todo
        /\ Has("rtl433") => block \in Printed(frame)
        /\ pipe' = IF Has("rtl433") THEN [pipe EXCEPT !.rtl = @ \o block] ELSE pipe
  <2> DEFINE wrong(block) == \/ todo \in Commands /\ command # todo
                             \/ Has("rtl433") /\ block \notin Printed(frame)
  <2>1. PICK block \in Printed(frame) \cup Misprinted(frame) :
          /\ faults' = IF wrong(block) THEN faults + 1 ELSE faults
          /\ pipe' = IF Has("rtl433") THEN [pipe EXCEPT !.rtl = @ \o block] ELSE pipe
    BY Zenon DEF Press
  <2>2. ~wrong(block)
    <3> HIDE DEF wrong
    <3> QED  BY <1>1, <2>1
  <2> QED  BY <2>1, <2>2
<1>4. /\ fireplace' = Pressed(command) /\ todo' = "none"
      /\ future' = IF future.state = "running" THEN [state |-> "done", result |-> frame] ELSE future
      /\ Has("lilygo") => \E kept \in SUBSET window : window' = kept \cup {frame}
  BY DEF Press
<1>5. Shown' = frame /\ Has("rtl433")' = Has("rtl433") /\ Has("lilygo")' = Has("lilygo")
      /\ Has("yardstick")' = Has("yardstick")
  BY <1>1, <1>4 DEF Shown, Has
<1>6. StateIsHeard'
  BY PressHeard
<1>7. frame \in Known
  BY <1>5, <1>6, ShownKnown DEF StateIsHeard, Shown, Known
<1>8. Tally'
  BY <1>1, <1>2 DEF Progress, Tally, SetupSamples
<1>9. ASSUME Has("rtl433") PROVE <<rtl', pipe'.rtl>> \in RtlStages(frame)
  <2> DEFINE t == [kind |-> "time", frame |-> frame]
             f == [kind |-> "fields", frame |-> frame]
             b == [kind |-> "blank", frame |-> Nothing]
  <2>1. t \in RtlLines /\ f \in RtlLines /\ b \in RtlLines
    BY <1>7 DEF RtlLines
  <2>2. Printed(frame) = {<<t, f>>, <<t, f>> \o <<b>>}
    BY DEF Printed, Whole, Blank
  <2>3. <<NewRtl, <<t, f>>>> \in RtlStages(frame) /\ <<NewRtl, <<t, f, b>>>> \in RtlStages(frame)
    BY DEF RtlStages
  <2>4. rtl' = NewRtl /\ pipe.rtl = <<>>
    BY <1>1, <1>2, <1>9 DEF Unpressed, Silent
  <2>5. pipe'.rtl = <<>> \o block
    BY <1>3, <1>9, <2>4 DEF StateIsHeard
  <2>6. block \in Printed(frame)
    BY <1>3, <1>9
  <2> HIDE DEF t, f, b, frame
  <2>7. block = <<t, f>> \/ block = <<t, f, b>>
    BY <2>1, <2>2, <2>6, ShortRests
  <2>8. pipe'.rtl = block
    BY <2>1, <2>5, <2>7, ShortRests
  <2> QED  BY <2>3, <2>4, <2>7, <2>8
<1>10. ASSUME Has("lilygo")
       PROVE  lilygo' = NewLilygo /\ pipe'.lilygo = <<>> /\ window' = {frame}
  <2>1. lilygo' = NewLilygo /\ pipe.lilygo = <<>> /\ window = {}
    BY <1>1, <1>2, <1>10 DEF Unpressed, Silent
  <2>2. window' = {frame}
    <3>1. PICK kept \in SUBSET window : window' = kept \cup {frame}
      BY <1>4, <1>10
    <3> HIDE DEF frame
    <3> QED  BY <2>1, <3>1
  <2> QED  BY <1>3, <2>1, <2>2 DEF StateIsHeard
<1>11. ASSUME Has("yardstick")
       PROVE  yardstick' = NewYardstick /\ future' = [state |-> "done", result |-> frame]
  BY <1>1, <1>2, <1>4, <1>11 DEF Unpressed
<1>12. ASSUME run.setup, Has("rtl433") PROVE transition_accepted(action, state, Pressed(command))
  <2>1. command = action /\ action \in Commands /\ Asked /\ state \in {NoState, fireplace}
    BY <1>2, <1>3, <1>12 DEF Unpressed
  <2> QED  BY <1>12, <2>1, PressMoves
<1> HIDE DEF frame
<1>13. Reported'
  <2>1. (run'.setup /\ Has("rtl433")') => transition_accepted(action', state', fireplace')
    BY <1>1, <1>4, <1>5, <1>12
  <2>2. (Has("rtl433"))' => <<rtl', pipe'.rtl>> \in RtlStages(Shown)'
    BY <1>5, <1>9
  <2> QED  BY <1>4, <1>5, <1>10, <1>11, <2>1, <2>2 DEF Reported
<1> QED BY <1>1, <1>2, <1>8, <1>13 DEF Progress

LEMMA UpTo == ASSUME NEW n \in Nat PROVE Cardinality(1..n) = n
<1>1. 1 \in Int /\ n \in Int /\ (IF 1 > n THEN 0 ELSE n - 1 + 1) = n
  OBVIOUS
<1>2. Cardinality(1..n) = IF 1 > n THEN 0 ELSE n - 1 + 1
  BY <1>1, FS_Interval, Zenon
<1> QED BY <1>1, <1>2

\* An export of which nothing is lost.
LEMMA ExportWhole ==
  ASSUME NEW frame, NEW pos, \A k \in 1..3 : pos[k] = k
  PROVE  [k \in 1..3 |-> Export(frame)[pos[k]]] = Export(frame)
<1> DEFINE e == Export(frame)
<1>1. e = [k \in 1..3 |-> e[k]]
  BY DEF Export
<1> HIDE DEF e
<1> QED BY <1>1 DEF e

LEMMA ExportSent ==
  ASSUME SessionTyped, StateIsHeard, Progress, CaptureComplete, faults' = 0
  PROVE  Progress'
<1>1. /\ Has("lilygo") /\ window # {} /\ phase \in {"waiting", "next"} /\ window' = {}
      /\ UNCHANGED <<cfg, run, state, action, phase, rtl, lilygo, yardstick, future, fireplace, todo>>
  BY DEF CaptureComplete, runner, collectors
<1>2. phase = "waiting" /\ Reported
  BY <1>1 DEF Progress, Between, Unpressed, Silent
<1>3. lilygo = NewLilygo /\ pipe.lilygo = <<>> /\ window = {Shown}
  BY <1>1, <1>2 DEF Reported
<1> DEFINE nth(k) == CHOOSE i \in 1..3 : Cardinality({j \in 1..3 : j <= i}) = k
           lines == [k \in 1..3 |-> Export(Shown)[nth(k)]]
<1>4. \A i \in 1..3 : Cardinality({j \in 1..3 : j <= i}) = i
  <2> SUFFICES ASSUME NEW i \in 1..3 PROVE Cardinality({j \in 1..3 : j <= i}) = i
    OBVIOUS
  <2>1. {j \in 1..3 : j <= i} = 1..i
    OBVIOUS
  <2>2. Cardinality(1..i) = i
    BY UpTo
  <2> QED  BY <2>1, <2>2
<1>5. \A k \in 1..3 : nth(k) = k
  BY <1>4
<1>6. pipe' = [pipe EXCEPT !.lilygo = @ \o lines]
  <2>1. PICK frame \in window, lost \in SUBSET (1..3) :
          /\ faults' = IF lost = {} THEN faults ELSE faults + 1
          /\ LET kept == {i \in 1..3 : i \notin lost}
                 line(i) == Export(frame)[i]
                 place(k) == CHOOSE i \in kept : Cardinality({j \in kept : j <= i}) = k
             IN pipe' = [pipe EXCEPT !.lilygo = @ \o [k \in 1..Cardinality(kept) |-> line(place(k))]]
    BY Zenon DEF CaptureComplete
  <2>2. lost = {}
    BY <2>1 DEF SessionTyped
  <2> DEFINE kept == {i \in 1..3 : i \notin lost}
             place(k) == CHOOSE i \in kept : Cardinality({j \in kept : j <= i}) = k
  <2>3. kept = 1..3
    BY <2>2
  <2>4. Cardinality(kept) = 3
    BY <2>3, UpTo
  <2>7. frame = Shown
    BY <1>3, <2>1
  <2>5. pipe' = [pipe EXCEPT !.lilygo = @ \o [k \in 1..Cardinality(kept) |-> Export(Shown)[place(k)]]]
    BY <2>1, <2>7
  <2> HIDE DEF kept
  <2>6. \A k : place(k) = nth(k)
    BY <2>3
  <2> HIDE DEF place, nth
  <2> QED  BY <2>4, <2>5, <2>6
<1>7. lines = Export(Shown)
  <2> DEFINE pos == [k \in 1..3 |-> nth(k)]
  <2> HIDE DEF nth
  <2>1. \A k \in 1..3 : pos[k] = k
    BY <1>5
  <2>2. lines = [k \in 1..3 |-> Export(Shown)[pos[k]]]
    OBVIOUS
  <2> HIDE DEF pos, lines
  <2>3. [k \in 1..3 |-> Export(Shown)[pos[k]]] = Export(Shown)
    BY <2>1, ExportWhole
  <2> QED  BY <2>2, <2>3
<1> HIDE DEF lines
<1>8. pipe'.lilygo = <<>> \o Export(Shown) /\ pipe'.rtl = pipe.rtl
  BY <1>3, <1>6, <1>7 DEF StateIsHeard
<1>9. pipe'.lilygo = Export(Shown)
  <2> DEFINE t == [kind |-> "begin", frame |-> Nothing]
             f == [kind |-> "chunk", frame |-> Shown]
             b == [kind |-> "end", frame |-> Nothing]
  <2>1. t \in LilygoLines /\ f \in LilygoLines /\ b \in LilygoLines
    BY ShownKnown DEF LilygoLines, Frames
  <2>2. Export(Shown) = <<t, f, b>>
    BY DEF Export
  <2> HIDE DEF t, f, b
  <2> QED  BY <1>8, <2>1, <2>2, ShortRests
<1>10. Shown' = Shown /\ \A s : Has(s)' = Has(s)
  BY <1>1 DEF Shown, Has
<1>11. <<lilygo', pipe'.lilygo>> \in LilygoStages(Shown)
  BY <1>1, <1>3, <1>9 DEF LilygoStages, Export
<1>12. Reported'
  BY <1>1, <1>2, <1>8, <1>10, <1>11 DEF Reported
<1>13. Tally'
  BY <1>1 DEF Progress, Tally, SetupSamples
<1> QED BY <1>1, <1>2, <1>12, <1>13 DEF Progress

LEMMA PolledReports ==
  ASSUME SessionTyped, StateIsHeard, Progress, PollRtl \/ PollLilygo \/ PollYardstick
  PROVE  Progress'
<1>1. /\ phase = "waiting" /\ phase' = phase
      /\ UNCHANGED <<cfg, run, state, action, fireplace, window, todo>>
  BY DEF PollRtl, PollLilygo, PollYardstick, runner, world
<1>2. Shown' = Shown /\ \A s : Has(s)' = Has(s)
  BY <1>1 DEF Shown, Has
<1>3. Tally'
  BY <1>1 DEF Progress, Tally, SetupSamples
<1>4. Unpressed \/ Reported
  BY <1>1 DEF Progress
<1>5. CASE PollRtl
  <2>1. PICK n \in 1..Len(pipe.rtl) :
          /\ Has("rtl433") /\ rtl' = ReadRtl(n) /\ pipe' = [pipe EXCEPT !.rtl = Left("rtl", n)]
          /\ UNCHANGED <<lilygo, yardstick, future>>
    BY <1>5 DEF PollRtl
  <2>2. Reported
    BY <1>4, <2>1 DEF Unpressed, Silent
  <2>3. n \in 0..Len(pipe.rtl)
    BY <2>1 DEF StateIsHeard
  <2>4. <<ReadRtl(n), Left("rtl", n)>> \in RtlStages(Shown)
    BY <2>1, <2>2, <2>3, RtlAhead DEF Reported
  <2>5. pipe'.rtl = Left("rtl", n) /\ pipe'.lilygo = pipe.lilygo
    BY <2>1 DEF StateIsHeard
  <2>6. Reported'
    BY <1>1, <1>2, <2>1, <2>2, <2>4, <2>5 DEF Reported
  <2> QED  BY <1>1, <1>3, <2>6 DEF Progress
<1>6. CASE PollLilygo
  <2>1. PICK n \in 1..Len(pipe.lilygo) :
          /\ Has("lilygo") /\ lilygo' = ReadLilygo(n) /\ pipe' = [pipe EXCEPT !.lilygo = Left("lilygo", n)]
          /\ UNCHANGED <<rtl, yardstick, future>>
    BY <1>6 DEF PollLilygo
  <2>2. pipe.lilygo # <<>>
    BY <2>1
  <2>3. Reported /\ window = {} /\ <<lilygo, pipe.lilygo>> \in LilygoStages(Shown)
    BY <1>4, <2>1, <2>2 DEF Unpressed, Silent, Reported
  <2>4. n \in 0..Len(pipe.lilygo)
    <3>1. pipe.lilygo \in Seq(LilygoLines)
      BY <2>3, ShownKnown, LilygoStagesFollow
    <3> QED  BY <2>1, <3>1
  <2>5. <<ReadLilygo(n), Left("lilygo", n)>> \in LilygoStages(Shown)
    BY <2>3, <2>4, LilygoAhead
  <2>6. pipe'.lilygo = Left("lilygo", n) /\ pipe'.rtl = pipe.rtl
    BY <2>1 DEF StateIsHeard
  <2>7. Reported'
    BY <1>1, <1>2, <2>1, <2>3, <2>5, <2>6 DEF Reported
  <2> QED  BY <1>1, <1>3, <2>7 DEF Progress
<1>7. CASE PollYardstick
  <2>1. /\ Has("yardstick") /\ yardstick' = ReadYardstick /\ ReadYardstick # yardstick /\ future' = FutureLeft
        /\ UNCHANGED <<rtl, lilygo, pipe>>
    BY <1>7 DEF PollYardstick, world
  <2>2. ~yardstick.complete /\ future.state = "done"
    BY <2>1 DEF ReadYardstick
  <2>3. Reported /\ future = [state |-> "done", result |-> Shown]
    BY <1>4, <2>1, <2>2 DEF Unpressed, Reported
  <2>4. yardstick' = [complete |-> TRUE, result |-> Shown] /\ future' = NoReceive
    BY <2>1, <2>2, <2>3 DEF ReadYardstick, FutureLeft
  <2>5. Reported'
    BY <1>1, <1>2, <2>1, <2>3, <2>4 DEF Reported
  <2> QED  BY <1>1, <1>3, <2>5 DEF Progress
<1> QED BY <1>5, <1>6, <1>7

LEMMA NothingRead ==
  ASSUME lilygo = NewLilygo, pipe.lilygo = <<>>, NEW m \in 0..Len(pipe.lilygo)
  PROVE  ReadLilygo(m) = NewLilygo
<1> DEFINE G == {<<NewLilygo, <<>>>>}
           after == <<Fed(feed_line, NewLilygo, SubSeq(<<>>, 1, m)), SubSeq(<<>>, m + 1, Len(<<>>))>>
<1>1. <<NewLilygo, <<>>>> \in Lilygos \X Seq(LilygoLines) /\ <<>> \in Seq(LilygoLines)
  <2>1. NewLilygo \in Lilygos
    BY DEF NewLilygo, Lilygos, Frames
  <2>2. <<>> \in Seq(LilygoLines)
    OBVIOUS
  <2>3. \A c \in Lilygos, s \in Seq(LilygoLines) : <<c, s>> \in Lilygos \X Seq(LilygoLines)
    OBVIOUS
  <2> QED  BY <2>1, <2>2, <2>3, Zenon
<1>2. G \in SUBSET (Lilygos \X Seq(LilygoLines)) /\ <<NewLilygo, <<>>>> \in G
  BY <1>1, Zenon
<1>3. \A g \in G : g[2] # <<>> => <<feed_line(g[1], Head(g[2])), Tail(g[2])>> \in G
  OBVIOUS
<1>4. m \in 0..Len(<<>>)
  OBVIOUS
<1>5. after \in G
  <2> HIDE DEF G
  <2> QED  BY <1>1, <1>2, <1>3, <1>4, LilygoFollowed
<1>6. Fed(feed_line, NewLilygo, SubSeq(<<>>, 1, m)) = NewLilygo
  <2>1. after = <<NewLilygo, <<>>>>
    BY <1>5
  <2> QED  BY <2>1
<1> QED BY <1>6 DEF ReadLilygo

\* A sample in which nothing goes wrong ends when every receiver has the press, and
\* with nothing of it left over.
LEMMA DecodedWhole ==
  ASSUME SessionTyped, StateIsHeard, Unpressed \/ Reported,
         NEW n \in 0..Len(pipe.rtl), NEW m \in 0..Len(pipe.lilygo),
         \/ AllComplete
         \/ /\ todo = "none" /\ n = Len(pipe.rtl) /\ m = Len(pipe.lilygo)
            /\ Has("lilygo") => LilygoResult(m).complete
            /\ Has("yardstick") => YardstickResult.complete
  PROVE  /\ Reported
         /\ IF Has("rtl433") THEN RtlResult(n).selected = Shown /\ Left("rtl", n) = <<>>
            ELSE RtlResult(n).selected = Nothing
         /\ IF Has("lilygo")
            THEN /\ LilygoResult(m).complete /\ LilygoResult(m).record = Shown
                 /\ Left("lilygo", m) = <<>> /\ window = {}
            ELSE ~LilygoResult(m).complete
         /\ IF Has("yardstick")
            THEN YardstickResult.result = Shown /\ FutureLeft.state # "running"
            ELSE YardstickResult.result = Nothing
<1>1. Reported
  <2>1. SUFFICES ASSUME Unpressed PROVE FALSE
    OBVIOUS
  <2>2. todo # "none"
    BY <2>1 DEF Unpressed, Commands, MoveCommands, Moves
  <2>3. AllComplete
    BY <2>2
  <2>4. \E s \in {"rtl433", "lilygo", "yardstick"} : Has(s)
    BY DEF SessionTyped, CommandLine, Has
  <2> QED  BY <2>1, <2>3, <2>4 DEF Unpressed, AllComplete, NewRtl, NewLilygo, NewYardstick
<1>2. Shown \in Known /\ Shown # Nothing
  BY ShownKnown
<1>3. ASSUME Has("rtl433") PROVE RtlResult(n).selected = Shown /\ Left("rtl", n) = <<>>
  <2>1. <<rtl, pipe.rtl>> \in RtlStages(Shown) /\ pipe.rtl \in Seq(RtlLines)
    BY <1>1, <1>3 DEF Reported, StateIsHeard
  <2>2. AllComplete => pipe.rtl = <<>>
    BY <1>2, <1>3, <2>1, RtlStagesEnd DEF AllComplete
  <2>3. n = Len(pipe.rtl)
    BY <2>1, <2>2
  <2>4. Left("rtl", n) = <<>>
    BY <2>1, <2>3 DEF Left
  <2>5. <<ReadRtl(n), <<>>>> \in RtlStages(Shown)
    BY <2>1, <2>4, RtlAhead
  <2>6. finalize_pending_block(ReadRtl(n)).selected = Shown
    BY <1>2, <2>5, RtlStagesEnd
  <2> QED  BY <1>3, <2>4, <2>6 DEF RtlResult
<1>4. ASSUME Has("lilygo")
      PROVE  /\ LilygoResult(m).complete /\ LilygoResult(m).record = Shown
             /\ Left("lilygo", m) = <<>> /\ window = {}
  <2> DEFINE G == LilygoStages(Shown)
  <2>1. <<lilygo, pipe.lilygo>> \in G \cup {<<NewLilygo, <<>>>>}
    BY <1>1, <1>4 DEF Reported
  <2>2. <<ReadLilygo(m), Left("lilygo", m)>> \in G \cup {<<NewLilygo, <<>>>>}
    BY <2>1, LilygoAhead
  <2>3. LilygoResult(m) = ReadLilygo(m)
    BY <1>4 DEF LilygoResult
  <2>4. AllComplete => lilygo.complete
    BY <1>4 DEF AllComplete
  <2>5. AllComplete => <<lilygo, pipe.lilygo>> \in G
    BY <2>1, <2>4 DEF NewLilygo
  <2>6. <<ReadLilygo(m), Left("lilygo", m)>> \in G
    <3>1. CASE AllComplete
      BY <2>1, <2>5, <3>1, LilygoAhead
    <3>2. CASE ~AllComplete
      <4>1. ReadLilygo(m).complete
        BY <1>4, <2>3, <3>2
      <4> QED  BY <2>2, <4>1 DEF NewLilygo
    <3> QED  BY <3>1, <3>2
  <2>7. AllComplete => pipe.lilygo = <<>> /\ lilygo = Exported(Shown)
    BY <2>4, <2>5, LilygoStagesEnd
  <2>8. ReadLilygo(m) = Exported(Shown) /\ Left("lilygo", m) = <<>>
    <3>1. CASE AllComplete
      <4>1. Left("lilygo", m) = <<>>
        BY <2>7, <3>1 DEF Left
      <4> QED  BY <2>6, <4>1, LilygoStagesEnd
    <3>2. CASE ~AllComplete
      BY <1>4, <2>3, <2>6, <3>2, LilygoStagesEnd
    <3> QED  BY <3>1, <3>2
  <2>9. window = {}
    <3>1. SUFFICES ASSUME lilygo = NewLilygo, pipe.lilygo = <<>> PROVE FALSE
      BY <1>1, <1>4 DEF Reported
    <3>2. ReadLilygo(m) = NewLilygo
      BY <3>1, NothingRead
    <3> QED  BY <2>8, <3>2 DEF NewLilygo, Exported
  <2> QED  BY <2>3, <2>8, <2>9 DEF Exported
<1>5. ASSUME Has("yardstick") PROVE YardstickResult.result = Shown /\ FutureLeft.state # "running"
  <2>1. \/ yardstick = NewYardstick /\ future = [state |-> "done", result |-> Shown]
        \/ yardstick = [complete |-> TRUE, result |-> Shown] /\ future = NoReceive
    BY <1>1, <1>5 DEF Reported
  <2> QED  BY <1>5, <2>1 DEF YardstickResult, ReadYardstick, FutureLeft, NewYardstick, NoReceive
<1>6. ~Has("rtl433") => RtlResult(n).selected = Nothing
  BY DEF RtlResult, NewRtl
<1>7. ~Has("lilygo") => ~LilygoResult(m).complete
  BY DEF LilygoResult, NewLilygo
<1>8. ~Has("yardstick") => YardstickResult.result = Nothing
  BY DEF YardstickResult, NewYardstick
<1> QED BY <1>1, <1>3, <1>4, <1>5, <1>6, <1>7, <1>8

\* The verdict on it: the setup sample settles the setup, any other one counts.
LEMMA JudgedCounts ==
  ASSUME SessionTyped, StateIsHeard, PlanInv, Plain(cfg), Progress, FinalizeSample, faults' = 0
  PROVE  Progress'
<1>1. PICK n \in 0..Len(pipe.rtl), m \in 0..Len(pipe.lilygo) :
        /\ phase = "waiting" /\ phase' = "next"
        /\ \/ AllComplete
           \/ /\ todo = "none" /\ n = Len(pipe.rtl) /\ m = Len(pipe.lilygo)
              /\ Has("lilygo") => LilygoResult(m).complete
              /\ Has("yardstick") => YardstickResult.complete
        /\ Judge(RtlResult(n).selected,
                 IF LilygoResult(m).complete THEN LilygoResult(m).record ELSE Nothing,
                 YardstickResult.result)
        /\ future' = IF Has("yardstick") THEN FutureLeft ELSE future
        /\ pipe' = [rtl |-> Left("rtl", n), lilygo |-> Left("lilygo", m)]
        /\ UNCHANGED <<cfg, action, fireplace, window, todo>>
  <2>1. faults \in Nat
    BY DEF SessionTyped
  <2> QED  BY <2>1 DEF FinalizeSample
<1> DEFINE r == RtlResult(n).selected
           l == IF LilygoResult(m).complete THEN LilygoResult(m).record ELSE Nothing
           y == YardstickResult.result
           valid == SourceValid(r, l, y)
           counts == /\ valid /\ run.setup /\ semantic_target_accepted(cfg, r)
                     /\ Canonical(r) => transition_accepted(action, state, r.state)
           settled == ~run.setup /\ valid /\ Canonical(r)
<1>2. Tally /\ (Unpressed \/ Reported)
  BY <1>1 DEF Progress
<1>3. /\ Reported
      /\ IF Has("rtl433") THEN r = Shown /\ Left("rtl", n) = <<>> ELSE r = Nothing
      /\ IF Has("lilygo") THEN l = Shown /\ Left("lilygo", m) = <<>> /\ window = {} ELSE l = Nothing
      /\ IF Has("yardstick") THEN y = Shown /\ FutureLeft.state # "running" ELSE y = Nothing
  BY <1>1, <1>2, DecodedWhole
<1>4. run' = RunAfter(r, counts, settled) /\ state' = StateAfter(r, valid)
  BY <1>1 DEF Judge
<1> HIDE DEF r, l, y
<1>5. Shown # Nothing /\ Shown.state = fireplace
  BY ShownKnown
<1>6. valid
  BY <1>3, <1>5 DEF SourceValid, LilygoMatches
<1>7. ~semantic_targets_enabled(cfg)
  BY DEF Plain, semantic_targets_enabled
<1>8. Canonical(r) <=> Has("rtl433")
  BY <1>3, <1>5, <1>7 DEF Canonical
<1>9. counts <=> run.setup
  <2>1. semantic_target_accepted(cfg, r)
    BY <1>7 DEF semantic_target_accepted
  <2>2. run.setup /\ Canonical(r) => transition_accepted(action, state, r.state)
    BY <1>3, <1>5, <1>8 DEF Reported
  <2> QED  BY <1>6, <2>1, <2>2
<1>10. settled <=> ~run.setup
  <2>1. ~run.setup => Has("rtl433")
    BY <1>2 DEF Tally, Plain, Has
  <2> QED  BY <1>6, <1>8, <2>1
<1> HIDE DEF valid, counts, settled
<1>11. /\ run'.attempts = run.attempts /\ run'.setup = TRUE
       /\ run'.valid = IF run.setup THEN run.valid + 1 ELSE run.valid
  <2> DEFINE v == IF counts THEN run.valid + 1 ELSE run.valid
             seen == IF counts /\ semantic_targets_enabled(cfg)
                     THEN [run.counts EXCEPT ![r.state] = @ + 1] ELSE run.counts
             s == run.setup \/ settled
  <2>1. run' = [run EXCEPT !.valid = v, !.counts = seen, !.setup = s]
    BY <1>4, Zenon DEF RunAfter
  <2>2. s = TRUE
    BY <1>10
  <2>3. v = IF run.setup THEN run.valid + 1 ELSE run.valid
    BY <1>9
  <2> HIDE DEF v, seen, s
  <2>4. run' = [attempts |-> run.attempts, valid |-> v, counts |-> seen, setup |-> s]
    BY <2>1 DEF PlanInv, RunShape
  <2> QED  BY <2>2, <2>3, <2>4
<1>12. Tally'
  <2>1. SetupSamples' = IF cfg.setup THEN 1 ELSE 0
    BY <1>1, <1>11 DEF SetupSamples
  <2>2. /\ run.attempts \in Nat /\ run.valid \in Nat /\ run.setup \in BOOLEAN
        /\ run.attempts = run.valid + SetupSamples + 1 /\ (~run.setup => cfg.setup /\ run.valid = 0)
    BY <1>1, <1>2 DEF Tally
  <2>3. phase' = "next" /\ run'.setup = TRUE /\ run'.attempts = run.attempts
    BY <1>1, <1>11
  <2>4. run'.valid \in Nat /\ run.attempts = run'.valid + (IF cfg.setup THEN 1 ELSE 0)
    <3>1. CASE run.setup
      <4>1. SetupSamples = (IF cfg.setup THEN 1 ELSE 0) /\ run'.valid = run.valid + 1
        BY <1>11, <3>1 DEF SetupSamples
      <4> QED  BY <2>2, <4>1
    <3>2. CASE ~run.setup
      <4>1. SetupSamples = 0 /\ run'.valid = run.valid
        BY <1>11, <3>2 DEF SetupSamples
      <4> QED  BY <2>2, <3>2, <4>1
    <3> QED  BY <3>1, <3>2
  <2> QED  BY <2>1, <2>2, <2>3, <2>4 DEF Tally
<1>13. \A s : Has(s)' = Has(s)
  BY <1>1 DEF Has
<1>14. ASSUME Has("rtl433") PROVE state' = fireplace'
  BY <1>1, <1>3, <1>4, <1>5, <1>8, <1>14 DEF StateAfter
<1>15. Between'
  BY <1>1, <1>3, <1>13, <1>14 DEF Between, Silent, Reported
<1> QED BY <1>1, <1>12, <1>15 DEF Progress

\* A session ends when its targets are reached: its attempts are not used up before.
LEMMA EndReaches ==
  ASSUME SessionTyped, PlanInv, Plain(cfg), Progress, EndSession
  PROVE  Progress'
<1>1. phase = "next" /\ ~should_continue_run /\ phase' = "ended" /\ UNCHANGED <<cfg, run>>
  BY DEF EndSession, runner
<1>2. Tally /\ run.valid \in Nat
  BY <1>1 DEF Progress, Tally
<1>3. Tally'
  BY <1>1, <1>2 DEF Tally, SetupSamples
<1>4. cfg.valid \in Int /\ cfg.attempts \in Int /\ cfg.setup \in BOOLEAN
  BY DEF SessionTyped, CommandLine
<1>5. target_reached(cfg, run) <=> run.valid >= cfg.valid
  BY DEF target_reached, Plain, semantic_targets_enabled
<1>6. (run.setup /\ target_reached(cfg, run)) \/ ~(run.attempts < cfg.attempts)
  BY <1>1 DEF should_continue_run
<1>7. ASSUME run.attempts > 0 PROVE run.setup /\ target_reached(cfg, run)
  <2>1. run.attempts = run.valid + SetupSamples /\ (~run.setup => cfg.setup /\ run.valid = 0)
    BY <1>1, <1>2 DEF Tally
  <2>2. run.setup
    BY <1>2, <1>7, <2>1 DEF SetupSamples
  <2>3. SetupSamples = IF cfg.setup THEN 1 ELSE 0
    BY <2>2 DEF SetupSamples
  <2>4. cfg.attempts >= cfg.valid + (IF cfg.setup THEN 1 ELSE 0)
    BY DEF Plain
  <2>5. ~(run.attempts < cfg.attempts) => run.valid >= cfg.valid
    BY <1>2, <1>4, <2>1, <2>3, <2>4
  <2> QED  BY <1>5, <1>6, <2>2, <2>5
<1>8. UNCHANGED target_reached(cfg, run)
  BY <1>1
<1> QED BY <1>1, <1>3, <1>7, <1>8 DEF Progress

LEMMA FaultlessStep ==
  ASSUME FaultlessInv, StateIsHeard, PlanInv, [Next]_vars
  PROVE  FaultlessInv'
<1>1. SessionTyped'
  BY TypedStep DEF FaultlessInv
<1>2. cfg' = cfg
  BY DEF Next, Runner, World, StartSession, StartRefused, PrepareSample, PollRtl, PollLilygo, PollYardstick,
         FinalizeSample, EndSession, Press, CaptureComplete, ReceiveFails, runner, vars
<1>3. SUFFICES ASSUME faults' = 0, Plain(cfg') PROVE Progress'
  BY <1>1 DEF FaultlessInv
<1>4. SessionTyped /\ faults \in Nat /\ Plain(cfg)
  BY <1>2, <1>3 DEF FaultlessInv, SessionTyped
<1>5. faults = 0
  <2>1. ASSUME NEW c, Press(c) PROVE faults' \in {faults, faults + 1}
    BY <2>1 DEF Press
  <2>2. ASSUME FinalizeSample \/ CaptureComplete \/ ReceiveFails PROVE faults' \in {faults, faults + 1}
    BY <2>2 DEF FinalizeSample, CaptureComplete, ReceiveFails
  <2>3. ASSUME \/ StartSession \/ StartRefused \/ PrepareSample \/ PollRtl \/ PollLilygo \/ PollYardstick
               \/ EndSession \/ UNCHANGED vars
        PROVE  faults' = faults
    BY <2>3 DEF StartSession, StartRefused, PrepareSample, PollRtl, PollLilygo, PollYardstick, EndSession, vars
  <2> QED  BY <1>3, <1>4, <2>1, <2>2, <2>3 DEF Next, Runner, World
<1>6. Progress
  BY <1>4, <1>5 DEF FaultlessInv
<1>7. CASE StartSession
  <2>1. /\ phase = "start" /\ phase' = "next"
        /\ UNCHANGED <<cfg, run, state, pipe, fireplace, window, todo, future>>
    BY <1>7 DEF StartSession, runner, world
  <2>2. Tally' /\ Between'
    BY <1>6, <2>1 DEF Progress, Tally, SetupSamples, Between, Silent, Has
  <2> QED  BY <2>1, <2>2 DEF Progress
<1>8. CASE StartRefused
  <2>1. phase = "start" /\ phase' = "ended" /\ UNCHANGED <<cfg, run>>
    BY <1>8 DEF StartRefused, runner
  <2>2. run'.attempts = 0
    BY <1>4, <2>1 DEF SessionTyped
  <2>3. Tally'
    BY <1>6, <2>1 DEF Progress, Tally, SetupSamples
  <2> QED  BY <2>1, <2>2, <2>3 DEF Progress
<1>9. CASE UNCHANGED vars
  <2>1. UNCHANGED <<cfg, phase, run, state, action, rtl, lilygo, yardstick, future, pipe, fireplace, window, todo>>
    BY <1>9 DEF vars, runner, collectors, world
  <2> QED  BY <1>6, <2>1 DEF Progress, Tally, SetupSamples, Between, Silent, Unpressed, Asked, Reported, Shown, Has
<1>10. ~ReceiveFails
  BY <1>3, <1>4 DEF ReceiveFails
<1> QED BY <1>3, <1>4, <1>6, <1>7, <1>8, <1>9, <1>10, PreparedAsks, PolledReports, JudgedCounts, EndReaches,
           PressReports, ExportSent DEF Next, Runner, World

\* A session that counts valid samples ends, if nothing goes wrong, with all of them and
\* with its setup done (run, should_continue_run, _choose_next_action), whatever its
\* commands, the limits of the levels, the state the fireplace starts in, the order in
\* which the receivers report and how much is read at a time.
THEOREM PlainSessionsReach == Spec => [](Plain(cfg) => FaultlessSessionReaches)
<1> DEFINE I == FaultlessInv /\ StateIsHeard /\ PlanInv
<1>1. Init => I
  BY FaultlessStart, HeardStart, PlanStart
<1>2. I /\ [Next]_vars => I'
  BY FaultlessStep, HeardKept, EveryStep
<1>3. I => (Plain(cfg) => FaultlessSessionReaches)
  BY DEF FaultlessInv, Progress, FaultlessSessionReaches
<1> HIDE DEF I
<1> QED BY <1>1, <1>2, <1>3, PTL DEF Spec
=============================================================================
