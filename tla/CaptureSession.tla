---------------------------- MODULE CaptureSession ----------------------------
\* A prompt-driven capture session (tools/proflame_capture): the runner asks the
\* operator for one press of the remote after the other; rtl_433, the LilyGO's
\* FIFO export and the YARD Stick report it, each in its own time; the runner
\* reads them until all are complete or the sample times out, judges the sample
\* and goes on until its targets are reached or its attempts used up.
\* Frames, blocks and exports are the state they carry.
EXTENDS CapturePlanner

CONSTANTS Configs,     \* the command lines a session is started with
          MaxFaults    \* bound: presses, reports and reads that go wrong

\* The command lines main accepts; a state target names all the fields.
CommandLine(c) ==
  /\ c.sources # {} /\ c.sources \subseteq {"rtl433", "lilygo", "yardstick"}
  /\ c.commands \in Seq(Commands) \ {<<>>} /\ c.plan \in Seq(Commands)
  /\ c.valid \in Int /\ c.attempts \in Int /\ c.setup \in BOOLEAN
  /\ c.limit \in [Fields -> Nat] /\ \A t \in Targets(c) : DOMAIN t = Fields

ASSUME CaptureAssumption == MaxFaults \in Nat /\ \A c \in Configs : CommandLine(c)

VARIABLES
  cfg,      \* CaptureSessionConfig and the collectors selected
  phase,    \* where the runner is
  run,      \* _RunState: attempts, valid samples, counts per target, setup done
  state,    \* the fireplace's state as the runner knows it
  planner,  \* ActionPlanner
  action,   \* the command of the sample under way
  rtl,      \* Rtl433CollectorState
  lilygo,   \* LilyGoParserState
  yardstick,\* YardStickCollectorState
  future,   \* the YARD Stick's receive on its own thread
  pipe,     \* what rtl_433 and the LilyGO have written and nobody has read
  fireplace,\* the state of the real fireplace
  window,   \* the presses that the LilyGO's rolling FIFO still holds
  todo,     \* the press the operator still owes
  owner,    \* who holds the lock of the rtl_433 receiver
  heard,    \* history: the last state a sample decoded
  faults    \* how often something went wrong

runner == <<cfg, run, state, planner, action, heard>>
collectors == <<rtl, lilygo, yardstick>>
world == <<pipe, fireplace, window, todo>>
vars == <<runner, phase, collectors, future, world, owner, faults>>

Nothing == [id |-> "none", state |-> NoState]
Has(source) == source \in cfg.sources

\* start_sample of the three collectors: everything of the last sample is gone.
NewRtl       == [pending |-> Nothing, whole |-> FALSE, selected |-> Nothing]
NewLilygo    == [probe |-> Nothing, record |-> Nothing, complete |-> FALSE]
NewYardstick == [complete |-> FALSE, result |-> Nothing]
NoReceive    == [state |-> "none", result |-> Nothing]

Init ==
  /\ cfg \in Configs
  /\ phase = "start"
  /\ run = [attempts |-> 0, valid |-> 0, counts |-> [t \in Targets(cfg) |-> 0], setup |-> ~cfg.setup]
  /\ state = NoState /\ planner = [next |-> 0, plan |-> 0] /\ action = "none"
  /\ rtl = NewRtl /\ lilygo = NewLilygo /\ yardstick = NewYardstick /\ future = NoReceive
  /\ pipe = [rtl |-> <<>>, lilygo |-> <<>>]
  /\ fireplace \in {s \in [Fields -> 0..6] : \A f \in Fields : s[f] <= cfg.limit[f]}
  /\ window = {} /\ todo = "none" /\ heard = NoState /\ faults = 0
  /\ owner \in {"nobody", "other"}

-----------------------------------------------------------------------------
\* The collectors.

\* _finalize_pending_block and _select_candidate: the first whole block counts.
finalize_pending_block(c) ==
  [c EXCEPT !.pending = Nothing, !.whole = FALSE,
            !.selected = IF @ = Nothing /\ c.whole THEN c.pending ELSE @]

\* _feed_stdout_line: a block runs from its time line to the next, or to a blank
\* line; lines outside a block are dropped. The fields complete it, whichever
\* press they are of: the decode is theirs, not the time line's.
feed_stdout_line(c, line) ==
  IF line.kind = "blank" THEN finalize_pending_block(c)
  ELSE IF line.kind = "time" THEN [finalize_pending_block(c) EXCEPT !.pending = line.frame]
  ELSE IF c.pending = Nothing THEN c
  ELSE [c EXCEPT !.pending = line.frame, !.whole = TRUE]

\* _feed_line: an export runs from begin to end; what comes without its begin is
\* taken up all the same. The end completes the sample, with or without a frame.
feed_line(c, line) ==
  CASE line.kind = "begin" -> [c EXCEPT !.probe = Nothing]
    [] line.kind = "chunk" -> [c EXCEPT !.probe = IF @ = Nothing THEN line.frame ELSE @]
    [] line.kind = "end"   -> [c EXCEPT !.record = c.probe, !.probe = Nothing, !.complete = TRUE]

Fed(feed(_, _), c, lines) ==
  LET f[i \in 0..Len(lines)] == IF i = 0 THEN c ELSE feed(f[i - 1], lines[i]) IN f[Len(lines)]

\* recv_lines returns what has arrived so far: the first n lines.
ReadRtl(n) == Fed(feed_stdout_line, rtl, SubSeq(pipe.rtl, 1, n))
ReadLilygo(n) == Fed(feed_line, lilygo, SubSeq(pipe.lilygo, 1, n))
Left(source, n) == SubSeq(pipe[source], n + 1, Len(pipe[source]))

\* poll of the YARD Stick's collector: the result of a receive that is done.
ReadYardstick == IF ~yardstick.complete /\ future.state = "done"
                 THEN [complete |-> TRUE, result |-> future.result] ELSE yardstick
FutureLeft == IF ~yardstick.complete /\ future.state = "done" THEN NoReceive ELSE future

\* begin_sample: refused while the receive of an earlier sample is still running;
\* the refusal completes the sample without a result.
BeginYardstick == IF future.state = "running" THEN [complete |-> TRUE, result |-> Nothing]
                  ELSE NewYardstick
Begun == IF ~Has("yardstick") \/ future.state = "running" THEN future
         ELSE [state |-> "running", result |-> Nothing]

AllComplete ==
  /\ Has("rtl433") => rtl.selected # Nothing
  /\ Has("lilygo") => lilygo.complete
  /\ Has("yardstick") => yardstick.complete

-----------------------------------------------------------------------------
\* The runner.

\* _start_collectors_for_session, with the lock of the rtl_433 receiver.
StartSession ==
  /\ phase = "start"
  /\ Has("rtl433") => owner = "nobody"
  /\ owner' = IF Has("rtl433") THEN "session" ELSE owner
  /\ phase' = "next"
  /\ UNCHANGED <<runner, collectors, future, world, faults>>

\* Rtl433OwnershipError: another session holds the receiver.
StartRefused ==
  /\ phase = "start" /\ Has("rtl433") /\ owner = "other"
  /\ phase' = "ended"
  /\ UNCHANGED <<runner, collectors, future, world, owner, faults>>

should_continue_run ==
  (~run.setup \/ ~target_reached(cfg, run)) /\ run.attempts < cfg.attempts

\* One turn of the loop of run: the next action, the collectors, the prompt.
PrepareSample ==
  /\ phase = "next" /\ should_continue_run
  /\ LET next == next_action(cfg, run, planner, state) IN
     IF run.setup THEN action' = next.command /\ planner' = next.planner
     ELSE action' = "setup_state" /\ UNCHANGED planner
  /\ run' = [run EXCEPT !.attempts = @ + 1]
  /\ rtl' = NewRtl /\ lilygo' = NewLilygo /\ yardstick' = BeginYardstick
  /\ future' = Begun
  /\ todo' = action'
  /\ phase' = "waiting"
  /\ UNCHANGED <<cfg, state, heard, pipe, fireplace, window, owner, faults>>

\* _wait_for_collectors polls each collector that is not complete.
PollRtl == \E n \in 1..Len(pipe.rtl) :
  /\ phase = "waiting" /\ Has("rtl433") /\ rtl.selected = Nothing
  /\ rtl' = ReadRtl(n) /\ pipe' = [pipe EXCEPT !.rtl = Left("rtl", n)]
  /\ UNCHANGED <<runner, phase, lilygo, yardstick, future, fireplace, window, todo, owner, faults>>

PollLilygo == \E n \in 1..Len(pipe.lilygo) :
  /\ phase = "waiting" /\ Has("lilygo") /\ ~lilygo.complete
  /\ lilygo' = ReadLilygo(n) /\ pipe' = [pipe EXCEPT !.lilygo = Left("lilygo", n)]
  /\ UNCHANGED <<runner, phase, rtl, yardstick, future, fireplace, window, todo, owner, faults>>

PollYardstick ==
  /\ phase = "waiting" /\ Has("yardstick") /\ ReadYardstick # yardstick
  /\ yardstick' = ReadYardstick /\ future' = FutureLeft
  /\ UNCHANGED <<runner, phase, rtl, lilygo, world, owner, faults>>

\* _lilygo_result: the export of the LilyGO, where there is one, carries the same
\* words as the decode of rtl_433.
LilygoMatches(r, l) == l # Nothing /\ r # Nothing => l = r

\* build_quick_validation over the live sources: each complete with a decode.
SourceValid(r, l, y) ==
  /\ Has("rtl433") => r # Nothing
  /\ Has("lilygo") => l # Nothing
  /\ Has("yardstick") => y # Nothing
  /\ LilygoMatches(r, l)

\* _canonical_state_from_collector_results.
Canonical(r) == r # Nothing /\ (semantic_targets_enabled(cfg) => r.id = cfg.expected)

\* A rejected sample whose decode is forgotten.
StateAfter_rejected_kept(r, valid) ==
  IF ~valid THEN state
  ELSE IF r # Nothing THEN r.state ELSE apply_action(cfg, state, action)

\* _resolve_state_after_sample: the canonical decode; else what quick validation
\* proposes, which is any decode of a valid sample; else the command's effect.
StateAfter(r, valid) ==
  IF Canonical(r) \/ (valid /\ r # Nothing) THEN r.state
  ELSE IF valid THEN apply_action(cfg, state, action)
  ELSE IF semantic_targets_enabled(cfg) THEN NoState ELSE state

\* A planner that hears of it before the command is compared with the decode.
PlannerAfter_when_valid(valid, counts) ==
  IF valid THEN record_valid_action(cfg, planner, action) ELSE planner

\* The planner hears of a sample that counts.
PlannerAfter(valid, counts) ==
  IF counts THEN record_valid_action(cfg, planner, action) ELSE planner

\* _record_sample_evaluation and _resolve_state_after_sample: what the run counts.
RunAfter(r, counts, settled) ==
  LET seen == [run.counts EXCEPT ![r.state] = @ + 1] IN
  [run EXCEPT !.valid  = IF counts THEN @ + 1 ELSE @,
              !.counts = IF counts /\ semantic_targets_enabled(cfg) THEN seen ELSE @,
              !.setup  = @ \/ settled]

\* _finalize_sample, for the decodes r, l and y.
Judge(r, l, y) ==
  LET valid   == SourceValid(r, l, y)
      setup   == ~run.setup
      counts  == /\ valid /\ ~setup /\ semantic_target_accepted(cfg, r)
                 /\ Canonical(r) => transition_accepted(action, state, r.state)
  IN  /\ run' = RunAfter(r, counts, setup /\ valid /\ Canonical(r))
      /\ planner' = PlannerAfter(valid, counts)
      /\ state' = StateAfter(r, valid)
      /\ heard' = IF r # Nothing THEN r.state ELSE heard

\* finalize_sample of the three collectors reads once more; that of rtl_433 closes
\* the block that is still open.
RtlResult(n)    == IF Has("rtl433") THEN finalize_pending_block(ReadRtl(n)) ELSE NewRtl
LilygoResult(m) == IF Has("lilygo") THEN ReadLilygo(m) ELSE NewLilygo
YardstickResult == IF Has("yardstick") THEN ReadYardstick ELSE NewYardstick

\* The sample ends: every source has reported, or it timed out (too early is a
\* fault).
FinalizeSample == \E n \in 0..Len(pipe.rtl), m \in 0..Len(pipe.lilygo) :
  LET r == RtlResult(n)
      l == LilygoResult(m)
      y == YardstickResult
      reported == /\ todo = "none" /\ n = Len(pipe.rtl) /\ m = Len(pipe.lilygo)
                  /\ Has("lilygo") => l.complete
                  /\ Has("yardstick") => y.complete
      inTime == AllComplete \/ reported
  IN
  /\ phase = "waiting"
  /\ inTime \/ faults < MaxFaults
  /\ faults' = IF inTime THEN faults ELSE faults + 1
  /\ Judge(r.selected, IF l.complete THEN l.record ELSE Nothing, y.result)
  /\ rtl' = r /\ lilygo' = l /\ yardstick' = y
  /\ future' = IF Has("yardstick") THEN FutureLeft ELSE future
  /\ pipe' = [rtl |-> Left("rtl", n), lilygo |-> Left("lilygo", m)]
  /\ phase' = "next"
  /\ UNCHANGED <<cfg, action, fireplace, window, todo, owner>>

\* The summary, and main's finally clause: every collector is closed.
EndSession ==
  /\ phase = "next" /\ ~should_continue_run
  /\ phase' = "ended"
  /\ owner' = IF owner = "session" THEN "nobody" ELSE owner
  /\ future' = NoReceive
  /\ UNCHANGED <<runner, collectors, world, faults>>

-----------------------------------------------------------------------------
\* The operator, the remote and the receivers.

\* What a press does to the fireplace: a command without effect changes nothing.
Pressed(command) ==
  IF fireplace.power = 0 /\ command # "power_toggle" THEN fireplace
  ELSE apply_action(cfg, fireplace, command)

\* rtl_433 prints a block, or a part of it, or nothing.
Whole(frame)  == <<[kind |-> "time", frame |-> frame], [kind |-> "fields", frame |-> frame]>>
Blank         == <<[kind |-> "blank", frame |-> Nothing]>>
Printed(frame) == {Whole(frame), Whole(frame) \o Blank}
Misprinted(frame) == {<<>>, SubSeq(Whole(frame), 1, 1), SubSeq(Whole(frame), 2, 2)}

\* The operator presses the button asked for, or (a fault) another one. The
\* LilyGO's FIFO window keeps its last six seconds: some earlier presses or none.
Press(command) ==
  LET frame == [id |-> "remote", state |-> Pressed(command)]
      wrong(block) == \/ todo \in Commands /\ command # todo
                      \/ Has("rtl433") /\ block \notin Printed(frame)
  IN
  /\ todo # "none" /\ phase \in {"waiting", "next"}
  /\ \E block \in Printed(frame) \cup Misprinted(frame) :
       /\ wrong(block) => faults < MaxFaults
       /\ faults' = IF wrong(block) THEN faults + 1 ELSE faults
       /\ pipe' = IF Has("rtl433") THEN [pipe EXCEPT !.rtl = @ \o block] ELSE pipe
  /\ \E kept \in SUBSET window : window' = IF Has("lilygo") THEN kept \cup {frame} ELSE {}
  /\ fireplace' = Pressed(command) /\ todo' = "none"
  /\ future' = IF future.state = "running" THEN [state |-> "done", result |-> frame] ELSE future
  /\ UNCHANGED <<runner, phase, collectors, owner>>

\* The operator presses "RX FIFO Capture Complete": the window is exported over
\* UDP, where a line may be lost, and reset (outside active listening, which has
\* exports of its own). Of several presses in it any may be the best candidate.
Export(frame) == <<[kind |-> "begin", frame |-> Nothing],
                   [kind |-> "chunk", frame |-> frame],
                   [kind |-> "end",   frame |-> Nothing]>>

CaptureComplete == \E frame \in window, lost \in SUBSET (1..3) :
  /\ Has("lilygo") /\ phase \in {"waiting", "next"}
  /\ Cardinality(lost) <= 1
  /\ lost # {} => faults < MaxFaults
  /\ faults' = IF lost = {} THEN faults ELSE faults + 1
  /\ LET kept == {i \in 1..3 : i \notin lost}
         line(i) == Export(frame)[i]
         nth(k) == CHOOSE i \in kept : Cardinality({j \in kept : j <= i}) = k
     IN pipe' = [pipe EXCEPT !.lilygo = @ \o [k \in 1..Cardinality(kept) |-> line(nth(k))]]
  /\ window' = {}
  /\ UNCHANGED <<runner, phase, collectors, future, fireplace, todo, owner>>

\* A receive of the YARD Stick ends without a decode, by itself or by its limit.
ReceiveFails ==
  /\ future.state = "running" /\ faults < MaxFaults
  /\ future' = [state |-> "done", result |-> Nothing] /\ faults' = faults + 1
  /\ UNCHANGED <<runner, phase, collectors, world, owner>>

Runner == \/ StartSession \/ StartRefused \/ PrepareSample
          \/ PollRtl \/ PollLilygo \/ PollYardstick \/ FinalizeSample \/ EndSession
World  == (\E c \in Commands : Press(c)) \/ CaptureComplete \/ ReceiveFails
Next == Runner \/ World
Spec == Init /\ [][Next]_vars

-----------------------------------------------------------------------------

\* A sample that counts shows the command it was asked for: it starts from the
\* state rtl_433 decoded last, in whatever sample that was, and whichever samples
\* were rejected since; what both receivers decoded is one step away from it.
Counted == run'.valid > run.valid
CountedStepsAreSeen == [][
  Counted /\ Has("rtl433") =>
    /\ state # NoState => state = heard
    /\ state # NoState /\ action \in MoveCommands =>
         LET m == Moves[action] IN heard'[m.field] = heard[m.field] + m.by
    /\ state # NoState /\ action = "power_toggle" => heard'.power # heard.power
    /\ Has("lilygo") => lilygo'.record.state = heard']_vars

\* "Repeatable exact valid-sample action sequence. Invalid attempts retry the
\* current planned action." (run_capture_session.py)
PlanIsFollowed == [][
  Counted /\ cfg.plan # <<>> /\ ~semantic_targets_enabled(cfg) =>
    action = cfg.plan[IF run.valid < Len(cfg.plan) THEN run.valid + 1 ELSE Len(cfg.plan)]]_vars

\* A session in which nothing goes wrong reaches its targets within its attempts:
\* the actions chosen lead there from any state (_choose_next_action). A command
\* sequence is left out: it may ask for what the fireplace cannot do.
FaultlessSessionReaches ==
  phase = "ended" /\ faults = 0 /\ run.attempts > 0 /\ cfg.plan = <<>> =>
    run.setup /\ target_reached(cfg, run)
=============================================================================
