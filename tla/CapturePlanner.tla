---------------------------- MODULE CapturePlanner ----------------------------
\* What a capture session asks of its operator and how it judges an answer: the
\* planner (tools/proflame_capture/planner.py) and the semantic targets and the
\* transition check of the runner (runner.py). A session's configuration is a
\* record cfg; a state of the fireplace is a record of numbers or Unknown.
EXTENDS Integers, Sequences, FiniteSets

Unknown == -1
Fields  == {"power", "flame", "fan"}
NoState == [f \in Fields |-> Unknown]

\* The command that moves a level, and by how much.
Moves == [flame_up   |-> [field |-> "flame", by |-> 1],
          flame_down |-> [field |-> "flame", by |-> -1],
          fan_up     |-> [field |-> "fan",   by |-> 1],
          fan_down   |-> [field |-> "fan",   by |-> -1]]
MoveCommands == DOMAIN Moves
Commands     == MoveCommands \cup {"power_toggle"}

Enabled(cfg) == {cfg.commands[i] : i \in DOMAIN cfg.commands}
Within(cfg, field, v) == IF v < 0 THEN 0 ELSE IF v > cfg.limit[field] THEN cfg.limit[field] ELSE v

\* _is_action_eligible, of a state with the power on.
is_action_eligible(cfg, state, command) ==
  \/ command = "power_toggle"
  \/ LET m == Moves[command] IN
       \/ state[m.field] = Unknown
       \/ Within(cfg, m.field, state[m.field] + m.by) # state[m.field]

\* choose_next_action: the planned command, else the power, else the next
\* eligible command of the rotation; the planner remembers where it stands.
Choice(planner, command) == [command |-> command, planner |-> planner]

Rotated(cfg, planner, eligible) ==
  LET n      == Len(cfg.commands)
      at(o)  == ((planner.next + o) % n) + 1
      offset == CHOOSE o \in 0..(n - 1) :
                  /\ cfg.commands[at(o)] \in eligible
                  /\ \A p \in 0..(o - 1) : cfg.commands[at(p)] \notin eligible
  IN  Choice([planner EXCEPT !.next = at(offset) % n], cfg.commands[at(offset)])

choose_next_action(cfg, planner, state) ==
  IF cfg.plan # <<>>
  THEN Choice(planner, cfg.plan[IF planner.plan < Len(cfg.plan) THEN planner.plan + 1 ELSE Len(cfg.plan)])
  ELSE IF state.power # 1
  THEN Choice(planner, IF "power_toggle" \in Enabled(cfg) THEN "power_toggle" ELSE Head(cfg.commands))
  ELSE LET eligible == {c \in Enabled(cfg) : is_action_eligible(cfg, state, c)}
       IN  IF eligible = {} THEN Choice(planner, Head(cfg.commands)) ELSE Rotated(cfg, planner, eligible)

\* record_valid_action: the plan advances when its command was carried out.
record_valid_action(cfg, planner, command) ==
  IF planner.plan < Len(cfg.plan) /\ command = cfg.plan[planner.plan + 1]
  THEN [planner EXCEPT !.plan = @ + 1] ELSE planner

\* apply_action: the state after a command, where no decode tells it.
apply_action(cfg, state, command) ==
  IF command = "power_toggle" THEN [state EXCEPT !["power"] = IF @ = 1 THEN 0 ELSE 1]
  ELSE IF state.power # 1 \/ command \notin MoveCommands \/ state[Moves[command].field] = Unknown THEN state
  ELSE LET m == Moves[command] IN [state EXCEPT ![m.field] = Within(cfg, m.field, @ + m.by)]

-----------------------------------------------------------------------------

\* Semantic targets: states of which each is to be seen a number of times.
Targets(cfg) == {cfg.targets[i] : i \in DOMAIN cfg.targets}
semantic_targets_enabled(cfg) == cfg.targets # <<>>
semantic_target_goal(cfg) == IF cfg.replicates > 0 THEN cfg.replicates ELSE 1

target_reached(cfg, run) ==
  IF semantic_targets_enabled(cfg)
  THEN \A t \in Targets(cfg) : run.counts[t] >= semantic_target_goal(cfg)
  ELSE run.valid >= cfg.valid

\* The comparison with the target the wrong way round.
TowardTarget_reversed(cfg, state, target) ==
  IF state.power # Unknown /\ state.power # target.power THEN <<"power_toggle">>
  ELSE IF state.power = 0 THEN <<>>
  ELSE SelectSeq(<<"flame_up", "flame_down", "fan_up", "fan_down">>,
                 LAMBDA c : /\ state[Moves[c].field] # Unknown /\ c \in Enabled(cfg)
                            /\ Moves[c].by * (target[Moves[c].field] - state[Moves[c].field]) < 0)

\* _action_toward_state_target: the commands that lead toward target, best first.
TowardTarget(cfg, state, target) ==
  LET toward(field, command) ==
        /\ state[field] # Unknown /\ command \in Enabled(cfg)
        /\ Moves[command].by * (target[field] - state[field]) > 0
      power == /\ state.power # Unknown /\ state.power # target.power
               /\ "power_toggle" \in Enabled(cfg)
  IN  IF power THEN <<"power_toggle">>
      ELSE IF state.power = 0 THEN <<>>
      ELSE SelectSeq(<<"flame_up", "flame_down", "fan_up", "fan_down">>,
                     LAMBDA c : toward(Moves[c].field, c))

\* _choose_semantic_target_action and _choose_next_action.
next_action(cfg, run, planner, state) ==
  LET wants(t)  == run.counts[t] < semantic_target_goal(cfg) /\ TowardTarget(cfg, state, t) # <<>>
      open      == IF semantic_targets_enabled(cfg) THEN SelectSeq(cfg.targets, wants) ELSE <<>>
  IN  IF open # <<>> THEN Choice(planner, Head(TowardTarget(cfg, state, Head(open))))
      ELSE choose_next_action(cfg, planner, state)

\* _evaluate_semantic_target: the decode of a valid sample is one of the targets.
semantic_target_accepted(cfg, decode) ==
  \/ ~semantic_targets_enabled(cfg)
  \/ decode.id = cfg.expected /\ decode.state \in Targets(cfg)

\* _evaluate_requested_action_transition: what is known of the states before and
\* after does not contradict the command.
transition_accepted(command, before, after) ==
  /\ command = "power_toggle" =>
       before.power = Unknown \/ after.power = Unknown \/ after.power # before.power
  /\ command \in MoveCommands =>
       LET m == Moves[command] IN
       \/ before[m.field] = Unknown \/ after[m.field] = Unknown
       \/ after[m.field] - before[m.field] = m.by
=============================================================================
