----------------------------- MODULE ConfigFlow -----------------------------
(***************************************************************************)
(* The configuration flow of the integration (config_flow.py) and the      *)
(* guided-learning session it drives (learning.py): one flow object, the   *)
(* radio sessions it starts, and its three ways to an entry.               *)
(*                                                                         *)
(* Home Assistant runs one step of a flow at a time.  A step awaits        *)
(* (`at') while the capture task and background closes go on, and the user *)
(* may close the dialog at any moment, which does not stop the step.       *)
(***************************************************************************)
EXTENDS ProfileLearning

CONSTANTS
  Setups,         \* [controller, link] the setup forms may submit
  EsphomeEntries,  \* ESPHome entries a LilyGO controller may be linked to
  Batches,         \* pasted rtl_433 texts: sequences of legacy packets
  ManualProfiles,  \* [remote, profile] typed by hand
  Sessions,        \* ids of radio sessions
  Existing,        \* entries that may exist when the flow starts, their frames forgotten
  MaxRows          \* bound: accepted rtl_433 rows

NoSession == 0
NoChoice  == [controller |-> "none", link |-> ""]

ASSUME FlowAssumption ==
  /\ Setups \subseteq [controller : {"yardstick", "lilygo"}, link : EsphomeEntries \cup {""}]
  /\ Sessions = 1..Cardinality(Sessions)
  /\ Batches \subseteq Seq({p \in Packets : ~is_extended(p)})
  /\ \A e \in Existing : e.proof = {}
  /\ MaxRows \in Nat

VARIABLES
  step,         \* the form, menu or progress Home Assistant shows or calls next
  at,           \* what the running step awaits
  then,         \* the step a disposal is followed by
  learn_input, rtl433_input, pending,  \* the submitted choices
  learn_result,
  learn_session,\* the session of the flow, or NoSession
  learn_task,   \* the capture task: none, listening or its outcome
  prompt_index,
  diagnostic,   \* _extended_diagnostic_active
  log_task,     \* _extended_diagnostic_task: none, running or raised
  rows,         \* accepted rtl_433 rows
  heard,        \* the fields of the LearnSession
  radio,        \* backend of each session
  closers,      \* sessions being closed in the background
  entries,
  evidence,     \* history: the packets behind learn_result
  orphans       \* history: sessions nobody will close

inputVars   == <<learn_input, rtl433_input, pending>>
sessionVars == <<learn_session, radio, closers, orphans>>
taskVars    == <<learn_task, prompt_index, diagnostic, heard>>
vars == <<step, at, then, inputVars, learn_result, sessionVars, taskVars, log_task, rows,
          entries, evidence>>

Steps == {"user", "manual", "manual_esphome", "learn", "learn_esphome", "prompt", "progress",
          "features", "failed", "rtl433", "rtl433_esphome", "rtl433_prompt", "power_off", "over"}
Outcomes == {"packet", "inconsistent", "timeout", "raised"}

LEARN_PROMPTS == <<"power_on", "power_off", "restore_power_on", "flame_down">>
EXTENDED_DIAGNOSTIC_PROMPTS == 4
RESTORE_PROMPT_LABELS == {"restore_power_on"}

\* A fresh LearnSession; valid counts packets up to the number that is enough.
NewSession == [packets |-> <<>>, remote |-> <<>>, valid |-> 0, records |-> FALSE]

FlowTypeOK ==
  /\ step \in Steps
  /\ at \in {"idle", "disposing", "starting", "prompting"}
  /\ then \in {"start", "features", "failed"}
  /\ {learn_input, rtl433_input, pending}
       \subseteq [controller : {"none", "yardstick", "lilygo"}, link : EsphomeEntries \cup {""}]
  /\ learn_result.status \in Statuses
  /\ learn_session \in Sessions \cup {NoSession}
  /\ learn_task \in {"none", "listening"} \cup Outcomes
  /\ prompt_index \in 0..Len(LEARN_PROMPTS)
  /\ diagnostic \in BOOLEAN
  /\ log_task \in {"none", "running", "raised"}
  /\ ToSet(rows) \subseteq Packets /\ Len(rows) <= MaxRows
  /\ ToSet(heard.packets) \subseteq Packets /\ heard.valid \in 0..MIN_VALID_PACKETS
  /\ radio \in [Sessions -> {"unused", "opening", "open", "closed"}]
  /\ closers \subseteq Sessions /\ orphans \subseteq Sessions
  /\ evidence \subseteq Packets

Init ==
  /\ step = "user" /\ at = "idle" /\ then = "start"
  /\ learn_input = NoChoice /\ rtl433_input = NoChoice /\ pending = NoChoice
  /\ learn_result = Result("none")
  /\ learn_session = NoSession /\ learn_task = "none"
  /\ prompt_index = 0 /\ diagnostic = FALSE /\ log_task = "none"
  /\ rows = <<>> /\ heard = NewSession
  /\ radio = [s \in Sessions |-> "unused"]
  /\ closers = {} /\ orphans = {}
  /\ entries \in SUBSET Existing /\ evidence = {}

LinkOk(c) == c.controller # "lilygo" \/ c.link \in EsphomeEntries

Showing(s) == step = s /\ at = "idle"

Opening(s) == radio[s] = "opening"

-----------------------------------------------------------------------------
\* Entries.

entry_exists(c, remote) ==
  \E e \in entries :
    /\ e.controller = c.controller /\ e.remote = remote
    /\ c.controller = "lilygo" => e.link = c.link

\* The flow ends with an entry, or aborts because the remote is configured.
CreateEntry(c, remote, profile, proof) ==
  /\ step' = "over"
  /\ entries' = IF entry_exists(c, remote) THEN entries
                ELSE entries \cup {[controller |-> c.controller, link |-> c.link,
                                    remote |-> remote, profile |-> profile, proof |-> proof]}

-----------------------------------------------------------------------------
\* The menus and the manual path.

\* The user picks from the first menu or from the one shown after a failure.
Menu(choice) ==
  /\ Showing("user") \/ Showing("failed")
  /\ choice \in {"manual", "rtl433"} \cup (IF step = "user" THEN {"learn"} ELSE {})
  /\ step' = choice
  /\ UNCHANGED <<at, then, inputVars, learn_result, sessionVars, taskVars, log_task, rows,
                 entries, evidence>>

async_step_manual(c, m) ==
  /\ Showing("manual")
  /\ IF LinkOk(c) THEN CreateEntry(c, m.remote, m.profile, {}) /\ UNCHANGED pending
     ELSE step' = "manual_esphome" /\ pending' = c /\ UNCHANGED entries
  /\ UNCHANGED <<at, then, learn_input, rtl433_input, learn_result, sessionVars, taskVars,
                 log_task, rows, evidence>>

async_step_manual_esphome(link, m) ==
  /\ Showing("manual_esphome")
  /\ pending' = [pending EXCEPT !.link = link]
  /\ IF LinkOk(pending') THEN CreateEntry(pending', m.remote, m.profile, {})
     ELSE UNCHANGED <<step, entries>>
  /\ UNCHANGED <<at, then, learn_input, rtl433_input, learn_result, sessionVars, taskVars,
                 log_task, rows, evidence>>

-----------------------------------------------------------------------------
\* The sessions of guided learning.

\* Mutant: the flow forgets its session before the close, which may raise.
DisposeThen_forgets(next) ==
  /\ at' = "disposing" /\ then' = next
  /\ learn_session' = NoSession
  /\ UNCHANGED radio

\* _async_dispose_learning_session, awaited before `next'.
DisposeThen(next) ==
  /\ at' = "disposing" /\ then' = next
  /\ UNCHANGED <<radio, learn_session>>

\* _async_begin_learning_from_current_input and async_step_retry_learn.
BeginLearning ==
  /\ \E s \in Sessions : radio[s] = "unused"
  /\ learn_result' = Result("none")
  /\ DisposeThen("start")

async_step_learn(c) ==
  /\ Showing("learn")
  /\ learn_input' = c
  /\ IF LinkOk(c) THEN BeginLearning /\ UNCHANGED step
     ELSE step' = "learn_esphome" /\ UNCHANGED <<at, then, learn_result, radio, learn_session>>
  /\ UNCHANGED <<rtl433_input, pending, closers, orphans, taskVars, log_task, rows, entries,
                 evidence>>

async_step_learn_esphome(link) ==
  /\ Showing("learn_esphome")
  /\ learn_input' = [learn_input EXCEPT !.link = link]
  /\ IF LinkOk(learn_input') THEN BeginLearning
     ELSE UNCHANGED <<at, then, learn_result, radio, learn_session>>
  /\ UNCHANGED <<step, rtl433_input, pending, closers, orphans, taskVars, log_task, rows,
                 entries, evidence>>

async_step_retry_learn ==
  /\ Showing("failed") /\ learn_input # NoChoice
  /\ BeginLearning
  /\ UNCHANGED <<step, inputVars, closers, orphans, taskVars, log_task, rows, entries, evidence>>

\* The log of the diagnostic prompts has been enabled, or that raised; the task
\* is awaited by the next prompt and by a disposal, and raises there again.
LogAwaited(ok) ==
  /\ at \in {"prompting", "disposing"}
  /\ log_task # "none" /\ (log_task = "raised" => ~ok)
  /\ log_task' = IF ok THEN "none" ELSE "raised"
  /\ at' = IF ok THEN at ELSE "idle"
  /\ UNCHANGED <<step, then, inputVars, learn_result, sessionVars, taskVars, rows, entries,
                 evidence>>

Over == step = "over"

\* The session has been closed, or its close raised and the flow keeps it.
Disposed(closed) ==
  /\ at = "disposing" /\ log_task = "none"
  /\ learn_session = NoSession => closed
  /\ IF ~closed THEN at' = "idle" /\ UNCHANGED <<step, radio, learn_session, heard>>
     ELSE LET kept == IF learn_session = NoSession THEN radio
                      ELSE [radio EXCEPT ![learn_session] = "closed"]
              new  == CHOOSE s \in Sessions : radio[s] = "unused"
          IN /\ learn_session' = NoSession /\ heard' = NewSession
             /\ IF then = "start"
                  THEN at' = "starting" /\ radio' = [kept EXCEPT ![new] = "opening"]
                       /\ UNCHANGED step
                  ELSE at' = "idle" /\ radio' = kept /\ step' = IF Over THEN step ELSE then
  /\ UNCHANGED <<then, inputVars, learn_result, closers, orphans, learn_task, prompt_index,
                 diagnostic, log_task, rows, entries, evidence>>

\* The backend is connected and set to listen, and the first prompt starts.  A
\* flow that was closed meanwhile goes on all the same.
Started(s) ==
  /\ at = "starting" /\ Opening(s)
  /\ radio' = [radio EXCEPT ![s] = "open"]
  /\ learn_session' = s
  /\ orphans' = IF Over THEN orphans \cup {s} ELSE orphans
  /\ heard' = NewSession
  /\ prompt_index' = 0 /\ diagnostic' = FALSE /\ log_task' = "none"
  /\ learn_task' = "listening"
  /\ step' = IF Over THEN step ELSE "progress"
  /\ at' = "idle"
  /\ UNCHANGED <<then, inputVars, learn_result, closers, rows, entries, evidence>>

\* Only the unavailability of a YARD Stick becomes a failure of the flow.
StartUnavailable(s) ==
  /\ at = "starting" /\ Opening(s) /\ learn_input.controller = "yardstick"
  /\ radio' = [radio EXCEPT ![s] = "closed"]
  /\ learn_result' = Result("unavailable")
  /\ step' = IF Over THEN step ELSE "failed"
  /\ at' = "idle"
  /\ UNCHANGED <<then, inputVars, learn_session, closers, orphans, taskVars, log_task, rows,
                 entries, evidence>>

\* Any other error leaves the step, before the backend is connected or after:
\* listening and learning mode are set outside the try.
StartRaises(s, connected) ==
  /\ at = "starting" /\ Opening(s)
  /\ radio' = [radio EXCEPT ![s] = IF connected THEN "open" ELSE "closed"]
  /\ orphans' = IF connected THEN orphans \cup {s} ELSE orphans
  /\ at' = "idle"
  /\ UNCHANGED <<step, then, inputVars, learn_result, learn_session, closers, taskVars, log_task,
                 rows, entries, evidence>>

-----------------------------------------------------------------------------
\* The capture task, async_capture_next_learning_packet.

PromptLabel == IF diagnostic \/ prompt_index >= Len(LEARN_PROMPTS) THEN "other"
               ELSE LEARN_PROMPTS[prompt_index + 1]

\* What the session knows once p has been received.
Observed(p) ==
  [heard EXCEPT !.valid = IF @ < MIN_VALID_PACKETS THEN @ + 1 ELSE @,
                !.remote = IF @ = <<>> THEN p.remote ELSE @,
                !.records = @ \/ (is_extended(p) /\ learn_input.controller = "lilygo")]

\* The first packet of a session decides which remote it learns.
RemoteIsConsistent(p) == p.remote = Observed(p).remote

Seen(p) == p \in ToSet(heard.packets)

\* The task waits on after a duplicate, but for the prompt that restores the power.
SeenFrame == IF PromptLabel \in RESTORE_PROMPT_LABELS THEN "packet" ELSE "listening"

\* A new frame is kept and returned; the task raises if its status cannot be
\* published.
Accepted(p, published) ==
  /\ heard' = [Observed(p) EXCEPT !.packets = Append(@, p)]
  /\ learn_task' = IF published THEN "packet" ELSE "raised"

Hear(p, published) ==
  /\ learn_task = "listening"
  /\ IF RemoteIsConsistent(p) /\ ~Seen(p) THEN Accepted(p, published)
     ELSE /\ heard' = Observed(p)
          /\ learn_task' = IF RemoteIsConsistent(p) THEN SeenFrame ELSE "inconsistent"
  /\ UNCHANGED <<step, at, then, inputVars, learn_result, sessionVars, prompt_index, diagnostic,
                 log_task, rows, entries, evidence>>

\* Mutant: a receive that times out is tried again for ever.
CaptureEnds_tries_again(outcome) ==
  /\ learn_task = "listening"
  /\ outcome \in {"timeout", "raised"}
  /\ learn_task' = IF outcome = "timeout" THEN "listening" ELSE outcome
  /\ UNCHANGED <<step, at, then, inputVars, learn_result, sessionVars, prompt_index, diagnostic,
                 heard, log_task, rows, entries, evidence>>

\* The prompt times out, or the backend raises.
CaptureEnds(outcome) ==
  /\ learn_task = "listening"
  /\ outcome \in {"timeout", "raised"}
  /\ learn_task' = outcome
  /\ UNCHANGED <<step, at, then, inputVars, learn_result, sessionVars, prompt_index, diagnostic,
                 heard, log_task, rows, entries, evidence>>

\* async_step_learn_prompt: the next capture, after the log has been enabled.
async_step_learn_prompt ==
  /\ \/ Showing("prompt")
     \/ at = "prompting" /\ log_task = "none"
  /\ IF at = "idle" /\ log_task # "none" THEN at' = "prompting" /\ UNCHANGED <<step, learn_task>>
     ELSE IF learn_session = NoSession THEN at' = "idle" /\ UNCHANGED <<step, learn_task>>
     ELSE at' = "idle" /\ step' = "progress" /\ learn_task' = "listening"
  /\ UNCHANGED <<then, inputVars, learn_result, sessionVars, prompt_index, diagnostic, heard,
                 log_task, rows, entries, evidence>>

-----------------------------------------------------------------------------
\* async_step_learn_progress: what the outcome of a capture leads to.

ProgressOf(outcomes) ==
  /\ Showing("progress") /\ learn_task \in outcomes
  /\ learn_task' = "none"
  /\ UNCHANGED <<inputVars, closers, orphans, heard, rows, entries>>

EndsWith(result, next) == learn_result' = result /\ DisposeThen(next)

CaptureFailed ==
  /\ ProgressOf({"timeout", "inconsistent"})
  /\ EndsWith(Result(learn_task), "failed")
  /\ UNCHANGED <<step, prompt_index, diagnostic, log_task, evidence>>

NextPrompt == IF prompt_index < Len(LEARN_PROMPTS) THEN prompt_index + 1 ELSE prompt_index

DiagnosticPacket ==
  /\ ProgressOf({"packet"}) /\ diagnostic
  /\ prompt_index' = NextPrompt
  /\ IF NextPrompt < EXTENDED_DIAGNOSTIC_PROMPTS
       THEN step' = "prompt" /\ UNCHANGED <<learn_result, at, then, radio, learn_session>>
       ELSE EndsWith(Result("diagnostic"), "failed") /\ UNCHANGED step
  /\ UNCHANGED <<diagnostic, log_task, evidence>>

LearnedPacket ==
  LET maybe == derive_learn_result_from_session(heard.packets, heard.valid, heard.remote)
  IN /\ ProgressOf({"packet"}) /\ ~diagnostic
     /\ \/ /\ maybe.status = "none"
           /\ step' = "prompt" /\ prompt_index' = NextPrompt
           /\ UNCHANGED <<learn_result, at, then, radio, learn_session, diagnostic, log_task,
                          evidence>>
        \/ /\ maybe.status = "contradictory" /\ heard.records
           /\ step' = "prompt" /\ prompt_index' = 0
           /\ diagnostic' = TRUE /\ log_task' = "running"
           /\ UNCHANGED <<learn_result, at, then, radio, learn_session, evidence>>
        \/ /\ maybe.status = "learned" \/ (maybe.status = "contradictory" /\ ~heard.records)
           /\ EndsWith(maybe, IF maybe.status = "learned" THEN "features" ELSE "failed")
           /\ prompt_index' = NextPrompt
           /\ evidence' = ToSet(heard.packets)
           /\ UNCHANGED <<step, diagnostic, log_task>>

\* The step is called again after its disposal raised: the task is gone.
ProgressLost ==
  /\ Showing("progress") /\ learn_task = "none"
  /\ step' = "learn"
  /\ UNCHANGED <<at, then, inputVars, learn_result, sessionVars, taskVars, log_task, rows, entries,
                 evidence>>

Progress == CaptureFailed \/ DiagnosticPacket \/ LearnedPacket \/ ProgressLost

async_step_learn_features ==
  /\ Showing("features")
  /\ CreateEntry(learn_input, learn_result.remote, learn_result.profile, evidence)
  /\ UNCHANGED <<at, then, inputVars, learn_result, sessionVars, taskVars, log_task, rows,
                 evidence>>

-----------------------------------------------------------------------------
\* Pasted rtl_433 rows.

async_step_manual_rtl433(c) ==
  /\ Showing("rtl433")
  /\ rtl433_input' = [c EXCEPT !.link = ""]
  /\ rows' = <<>>
  /\ step' = IF c.controller = "lilygo" THEN "rtl433_esphome" ELSE "rtl433_prompt"
  /\ UNCHANGED <<at, then, learn_input, pending, learn_result, sessionVars, taskVars, log_task,
                 entries, evidence>>

async_step_manual_rtl433_esphome(link) ==
  /\ Showing("rtl433_esphome")
  /\ rtl433_input' = [rtl433_input EXCEPT !.link = link]
  /\ step' = IF LinkOk(rtl433_input') THEN "rtl433_prompt" ELSE step
  /\ UNCHANGED <<at, then, learn_input, pending, learn_result, sessionVars, taskVars, log_task,
                 rows, entries, evidence>>

\* Mutant: pasted rows are kept without being validated with the earlier ones.
async_step_manual_rtl433_prompt_unchecked(batch) ==
  LET updated == rows \o batch
      maybe   == try_build_manual_rtl433_learn_result(updated)
  IN /\ Showing("rtl433_prompt")
     /\ Len(updated) <= MaxRows /\ RowsAccepted(batch)
     /\ rows' = updated
     /\ IF maybe.status = "learned"
          THEN /\ learn_result' = maybe /\ learn_input' = rtl433_input
               /\ evidence' = ToSet(updated) /\ step' = "power_off"
          ELSE UNCHANGED <<learn_result, learn_input, evidence, step>>
     /\ UNCHANGED <<at, then, rtl433_input, pending, sessionVars, taskVars, log_task, entries>>

\* A batch that is refused leaves the rows as they are.
async_step_manual_rtl433_prompt(batch) ==
  LET updated == rows \o batch
      maybe   == try_build_manual_rtl433_learn_result(updated)
  IN /\ Showing("rtl433_prompt")
     /\ Len(updated) <= MaxRows /\ RowsAccepted(updated)
     /\ rows' = updated
     /\ IF maybe.status = "learned"
          THEN /\ learn_result' = maybe /\ learn_input' = rtl433_input
               /\ evidence' = ToSet(updated) /\ step' = "power_off"
          ELSE UNCHANGED <<learn_result, learn_input, evidence, step>>
     /\ UNCHANGED <<at, then, rtl433_input, pending, sessionVars, taskVars, log_task, entries>>

async_step_manual_rtl433_power_off ==
  /\ Showing("power_off")
  /\ step' = "features"
  /\ UNCHANGED <<at, then, inputVars, learn_result, sessionVars, taskVars, log_task, rows, entries,
                 evidence>>

-----------------------------------------------------------------------------
\* The dialog is closed.

\* Mutant: the background close is forgotten.
async_remove_no_close ==
  /\ ~Over
  /\ step' = "over"
  /\ learn_task' = IF learn_task = "listening" THEN "none" ELSE learn_task
  /\ learn_session' = NoSession /\ heard' = NewSession
  /\ UNCHANGED <<at, then, inputVars, learn_result, radio, closers, orphans, prompt_index,
                 diagnostic, log_task, rows, entries, evidence>>

\* async_remove cancels the capture and closes the session of the flow, but not
\* a step that is still running.
async_remove ==
  /\ ~Over
  /\ step' = "over"
  /\ learn_task' = IF learn_task = "listening" THEN "none" ELSE learn_task
  /\ closers' = IF learn_session = NoSession THEN closers ELSE closers \cup {learn_session}
  /\ learn_session' = NoSession /\ heard' = NewSession
  /\ UNCHANGED <<at, then, inputVars, learn_result, radio, orphans, prompt_index, diagnostic,
                 log_task, rows, entries, evidence>>

\* async_close_learning_session in the background; nobody retries one that raises.
BackgroundClosed(s, closed) ==
  /\ s \in closers
  /\ closers' = closers \ {s}
  /\ radio' = IF closed THEN [radio EXCEPT ![s] = "closed"] ELSE radio
  /\ orphans' = IF closed THEN orphans ELSE orphans \cup {s}
  /\ UNCHANGED <<step, at, then, inputVars, learn_result, learn_session, taskVars, log_task, rows,
                 entries, evidence>>

Starts == \E s \in Sessions : Started(s) \/ StartUnavailable(s) \/ \E b \in BOOLEAN : StartRaises(s, b)
Disposal == \E b \in BOOLEAN : LogAwaited(b) \/ Disposed(b)
BackgroundCloses == \E s \in Sessions, b \in BOOLEAN : BackgroundClosed(s, b)
PromptTimeout == CaptureEnds("timeout")

Next ==
  \/ \E c \in {"manual", "rtl433", "learn"} : Menu(c)
  \/ \E c \in Setups, m \in ManualProfiles : async_step_manual(c, m)
  \/ \E l \in EsphomeEntries \cup {""}, m \in ManualProfiles : async_step_manual_esphome(l, m)
  \/ \E c \in Setups : async_step_learn(c) \/ async_step_manual_rtl433(c)
  \/ \E l \in EsphomeEntries \cup {""} :
       async_step_learn_esphome(l) \/ async_step_manual_rtl433_esphome(l)
  \/ async_step_retry_learn \/ Disposal \/ Starts
  \/ \E p \in Packets, b \in BOOLEAN : Hear(p, b)
  \/ CaptureEnds("timeout") \/ CaptureEnds("raised")
  \/ async_step_learn_prompt \/ Progress \/ async_step_learn_features
  \/ \E b \in Batches : async_step_manual_rtl433_prompt(b)
  \/ async_step_manual_rtl433_power_off
  \/ async_remove \/ BackgroundCloses

\* Awaits of the event loop end; the frontend calls the step that a progress or
\* a next step asks for; a prompt times out unless its task ends before.
Fairness ==
  /\ WF_vars(Disposal) /\ WF_vars(Starts) /\ WF_vars(BackgroundCloses)
  /\ WF_vars(PromptTimeout)
  /\ WF_vars(async_step_learn_prompt) /\ WF_vars(Progress)

Spec == Init /\ [][Next]_vars /\ Fairness

-----------------------------------------------------------------------------

Explains(profile, p) ==
  IF is_extended(p)
    THEN p.cmd1 % 4 = 1 => profile = <<128 * (p.cmd1 \div 128), p.err1, p.extension[1]>>
    ELSE p.err1 = err1_for(p.cmd1, profile) /\ p.err2 = err2_for(p.cmd2, profile)

\* The profile of a learned entry explains every packet it was learned from, and
\* all of them came from the remote of the entry: nothing of an earlier attempt,
\* another remote or a refused paste gets into it (derive_learn_result_from_session,
\* _validate_manual_rtl433_samples).
EntryIsProven == \A e \in entries : \A p \in e.proof :
  p.remote = e.remote /\ Explains(e.profile, p)

\* Learning without prompts and learning from pasted rows prove a profile from the
\* same legacy frames only if it explains every frame heard until then, damaged
\* ones too, of one remote (async_learn_remote_profile,
\* _try_build_manual_rtl433_learn_result).
LearningIsProven ==
  LET frames   == heard.packets
      Proves(r, n) == \A i \in 1..n : frames[i].remote = r.remote /\ Explains(r.profile, frames[i])
      stream == async_learn_remote_profile(frames)
      pasted == try_build_manual_rtl433_learn_result(frames)
  IN frames # <<>> /\ (\A p \in ToSet(frames) : ~is_extended(p)) =>
       /\ stream.status = "learned" => \E n \in MIN_VALID_PACKETS..Len(frames) : Proves(stream, n)
       /\ RowsAccepted(frames) /\ pasted.status = "learned" => Proves(pasted, Len(frames))

\* No open radio is lost: the flow has its session, a background close has it, or
\* it is one of those nobody will close, because the flow was closed while it
\* started, or its start or its background close raised (_learn_session,
\* async_remove, async_close_learning_session).
RadioIsHeld == \A s \in Sessions :
  radio[s] = "open" => s = learn_session \/ s \in closers \/ s \in orphans

\* A radio that the flow opened is closed once the flow is over, unless
\* it is one of those (async_remove, _async_dispose_learning_session).
RadioIsReleased == \A s \in Sessions :
  (Over /\ radio[s] = "open") ~> (radio[s] = "closed" \/ s \in orphans)

\* Guided learning ends with a profile or a failure menu whatever is heard: extra
\* prompts go on only while new frames come, unless the capture or the diagnostic
\* log raises, which leaves the flow to the user (async_step_learn_progress).
LearningEnds == (step \in {"prompt", "progress"}) ~>
  (step \notin {"prompt", "progress"} \/ learn_task = "raised" \/ log_task = "raised")

=============================================================================
