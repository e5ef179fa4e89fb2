--------------------------- MODULE ProflameControl ---------------------------
(***************************************************************************)
(* The control core of one configured fireplace: the runtime entry of      *)
(* runtime.py and the asyncio tasks of services.py that share it.          *)
(*                                                                         *)
(* Every task runs on one event loop, so an action is the code between two *)
(* suspension points (Home Assistant starts its tasks eagerly, so creating *)
(* one runs it up to its first suspension).  Task.cancel() only marks the  *)
(* task; CancelledError reaches it when it is next resumed.                *)
(*                                                                         *)
(* snd    the sending tasks: debounced sends (timer included) and the      *)
(*        service or button calls that send directly                       *)
(* cnf    the post-TX confirmation tasks                                   *)
(* lst    the active listener                                              *)
(* Senders and Confirmers are pools of task slots; their sizes bound how   *)
(* many tasks are alive at once.                                           *)
(***************************************************************************)
EXTENDS FireplaceState

CONSTANTS
  Senders, Confirmers,   \* task slots
  NoTask, NoState,       \* None
  Extended,              \* the frames of the remote have ten words
  Initial,               \* states in the record that setup restores
  Edits,                 \* changes the switch and number entities make
  Requests, Profiles,    \* data of set_state calls, saved profiles
  Packets,               \* states of frames other transmitters send
  CanConfirm,            \* answers of _should_start_confirmation: the window is
                         \* positive and the backend can receive at the moment
  CallersCancel,         \* a service caller can be cancelled (script restart)
  ReceiveFails           \* backend.receive or the display push can raise

ASSUME TaskAssumption ==
  /\ NoTask \notin Senders \cup Confirmers
  /\ NoState \notin FireplaceStates
  /\ CanConfirm \subseteq BOOLEAN /\ CanConfirm # {}
  /\ {Extended, CallersCancel, ReceiveFails} \subseteq BOOLEAN

\* The state that the frame of s carries: state_from_frame reads no cpi from a
\* frame of ten words.
Carried(s) == IF Extended THEN [s EXCEPT !.level["cpi"] = 0] ELSE s

ASSUME InputAssumption ==
  /\ \A c \in Edits : IsEdit(c)
  /\ \A d \in Requests \cup Profiles : IsData(d)
  /\ \A s \in Initial \cup Packets : s \in FireplaceStates /\ validate_observed(s)
  /\ \A p \in Packets : Carried(p) = p

VARIABLES
  current,      \* runtime_current_state: the state of last_packet
  confidence,   \* state_confidence
  profile,      \* active_profile_state, NoState when no profile is active
  desired,      \* desired_state
  status,       \* operational_status
  sending,      \* sending_in_progress
  cache,        \* this entry's record in runtime_state_cache
  debounceTask, activeSend, confirmTask,  \* the task references of the entry
  listening,    \* active_listening_enabled
  shutdown,     \* "no", "closing" (shutting_down), "closed" (backend closed)
  snd, cnf, lst

entry == <<current, confidence, profile, desired, status, sending, cache>>
refs  == <<debounceTask, activeSend, confirmTask>>
vars  == <<entry, refs, listening, shutdown, snd, cnf, lst>>

States   == FireplaceStates
Statuses == {"ready", "pending", "sending", "confirming", "failed"}
Confidences == {"restored", "requested", "observed"}
Sources  == {"debounced_control", "homeassistant_service", "saved_profile"}

SendTasks    == [pc : {"idle", "sleep", "stop_rx", "tx", "persist"},
                 req : States \cup {NoState}, source : Sources, cancel : BOOLEAN]
ConfirmTasks == [pc : {"idle", "recv", "persist", "finally"},
                 req : States \cup {NoState}, cancel : BOOLEAN]
Listener     == [pc : {"off", "recv", "apply"}, cancel : BOOLEAN]
Records      == [state : States, confidence : Confidences, profiled : BOOLEAN]

NoSend    == [pc |-> "idle", req |-> NoState, source |-> "debounced_control", cancel |-> FALSE]
NoConfirm == [pc |-> "idle", req |-> NoState, cancel |-> FALSE]

TypeOK ==
  /\ current \in States
  /\ confidence \in Confidences
  /\ profile \in States \cup {NoState}
  /\ desired \in States \cup {NoState}
  /\ status \in Statuses
  /\ sending \in BOOLEAN
  /\ cache \in Records
  /\ debounceTask \in Senders \cup {NoTask}
  /\ activeSend \in Senders \cup {NoTask}
  /\ confirmTask \in Confirmers \cup {NoTask}
  /\ listening \in BOOLEAN
  /\ shutdown \in {"no", "closing", "closed"}
  /\ snd \in [Senders -> SendTasks]
  /\ cnf \in [Confirmers -> ConfirmTasks]
  /\ lst \in Listener

\* Setup has restored the entry from its record, or bootstrapped it with a record of
\* its own, and started the listener if the option asks for it.  The state is that
\* of the frame in the record, an active profile the state in it.
Init ==
  /\ cache \in [state : Initial, confidence : Confidences, profiled : BOOLEAN]
  /\ current = Carried(cache.state)
  /\ confidence = cache.confidence
  /\ profile = IF cache.profiled THEN cache.state ELSE NoState
  /\ desired = NoState
  /\ status = "ready"
  /\ sending = FALSE
  /\ debounceTask = NoTask /\ activeSend = NoTask /\ confirmTask = NoTask
  /\ listening \in BOOLEAN
  /\ shutdown = "no"
  /\ snd = [s \in Senders |-> NoSend]
  /\ cnf = [c \in Confirmers |-> NoConfirm]
  /\ lst = [pc |-> IF listening THEN "recv" ELSE "off", cancel |-> FALSE]

-----------------------------------------------------------------------------
\* Shared steps of the handlers.

\* Task.cancel() on the task a reference names; a finished task is left alone.
Cancel(tasks, t) ==
  IF t = NoTask \/ tasks[t].pc = "idle" THEN tasks ELSE [tasks EXCEPT ![t].cancel = TRUE]

\* async_set_runtime_current_state up to the write to storage: the record
\* enters the cache in the same segment.
SetCurrent(state, conf) ==
  /\ current' = state
  /\ confidence' = conf
  /\ cache' = [state |-> state, confidence |-> conf, profiled |-> profile' # NoState]

\* Mutant: the profile survives a state that differs from it.
clear_active_profile_never(state) == profile' = profile

clear_active_profile_if_state_differs(state) ==
  profile' = IF profile = state THEN profile ELSE NoState

\* The finally clause of _async_debounce_send_task; direct calls are never named
\* by the two references.
EndSend(s) ==
  /\ snd' = [snd EXCEPT ![s] = NoSend]
  /\ debounceTask' = IF debounceTask = s THEN NoTask ELSE debounceTask
  /\ activeSend' = IF activeSend = s THEN NoTask ELSE activeSend

-----------------------------------------------------------------------------
\* async_stage_control_change: an edit made with a switch or number entity.

Staged(c) == build_staged_state(IF desired # NoState THEN desired ELSE current, c)

CanStage(c) ==
  /\ shutdown = "no"
  /\ StageAccepted(IF desired # NoState THEN desired ELSE current, c)

DropPending ==
  /\ desired' = NoState
  /\ status' = "ready"
  /\ snd' = Cancel(snd, debounceTask)
  /\ debounceTask' = NoTask

StageMatchesCurrent(c) ==
  /\ CanStage(c)
  /\ Staged(c) = current
  /\ clear_active_profile_if_state_differs(Staged(c))
  /\ DropPending
  /\ UNCHANGED <<current, confidence, sending, cache, activeSend, confirmTask,
                 listening, shutdown, cnf, lst>>

\* A feature edit of a fireplace that is off is kept without a transmission.
StageRetainedOff(c) ==
  /\ CanStage(c)
  /\ Staged(c) # current
  /\ ~current.power /\ ~Staged(c).power /\ DOMAIN c \subseteq Features
  /\ clear_active_profile_if_state_differs(Staged(c))
  /\ DropPending
  /\ SetCurrent(Staged(c), "requested")
  /\ UNCHANGED <<sending, activeSend, confirmTask, listening, shutdown, cnf, lst>>

\* Mutant: the timer of the previous edit is not cancelled.
StagePending_timer_kept(c, s) ==
  /\ CanStage(c)
  /\ Staged(c) # current
  /\ current.power \/ Staged(c).power \/ ~(DOMAIN c \subseteq Features)
  /\ snd[s].pc = "idle"
  /\ clear_active_profile_if_state_differs(Staged(c))
  /\ desired' = Staged(c)
  /\ status' = "pending"
  /\ snd' = [snd EXCEPT ![s] = [NoSend EXCEPT !.pc = "sleep"]]
  /\ debounceTask' = s
  /\ UNCHANGED <<current, confidence, sending, cache, activeSend, confirmTask,
                 listening, shutdown, cnf, lst>>

\* Any other edit becomes the desired state and restarts the debounce timer.
StagePending(c, s) ==
  /\ CanStage(c)
  /\ Staged(c) # current
  /\ current.power \/ Staged(c).power \/ ~(DOMAIN c \subseteq Features)
  /\ snd[s].pc = "idle"
  /\ clear_active_profile_if_state_differs(Staged(c))
  /\ desired' = Staged(c)
  /\ status' = "pending"
  /\ snd' = [Cancel(snd, debounceTask) EXCEPT
               ![s] = [NoSend EXCEPT !.pc = "sleep"]]
  /\ debounceTask' = s
  /\ UNCHANGED <<current, confidence, sending, cache, activeSend, confirmTask,
                 listening, shutdown, cnf, lst>>

Stage == \E c \in Edits : \/ StageMatchesCurrent(c)
                          \/ StageRetainedOff(c)
                          \/ \E s \in Senders : StagePending(c, s)

-----------------------------------------------------------------------------
\* The send path.

\* _async_begin_send_execution up to its call of stop_rx: the timer and the
\* confirmation task are cancelled and both references are dropped.
BeginSend(s, timer, state, source) ==
  /\ snd' = [Cancel(snd, timer) EXCEPT
               ![s] = [pc |-> "stop_rx", req |-> state, source |-> source, cancel |-> FALSE]]
  /\ cnf' = Cancel(cnf, confirmTask)
  /\ debounceTask' = NoTask
  /\ confirmTask' = NoTask
  /\ UNCHANGED <<entry, listening, shutdown, lst>>

\* The timer fires.  The task stops being the debounce task before it begins
\* the send, so that it does not cancel itself.
DebounceFires(s) ==
  /\ snd[s].pc = "sleep" /\ ~snd[s].cancel
  /\ desired # NoState
  /\ shutdown = "no"
  /\ BeginSend(s, NoTask, desired, "debounced_control")
  /\ activeSend' = s

\* The timer fires after something else took the desired state away.
DebounceFindsNothing(s) ==
  /\ snd[s].pc = "sleep" /\ ~snd[s].cancel
  /\ desired = NoState
  /\ EndSend(s)
  /\ UNCHANGED <<entry, confirmTask, listening, shutdown, cnf, lst>>

\* async_execute_set_state for a service call.
ServiceSetState(s, data) ==
  /\ shutdown = "no"
  /\ snd[s].pc = "idle"
  /\ RequestAccepted(data)
  /\ BeginSend(s, debounceTask, build_requested_state(data), "homeassistant_service")
  /\ UNCHANGED activeSend

\* async_execute_apply_profile for a service call or a profile button.
ApplyProfile(s, data) ==
  /\ shutdown = "no"
  /\ snd[s].pc = "idle"
  /\ RequestAccepted(data)
  /\ BeginSend(s, debounceTask, build_requested_state(data), "saved_profile")
  /\ UNCHANGED activeSend

\* stop_rx has returned (it swallows its own errors); the packet is built and
\* handed to the backend.
StopRxDone(s) ==
  /\ snd[s].pc = "stop_rx" /\ ~snd[s].cancel
  /\ sending' = TRUE
  /\ status' = "sending"
  /\ snd' = [snd EXCEPT ![s].pc = "tx"]
  /\ UNCHANGED <<current, confidence, profile, desired, cache, refs, listening, shutdown, cnf, lst>>

\* Mutant: what is staged by now is recorded instead of what was sent.
TxOk_records_desired(s) ==
  /\ snd[s].pc = "tx" /\ ~snd[s].cancel
  /\ sending' = FALSE
  /\ profile' = NoState
  /\ SetCurrent(IF desired # NoState THEN desired ELSE snd[s].req, "requested")
  /\ snd' = [snd EXCEPT ![s].pc = "persist"]
  /\ UNCHANGED <<desired, status, refs, listening, shutdown, cnf, lst>>

\* _async_record_successful_send up to the storage write.
TxOk(s) ==
  /\ snd[s].pc = "tx" /\ ~snd[s].cancel
  /\ sending' = FALSE
  /\ profile' = IF snd[s].source = "saved_profile" THEN snd[s].req ELSE NoState
  /\ SetCurrent(snd[s].req, "requested")
  /\ snd' = [snd EXCEPT ![s].pc = "persist"]
  /\ UNCHANGED <<desired, status, refs, listening, shutdown, cnf, lst>>

\* Mutants: a failed send leaves the flag, or the status, as it was.
MarkSendFailed_flag_left ==
  /\ status' = "failed"
  /\ desired' = NoState
  /\ UNCHANGED <<sending, current, confidence, profile, cache>>

MarkSendFailed_status_left ==
  /\ sending' = FALSE
  /\ desired' = NoState
  /\ UNCHANGED <<status, current, confidence, profile, cache>>

MarkSendFailed ==
  /\ sending' = FALSE
  /\ status' = "failed"
  /\ desired' = NoState
  /\ UNCHANGED <<current, confidence, profile, cache>>

\* The backend raises, or its answer takes longer than the send timeout.
TxFails(s) ==
  /\ snd[s].pc = "tx" /\ ~snd[s].cancel
  /\ MarkSendFailed
  /\ EndSend(s)
  /\ UNCHANGED <<confirmTask, listening, shutdown, cnf, lst>>

\* Mutant: the staged state outlives its send.
PersistDone_keeps_desired(s) ==
  /\ snd[s].pc = "persist" /\ ~snd[s].cancel
  /\ EndSend(s)
  /\ UNCHANGED <<desired, current, profile, sending, listening, shutdown>>

\* The storage write has returned: the staged state is dropped and the entry
\* waits for confirmation by the active listener, by a confirmation task, or
\* not at all.
PersistDone(s) ==
  /\ snd[s].pc = "persist" /\ ~snd[s].cancel
  /\ desired' = NoState
  /\ EndSend(s)
  /\ UNCHANGED <<current, profile, sending, listening, shutdown>>

ResumeListening(s) ==
  /\ listening
  /\ PersistDone(s)
  /\ status' = "confirming"
  /\ lst' = IF lst.pc = "off" THEN [pc |-> "recv", cancel |-> FALSE] ELSE lst
  /\ UNCHANGED <<confidence, cache, confirmTask, cnf>>

StartConfirmation(s, c) ==
  /\ ~listening /\ TRUE \in CanConfirm
  /\ shutdown = "no"
  /\ cnf[c].pc = "idle"
  /\ PersistDone(s)
  /\ status' = "confirming"
  /\ cnf' = [cnf EXCEPT ![c] = [pc |-> "recv", req |-> snd[s].req, cancel |-> FALSE]]
  /\ confirmTask' = c
  /\ UNCHANGED <<confidence, cache, lst>>

\* A send that outlives the unload still starts its confirmation task, which
\* sees shutting_down at once and falls through to the expired branch.
StartExpiredConfirmation(s, c) ==
  /\ ~listening /\ TRUE \in CanConfirm
  /\ shutdown # "no"
  /\ cnf[c].pc = "idle"
  /\ PersistDone(s)
  /\ status' = "ready"
  /\ confidence' = "requested"
  /\ cache' = [state |-> current, confidence |-> "requested", profiled |-> profile # NoState]
  /\ cnf' = [cnf EXCEPT ![c] = [NoConfirm EXCEPT !.pc = "persist"]]
  /\ confirmTask' = c
  /\ UNCHANGED lst

\* Mutant: nothing replaces the sending status.
FinishWithoutConfirmation_status_left(s) ==
  /\ ~listening /\ FALSE \in CanConfirm
  /\ PersistDone(s)
  /\ UNCHANGED <<status, confidence, cache, confirmTask, cnf, lst>>

FinishWithoutConfirmation(s) ==
  /\ ~listening /\ FALSE \in CanConfirm
  /\ PersistDone(s)
  /\ status' = "ready"
  /\ UNCHANGED <<confidence, cache, confirmTask, cnf, lst>>

\* CancelledError reaches a sending task.  Only the await of the transmission
\* has a handler for it.
SendCancelled(s) ==
  /\ snd[s].pc # "idle" /\ snd[s].cancel
  /\ IF snd[s].pc = "tx" THEN MarkSendFailed ELSE UNCHANGED entry
  /\ EndSend(s)
  /\ UNCHANGED <<confirmTask, listening, shutdown, cnf, lst>>

\* The caller of a service is cancelled, and the send runs in its task.
CallerCancels(s) ==
  /\ CallersCancel
  /\ snd[s].source # "debounced_control"
  /\ snd[s].pc # "idle" /\ ~snd[s].cancel
  /\ snd' = [snd EXCEPT ![s].cancel = TRUE]
  /\ UNCHANGED <<entry, refs, listening, shutdown, cnf, lst>>

-----------------------------------------------------------------------------
\* async_apply_observed_packet, up to its first suspension.  A packet that
\* repeats an observed state returns at once and writes nothing.

Repeats(p) == current = p /\ confidence = "observed"

ApplyObserved(p) ==
  /\ clear_active_profile_if_state_differs(p)
  /\ status' = "ready"
  /\ IF Repeats(p) THEN UNCHANGED <<current, confidence, cache>> ELSE SetCurrent(p, "observed")
  /\ UNCHANGED <<desired, sending>>

\* The confirmation task hears the state it was started for, if a frame carries it;
\* anything else it hears it ignores.
ConfirmationHears(c) ==
  /\ cnf[c].pc = "recv" /\ ~cnf[c].cancel
  /\ Carried(cnf[c].req) = cnf[c].req
  /\ ApplyObserved(cnf[c].req)
  /\ cnf' = [cnf EXCEPT ![c] =
             [NoConfirm EXCEPT !.pc = IF Repeats(cnf[c].req) THEN "finally" ELSE "persist"]]
  /\ UNCHANGED <<refs, listening, shutdown, snd, lst>>

\* Mutants: the lower confidence is not persisted; the status is left.
ConfirmationExpires_not_persisted(c) ==
  /\ cnf[c].pc = "recv" /\ ~cnf[c].cancel
  /\ status' = "ready"
  /\ confidence' = "requested"
  /\ cnf' = [cnf EXCEPT ![c] = [NoConfirm EXCEPT !.pc = "persist"]]
  /\ UNCHANGED <<current, profile, desired, sending, cache, refs, listening, shutdown, snd, lst>>

ConfirmationExpires_status_left(c) ==
  /\ cnf[c].pc = "recv" /\ ~cnf[c].cancel
  /\ confidence' = "requested"
  /\ cache' = [state |-> current, confidence |-> "requested", profiled |-> profile # NoState]
  /\ cnf' = [cnf EXCEPT ![c] = [NoConfirm EXCEPT !.pc = "persist"]]
  /\ UNCHANGED <<current, profile, desired, status, sending, refs, listening, shutdown, snd, lst>>

\* The window closes without a matching packet.
ConfirmationExpires(c) ==
  /\ cnf[c].pc = "recv" /\ ~cnf[c].cancel
  /\ status' = "ready"
  /\ confidence' = "requested"
  /\ cache' = [state |-> current, confidence |-> "requested", profiled |-> profile # NoState]
  /\ cnf' = [cnf EXCEPT ![c] = [NoConfirm EXCEPT !.pc = "persist"]]
  /\ UNCHANGED <<current, profile, desired, sending, refs, listening, shutdown, snd, lst>>

\* The storage write (and the display push) has returned, or receive or the
\* push raised: either way the finally clause runs.
ConfirmationEnds(c) ==
  /\ cnf[c].pc \in {"persist"} \cup (IF ReceiveFails THEN {"recv"} ELSE {})
  /\ ~cnf[c].cancel
  /\ cnf' = [cnf EXCEPT ![c] = [NoConfirm EXCEPT !.pc = "finally"]]
  /\ UNCHANGED <<entry, refs, listening, shutdown, snd, lst>>

\* end_confirmation_rx, and stop_rx unless the listener is on, have returned.
\* The task clears the reference without looking whether it still names it.
ConfirmationClears(c) ==
  /\ cnf[c].pc = "finally" /\ ~cnf[c].cancel
  /\ cnf' = [cnf EXCEPT ![c] = NoConfirm]
  /\ confirmTask' = NoTask
  /\ UNCHANGED <<entry, debounceTask, activeSend, listening, shutdown, snd, lst>>

\* CancelledError reaches the task: inside the listen it starts the finally
\* clause, inside the finally clause it skips the rest of it.
ConfirmationCancelled(c) ==
  /\ cnf[c].pc # "idle" /\ cnf[c].cancel
  /\ cnf' = [cnf EXCEPT ![c] = IF @.pc = "finally" THEN NoConfirm
                                 ELSE [NoConfirm EXCEPT !.pc = "finally"]]
  /\ UNCHANGED <<entry, refs, listening, shutdown, snd, lst>>

-----------------------------------------------------------------------------
\* The active listener and the periodic sync that restarts it.

ListenerHears(p) ==
  /\ lst.pc = "recv" /\ ~lst.cancel
  /\ ApplyObserved(p)
  /\ lst' = [lst EXCEPT !.pc = IF Repeats(p) THEN "recv" ELSE "apply"]
  /\ UNCHANGED <<refs, listening, shutdown, snd, cnf>>

ListenerPersisted ==
  /\ lst.pc = "apply" /\ ~lst.cancel
  /\ lst' = [lst EXCEPT !.pc = "recv"]
  /\ UNCHANGED <<entry, refs, listening, shutdown, snd, cnf>>

\* CancelledError, or an error of receive or of the display push, ends the loop.
ListenerEnds ==
  /\ lst.pc # "off"
  /\ lst.cancel \/ ReceiveFails
  /\ lst' = [pc |-> "off", cancel |-> FALSE]
  /\ UNCHANGED <<entry, refs, listening, shutdown, snd, cnf>>

PeriodicSync ==
  /\ shutdown = "no"
  /\ listening /\ lst.pc = "off"
  /\ lst' = [pc |-> "recv", cancel |-> FALSE]
  /\ UNCHANGED <<entry, refs, listening, shutdown, snd, cnf>>

-----------------------------------------------------------------------------
\* async_unload_runtime_entry and async_handle_homeassistant_stop: every task
\* the entry names is cancelled, then the backend is closed.  The wait for the
\* tasks times out, so closing never waits for them in the end.

\* Mutants: the debounce timer, or the listener, is not among the cancelled tasks.
Unload_timer_left ==
  /\ shutdown = "no"
  /\ shutdown' = "closing"
  /\ listening' = FALSE
  /\ snd' = Cancel(snd, activeSend)
  /\ cnf' = Cancel(cnf, confirmTask)
  /\ lst' = [lst EXCEPT !.cancel = lst.pc # "off"]
  /\ UNCHANGED <<entry, refs>>

Unload_listener_left ==
  /\ shutdown = "no"
  /\ shutdown' = "closing"
  /\ listening' = FALSE
  /\ snd' = Cancel(Cancel(snd, debounceTask), activeSend)
  /\ cnf' = Cancel(cnf, confirmTask)
  /\ UNCHANGED <<entry, refs, lst>>

Unload ==
  /\ shutdown = "no"
  /\ shutdown' = "closing"
  /\ listening' = FALSE
  /\ snd' = Cancel(Cancel(snd, debounceTask), activeSend)
  /\ cnf' = Cancel(cnf, confirmTask)
  /\ lst' = [lst EXCEPT !.cancel = lst.pc # "off"]
  /\ UNCHANGED <<entry, refs>>

CloseBackend ==
  /\ shutdown = "closing"
  /\ shutdown' = "closed"
  /\ UNCHANGED <<entry, refs, listening, snd, cnf, lst>>

-----------------------------------------------------------------------------

SenderStep(s) ==
  \/ DebounceFires(s) \/ DebounceFindsNothing(s)
  \/ StopRxDone(s) \/ TxOk(s) \/ TxFails(s)
  \/ ResumeListening(s) \/ FinishWithoutConfirmation(s)
  \/ \E c \in Confirmers : StartConfirmation(s, c) \/ StartExpiredConfirmation(s, c)
  \/ SendCancelled(s)

\* Without ConfirmationHears: no transmitter is obliged to echo.
ConfirmerStep(c) ==
  \/ ConfirmationExpires(c) \/ ConfirmationEnds(c)
  \/ ConfirmationClears(c) \/ ConfirmationCancelled(c)

ServiceCall == \E s \in Senders :
  \/ \E d \in Requests : ServiceSetState(s, d)
  \/ \E d \in Profiles : ApplyProfile(s, d)

Next ==
  \/ Stage
  \/ ServiceCall
  \/ \E s \in Senders : SenderStep(s) \/ CallerCancels(s)
  \/ \E c \in Confirmers : ConfirmerStep(c) \/ ConfirmationHears(c)
  \/ \E p \in Packets : ListenerHears(p)
  \/ ListenerPersisted \/ ListenerEnds \/ PeriodicSync
  \/ Unload \/ CloseBackend

Spec == Init /\ [][Next]_vars

\* The event loop resumes a task whose sleep, timeout or I/O has ended, and
\* every one of them is bounded by a timeout.
Fairness ==
  /\ \A s \in Senders : WF_vars(SenderStep(s))
  /\ \A c \in Confirmers : WF_vars(ConfirmerStep(c))
  /\ WF_vars(ListenerPersisted \/ (lst.cancel /\ ListenerEnds))

FairSpec == Spec /\ Fairness
-----------------------------------------------------------------------------
\* Safety.

\* At most one debounce timer is armed, and it is the one the entry names: a
\* timer replaced by a newer edit, by a direct send or by an unload has been
\* cancelled and cannot send (_cancel_runtime_task, unload).
Armed(s) == snd[s].pc = "sleep" /\ ~snd[s].cancel

SingleTimer == \A s \in Senders : Armed(s) => debounceTask = s

\* Once the entry is shutting down no timer is left that could start a send.
ShutdownDisarms == shutdown # "no" => \A s \in Senders : ~Armed(s)

\* The active profile is a claim about the current state, and no interleaving of
\* edits, sends and observed packets leaves it on another one: it differs at most in
\* what the frame of the restored record did not carry, as long as nothing has been
\* sent, heard or recorded since (clear_active_profile_if_state_differs and its
\* callers, async_restore_runtime_state).
ProfileMatchesCurrent == profile # NoState =>
  \/ profile = current
  \/ cache.state = profile /\ current = Carried(profile)

\* A reload of the entry at any moment, which restores it from the record in
\* hass.data, finds the confidence and the active profile the entry shows, and its
\* state but for what a frame does not carry: the record follows each change within
\* the same segment (async_persist_runtime_entry_state).
CacheTracksCurrent ==
  /\ Carried(cache.state) = Carried(current)
  /\ cache.confidence = confidence
  /\ profile # NoState => cache.profiled /\ cache.state = profile

\* The entry says it is sending only while a transmission is under way; no
\* failure, cancellation or overlap leaves the flag set
\* (sending_in_progress in _mark_send_failed and _async_record_successful_send).
SendingImpliesTx == sending => \E s \in Senders : snd[s].pc = "tx"

\* encode_packet accepts every request the checks of the entities and the
\* services let through, so no accepted request is lost to a ValueError.
EncodeNeverRejects == \A s \in Senders :
  snd[s].pc \in {"stop_rx", "tx"} =>
    validate_transmit(snd[s].req, snd[s].source = "debounced_control")

\* The claim of _async_debounce_send_task that it sends the latest staged
\* state: an armed timer has a state to send, unless a failure was reported.
TimerHasWork == \A s \in Senders : Armed(s) => desired # NoState \/ status = "failed"

-----------------------------------------------------------------------------
\* Refinement: the tasks implement what KnownState promises.

Air == {snd[s].req : s \in {t \in Senders : snd[t].pc = "tx"}}

Known == INSTANCE KnownState
  WITH known <- current, air <- Air, IsOff <- LAMBDA s : ~s.power, Carried <- Carried

\* The state shown becomes a requested state only when a transmission of that
\* state ends, an observed one only when a frame is heard, and an unsent one
\* only while the fireplace is off before and after, however the sends,
\* confirmations, packets and edits overlap.
ShowsKnownState == Known!AbsSpec

-----------------------------------------------------------------------------
\* Liveness, under FairSpec.

\* Once the user stops editing, a staged state is sent, superseded or given up.
EditsSettle == <>[][~Stage]_vars => (desired # NoState ~> desired = NoState \/ shutdown # "no")

\* A send does not stay in the sending status.
SendingSettles == status = "sending" ~> status # "sending" \/ shutdown # "no"

\* A post-TX confirmation comes to an end (the window of
\* _async_confirmation_task, "Listen briefly for a post-TX confirmation/echo
\* packet."); with active listening there is no window.
ConfirmingEnds == status = "confirming" /\ ~listening ~> status # "confirming" \/ shutdown # "no"

\* After an unload every task of the entry ends, those it does not name too.
Quiescent == /\ \A s \in Senders : snd[s].pc = "idle"
             /\ \A c \in Confirmers : cnf[c].pc = "idle"
             /\ lst.pc = "off"
UnloadQuiesces == shutdown # "no" ~> Quiescent
=============================================================================
