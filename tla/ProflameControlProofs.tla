----------------------- MODULE ProflameControlProofs -----------------------
(***************************************************************************)
(* What holds of ProflameControl for every number of task slots, every set *)
(* of inputs and every set of enabled features.                            *)
(***************************************************************************)
EXTENDS ProflameControl, TLAPS

-----------------------------------------------------------------------------
\* Lemmas about the operators.

\* A request that passed the checks of build_requested_state becomes a state.
LEMMA RequestIsState ==
  ASSUME NEW d, IsData(d), RequestAccepted(d)
  PROVE  build_requested_state(d) \in States
<1>1. \A k \in Features \cap DOMAIN d : d[k] \in 0..7
  BY DEF IsData, RequestAccepted, Features, Toggles, Keys
<1>2. [k \in Features |-> IF k \in DOMAIN d \cap Enabled THEN d[k] ELSE 0]
        \in [Features -> 0..7]
  BY <1>1
<1>3. (IF d["power"] = 1 THEN d["flame"] ELSE 0) \in 0..7
  BY DEF RequestAccepted
<1> QED BY <1>2, <1>3 DEF build_requested_state, States, FireplaceStates

\* An accepted edit of a state is a state.
LEMMA EditIsState ==
  ASSUME NEW base \in States, NEW c, IsEdit(c), StageAccepted(base, c)
  PROVE  build_staged_state(base, c) \in States
<1>1. StagedFlame(base, c) \in 0..7
  BY DEF StagedFlame, IsEdit, States, FireplaceStates, Keys
<1>2. StagedLevel(base, c) \in [Features -> 0..7]
  <2>1. \A k \in Features \cap DOMAIN c : c[k] \in 0..7
    BY DEF IsEdit, Features, Toggles, Keys
  <2>2. \A k \in Features : base.level[k] \in 0..7
    BY DEF States, FireplaceStates
  <2> QED BY <2>1, <2>2 DEF StagedLevel
<1>3. CASE StagedPower(base, c)
  <2> DEFINE d == StagedRequest(base, c)
  <2>1. \A k \in Features : k \in Keys /\ d[k] = StagedLevel(base, c)[k]
    BY DEF StagedRequest, Keys, Features
  <2>2. [k \in Features |-> IF k \in DOMAIN d \cap Enabled THEN d[k] ELSE 0]
          \in [Features -> 0..7]
    BY <1>2, <2>1
  <2>3. d["flame"] = StagedFlame(base, c)
    BY DEF StagedRequest, Keys
  <2> QED BY <1>1, <1>3, <2>2, <2>3
          DEF build_staged_state, build_requested_state, States, FireplaceStates
<1>4. CASE ~StagedPower(base, c)
  BY <1>1, <1>2, <1>4 DEF build_staged_state, States, FireplaceStates
<1> QED BY <1>3, <1>4

\* What a frame carries of a state is a state, and all of it is carried again.
LEMMA CarriedIsState ==
  ASSUME NEW s \in States
  PROVE  /\ Carried(s) \in States /\ Carried(Carried(s)) = Carried(s)
         /\ Carried(s).power = s.power /\ Carried(s).flame = s.flame
         /\ Carried(s).thermostat = s.thermostat
         /\ \A k \in Features \ {"cpi"} : Carried(s).level[k] = s.level[k]
<1> DEFINE level == [s.level EXCEPT !["cpi"] = 0]
           c == [s EXCEPT !.level = level]
<1>1. s.level \in [Features -> 0..7] /\ "cpi" \in Features
  BY DEF States, FireplaceStates, Features
<1>2. /\ level \in [Features -> 0..7] /\ level["cpi"] = 0
      /\ \A k \in Features \ {"cpi"} : level[k] = s.level[k]
  BY <1>1
<1>3. [level EXCEPT !["cpi"] = 0] = level
  BY <1>2
<1> HIDE DEF level
<1>4. /\ c \in States /\ c.level = level /\ c.power = s.power /\ c.flame = s.flame
      /\ c.thermostat = s.thermostat
  BY <1>2 DEF States, FireplaceStates
<1>5. [c EXCEPT !.level = level] = c
  BY <1>4 DEF States, FireplaceStates
<1>6. Carried(s) = IF Extended THEN c ELSE s
  BY <1>1 DEF Carried, level
<1>7. Extended => Carried(c) = [c EXCEPT !.level = [c.level EXCEPT !["cpi"] = 0]]
  BY DEF Carried
<1>8. Extended => Carried(c) = c
  BY <1>3, <1>4, <1>5, <1>7
<1> HIDE DEF c
<1>9. CASE Extended
  BY <1>2, <1>4, <1>6, <1>8, <1>9
<1>10. CASE ~Extended
  BY <1>6, <1>10
<1> QED BY <1>9, <1>10

\* Cancelling the task a reference names changes no more than its mark.
LEMMA CancelSend ==
  ASSUME NEW tasks \in [Senders -> SendTasks], NEW t \in Senders \cup {NoTask}
  PROVE  /\ Cancel(tasks, t) \in [Senders -> SendTasks]
         /\ \A s \in Senders : /\ Cancel(tasks, t)[s].pc = tasks[s].pc
                               /\ Cancel(tasks, t)[s].req = tasks[s].req
                               /\ Cancel(tasks, t)[s].source = tasks[s].source
                               /\ Cancel(tasks, t)[s].cancel <=>
                                    (tasks[s].cancel \/ (s = t /\ tasks[s].pc # "idle"))
<1>1. CASE t = NoTask \/ tasks[t].pc = "idle"
  BY <1>1, TaskAssumption DEF Cancel, SendTasks
<1>2. CASE ~(t = NoTask \/ tasks[t].pc = "idle")
  <2>1. Cancel(tasks, t) = [tasks EXCEPT ![t] = [tasks[t] EXCEPT !.cancel = TRUE]]
    BY <1>2 DEF Cancel
  <2>2. [tasks[t] EXCEPT !.cancel = TRUE] \in SendTasks
    BY <1>2 DEF SendTasks
  <2> QED BY <1>2, <2>1, <2>2 DEF SendTasks
<1> QED BY <1>1, <1>2

LEMMA CancelConfirm ==
  ASSUME NEW tasks \in [Confirmers -> ConfirmTasks], NEW t \in Confirmers \cup {NoTask}
  PROVE  /\ Cancel(tasks, t) \in [Confirmers -> ConfirmTasks]
         /\ \A c \in Confirmers : /\ Cancel(tasks, t)[c].pc = tasks[c].pc
                                  /\ Cancel(tasks, t)[c].req = tasks[c].req
<1>1. CASE t = NoTask \/ tasks[t].pc = "idle"
  BY <1>1 DEF Cancel
<1>2. CASE ~(t = NoTask \/ tasks[t].pc = "idle")
  <2>1. Cancel(tasks, t) = [tasks EXCEPT ![t] = [tasks[t] EXCEPT !.cancel = TRUE]]
    BY <1>2 DEF Cancel
  <2>2. [tasks[t] EXCEPT !.cancel = TRUE] \in ConfirmTasks
    BY <1>2 DEF ConfirmTasks
  <2> QED BY <1>2, <2>1, <2>2 DEF ConfirmTasks
<1> QED BY <1>1, <1>2

-----------------------------------------------------------------------------
\* Type correctness, in two parts: the entry, and the tasks with their
\* references.  A task that is past its start has a state to send or to confirm.

EntryTyped ==
  /\ current \in States
  /\ confidence \in Confidences
  /\ profile \in States \cup {NoState}
  /\ desired \in States \cup {NoState}
  /\ status \in Statuses
  /\ sending \in BOOLEAN
  /\ cache \in Records

Carries(r) == r.pc \in {"stop_rx", "tx", "persist"} => r.req \in States
Confirms(r) == r.pc = "recv" => r.req \in States

SendTyped(tasks) ==
  /\ tasks \in [Senders -> SendTasks]
  /\ \A s \in Senders : Carries(tasks[s])

ConfirmTyped(tasks) ==
  /\ tasks \in [Confirmers -> ConfirmTasks]
  /\ \A c \in Confirmers : Confirms(tasks[c])

TasksTyped ==
  /\ debounceTask \in Senders \cup {NoTask}
  /\ activeSend \in Senders \cup {NoTask}
  /\ confirmTask \in Confirmers \cup {NoTask}
  /\ listening \in BOOLEAN
  /\ shutdown \in {"no", "closing", "closed"}
  /\ SendTyped(snd)
  /\ ConfirmTyped(cnf)
  /\ lst \in Listener

Typed == EntryTyped /\ TasksTyped

LEMMA TypedIsTypeOK == Typed => TypeOK
  BY DEF Typed, EntryTyped, TasksTyped, SendTyped, ConfirmTyped, TypeOK

LEMMA NoTasks == /\ NoSend \in SendTasks /\ Carries(NoSend)
                 /\ NoConfirm \in ConfirmTasks /\ Confirms(NoConfirm)
  BY DEF NoSend, NoConfirm, SendTasks, ConfirmTasks, Sources, Carries, Confirms

LEMMA CancelSendTyped ==
  ASSUME NEW tasks, SendTyped(tasks), NEW t \in Senders \cup {NoTask}
  PROVE  SendTyped(Cancel(tasks, t))
<1>1. /\ Cancel(tasks, t) \in [Senders -> SendTasks]
      /\ \A s \in Senders : /\ Cancel(tasks, t)[s].pc = tasks[s].pc
                            /\ Cancel(tasks, t)[s].req = tasks[s].req
  BY CancelSend DEF SendTyped
<1> QED BY <1>1 DEF SendTyped, Carries

LEMMA CancelConfirmTyped ==
  ASSUME NEW tasks, ConfirmTyped(tasks), NEW t \in Confirmers \cup {NoTask}
  PROVE  ConfirmTyped(Cancel(tasks, t))
  BY CancelConfirm DEF ConfirmTyped, Confirms

LEMMA SendReplaced ==
  ASSUME NEW tasks, SendTyped(tasks), NEW s \in Senders, NEW r \in SendTasks, Carries(r)
  PROVE  SendTyped([tasks EXCEPT ![s] = r])
  BY DEF SendTyped

LEMMA ConfirmReplaced ==
  ASSUME NEW tasks, ConfirmTyped(tasks), NEW c \in Confirmers, NEW r \in ConfirmTasks, Confirms(r)
  PROVE  ConfirmTyped([tasks EXCEPT ![c] = r])
  BY DEF ConfirmTyped

LEMMA SendEnds ==
  ASSUME TasksTyped, NEW s \in Senders, EndSend(s)
  PROVE  SendTyped(snd') /\ {debounceTask', activeSend'} \subseteq Senders \cup {NoTask}
  BY NoTasks, SendReplaced DEF TasksTyped, EndSend

LEMMA TypedInit == Init => Typed
<1> SUFFICES ASSUME Init PROVE Typed
  OBVIOUS
<1>1. cache.state \in States /\ current \in States
  BY InputAssumption, CarriedIsState DEF Init, States
<1>2. EntryTyped
  BY <1>1 DEF Init, EntryTyped, Confidences, Statuses, Records
<1>3. SendTyped(snd) /\ ConfirmTyped(cnf)
  BY NoTasks DEF Init, SendTyped, ConfirmTyped
<1>4. lst \in Listener
  BY DEF Init, Listener
<1> QED BY <1>2, <1>3, <1>4 DEF Init, Typed, TasksTyped

\* The three steps of an edit.
LEMMA TypedStage == Typed /\ Stage => Typed'
<1> SUFFICES ASSUME Typed, NEW c \in Edits,
                    \/ StageMatchesCurrent(c)
                    \/ StageRetainedOff(c)
                    \/ \E s \in Senders : StagePending(c, s)
             PROVE  Typed'
  BY DEF Stage
<1> USE DEF Typed
<1>1. Staged(c) \in States
  <2>1. CanStage(c) /\ IsEdit(c)
    BY InputAssumption DEF StageMatchesCurrent, StageRetainedOff, StagePending
  <2> QED BY <2>1, EditIsState DEF CanStage, Staged, EntryTyped
<1>2. SendTyped(Cancel(snd, debounceTask))
  BY CancelSendTyped DEF TasksTyped
<1>3. CASE StageMatchesCurrent(c)
  <2>1. EntryTyped'
    BY <1>1, <1>3 DEF StageMatchesCurrent, DropPending, EntryTyped,
       clear_active_profile_if_state_differs, Statuses
  <2>2. TasksTyped'
    BY <1>2, <1>3 DEF StageMatchesCurrent, DropPending, TasksTyped
  <2> QED BY <2>1, <2>2
<1>4. CASE StageRetainedOff(c)
  <2>1. EntryTyped'
    BY <1>1, <1>4 DEF StageRetainedOff, DropPending, SetCurrent, EntryTyped,
       clear_active_profile_if_state_differs, Statuses, Confidences, Records
  <2>2. TasksTyped'
    BY <1>2, <1>4 DEF StageRetainedOff, DropPending, TasksTyped
  <2> QED BY <2>1, <2>2
<1>5. ASSUME NEW s \in Senders, StagePending(c, s)
      PROVE  Typed'
  <2>1. EntryTyped'
    BY <1>1, <1>5 DEF StagePending, EntryTyped, clear_active_profile_if_state_differs, Statuses
  <2>2. [NoSend EXCEPT !.pc = "sleep"] \in SendTasks /\ Carries([NoSend EXCEPT !.pc = "sleep"])
    BY DEF NoSend, SendTasks, Sources, Carries
  <2>3. SendTyped(snd')
    BY <1>2, <1>5, <2>2, SendReplaced DEF StagePending
  <2>4. TasksTyped'
    BY <1>5, <2>3 DEF StagePending, TasksTyped
  <2> QED BY <2>1, <2>4
<1> QED BY <1>3, <1>4, <1>5

\* A send begins: for a timer that fired, a service call or a profile button.
LEMMA TypedBegin ==
  ASSUME Typed, NEW s \in Senders, NEW t \in Senders \cup {NoTask},
         NEW state \in States, NEW source \in Sources, BeginSend(s, t, state, source),
         activeSend' \in Senders \cup {NoTask}
  PROVE  Typed'
<1> DEFINE r == [pc |-> "stop_rx", req |-> state, source |-> source, cancel |-> FALSE]
<1>1. r \in SendTasks /\ Carries(r)
  BY DEF SendTasks, Carries
<1>2. SendTyped(snd')
  BY <1>1, CancelSendTyped, SendReplaced DEF BeginSend, Typed, TasksTyped
<1>3. ConfirmTyped(cnf')
  BY CancelConfirmTyped DEF BeginSend, Typed, TasksTyped
<1> QED BY <1>2, <1>3 DEF BeginSend, Typed, EntryTyped, TasksTyped, entry

LEMMA TypedServiceCall == Typed /\ ServiceCall => Typed'
<1> SUFFICES ASSUME Typed, NEW s \in Senders, NEW d \in Requests \cup Profiles,
                    ServiceSetState(s, d) \/ ApplyProfile(s, d)
             PROVE  Typed'
  BY DEF ServiceCall
<1>1. build_requested_state(d) \in States
  BY RequestIsState, InputAssumption DEF ServiceSetState, ApplyProfile
<1>2. {debounceTask, activeSend} \subseteq Senders \cup {NoTask}
  BY DEF Typed, TasksTyped
<1>3. CASE ServiceSetState(s, d)
  BY <1>1, <1>2, <1>3, TypedBegin DEF ServiceSetState, Sources
<1>4. CASE ApplyProfile(s, d)
  BY <1>1, <1>2, <1>4, TypedBegin DEF ApplyProfile, Sources
<1> QED BY <1>3, <1>4

\* The steps of a sending task.
LEMMA TypedSender ==
  ASSUME Typed, NEW s \in Senders, SenderStep(s) \/ CallerCancels(s)
  PROVE  Typed'
<1> USE DEF Typed
<1>1. CASE DebounceFires(s)
  <2>1. desired \in States
    BY <1>1 DEF DebounceFires, EntryTyped
  <2> QED BY <1>1, <2>1, TypedBegin DEF DebounceFires, Sources
<1>2. CASE DebounceFindsNothing(s)
  BY <1>2, SendEnds DEF DebounceFindsNothing, EntryTyped, TasksTyped, entry
<1>3. CASE StopRxDone(s)
  <2>1. [snd[s] EXCEPT !.pc = "tx"] \in SendTasks /\ Carries([snd[s] EXCEPT !.pc = "tx"])
    BY <1>3 DEF StopRxDone, TasksTyped, SendTyped, SendTasks, Carries
  <2>2. snd' = [snd EXCEPT ![s] = [snd[s] EXCEPT !.pc = "tx"]]
    BY <1>3 DEF StopRxDone
  <2>3. SendTyped(snd')
    BY <2>1, <2>2, SendReplaced DEF TasksTyped
  <2> QED BY <1>3, <2>3 DEF StopRxDone, EntryTyped, TasksTyped, Statuses, refs
<1>4. CASE TxOk(s)
  <2>1. snd[s].req \in States
    BY <1>4 DEF TxOk, TasksTyped, SendTyped, Carries
  <2>2. [snd[s] EXCEPT !.pc = "persist"] \in SendTasks
        /\ Carries([snd[s] EXCEPT !.pc = "persist"])
    BY <2>1 DEF TasksTyped, SendTyped, SendTasks, Carries
  <2>3. snd' = [snd EXCEPT ![s] = [snd[s] EXCEPT !.pc = "persist"]]
    BY <1>4 DEF TxOk
  <2>4. SendTyped(snd')
    BY <2>2, <2>3, SendReplaced DEF TasksTyped
  <2>5. TasksTyped'
    BY <1>4, <2>4 DEF TxOk, TasksTyped, refs
  <2>6. EntryTyped'
    BY <1>4, <2>1 DEF TxOk, SetCurrent, EntryTyped, Confidences, Records
  <2> QED BY <2>5, <2>6
<1>5. CASE TxFails(s)
  <2>1. EntryTyped'
    BY <1>5 DEF TxFails, MarkSendFailed, EntryTyped, Statuses
  <2> QED BY <1>5, <2>1, SendEnds DEF TxFails, TasksTyped
<1>6. CASE ResumeListening(s)
  <2>1. EntryTyped'
    BY <1>6 DEF ResumeListening, PersistDone, EntryTyped, Statuses
  <2>2. lst' \in Listener
    BY <1>6 DEF ResumeListening, TasksTyped, Listener
  <2> QED BY <1>6, <2>1, <2>2, SendEnds DEF ResumeListening, PersistDone, TasksTyped
<1>7. CASE FinishWithoutConfirmation(s)
  <2>1. EntryTyped'
    BY <1>7 DEF FinishWithoutConfirmation, PersistDone, EntryTyped, Statuses
  <2> QED BY <1>7, <2>1, SendEnds DEF FinishWithoutConfirmation, PersistDone, TasksTyped
<1>8. ASSUME NEW c \in Confirmers, StartConfirmation(s, c)
      PROVE  Typed'
  <2> DEFINE r == [pc |-> "recv", req |-> snd[s].req, cancel |-> FALSE]
  <2>1. r \in ConfirmTasks /\ Confirms(r)
    BY <1>8 DEF StartConfirmation, PersistDone, TasksTyped, SendTyped, Carries,
       ConfirmTasks, Confirms
  <2>2. ConfirmTyped(cnf')
    BY <1>8, <2>1, ConfirmReplaced DEF StartConfirmation, TasksTyped
  <2>3. EntryTyped'
    BY <1>8 DEF StartConfirmation, PersistDone, EntryTyped, Statuses
  <2> QED BY <1>8, <2>2, <2>3, SendEnds DEF StartConfirmation, PersistDone, TasksTyped
<1>9. ASSUME NEW c \in Confirmers, StartExpiredConfirmation(s, c)
      PROVE  Typed'
  <2>1. [NoConfirm EXCEPT !.pc = "persist"] \in ConfirmTasks
        /\ Confirms([NoConfirm EXCEPT !.pc = "persist"])
    BY DEF NoConfirm, ConfirmTasks, Confirms
  <2>2. ConfirmTyped(cnf')
    BY <1>9, <2>1, ConfirmReplaced DEF StartExpiredConfirmation, TasksTyped
  <2>3. EntryTyped'
    BY <1>9 DEF StartExpiredConfirmation, PersistDone, EntryTyped, Statuses, Confidences, Records
  <2> QED BY <1>9, <2>2, <2>3, SendEnds DEF StartExpiredConfirmation, PersistDone, TasksTyped
<1>10. CASE SendCancelled(s)
  <2>1. EntryTyped'
    BY <1>10 DEF SendCancelled, MarkSendFailed, EntryTyped, Statuses, entry
  <2> QED BY <1>10, <2>1, SendEnds DEF SendCancelled, TasksTyped
<1>11. CASE CallerCancels(s)
  <2>1. [snd[s] EXCEPT !.cancel = TRUE] \in SendTasks
        /\ Carries([snd[s] EXCEPT !.cancel = TRUE])
    BY DEF TasksTyped, SendTyped, SendTasks, Carries
  <2>2. snd' = [snd EXCEPT ![s] = [snd[s] EXCEPT !.cancel = TRUE]]
    BY <1>11 DEF CallerCancels
  <2>3. SendTyped(snd')
    BY <2>1, <2>2, SendReplaced DEF TasksTyped
  <2> QED BY <1>11, <2>3 DEF CallerCancels, EntryTyped, TasksTyped, entry, refs
<1> QED BY <1>1, <1>2, <1>3, <1>4, <1>5, <1>6, <1>7, <1>8, <1>9, <1>10, <1>11 DEF SenderStep

LEMMA TypedObserved ==
  ASSUME EntryTyped, NEW p \in States, ApplyObserved(p)
  PROVE  EntryTyped'
<1>1. profile' \in States \cup {NoState} /\ status' \in Statuses
  BY DEF ApplyObserved, clear_active_profile_if_state_differs, EntryTyped, Statuses
<1>2. CASE Repeats(p)
  BY <1>1, <1>2 DEF ApplyObserved, EntryTyped
<1>3. CASE ~Repeats(p)
  <2>1. /\ current' = p /\ confidence' = "observed" /\ UNCHANGED <<desired, sending>>
        /\ cache' = [state |-> p, confidence |-> "observed", profiled |-> profile' # NoState]
    BY <1>3 DEF ApplyObserved, SetCurrent
  <2> QED BY <1>1, <2>1 DEF EntryTyped, Confidences, Records
<1> QED BY <1>2, <1>3

\* The steps of a confirmation task.
LEMMA TypedConfirmer ==
  ASSUME Typed, NEW c \in Confirmers, ConfirmerStep(c) \/ ConfirmationHears(c)
  PROVE  Typed'
<1> USE DEF Typed
<1>1. \A pc \in {"persist", "finally"} :
        LET r == [NoConfirm EXCEPT !.pc = pc] IN r \in ConfirmTasks /\ Confirms(r)
  BY DEF NoConfirm, ConfirmTasks, Confirms
<1>2. CASE ConfirmationExpires(c)
  <2>1. ConfirmTyped(cnf')
    BY <1>1, <1>2, ConfirmReplaced DEF ConfirmationExpires, TasksTyped
  <2>2. EntryTyped'
    BY <1>2 DEF ConfirmationExpires, EntryTyped, Statuses, Confidences, Records
  <2> QED BY <1>2, <2>1, <2>2 DEF ConfirmationExpires, TasksTyped, refs
<1>3. CASE ConfirmationEnds(c)
  <2>1. ConfirmTyped(cnf')
    BY <1>1, <1>3, ConfirmReplaced DEF ConfirmationEnds, TasksTyped
  <2> QED BY <1>3, <2>1 DEF ConfirmationEnds, EntryTyped, TasksTyped, entry, refs
<1>4. CASE ConfirmationClears(c)
  <2>1. ConfirmTyped(cnf')
    BY NoTasks, <1>4, ConfirmReplaced DEF ConfirmationClears, TasksTyped
  <2> QED BY <1>4, <2>1 DEF ConfirmationClears, EntryTyped, TasksTyped, entry
<1>5. CASE ConfirmationCancelled(c)
  <2> DEFINE r == IF cnf[c].pc = "finally" THEN NoConfirm ELSE [NoConfirm EXCEPT !.pc = "finally"]
  <2>1. r \in ConfirmTasks /\ Confirms(r)
    BY <1>1, NoTasks
  <2>2. cnf' = [cnf EXCEPT ![c] = r]
    BY <1>5 DEF ConfirmationCancelled
  <2>3. ConfirmTyped(cnf')
    BY <2>1, <2>2, ConfirmReplaced DEF TasksTyped
  <2> QED BY <1>5, <2>3 DEF ConfirmationCancelled, EntryTyped, TasksTyped, entry, refs
<1>6. CASE ConfirmationHears(c)
  <2>1. cnf[c].req \in States
    BY <1>6 DEF ConfirmationHears, TasksTyped, ConfirmTyped, Confirms
  <2> DEFINE pc == IF Repeats(cnf[c].req) THEN "finally" ELSE "persist"
  <2>2. cnf' = [cnf EXCEPT ![c] = [NoConfirm EXCEPT !.pc = pc]]
    BY <1>6 DEF ConfirmationHears
  <2>3. ConfirmTyped(cnf')
    BY <1>1, <2>2, ConfirmReplaced DEF TasksTyped
  <2>4. EntryTyped'
    BY <1>6, <2>1, TypedObserved DEF ConfirmationHears
  <2> QED BY <1>6, <2>3, <2>4 DEF ConfirmationHears, TasksTyped, refs
<1> QED BY <1>2, <1>3, <1>4, <1>5, <1>6 DEF ConfirmerStep

\* The listener and the periodic sync.
LEMMA TypedListener ==
  ASSUME Typed,
         \/ \E p \in Packets : ListenerHears(p)
         \/ ListenerPersisted \/ ListenerEnds \/ PeriodicSync
  PROVE  Typed'
<1> USE DEF Typed
<1>1. ASSUME NEW p \in Packets, ListenerHears(p)
      PROVE  Typed'
  <2>1. EntryTyped'
    BY <1>1, InputAssumption, TypedObserved DEF ListenerHears, States
  <2>2. lst' \in Listener
    BY <1>1 DEF ListenerHears, TasksTyped, Listener
  <2> QED BY <1>1, <2>1, <2>2 DEF ListenerHears, TasksTyped, refs
<1>2. CASE ListenerPersisted
  <2>1. lst' \in Listener
    BY <1>2 DEF ListenerPersisted, TasksTyped, Listener
  <2> QED BY <1>2, <2>1 DEF ListenerPersisted, EntryTyped, TasksTyped, entry, refs
<1>3. CASE ListenerEnds
  <2>1. lst' \in Listener
    BY <1>3 DEF ListenerEnds, Listener
  <2> QED BY <1>3, <2>1 DEF ListenerEnds, EntryTyped, TasksTyped, entry, refs
<1>4. CASE PeriodicSync
  <2>1. lst' \in Listener
    BY <1>4 DEF PeriodicSync, Listener
  <2> QED BY <1>4, <2>1 DEF PeriodicSync, EntryTyped, TasksTyped, entry, refs
<1> QED BY <1>1, <1>2, <1>3, <1>4

LEMMA TypedUnload == Typed /\ (Unload \/ CloseBackend) => Typed'
<1> SUFFICES ASSUME Typed, Unload \/ CloseBackend PROVE Typed'
  OBVIOUS
<1> USE DEF Typed
<1>1. CASE Unload
  <2>1. SendTyped(snd') /\ ConfirmTyped(cnf')
    BY <1>1, CancelSendTyped, CancelConfirmTyped DEF Unload, TasksTyped
  <2>2. lst' \in Listener
    BY <1>1 DEF Unload, TasksTyped, Listener
  <2> QED BY <1>1, <2>1, <2>2 DEF Unload, EntryTyped, TasksTyped, entry, refs
<1>2. CASE CloseBackend
  BY <1>2 DEF CloseBackend, EntryTyped, TasksTyped, entry, refs
<1> QED BY <1>1, <1>2

LEMMA TypedNext == Typed /\ [Next]_vars => Typed'
<1> SUFFICES ASSUME Typed, [Next]_vars PROVE Typed'
  OBVIOUS
<1>1. CASE UNCHANGED vars
  BY <1>1 DEF vars, entry, refs, Typed, EntryTyped, TasksTyped
<1> QED
  BY <1>1, TypedStage, TypedServiceCall, TypedSender, TypedConfirmer, TypedListener, TypedUnload
  DEF Next

LEMMA TypedAlways == Spec => []Typed
  BY TypedInit, TypedNext, PTL DEF Spec

\* Every variable keeps its type; no step puts None where a state belongs.
THEOREM TypeCorrect == Spec => []TypeOK
  BY TypedAlways, TypedIsTypeOK, PTL

-----------------------------------------------------------------------------
\* The debounce timer.

Timers == SingleTimer /\ ShutdownDisarms

Sleeping(r) == r.pc = "sleep" /\ ~r.cancel

\* Cancelling the task debounceTask names disarms every timer.
LEMMA CancelDisarms ==
  ASSUME Typed, SingleTimer, NEW q \in Senders
  PROVE  ~Sleeping(Cancel(snd, debounceTask)[q])
<1>1. debounceTask \in Senders \cup {NoTask} /\ snd \in [Senders -> SendTasks]
  BY DEF Typed, TasksTyped, SendTyped
<1>2. /\ Cancel(snd, debounceTask)[q].pc = snd[q].pc
      /\ Cancel(snd, debounceTask)[q].cancel <=>
           (snd[q].cancel \/ (q = debounceTask /\ snd[q].pc # "idle"))
  BY <1>1, CancelSend
<1>3. Sleeping(snd[q]) => debounceTask = q
  BY DEF SingleTimer, Armed, Sleeping
<1> QED BY <1>2, <1>3 DEF Sleeping

\* Cancelling any task arms none.
LEMMA CancelArmsNone ==
  ASSUME NEW tasks, SendTyped(tasks), NEW t \in Senders \cup {NoTask}, NEW q \in Senders,
         Sleeping(Cancel(tasks, t)[q])
  PROVE  Sleeping(tasks[q])
<1>1. /\ Cancel(tasks, t)[q].pc = tasks[q].pc
      /\ Cancel(tasks, t)[q].cancel <=> (tasks[q].cancel \/ (q = t /\ tasks[q].pc # "idle"))
  BY CancelSend DEF SendTyped
<1> QED BY <1>1 DEF Sleeping

\* A step that arms no timer and keeps the reference to an armed one.
LEMMA TimersKept ==
  ASSUME Typed, Timers, shutdown' = shutdown,
         \A q \in Senders : Sleeping(snd'[q]) => Sleeping(snd[q]) /\ debounceTask' = q
  PROVE  Timers'
  BY DEF Timers, SingleTimer, ShutdownDisarms, Armed, Sleeping

LEMMA TimersEndSend ==
  ASSUME Typed, Timers, NEW s \in Senders, EndSend(s), shutdown' = shutdown
  PROVE  Timers'
<1>1. snd \in [Senders -> SendTasks]
  BY DEF Typed, TasksTyped, SendTyped
<1>2. ASSUME NEW q \in Senders, Sleeping(snd'[q])
      PROVE  Sleeping(snd[q]) /\ debounceTask' = q
  <2>1. q # s
    BY <1>1, <1>2 DEF EndSend, Sleeping, NoSend
  <2>2. snd'[q] = snd[q]
    BY <1>1, <2>1 DEF EndSend
  <2>3. debounceTask = q
    BY <1>2, <2>2 DEF Timers, SingleTimer, Armed, Sleeping
  <2> QED BY <1>2, <2>1, <2>2, <2>3 DEF EndSend
<1> QED BY <1>2, TimersKept

LEMMA TimersBegin ==
  ASSUME Typed, Timers, NEW s \in Senders, NEW t, NEW state, NEW source,
         BeginSend(s, t, state, source),
         t = debounceTask \/ (t = NoTask /\ debounceTask = s)
  PROVE  Timers'
<1>1. snd \in [Senders -> SendTasks] /\ debounceTask \in Senders \cup {NoTask}
  BY DEF Typed, TasksTyped, SendTyped
<1>2. ASSUME NEW q \in Senders PROVE ~Sleeping(snd'[q])
  <2>1. Cancel(snd, t) \in [Senders -> SendTasks]
    BY <1>1, CancelSend
  <2>2. q = s => ~Sleeping(snd'[q])
    BY <2>1 DEF BeginSend, Sleeping
  <2>3. q # s => snd'[q] = Cancel(snd, t)[q]
    BY <2>1 DEF BeginSend
  <2>4. CASE t = debounceTask
    BY <2>2, <2>3, <2>4, CancelDisarms DEF Timers
  <2>5. CASE t = NoTask /\ debounceTask = s
    <3>1. Cancel(snd, t) = snd
      BY <2>5 DEF Cancel
    <3>2. q # s => ~Sleeping(snd[q])
      BY <2>5 DEF Timers, SingleTimer, Armed, Sleeping
    <3> QED BY <2>2, <2>3, <3>1, <3>2
  <2> QED BY <2>4, <2>5
<1>3. shutdown' = shutdown
  BY DEF BeginSend
<1> QED BY <1>2, <1>3, TimersKept

LEMMA TimersStage == Typed /\ Timers /\ Stage => Timers'
<1> SUFFICES ASSUME Typed, Timers, NEW c \in Edits,
                    \/ StageMatchesCurrent(c)
                    \/ StageRetainedOff(c)
                    \/ \E s \in Senders : StagePending(c, s)
             PROVE  Timers'
  BY DEF Stage
<1>1. CASE StageMatchesCurrent(c) \/ StageRetainedOff(c)
  <2>1. DropPending /\ shutdown' = shutdown
    BY <1>1 DEF StageMatchesCurrent, StageRetainedOff
  <2>2. \A q \in Senders : ~Sleeping(snd'[q])
    BY <2>1, CancelDisarms DEF DropPending, Timers
  <2> QED BY <2>1, <2>2, TimersKept
<1>2. ASSUME NEW s \in Senders, StagePending(c, s)
      PROVE  Timers'
  <2>1. Cancel(snd, debounceTask) \in [Senders -> SendTasks]
    BY CancelSendTyped DEF Typed, TasksTyped, SendTyped
  <2>2. ASSUME NEW q \in Senders, q # s
        PROVE  ~Sleeping(snd'[q])
    <3>1. snd'[q] = Cancel(snd, debounceTask)[q]
      BY <1>2, <2>1, <2>2 DEF StagePending
    <3> QED BY <3>1, CancelDisarms DEF Timers
  <2>3. debounceTask' = s /\ shutdown' = "no"
    BY <1>2 DEF StagePending, CanStage
  <2> QED BY <2>2, <2>3 DEF Timers, SingleTimer, ShutdownDisarms, Armed, Sleeping
<1> QED BY <1>1, <1>2

LEMMA TimersSender ==
  ASSUME Typed, Timers, NEW s \in Senders, SenderStep(s) \/ CallerCancels(s)
  PROVE  Timers'
<1>1. snd \in [Senders -> SendTasks]
  BY DEF Typed, TasksTyped, SendTyped
<1>2. CASE DebounceFires(s)
  <2>1. debounceTask = s
    BY <1>2 DEF DebounceFires, Timers, SingleTimer, Armed
  <2> QED BY <1>2, <2>1, TimersBegin DEF DebounceFires
<1>3. CASE DebounceFindsNothing(s)
  BY <1>3, TimersEndSend DEF DebounceFindsNothing
<1>4. CASE StopRxDone(s) \/ TxOk(s)
  <2>1. PICK pc \in {"tx", "persist"} : snd' = [snd EXCEPT ![s] = [snd[s] EXCEPT !.pc = pc]]
    BY <1>4 DEF StopRxDone, TxOk
  <2>2. debounceTask' = debounceTask /\ shutdown' = shutdown
    BY <1>4 DEF StopRxDone, TxOk, refs
  <2>3. snd[s] \in SendTasks
    BY <1>1
  <2>4. \A q \in Senders : Sleeping(snd'[q]) => Sleeping(snd[q])
    BY <1>1, <2>1, <2>3 DEF Sleeping, SendTasks
  <2> QED BY <2>2, <2>4, TimersKept DEF Timers, SingleTimer, Armed, Sleeping
<1>5. CASE TxFails(s)
  BY <1>5, TimersEndSend DEF TxFails
<1>6. CASE ResumeListening(s)
  BY <1>6, TimersEndSend DEF ResumeListening, PersistDone
<1>7. CASE FinishWithoutConfirmation(s)
  BY <1>7, TimersEndSend DEF FinishWithoutConfirmation, PersistDone
<1>8. ASSUME NEW c \in Confirmers, StartConfirmation(s, c) \/ StartExpiredConfirmation(s, c)
      PROVE  Timers'
  BY <1>8, TimersEndSend DEF StartConfirmation, StartExpiredConfirmation, PersistDone
<1>9. CASE SendCancelled(s)
  BY <1>9, TimersEndSend DEF SendCancelled
<1>10. CASE CallerCancels(s)
  <2>1. snd' = [snd EXCEPT ![s] = [snd[s] EXCEPT !.cancel = TRUE]]
    BY <1>10 DEF CallerCancels
  <2>2. snd[s] \in SendTasks
    BY <1>1
  <2>3. \A q \in Senders : Sleeping(snd'[q]) => Sleeping(snd[q])
    BY <1>1, <2>1, <2>2 DEF Sleeping, SendTasks
  <2>4. debounceTask' = debounceTask /\ shutdown' = shutdown
    BY <1>10 DEF CallerCancels, refs
  <2> QED BY <2>3, <2>4, TimersKept DEF Timers, SingleTimer, Armed, Sleeping
<1> QED BY <1>2, <1>3, <1>4, <1>5, <1>6, <1>7, <1>8, <1>9, <1>10 DEF SenderStep

LEMMA TimersUnload == Typed /\ Timers /\ (Unload \/ CloseBackend) => Timers'
<1> SUFFICES ASSUME Typed, Timers, Unload \/ CloseBackend PROVE Timers'
  OBVIOUS
<1>1. CASE Unload
  <2>1. SendTyped(Cancel(snd, debounceTask)) /\ activeSend \in Senders \cup {NoTask}
    BY CancelSendTyped DEF Typed, TasksTyped
  <2>2. \A q \in Senders : ~Sleeping(snd'[q])
    BY <1>1, <2>1, CancelDisarms, CancelArmsNone DEF Unload, Timers
  <2> QED BY <2>2 DEF Timers, SingleTimer, ShutdownDisarms, Armed, Sleeping
<1>2. CASE CloseBackend
  BY <1>2 DEF CloseBackend, refs, Timers, SingleTimer, ShutdownDisarms, Armed
<1> QED BY <1>1, <1>2

LEMMA TimersNext == Typed /\ Timers /\ [Next]_vars => Timers'
<1> SUFFICES ASSUME Typed, Timers, [Next]_vars PROVE Timers'
  OBVIOUS
<1>1. ASSUME UNCHANGED <<snd, debounceTask, shutdown>>
      PROVE  Timers'
  BY <1>1 DEF Timers, SingleTimer, ShutdownDisarms, Armed
<1>2. CASE ServiceCall
  BY <1>2, TimersBegin DEF ServiceCall, ServiceSetState, ApplyProfile
<1>3. ASSUME NEW c \in Confirmers, ConfirmerStep(c) \/ ConfirmationHears(c)
      PROVE  Timers'
  BY <1>1, <1>3 DEF ConfirmerStep, ConfirmationHears, ConfirmationExpires, ConfirmationEnds,
     ConfirmationClears, ConfirmationCancelled, refs
<1>4. CASE \/ \E p \in Packets : ListenerHears(p)
           \/ ListenerPersisted \/ ListenerEnds \/ PeriodicSync
  BY <1>1, <1>4 DEF ListenerHears, ListenerPersisted, ListenerEnds, PeriodicSync, refs
<1>5. CASE UNCHANGED vars
  BY <1>1, <1>5 DEF vars, refs
<1> QED BY <1>2, <1>3, <1>4, <1>5, TimersStage, TimersSender, TimersUnload DEF Next

LEMMA TimersAlways == Spec => []Timers
<1>1. Init => Timers
  BY DEF Init, Timers, SingleTimer, ShutdownDisarms, Armed, NoSend
<1> QED BY <1>1, TypedAlways, TimersNext, PTL DEF Spec

\* However edits, direct sends and unloads follow each other, the entry names
\* the only timer that can still start a send.
THEOREM TimerIsSingle == Spec => []SingleTimer
  BY TimersAlways, PTL DEF Timers

\* No timer outlives the start of an unload.
THEOREM UnloadDisarms == Spec => []ShutdownDisarms
  BY TimersAlways, PTL DEF Timers
-----------------------------------------------------------------------------
\* What is recorded settles the profile: only the restored one can differ from the
\* current state, and no task that has recorded a send is left then.

Settled == profile \in {NoState, current}

\* No task is past the end of a transmission.
NoneRecorded == /\ \A s \in Senders : snd[s].pc # "persist"
                /\ \A c \in Confirmers : cnf[c].pc = "idle"

LEMMA SettledKept == Settled /\ [Next]_vars => Settled'
<1> SUFFICES ASSUME Settled, [Next]_vars PROVE Settled'
  OBVIOUS
<1>1. CASE UNCHANGED <<current, profile>>
  BY <1>1 DEF Settled
<1>2. ASSUME NEW state, clear_active_profile_if_state_differs(state),
             current' \in {current, state}
      PROVE  Settled'
  BY <1>2 DEF clear_active_profile_if_state_differs, Settled
<1>3. CASE Stage
  <2>1. PICK c \in Edits : \/ StageMatchesCurrent(c)
                           \/ StageRetainedOff(c)
                           \/ \E s \in Senders : StagePending(c, s)
    BY <1>3 DEF Stage
  <2> QED BY <1>2, <2>1 DEF StageMatchesCurrent, StageRetainedOff, StagePending, SetCurrent
<1>4. CASE ServiceCall
  BY <1>1, <1>4 DEF ServiceCall, ServiceSetState, ApplyProfile, BeginSend, entry
<1>5. ASSUME NEW s \in Senders, SenderStep(s) \/ CallerCancels(s)
      PROVE  Settled'
  <2>1. CASE TxOk(s)
    BY <2>1 DEF TxOk, SetCurrent, Settled
  <2>2. CASE ~TxOk(s)
    BY <1>1, <1>5, <2>2 DEF SenderStep, DebounceFires, BeginSend, DebounceFindsNothing,
       StopRxDone, TxFails, SendCancelled, MarkSendFailed, CallerCancels, ResumeListening,
       FinishWithoutConfirmation, StartConfirmation, StartExpiredConfirmation, PersistDone, entry
  <2> QED BY <2>1, <2>2
<1>6. ASSUME NEW p, ApplyObserved(p)
      PROVE  Settled'
  BY <1>2, <1>6 DEF ApplyObserved, SetCurrent
<1>7. ASSUME NEW c \in Confirmers, ConfirmerStep(c) \/ ConfirmationHears(c)
      PROVE  Settled'
  BY <1>1, <1>6, <1>7 DEF ConfirmerStep, ConfirmationHears, ConfirmationExpires,
     ConfirmationEnds, ConfirmationClears, ConfirmationCancelled, entry
<1>8. CASE \/ \E p \in Packets : ListenerHears(p)
           \/ ListenerPersisted \/ ListenerEnds \/ PeriodicSync \/ Unload \/ CloseBackend
  BY <1>1, <1>6, <1>8 DEF ListenerHears, ListenerPersisted, ListenerEnds, PeriodicSync,
     Unload, CloseBackend, entry
<1> QED BY <1>1, <1>3, <1>4, <1>5, <1>7, <1>8 DEF Next, vars, entry

\* The first task that records a send settles the profile.
LEMMA RecordSettles == Typed /\ NoneRecorded /\ [Next]_vars => NoneRecorded' \/ Settled'
<1> SUFFICES ASSUME Typed, NoneRecorded, [Next]_vars PROVE NoneRecorded' \/ Settled'
  OBVIOUS
<1>1. /\ snd \in [Senders -> SendTasks] /\ cnf \in [Confirmers -> ConfirmTasks]
      /\ {debounceTask, activeSend} \subseteq Senders \cup {NoTask}
      /\ confirmTask \in Confirmers \cup {NoTask}
  BY DEF Typed, TasksTyped, SendTyped, ConfirmTyped
<1>2. \A t \in Senders \cup {NoTask} :
        /\ Cancel(snd, t) \in [Senders -> SendTasks]
        /\ \A s \in Senders : Cancel(snd, t)[s].pc = snd[s].pc
  BY <1>1, CancelSend
<1>3. \A c \in Confirmers : Cancel(cnf, confirmTask)[c].pc = cnf[c].pc
  BY <1>1, CancelConfirm
<1>4. CASE Stage
  <2>1. PICK c \in Edits : \/ StageMatchesCurrent(c)
                           \/ StageRetainedOff(c)
                           \/ \E s \in Senders : StagePending(c, s)
    BY <1>4 DEF Stage
  <2>2. CASE StageMatchesCurrent(c) \/ StageRetainedOff(c)
    BY <1>1, <1>2, <2>2 DEF StageMatchesCurrent, StageRetainedOff, DropPending, NoneRecorded
  <2>3. ASSUME NEW s \in Senders, StagePending(c, s)
        PROVE  NoneRecorded'
    <3> DEFINE tasks == Cancel(snd, debounceTask)
               new == [NoSend EXCEPT !.pc = "sleep"]
    <3>1. tasks \in [Senders -> SendTasks] /\ \A q \in Senders : tasks[q].pc = snd[q].pc
      BY <1>1, <1>2
    <3>2. snd' = [tasks EXCEPT ![s] = new] /\ cnf' = cnf
      BY <2>3 DEF StagePending
    <3>3. new.pc # "persist"
      BY DEF NoSend
    <3> HIDE DEF tasks, new
    <3> QED BY <3>1, <3>2, <3>3 DEF NoneRecorded
  <2> QED BY <2>1, <2>2, <2>3
<1>5. ASSUME NEW s \in Senders, NEW t \in Senders \cup {NoTask}, NEW state, NEW source,
             BeginSend(s, t, state, source)
      PROVE  NoneRecorded'
  BY <1>1, <1>2, <1>3, <1>5 DEF BeginSend, NoneRecorded
<1>6. CASE ServiceCall
  BY <1>1, <1>5, <1>6 DEF ServiceCall, ServiceSetState, ApplyProfile
<1>7. ASSUME NEW s \in Senders, SenderStep(s) \/ CallerCancels(s)
      PROVE  NoneRecorded' \/ Settled'
  <2>1. CASE TxOk(s)
    BY <2>1 DEF TxOk, SetCurrent, Settled
  <2>2. CASE DebounceFires(s)
    BY <1>5, <2>2 DEF DebounceFires
  <2>3. CASE DebounceFindsNothing(s) \/ TxFails(s) \/ SendCancelled(s)
    BY <1>1, <2>3 DEF DebounceFindsNothing, TxFails, SendCancelled, EndSend, NoneRecorded, NoSend
  <2>4. CASE StopRxDone(s) \/ CallerCancels(s)
    <3>1. snd[s] \in SendTasks
      BY <1>1
    <3> QED BY <1>1, <2>4, <3>1 DEF StopRxDone, CallerCancels, NoneRecorded, SendTasks
  <2>5. ~PersistDone(s)
    BY DEF PersistDone, NoneRecorded
  <2> QED BY <1>7, <2>1, <2>2, <2>3, <2>4, <2>5 DEF SenderStep, ResumeListening,
             FinishWithoutConfirmation, StartConfirmation, StartExpiredConfirmation
<1>8. ASSUME NEW c \in Confirmers, ConfirmerStep(c) \/ ConfirmationHears(c)
      PROVE  FALSE
  BY <1>8 DEF NoneRecorded, ConfirmerStep, ConfirmationHears, ConfirmationExpires,
     ConfirmationEnds, ConfirmationClears, ConfirmationCancelled
<1>9. CASE Unload
  <2> DEFINE tasks == Cancel(snd, debounceTask)
  <2>1. tasks \in [Senders -> SendTasks] /\ \A s \in Senders : tasks[s].pc = snd[s].pc
    BY <1>1, <1>2
  <2>2. \A s \in Senders : Cancel(tasks, activeSend)[s].pc = tasks[s].pc
    BY <1>1, <2>1, CancelSend
  <2> QED BY <1>3, <1>9, <2>1, <2>2 DEF Unload, NoneRecorded
<1>10. CASE \/ \E p \in Packets : ListenerHears(p)
            \/ ListenerPersisted \/ ListenerEnds \/ PeriodicSync \/ CloseBackend
            \/ UNCHANGED vars
  BY <1>10 DEF ListenerHears, ListenerPersisted, ListenerEnds, PeriodicSync, CloseBackend,
     vars, NoneRecorded
<1> QED BY <1>4, <1>6, <1>7, <1>8, <1>9, <1>10 DEF Next

-----------------------------------------------------------------------------
\* The profile and the record in hass.data follow the current state.

Shown == ProfileMatchesCurrent /\ CacheTracksCurrent /\ (Settled \/ NoneRecorded)

\* Nothing but the entry matters, and of it neither the staged state nor the status.
LEMMA ShownKept ==
  ASSUME Shown, UNCHANGED <<current, confidence, profile, cache>>
  PROVE  ProfileMatchesCurrent' /\ CacheTracksCurrent'
  BY DEF Shown, ProfileMatchesCurrent, CacheTracksCurrent

\* A confirmation that failed lowers the confidence and persists it at once.
LEMMA ShownUnconfirmed ==
  ASSUME Shown, ~NoneRecorded, UNCHANGED <<current, profile>>, confidence' = "requested",
         cache' = [state |-> current, confidence |-> "requested", profiled |-> profile # NoState]
  PROVE  ProfileMatchesCurrent' /\ CacheTracksCurrent'
  BY DEF Shown, ProfileMatchesCurrent, CacheTracksCurrent, Settled

LEMMA ShownStage == Shown /\ Stage => ProfileMatchesCurrent' /\ CacheTracksCurrent'
<1> SUFFICES ASSUME Shown, NEW c \in Edits,
                    \/ StageMatchesCurrent(c)
                    \/ StageRetainedOff(c)
                    \/ \E s \in Senders : StagePending(c, s)
             PROVE  ProfileMatchesCurrent' /\ CacheTracksCurrent'
  BY DEF Stage
<1>1. CASE StageRetainedOff(c)
  BY <1>1 DEF StageRetainedOff, SetCurrent, clear_active_profile_if_state_differs,
     Shown, ProfileMatchesCurrent, CacheTracksCurrent
<1>2. CASE StageMatchesCurrent(c) \/ \E s \in Senders : StagePending(c, s)
  <2>1. clear_active_profile_if_state_differs(Staged(c)) /\ UNCHANGED <<current, confidence, cache>>
    BY <1>2 DEF StageMatchesCurrent, StagePending
  <2> QED BY <2>1 DEF clear_active_profile_if_state_differs,
             Shown, ProfileMatchesCurrent, CacheTracksCurrent
<1> QED BY <1>1, <1>2

LEMMA ShownObserved ==
  ASSUME Shown, NEW p, ApplyObserved(p)
  PROVE  ProfileMatchesCurrent' /\ CacheTracksCurrent'
<1>1. CASE Repeats(p)
  BY <1>1 DEF ApplyObserved, clear_active_profile_if_state_differs, Repeats,
     Shown, ProfileMatchesCurrent, CacheTracksCurrent
<1>2. CASE ~Repeats(p)
  <2>1. /\ current' = p /\ confidence' = "observed" /\ profile' \in {NoState, p}
        /\ cache' = [state |-> p, confidence |-> "observed", profiled |-> profile' # NoState]
    BY <1>2 DEF ApplyObserved, SetCurrent, clear_active_profile_if_state_differs
  <2>2. cache'.state = p /\ cache'.confidence = "observed" /\ (cache'.profiled <=> profile' # NoState)
    BY <2>1
  <2> QED BY <2>1, <2>2 DEF ProfileMatchesCurrent, CacheTracksCurrent
<1> QED BY <1>1, <1>2

LEMMA ShownSender ==
  ASSUME Shown, NEW s \in Senders, SenderStep(s) \/ CallerCancels(s)
  PROVE  ProfileMatchesCurrent' /\ CacheTracksCurrent'
<1>1. CASE TxOk(s)
  BY <1>1 DEF TxOk, SetCurrent, Shown, ProfileMatchesCurrent, CacheTracksCurrent
<1>2. CASE \E c \in Confirmers : StartExpiredConfirmation(s, c)
  BY <1>2, ShownUnconfirmed DEF StartExpiredConfirmation, PersistDone, NoneRecorded
<1>3. CASE \/ DebounceFires(s) \/ DebounceFindsNothing(s) \/ StopRxDone(s) \/ TxFails(s)
           \/ SendCancelled(s) \/ CallerCancels(s)
  BY <1>3, ShownKept DEF DebounceFires, BeginSend, DebounceFindsNothing, StopRxDone, TxFails,
     SendCancelled, MarkSendFailed, CallerCancels, entry
<1>4. CASE \/ ResumeListening(s) \/ FinishWithoutConfirmation(s)
           \/ \E c \in Confirmers : StartConfirmation(s, c)
  BY <1>4, ShownKept DEF ResumeListening, FinishWithoutConfirmation, StartConfirmation, PersistDone
<1> QED BY <1>1, <1>2, <1>3, <1>4 DEF SenderStep

LEMMA ShownStep == Shown /\ [Next]_vars => ProfileMatchesCurrent' /\ CacheTracksCurrent'
<1> SUFFICES ASSUME Shown, [Next]_vars PROVE ProfileMatchesCurrent' /\ CacheTracksCurrent'
  OBVIOUS
<1>1. CASE ServiceCall
  BY <1>1, ShownKept DEF ServiceCall, ServiceSetState, ApplyProfile, BeginSend, entry
<1>2. ASSUME NEW c \in Confirmers, ConfirmerStep(c) \/ ConfirmationHears(c)
      PROVE  ProfileMatchesCurrent' /\ CacheTracksCurrent'
  <2>1. CASE ConfirmationHears(c)
    BY <2>1, ShownObserved DEF ConfirmationHears
  <2>2. CASE ConfirmationExpires(c)
    BY <2>2, ShownUnconfirmed DEF ConfirmationExpires, NoneRecorded
  <2>3. CASE ConfirmationEnds(c) \/ ConfirmationClears(c) \/ ConfirmationCancelled(c)
    BY <2>3, ShownKept DEF ConfirmationEnds, ConfirmationClears, ConfirmationCancelled, entry
  <2> QED BY <1>2, <2>1, <2>2, <2>3 DEF ConfirmerStep
<1>3. CASE \E p \in Packets : ListenerHears(p)
  BY <1>3, ShownObserved DEF ListenerHears
<1>4. CASE ListenerPersisted \/ ListenerEnds \/ PeriodicSync \/ Unload \/ CloseBackend
  BY <1>4, ShownKept DEF ListenerPersisted, ListenerEnds, PeriodicSync, Unload, CloseBackend, entry
<1>5. CASE UNCHANGED vars
  BY <1>5, ShownKept DEF vars, entry
<1> QED BY <1>1, <1>2, <1>3, <1>4, <1>5, ShownStage, ShownSender DEF Next

LEMMA ShownNext == Typed /\ Shown /\ [Next]_vars => Shown'
  BY ShownStep, SettledKept, RecordSettles DEF Shown

LEMMA ShownAlways == Spec => []Shown
<1>1. Init => Shown
  <2> SUFFICES ASSUME Init PROVE Shown
    OBVIOUS
  <2>1. Carried(Carried(cache.state)) = Carried(cache.state)
    BY InputAssumption, CarriedIsState DEF Init, States
  <2>2. NoneRecorded
    BY DEF Init, NoneRecorded, NoSend, NoConfirm
  <2> QED BY <2>1, <2>2 DEF Init, Shown, ProfileMatchesCurrent, CacheTracksCurrent
<1> QED BY <1>1, TypedAlways, ShownNext, PTL DEF Spec

\* The active profile is the current state, or the restored one, of which the current
\* state is what its frame carried.
THEOREM ProfileIsCurrent == Spec => []ProfileMatchesCurrent
  BY ShownAlways, PTL DEF Shown

\* A reload at any moment restores what the entry shows, but for what its frame does
\* not carry.
THEOREM CacheIsCurrent == Spec => []CacheTracksCurrent
  BY ShownAlways, PTL DEF Shown

-----------------------------------------------------------------------------
\* The sending flag.

LEMMA SendingKept ==
  ASSUME SendingImpliesTx, sending' => sending,
         \A s \in Senders : snd[s].pc = "tx" => snd'[s].pc = "tx"
  PROVE  SendingImpliesTx'
  BY DEF SendingImpliesTx

\* A task that is not transmitting ends or starts without touching another.
LEMMA SendingEndSend ==
  ASSUME Typed, SendingImpliesTx, NEW s \in Senders, EndSend(s), snd[s].pc # "tx", sending' = sending
  PROVE  SendingImpliesTx'
<1>1. snd \in [Senders -> SendTasks]
  BY DEF Typed, TasksTyped, SendTyped
<1> QED BY <1>1, SendingKept DEF EndSend

LEMMA SendingBegin ==
  ASSUME Typed, SendingImpliesTx, NEW s \in Senders, NEW t \in Senders \cup {NoTask},
         NEW state, NEW source, BeginSend(s, t, state, source), snd[s].pc # "tx"
  PROVE  SendingImpliesTx'
<1>1. snd \in [Senders -> SendTasks]
  BY DEF Typed, TasksTyped, SendTyped
<1>2. /\ Cancel(snd, t) \in [Senders -> SendTasks]
      /\ \A q \in Senders : Cancel(snd, t)[q].pc = snd[q].pc
  BY <1>1, CancelSend
<1>3. \A q \in Senders : snd[q].pc = "tx" => snd'[q].pc = "tx"
  BY <1>2 DEF BeginSend
<1> QED BY <1>3, SendingKept DEF BeginSend, entry

LEMMA SendingSender ==
  ASSUME Typed, SendingImpliesTx, NEW s \in Senders, SenderStep(s) \/ CallerCancels(s)
  PROVE  SendingImpliesTx'
<1>1. snd \in [Senders -> SendTasks]
  BY DEF Typed, TasksTyped, SendTyped
<1>2. CASE DebounceFires(s)
  BY <1>2, SendingBegin DEF DebounceFires
<1>3. CASE StopRxDone(s)
  BY <1>1, <1>3 DEF StopRxDone, SendingImpliesTx, SendTasks
<1>4. CASE TxOk(s) \/ TxFails(s) \/ (SendCancelled(s) /\ snd[s].pc = "tx")
  BY <1>4 DEF TxOk, TxFails, SendCancelled, MarkSendFailed, SendingImpliesTx
<1>5. CASE DebounceFindsNothing(s) \/ (SendCancelled(s) /\ snd[s].pc # "tx")
  BY <1>5, SendingEndSend DEF DebounceFindsNothing, SendCancelled, entry
<1>6. CASE \/ ResumeListening(s) \/ FinishWithoutConfirmation(s)
           \/ \E c \in Confirmers : StartConfirmation(s, c) \/ StartExpiredConfirmation(s, c)
  <2>1. PersistDone(s)
    BY <1>6 DEF ResumeListening, FinishWithoutConfirmation, StartConfirmation, StartExpiredConfirmation
  <2> QED BY <2>1, SendingEndSend DEF PersistDone
<1>7. CASE CallerCancels(s)
  <2>1. snd' = [snd EXCEPT ![s] = [snd[s] EXCEPT !.cancel = TRUE]]
    BY <1>7 DEF CallerCancels
  <2>2. snd[s] \in SendTasks
    BY <1>1
  <2>3. \A q \in Senders : snd[q].pc = "tx" => snd'[q].pc = "tx"
    BY <1>1, <2>1, <2>2 DEF SendTasks
  <2> QED BY <1>7, <2>3, SendingKept DEF CallerCancels, entry
<1> QED BY <1>2, <1>3, <1>4, <1>5, <1>6, <1>7 DEF SenderStep

LEMMA SendingNext == Typed /\ SendingImpliesTx /\ [Next]_vars => SendingImpliesTx'
<1> SUFFICES ASSUME Typed, SendingImpliesTx, [Next]_vars PROVE SendingImpliesTx'
  OBVIOUS
<1>1. snd \in [Senders -> SendTasks] /\ {debounceTask, activeSend} \subseteq Senders \cup {NoTask}
  BY DEF Typed, TasksTyped, SendTyped
<1>2. /\ Cancel(snd, debounceTask) \in [Senders -> SendTasks]
      /\ \A q \in Senders : Cancel(snd, debounceTask)[q].pc = snd[q].pc
  BY <1>1, CancelSend
<1>3. CASE Stage
  <2>1. CASE \E c \in Edits : StageMatchesCurrent(c) \/ StageRetainedOff(c)
    BY <1>2, <2>1, SendingKept DEF StageMatchesCurrent, StageRetainedOff, DropPending
  <2>2. CASE \E c \in Edits, s \in Senders : StagePending(c, s)
    BY <1>2, <2>2, SendingKept DEF StagePending
  <2> QED BY <1>3, <2>1, <2>2 DEF Stage
<1>4. CASE ServiceCall
  BY <1>1, <1>4, SendingBegin DEF ServiceCall, ServiceSetState, ApplyProfile
<1>5. ASSUME UNCHANGED <<sending, snd>>
      PROVE  SendingImpliesTx'
  BY <1>5, SendingKept
<1>6. ASSUME NEW c \in Confirmers, ConfirmerStep(c) \/ ConfirmationHears(c)
      PROVE  SendingImpliesTx'
  BY <1>5, <1>6 DEF ConfirmerStep, ConfirmationHears, ApplyObserved, ConfirmationExpires,
     ConfirmationEnds, ConfirmationClears, ConfirmationCancelled, entry
<1>7. CASE \/ \E p \in Packets : ListenerHears(p)
           \/ ListenerPersisted \/ ListenerEnds \/ PeriodicSync \/ CloseBackend
  BY <1>5, <1>7 DEF ListenerHears, ApplyObserved, ListenerPersisted, ListenerEnds, PeriodicSync,
     CloseBackend, entry
<1>8. CASE Unload
  <2>1. \A q \in Senders : Cancel(Cancel(snd, debounceTask), activeSend)[q].pc
                             = Cancel(snd, debounceTask)[q].pc
    BY <1>1, <1>2, CancelSend
  <2> QED BY <1>2, <1>8, <2>1, SendingKept DEF Unload, entry
<1>9. CASE UNCHANGED vars
  BY <1>5, <1>9 DEF vars, entry
<1> QED BY <1>3, <1>4, <1>6, <1>7, <1>8, <1>9, SendingSender DEF Next

\* The entry says it is sending only while a task of it transmits.
THEOREM SendingIsTrue == Spec => []SendingImpliesTx
<1>1. Init => SendingImpliesTx
  BY DEF Init, SendingImpliesTx
<1> QED BY <1>1, TypedAlways, SendingNext, PTL DEF Spec
-----------------------------------------------------------------------------
\* What reaches the encoder.  The current state may be one the encoder refuses
\* (a remote can leave thermostat mode, or light 7), so the invariant says what
\* the encoder accepts of everything that was staged or requested, and of the
\* current state only what an edit keeps of it.

Keepable(state) == LevelsValid(state) /\ state.flame \in 0..6

Encodable(r) == r.pc \in {"stop_rx", "tx", "persist"} =>
  validate_transmit(r.req, r.source = "debounced_control")

AllEncodable(tasks) == \A s \in Senders : Encodable(tasks[s])

ToConfirm(tasks) == \A c \in Confirmers : tasks[c].pc = "recv" => Keepable(tasks[c].req)

Sendable ==
  /\ Keepable(current)
  /\ desired # NoState => validate_transmit(desired, TRUE)
  /\ AllEncodable(snd)
  /\ ToConfirm(cnf)

LEMMA TransmitIsKeepable ==
  ASSUME NEW state \in States, NEW b \in BOOLEAN, validate_transmit(state, b)
  PROVE  Keepable(state) /\ validate_transmit(state, TRUE)
  BY DEF validate_transmit, Keepable

LEMMA ObservedIsKeepable ==
  ASSUME NEW state \in States, validate_observed(state)
  PROVE  Keepable(state)
  BY DEF validate_observed, Keepable

\* Data that passed the checks of build_requested_state passes the encoder's.
LEMMA RequestEncodes ==
  ASSUME NEW d, RequestAccepted(d)
  PROVE  validate_transmit(build_requested_state(d), FALSE)
<1>1. \A k \in {"fan", "light"} \cap DOMAIN d : d[k] \in 0..6
  BY DEF RequestAccepted
<1>2. LevelsValid(build_requested_state(d))
  BY <1>1 DEF build_requested_state, LevelsValid, Features
<1> QED BY <1>2 DEF RequestAccepted, build_requested_state, validate_transmit

\* An accepted edit of a state builds one the encoder accepts for the debounced
\* send, even of a state that it would refuse itself.
LEMMA EditEncodes ==
  ASSUME NEW base \in States, Keepable(base), NEW c, IsEdit(c), StageAccepted(base, c)
  PROVE  validate_transmit(build_staged_state(base, c), TRUE)
<1>1. CASE StagedPower(base, c)
  <2>1. RequestAccepted(StagedRequest(base, c))
    BY <1>1 DEF StageAccepted
  <2>2. validate_transmit(build_requested_state(StagedRequest(base, c)), FALSE)
    BY <2>1, RequestEncodes
  <2>3. build_requested_state(StagedRequest(base, c)).power
    BY DEF build_requested_state, StagedRequest, Keys
  <2> QED BY <1>1, <2>2, <2>3 DEF build_staged_state, validate_transmit
<1>2. CASE ~StagedPower(base, c)
  <2>1. StagedFlame(base, c) \in 0..6
    BY DEF StagedFlame, IsEdit, Keepable
  <2>2. /\ StagedLevel(base, c)["fan"] \in 0..6
        /\ StagedLevel(base, c)["light"] \in 0..7
    BY DEF StagedLevel, IsEdit, Keepable, LevelsValid, Features
  <2> QED BY <1>2, <2>1, <2>2 DEF build_staged_state, validate_transmit, LevelsValid
<1> QED BY <1>1, <1>2

LEMMA EncodableReplaced ==
  ASSUME NEW tasks \in [Senders -> SendTasks], AllEncodable(tasks), NEW s \in Senders,
         NEW r, Encodable(r)
  PROVE  AllEncodable([tasks EXCEPT ![s] = r])
  BY DEF AllEncodable

LEMMA EncodableCancel ==
  ASSUME SendTyped(snd), AllEncodable(snd), NEW t \in Senders \cup {NoTask}
  PROVE  AllEncodable(Cancel(snd, t))
<1>1. \A s \in Senders : /\ Cancel(snd, t)[s].pc = snd[s].pc
                         /\ Cancel(snd, t)[s].req = snd[s].req
                         /\ Cancel(snd, t)[s].source = snd[s].source
  BY CancelSend DEF SendTyped
<1> QED BY <1>1 DEF AllEncodable, Encodable

LEMMA EndSendEncodable ==
  ASSUME Typed, AllEncodable(snd), NEW s \in Senders, EndSend(s)
  PROVE  AllEncodable(snd')
<1>1. Encodable(NoSend)
  BY DEF Encodable, NoSend
<1> QED BY <1>1, EncodableReplaced DEF EndSend, Typed, TasksTyped, SendTyped

LEMMA BeginSendSendable ==
  ASSUME Typed, Sendable, NEW s \in Senders, NEW t \in Senders \cup {NoTask}, NEW state, NEW source,
         BeginSend(s, t, state, source), validate_transmit(state, source = "debounced_control")
  PROVE  Sendable'
<1> DEFINE r == [pc |-> "stop_rx", req |-> state, source |-> source, cancel |-> FALSE]
<1>1. Encodable(r)
  BY DEF Encodable
<1>2. AllEncodable(Cancel(snd, t)) /\ Cancel(snd, t) \in [Senders -> SendTasks]
  BY EncodableCancel, CancelSendTyped DEF Typed, TasksTyped, SendTyped, Sendable
<1>3. AllEncodable(snd')
  BY <1>1, <1>2, EncodableReplaced DEF BeginSend
<1>4. ToConfirm(cnf')
  BY CancelConfirm DEF BeginSend, Typed, TasksTyped, ConfirmTyped, Sendable, ToConfirm
<1> QED BY <1>3, <1>4 DEF BeginSend, entry, Sendable

LEMMA SendableStage == Typed /\ Sendable /\ Stage => Sendable'
<1> SUFFICES ASSUME Typed, Sendable, NEW c \in Edits,
                    \/ StageMatchesCurrent(c)
                    \/ StageRetainedOff(c)
                    \/ \E s \in Senders : StagePending(c, s)
             PROVE  Sendable'
  BY DEF Stage
<1>1. Staged(c) \in States /\ validate_transmit(Staged(c), TRUE)
  <2> DEFINE base == IF desired # NoState THEN desired ELSE current
  <2>1. base \in States /\ Keepable(base)
    BY TransmitIsKeepable DEF Typed, EntryTyped, Sendable
  <2>2. IsEdit(c) /\ StageAccepted(base, c)
    BY InputAssumption DEF StageMatchesCurrent, StageRetainedOff, StagePending, CanStage
  <2> QED BY <2>1, <2>2, EditIsState, EditEncodes DEF Staged
<1>2. AllEncodable(Cancel(snd, debounceTask)) /\ Cancel(snd, debounceTask) \in [Senders -> SendTasks]
  BY EncodableCancel, CancelSendTyped DEF Typed, TasksTyped, SendTyped, Sendable
<1>3. CASE StageMatchesCurrent(c)
  BY <1>2, <1>3 DEF StageMatchesCurrent, DropPending, Sendable
<1>4. CASE StageRetainedOff(c)
  <2>1. Keepable(Staged(c))
    BY <1>1, TransmitIsKeepable
  <2> QED BY <1>2, <1>4, <2>1 DEF StageRetainedOff, DropPending, SetCurrent, Sendable
<1>5. ASSUME NEW s \in Senders, StagePending(c, s)
      PROVE  Sendable'
  <2>1. Encodable([NoSend EXCEPT !.pc = "sleep"])
    BY DEF Encodable, NoSend
  <2>2. AllEncodable(snd')
    BY <1>2, <1>5, <2>1, EncodableReplaced DEF StagePending
  <2> QED BY <1>1, <1>5, <2>2 DEF StagePending, Sendable
<1> QED BY <1>3, <1>4, <1>5

LEMMA SendableServiceCall == Typed /\ Sendable /\ ServiceCall => Sendable'
<1> SUFFICES ASSUME Typed, Sendable, NEW s \in Senders, NEW d \in Requests \cup Profiles,
                    ServiceSetState(s, d) \/ ApplyProfile(s, d)
             PROVE  Sendable'
  BY DEF ServiceCall
<1>1. validate_transmit(build_requested_state(d), FALSE)
  BY RequestEncodes DEF ServiceSetState, ApplyProfile
<1>2. debounceTask \in Senders \cup {NoTask}
  BY DEF Typed, TasksTyped
<1>3. CASE ServiceSetState(s, d)
  <2>1. BeginSend(s, debounceTask, build_requested_state(d), "homeassistant_service")
    BY <1>3 DEF ServiceSetState
  <2> QED BY <1>1, <1>2, <2>1, BeginSendSendable
<1>4. CASE ApplyProfile(s, d)
  <2>1. BeginSend(s, debounceTask, build_requested_state(d), "saved_profile")
    BY <1>4 DEF ApplyProfile
  <2> QED BY <1>1, <1>2, <2>1, BeginSendSendable
<1> QED BY <1>3, <1>4

LEMMA SendableSender ==
  ASSUME Typed, Sendable, NEW s \in Senders, SenderStep(s) \/ CallerCancels(s)
  PROVE  Sendable'
<1>1. snd \in [Senders -> SendTasks] /\ cnf \in [Confirmers -> ConfirmTasks]
  BY DEF Typed, TasksTyped, SendTyped, ConfirmTyped
<1>2. snd[s].pc \in {"stop_rx", "tx", "persist"} => snd[s].req \in States /\ Keepable(snd[s].req)
  <2>1. snd[s].source = "debounced_control" \/ snd[s].source # "debounced_control"
    OBVIOUS
  <2> QED BY <2>1, TransmitIsKeepable DEF Sendable, AllEncodable, Encodable,
             Typed, TasksTyped, SendTyped, Carries
<1>3. ASSUME EndSend(s), current' = current, desired' \in {desired, NoState}, ToConfirm(cnf')
      PROVE  Sendable'
  BY <1>3, EndSendEncodable DEF Sendable
<1>4. CASE DebounceFires(s)
  BY <1>4, BeginSendSendable DEF DebounceFires, Sendable
<1>5. CASE StopRxDone(s) \/ CallerCancels(s)
  <2>1. PICK r : /\ snd' = [snd EXCEPT ![s] = r] /\ r.req = snd[s].req /\ r.source = snd[s].source
                 /\ r.pc \in {"stop_rx", "tx", "persist"} =>
                      snd[s].pc \in {"stop_rx", "tx", "persist"}
    <3>1. CASE StopRxDone(s)
      <4> WITNESS [snd[s] EXCEPT !.pc = "tx"]
      <4> QED BY <1>1, <3>1 DEF StopRxDone, SendTasks
    <3>2. CASE CallerCancels(s)
      <4> WITNESS [snd[s] EXCEPT !.cancel = TRUE]
      <4> QED BY <1>1, <3>2 DEF CallerCancels, SendTasks
    <3> QED BY <1>5, <3>1, <3>2
  <2>2. Encodable(r)
    BY <2>1 DEF Sendable, AllEncodable, Encodable
  <2>3. AllEncodable(snd')
    BY <1>1, <2>1, <2>2, EncodableReplaced DEF Sendable
  <2> QED BY <1>5, <2>3 DEF StopRxDone, CallerCancels, entry, Sendable
<1>6. CASE TxOk(s)
  <2>1. Encodable([snd[s] EXCEPT !.pc = "persist"])
    BY <1>1, <1>6 DEF TxOk, Sendable, AllEncodable, Encodable, SendTasks
  <2>2. snd' = [snd EXCEPT ![s] = [snd[s] EXCEPT !.pc = "persist"]]
    BY <1>6 DEF TxOk
  <2>3. AllEncodable(snd')
    BY <1>1, <2>1, <2>2, EncodableReplaced DEF Sendable
  <2> QED BY <1>2, <1>6, <2>3 DEF TxOk, SetCurrent, Sendable
<1>7. CASE DebounceFindsNothing(s) \/ TxFails(s) \/ SendCancelled(s)
  BY <1>3, <1>7 DEF DebounceFindsNothing, TxFails, SendCancelled, MarkSendFailed, entry, Sendable
<1>8. CASE ResumeListening(s) \/ FinishWithoutConfirmation(s)
  BY <1>3, <1>8 DEF ResumeListening, FinishWithoutConfirmation, PersistDone, Sendable
<1>9. ASSUME NEW c \in Confirmers, StartConfirmation(s, c)
      PROVE  Sendable'
  <2>1. PersistDone(s) /\ Keepable(snd[s].req)
    BY <1>2, <1>9 DEF StartConfirmation, PersistDone
  <2>2. ToConfirm(cnf')
    BY <1>1, <1>9, <2>1 DEF StartConfirmation, Sendable, ToConfirm
  <2> QED BY <1>3, <2>1, <2>2 DEF PersistDone
<1>10. ASSUME NEW c \in Confirmers, StartExpiredConfirmation(s, c)
       PROVE  Sendable'
  <2>1. ToConfirm(cnf')
    BY <1>1, <1>10 DEF StartExpiredConfirmation, NoConfirm, Sendable, ToConfirm
  <2> QED BY <1>3, <1>10, <2>1 DEF StartExpiredConfirmation, PersistDone
<1> QED BY <1>4, <1>5, <1>6, <1>7, <1>8, <1>9, <1>10 DEF SenderStep

LEMMA SendableConfirmer ==
  ASSUME Typed, Sendable, NEW c \in Confirmers, ConfirmerStep(c) \/ ConfirmationHears(c)
  PROVE  Sendable'
<1>1. cnf \in [Confirmers -> ConfirmTasks]
  BY DEF Typed, TasksTyped, ConfirmTyped
<1>2. PICK r : cnf' = [cnf EXCEPT ![c] = r] /\ r.pc # "recv"
  BY DEF ConfirmerStep, ConfirmationHears, ConfirmationExpires, ConfirmationEnds,
     ConfirmationClears, ConfirmationCancelled, NoConfirm
<1>3. ToConfirm(cnf')
  BY <1>1, <1>2 DEF Sendable, ToConfirm
<1>4. desired' = desired /\ snd' = snd
  BY DEF ConfirmerStep, ConfirmationHears, ConfirmationExpires, ConfirmationEnds,
     ConfirmationClears, ConfirmationCancelled, ApplyObserved, entry
<1>5. Keepable(current')
  <2>1. CASE ConfirmationHears(c)
    BY <2>1 DEF ConfirmationHears, ApplyObserved, SetCurrent, Sendable, ToConfirm
  <2>2. CASE ConfirmerStep(c)
    BY <2>2 DEF ConfirmerStep, ConfirmationExpires, ConfirmationEnds,
       ConfirmationClears, ConfirmationCancelled, entry, Sendable
  <2> QED BY <2>1, <2>2
<1> QED BY <1>3, <1>4, <1>5 DEF Sendable

LEMMA SendableNext == Typed /\ Sendable /\ [Next]_vars => Sendable'
<1> SUFFICES ASSUME Typed, Sendable, [Next]_vars PROVE Sendable'
  OBVIOUS
<1>1. ASSUME NEW p \in Packets, ListenerHears(p)
      PROVE  Sendable'
  <2>1. Keepable(p)
    BY InputAssumption, ObservedIsKeepable DEF States
  <2> QED BY <1>1, <2>1 DEF ListenerHears, ApplyObserved, SetCurrent, Sendable
<1>2. CASE ListenerPersisted \/ ListenerEnds \/ PeriodicSync \/ CloseBackend
  BY <1>2 DEF ListenerPersisted, ListenerEnds, PeriodicSync, CloseBackend, entry, Sendable
<1>3. CASE Unload
  <2> DEFINE tasks == Cancel(snd, debounceTask)
  <2>1. /\ tasks \in [Senders -> SendTasks]
        /\ AllEncodable(tasks)
    BY EncodableCancel, CancelSendTyped DEF Typed, TasksTyped, SendTyped, Sendable
  <2>2. \A s \in Senders : /\ Cancel(tasks, activeSend)[s].pc = tasks[s].pc
                           /\ Cancel(tasks, activeSend)[s].req = tasks[s].req
                           /\ Cancel(tasks, activeSend)[s].source = tasks[s].source
    BY <2>1, CancelSend DEF Typed, TasksTyped
  <2>3. AllEncodable(snd')
    BY <1>3, <2>1, <2>2 DEF Unload, AllEncodable, Encodable
  <2>4. ToConfirm(cnf')
    BY <1>3, CancelConfirm DEF Unload, Typed, TasksTyped, ConfirmTyped, Sendable, ToConfirm
  <2> QED BY <1>3, <2>3, <2>4 DEF Unload, entry, Sendable
<1>4. CASE UNCHANGED vars
  BY <1>4 DEF vars, entry, Sendable
<1> QED BY <1>1, <1>2, <1>3, <1>4, SendableStage, SendableServiceCall, SendableSender,
           SendableConfirmer DEF Next

LEMMA SendableInit == Init => Sendable
<1> SUFFICES ASSUME Init PROVE Sendable
  OBVIOUS
<1>1. cache.state \in States /\ Keepable(cache.state)
  BY InputAssumption, ObservedIsKeepable DEF Init, States
<1>2. Keepable(current)
  BY <1>1, CarriedIsState DEF Init, Keepable, LevelsValid, Features
<1> QED BY <1>2, TaskAssumption DEF Init, States, Sendable, AllEncodable, Encodable, ToConfirm,
           NoSend, NoConfirm

\* Every request that reaches the encoder is one it accepts, whatever the
\* remotes have left as the current state.
THEOREM EncoderAccepts == Spec => []EncodeNeverRejects
<1>1. Spec => []Sendable
  BY SendableInit, TypedAlways, SendableNext, PTL DEF Spec
<1>2. Sendable => EncodeNeverRejects
  BY DEF Sendable, AllEncodable, Encodable, EncodeNeverRejects
<1> QED BY <1>1, <1>2, PTL
-----------------------------------------------------------------------------
\* ProflameControl implements KnownState: each step of a task is a step of the known
\* state, or leaves it and the transmissions in the air alone.

Abstract == [Known!AbsNext]_(Known!absvars)

\* The states the tasks in a pool are transmitting; Air is AirOf(snd).
AirOf(tasks) == {tasks[s].req : s \in {t \in Senders : tasks[t].pc = "tx"}}

LEMMA AirIsAirOf == Air = AirOf(snd) /\ Air' = AirOf(snd')
  BY DEF Air, AirOf

\* A step of which the abstract variables see nothing.
LEMMA Stutters ==
  ASSUME UNCHANGED <<current, confidence, profile>>, Air' = Air
  PROVE  Abstract
  BY DEF Abstract, Known!absvars

-----------------------------------------------------------------------------
\* What the steps on the pool do to the transmissions.

LEMMA CancelKeepsAir ==
  ASSUME NEW tasks \in [Senders -> SendTasks], NEW t \in Senders \cup {NoTask}
  PROVE  AirOf(Cancel(tasks, t)) = AirOf(tasks)
<1>1. \A s \in Senders : /\ Cancel(tasks, t)[s].pc = tasks[s].pc
                         /\ Cancel(tasks, t)[s].req = tasks[s].req
  BY CancelSend
<1> QED BY <1>1 DEF AirOf

\* A task that was not transmitting and is not yet.
LEMMA QuietKeepsAir ==
  ASSUME NEW tasks \in [Senders -> SendTasks], NEW s \in Senders, NEW r,
         tasks[s].pc # "tx", r.pc # "tx"
  PROVE  AirOf([tasks EXCEPT ![s] = r]) = AirOf(tasks)
<1> DEFINE new == [tasks EXCEPT ![s] = r]
<1>1. \A q \in Senders : /\ new[q].pc = "tx" <=> tasks[q].pc = "tx"
                         /\ new[q].pc = "tx" => new[q].req = tasks[q].req
  OBVIOUS
<1> QED BY <1>1 DEF AirOf

\* A transmission that ends leaves its state in the air only if another task
\* transmits the same.
LEMMA EndOfTransmission ==
  ASSUME NEW tasks \in [Senders -> SendTasks], NEW s \in Senders, NEW r,
         tasks[s].pc = "tx", r.pc # "tx"
  PROVE  /\ tasks[s].req \in AirOf(tasks)
         /\ AirOf([tasks EXCEPT ![s] = r]) \in {AirOf(tasks), AirOf(tasks) \ {tasks[s].req}}
<1> DEFINE new == [tasks EXCEPT ![s] = r]
<1>1. \A q \in Senders : q # s => new[q] = tasks[q]
  OBVIOUS
<1>2. new[s].pc # "tx"
  OBVIOUS
<1>3. AirOf(new) \subseteq AirOf(tasks)
  BY <1>1, <1>2 DEF AirOf
<1>4. AirOf(tasks) \ {tasks[s].req} \subseteq AirOf(new)
  BY <1>1 DEF AirOf
<1>5. tasks[s].req \in AirOf(tasks)
  BY DEF AirOf
<1> QED BY <1>3, <1>4, <1>5

LEMMA EndSendKeepsAir ==
  ASSUME Typed, NEW s \in Senders, EndSend(s), snd[s].pc # "tx"
  PROVE  Air' = Air
<1>1. snd \in [Senders -> SendTasks] /\ NoSend.pc # "tx"
  BY DEF Typed, TasksTyped, SendTyped, NoSend
<1> QED BY <1>1, QuietKeepsAir, AirIsAirOf DEF EndSend

-----------------------------------------------------------------------------
\* The steps, handler by handler.

LEMMA StageRefines == Typed /\ Stage => Abstract
<1> SUFFICES ASSUME Typed, NEW c \in Edits,
                    \/ StageMatchesCurrent(c)
                    \/ StageRetainedOff(c)
                    \/ \E s \in Senders : StagePending(c, s)
             PROVE  Abstract
  BY DEF Stage
<1>1. snd \in [Senders -> SendTasks] /\ debounceTask \in Senders \cup {NoTask}
  BY DEF Typed, TasksTyped, SendTyped
<1>2. /\ AirOf(Cancel(snd, debounceTask)) = Air
      /\ Cancel(snd, debounceTask) \in [Senders -> SendTasks]
  BY <1>1, CancelKeepsAir, CancelSend, AirIsAirOf
<1>3. ASSUME Air' = Air, UNCHANGED <<current, confidence>>,
             clear_active_profile_if_state_differs(Staged(c))
      PROVE  Abstract
  <2>1. profile' = profile \/ Known!DropProfile
    BY <1>3 DEF clear_active_profile_if_state_differs, Known!DropProfile
  <2> QED BY <1>3, <2>1, Stutters DEF Abstract, Known!AbsNext
<1>4. CASE StageMatchesCurrent(c)
  BY <1>2, <1>3, <1>4, AirIsAirOf DEF StageMatchesCurrent, DropPending
<1>5. CASE StageRetainedOff(c)
  <2>1. Staged(c) \in States
    <3>1. CanStage(c) /\ IsEdit(c)
      BY <1>5, InputAssumption DEF StageRetainedOff
    <3> QED BY <3>1, EditIsState DEF CanStage, Staged, Typed, EntryTyped
  <2>2. Air' = Air
    BY <1>2, <1>5, AirIsAirOf DEF StageRetainedOff, DropPending
  <2>3. Known!KeepWhileOff
    BY <1>5, <2>1, <2>2 DEF StageRetainedOff, SetCurrent,
       clear_active_profile_if_state_differs, Known!KeepWhileOff, Known!FollowProfile
  <2> QED BY <2>3 DEF Abstract, Known!AbsNext
<1>6. ASSUME NEW s \in Senders, StagePending(c, s)
      PROVE  Abstract
  <2> DEFINE r == [NoSend EXCEPT !.pc = "sleep"]
  <2>1. Cancel(snd, debounceTask)[s].pc # "tx" /\ r.pc # "tx"
    BY <1>1, <1>6, CancelSend DEF StagePending, NoSend
  <2>2. Air' = Air
    BY <1>2, <1>6, <2>1, QuietKeepsAir, AirIsAirOf DEF StagePending
  <2> QED BY <1>3, <1>6, <2>2 DEF StagePending
<1> QED BY <1>4, <1>5, <1>6

LEMMA BeginRefines ==
  ASSUME Typed, NEW s \in Senders, NEW t \in Senders \cup {NoTask}, NEW state, NEW source,
         BeginSend(s, t, state, source), snd[s].pc # "tx"
  PROVE  Abstract
<1> DEFINE r == [pc |-> "stop_rx", req |-> state, source |-> source, cancel |-> FALSE]
<1>1. snd \in [Senders -> SendTasks]
  BY DEF Typed, TasksTyped, SendTyped
<1>2. /\ Cancel(snd, t) \in [Senders -> SendTasks]
      /\ Cancel(snd, t)[s].pc # "tx" /\ r.pc # "tx"
      /\ AirOf(Cancel(snd, t)) = Air
  BY <1>1, CancelSend, CancelKeepsAir, AirIsAirOf
<1>3. Air' = Air
  BY <1>2, QuietKeepsAir, AirIsAirOf DEF BeginSend
<1> QED BY <1>3, Stutters DEF BeginSend, entry

LEMMA ServiceCallRefines == Typed /\ ServiceCall => Abstract
<1> SUFFICES ASSUME Typed, NEW s \in Senders, NEW d \in Requests \cup Profiles,
                    ServiceSetState(s, d) \/ ApplyProfile(s, d)
             PROVE  Abstract
  BY DEF ServiceCall
<1>1. debounceTask \in Senders \cup {NoTask}
  BY DEF Typed, TasksTyped
<1>2. PICK source : BeginSend(s, debounceTask, build_requested_state(d), source)
                    /\ snd[s].pc = "idle"
  BY DEF ServiceSetState, ApplyProfile
<1> QED BY <1>1, <1>2, BeginRefines

LEMMA SenderRefines ==
  ASSUME Typed, NEW s \in Senders, SenderStep(s) \/ CallerCancels(s)
  PROVE  Abstract
<1>1. snd \in [Senders -> SendTasks]
  BY DEF Typed, TasksTyped, SendTyped
<1>2. NoSend.pc # "tx"
  BY DEF NoSend
<1>3. CASE DebounceFires(s)
  BY <1>3, BeginRefines DEF DebounceFires
<1>4. CASE DebounceFindsNothing(s)
  BY <1>4, EndSendKeepsAir, Stutters DEF DebounceFindsNothing, entry
<1>5. CASE StopRxDone(s)
  <2> DEFINE r == [snd[s] EXCEPT !.pc = "tx"]
  <2>1. snd' = [snd EXCEPT ![s] = r] /\ snd[s].pc = "stop_rx"
    BY <1>5 DEF StopRxDone
  <2>2. snd[s] \in SendTasks
    BY <1>1
  <2>3. /\ \A q \in Senders : q # s => snd'[q] = snd[q]
        /\ snd'[s].pc = "tx" /\ snd'[s].req = snd[s].req
    BY <1>1, <2>1, <2>2 DEF SendTasks
  <2>4. AirOf(snd') = AirOf(snd) \cup {snd[s].req}
    BY <2>1, <2>3 DEF AirOf
  <2>5. Known!Transmit
    BY <1>5, <2>4, AirIsAirOf DEF StopRxDone, Known!Transmit
  <2> QED BY <2>5 DEF Abstract, Known!AbsNext
<1>6. CASE TxOk(s)
  <2> DEFINE r == [snd[s] EXCEPT !.pc = "persist"]
  <2>1. snd' = [snd EXCEPT ![s] = r] /\ snd[s].pc = "tx"
    BY <1>6 DEF TxOk
  <2>2. r.pc # "tx"
    BY <1>1 DEF SendTasks
  <2>3. snd[s].req \in Air /\ Air' \in {Air, Air \ {snd[s].req}}
    BY <1>1, <2>1, <2>2, EndOfTransmission, AirIsAirOf
  <2>4. Known!Transmitted(snd[s].req)
    BY <1>6, <2>3 DEF TxOk, SetCurrent, Known!Transmitted, Known!TransmissionEnds
  <2> QED BY <2>3, <2>4 DEF Abstract, Known!AbsNext
<1>7. CASE TxFails(s) \/ (SendCancelled(s) /\ snd[s].pc = "tx")
  <2>1. snd' = [snd EXCEPT ![s] = NoSend] /\ snd[s].pc = "tx" /\ MarkSendFailed
    BY <1>7 DEF TxFails, SendCancelled, EndSend
  <2>2. snd[s].req \in Air /\ Air' \in {Air, Air \ {snd[s].req}}
    BY <1>1, <1>2, <2>1, EndOfTransmission, AirIsAirOf
  <2>3. Known!NotTransmitted(snd[s].req)
    BY <2>1, <2>2 DEF MarkSendFailed, Known!NotTransmitted, Known!TransmissionEnds
  <2> QED BY <2>2, <2>3 DEF Abstract, Known!AbsNext
<1>8. CASE SendCancelled(s) /\ snd[s].pc # "tx"
  BY <1>8, EndSendKeepsAir, Stutters DEF SendCancelled, entry
<1>9. CASE \/ ResumeListening(s) \/ FinishWithoutConfirmation(s)
           \/ \E c \in Confirmers : StartConfirmation(s, c)
  <2>1. PersistDone(s) /\ confidence' = confidence
    BY <1>9 DEF ResumeListening, FinishWithoutConfirmation, StartConfirmation
  <2> QED BY <2>1, EndSendKeepsAir, Stutters DEF PersistDone
<1>10. CASE \E c \in Confirmers : StartExpiredConfirmation(s, c)
  <2>1. PersistDone(s) /\ confidence' = "requested"
    BY <1>10 DEF StartExpiredConfirmation
  <2>2. Known!StayUnconfirmed
    BY <2>1, EndSendKeepsAir DEF PersistDone, Known!StayUnconfirmed
  <2> QED BY <2>2 DEF Abstract, Known!AbsNext
<1>11. CASE CallerCancels(s)
  <2> DEFINE r == [snd[s] EXCEPT !.cancel = TRUE]
  <2>1. snd' = [snd EXCEPT ![s] = r] /\ UNCHANGED entry
    BY <1>11 DEF CallerCancels
  <2>2. snd[s] \in SendTasks
    BY <1>1
  <2>3. \A q \in Senders : snd'[q].pc = snd[q].pc /\ snd'[q].req = snd[q].req
    BY <1>1, <2>1, <2>2 DEF SendTasks
  <2>4. Air' = Air
    BY <2>3 DEF Air
  <2> QED BY <2>1, <2>4, Stutters DEF entry
<1> QED BY <1>3, <1>4, <1>5, <1>6, <1>7, <1>8, <1>9, <1>10, <1>11 DEF SenderStep

\* A frame that repeats the observed state changes nothing but, at most, the profile.
LEMMA ObservedRefines ==
  ASSUME Typed, NEW p \in States, ApplyObserved(p), snd' = snd
  PROVE  Abstract
<1>1. Air' = Air
  BY DEF Air
<1>2. current' = p /\ confidence' = "observed"
  BY DEF ApplyObserved, SetCurrent, Repeats
<1>3. Known!Hear
  BY <1>1, <1>2 DEF ApplyObserved, clear_active_profile_if_state_differs,
     Known!Hear, Known!FollowProfile
<1> QED BY <1>3 DEF Abstract, Known!AbsNext

LEMMA ConfirmerRefines ==
  ASSUME Typed, NEW c \in Confirmers, ConfirmerStep(c) \/ ConfirmationHears(c)
  PROVE  Abstract
<1>1. CASE ConfirmationHears(c)
  <2>1. cnf[c].req \in States
    BY <1>1 DEF ConfirmationHears, Typed, TasksTyped, ConfirmTyped, Confirms
  <2> QED BY <1>1, <2>1, ObservedRefines DEF ConfirmationHears
<1>2. CASE ConfirmationExpires(c)
  <2>1. Known!StayUnconfirmed
    BY <1>2 DEF ConfirmationExpires, Known!StayUnconfirmed, Air
  <2> QED BY <2>1 DEF Abstract, Known!AbsNext
<1>3. CASE ConfirmationEnds(c) \/ ConfirmationClears(c) \/ ConfirmationCancelled(c)
  BY <1>3, Stutters DEF ConfirmationEnds, ConfirmationClears, ConfirmationCancelled, entry, Air
<1> QED BY <1>1, <1>2, <1>3 DEF ConfirmerStep

LEMMA UnloadRefines == Typed /\ Unload => Abstract
<1> SUFFICES ASSUME Typed, Unload PROVE Abstract
  OBVIOUS
<1>1. snd \in [Senders -> SendTasks] /\ {debounceTask, activeSend} \subseteq Senders \cup {NoTask}
  BY DEF Typed, TasksTyped, SendTyped
<1>2. /\ AirOf(Cancel(snd, debounceTask)) = AirOf(snd)
      /\ Cancel(snd, debounceTask) \in [Senders -> SendTasks]
  BY <1>1, CancelKeepsAir, CancelSend
<1>3. AirOf(Cancel(Cancel(snd, debounceTask), activeSend)) = AirOf(snd)
  BY <1>1, <1>2, CancelKeepsAir
<1>4. Air' = Air
  BY <1>3, AirIsAirOf DEF Unload
<1> QED BY <1>4, Stutters DEF Unload, entry

LEMMA StepRefines == Typed /\ [Next]_vars => Abstract
<1> SUFFICES ASSUME Typed, [Next]_vars PROVE Abstract
  OBVIOUS
<1>1. ASSUME NEW p \in Packets, ListenerHears(p)
      PROVE  Abstract
  BY <1>1, InputAssumption, ObservedRefines DEF ListenerHears, States
<1>2. CASE ListenerPersisted \/ ListenerEnds \/ PeriodicSync \/ CloseBackend
  BY <1>2, Stutters DEF ListenerPersisted, ListenerEnds, PeriodicSync, CloseBackend, entry, Air
<1>3. CASE UNCHANGED vars
  BY <1>3, Stutters DEF vars, entry, Air
<1> QED BY <1>1, <1>2, <1>3, StageRefines, ServiceCallRefines, SenderRefines,
           ConfirmerRefines, UnloadRefines DEF Next

LEMMA InitRefines == Typed /\ Init => Known!AbsInit
<1> SUFFICES ASSUME Typed, Init PROVE Known!AbsInit
  OBVIOUS
<1>1. Air = {}
  BY DEF Init, Air, NoSend
<1>2. cache.state \in States
  BY DEF Typed, EntryTyped, Records
<1> QED BY <1>1, <1>2 DEF Init, Known!AbsInit, Confidences

\* Every behaviour of the tasks is one that KnownState allows: the state shown
\* follows what was transmitted, heard, or kept while the fireplace is off.
THEOREM Refinement == Spec => ShowsKnownState
<1>1. Spec => Known!AbsInit
  BY InitRefines, TypedInit DEF Spec
<1>2. Typed /\ [Next]_vars => [Known!AbsNext]_(Known!absvars)
  BY StepRefines DEF Abstract
<1> QED BY <1>1, <1>2, TypedAlways, PTL DEF Spec, ShowsKnownState, Known!AbsSpec
=============================================================================
