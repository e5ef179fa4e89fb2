-------------------------- MODULE EndpointReception --------------------------
(***************************************************************************)
(* Home Assistant receiving through the endpoint: ESPHomeAPIBackend        *)
(* (esphome_api.py) over HomeAssistantESPHomeTransport (transport.py), and *)
(* the tasks of one runtime entry that share them: a send, the             *)
(* confirmation that follows it, the active listener and the periodic sync *)
(* of services.py.                                                         *)
(*                                                                         *)
(* An action is the code of one task between two suspension points, or a   *)
(* step of the link or of the endpoint.  A call of the native API raises   *)
(* when the link is down and does not wait for the endpoint otherwise.     *)
(* What the endpoint publishes arrives in order: received frames, and the  *)
(* sensors that tell a send its result.                                    *)
(*                                                                         *)
(* The endpoint offers every action of the firmware.  Sends do not overlap *)
(* (EndpointLink has those that do), and unloading waits for its tasks     *)
(* without a time limit.                                                   *)
(***************************************************************************)
EXTENDS Naturals, Sequences

CONSTANTS
  Own,          \* serial_id of the learned profile
  Remotes,      \* the remotes whose frames the endpoint hears
  States,       \* the states those frames carry
  Asked,        \* the state the sends ask for
  NoState,      \* what a capture without a candidate carries
  Captures,     \* what the endpoint emits for what it hears
  Backlog,      \* bound on the frames on the way and in the queue
  InFlight,     \* a send or a sync starts with fewer calls on the way
  Outages       \* bound on the losses of the link

ASSUME ReceptionAssumption ==
  /\ Own \in Remotes /\ Asked \in States /\ NoState \notin States
  /\ Captures \subseteq [kind : {"rx_packet", "fifo_capture", "pulse_capture"},
                         remote : Remotes, state : States \cup {NoState},
                         ecc : BOOLEAN,     \* the checks of the profile hold
                         sound : BOOLEAN]   \* accepted, or of a length that fits
  /\ \A e \in Captures : e.ecc => e.state # NoState
  /\ {Backlog, InFlight} \subseteq Nat \ {0} /\ Outages \in Nat

VARIABLES
  phase,        \* of the runtime entry: "open", "unloading", "stopping", "closed"
  enabled,      \* runtime_entry.active_listening_enabled
  backend,      \* of ESPHomeAPIBackend: connected, active_listening_enabled, and
                \* whether its profile is extended, which no firmware filters for
  open,         \* the transport is connected, configured and subscribed
  queue,        \* _rx_queue
  snd, cnf, lst, syn,  \* the tasks
  observed,     \* the remote and state of the packet last applied
  calls, wire,  \* on the way to the endpoint and from it
  link,         \* the linked entry: "absent" (no runtime_data), "down", "up"
  outages,      \* losses of the link so far
  mode,         \* reception of the endpoint: "off", "strict" (filtered), "raw"
  history       \* stale: a frame heard before a TX was applied after it was recorded;
                \* cut: the last stop was not sent, or was lost with the link;
                \* late: a send of a service call outlived the start of the unload

tasks == <<snd, cnf, lst, syn>>
world == <<calls, wire, link, outages, mode>>
vars  == <<phase, enabled, backend, open, queue, tasks, observed, world, history>>

Idle == [pc |-> "idle", service |-> FALSE, restore |-> FALSE, ok |-> FALSE, cancel |-> FALSE]
NoConfirmation == [pc |-> "idle", cancel |-> FALSE]

\* Setup hands the option to the backend, which is not connected yet.  The
\* endpoint may listen still, for an entry that did not live to stop it.
Init ==
  /\ phase = "open" /\ enabled \in BOOLEAN
  /\ \E extended \in BOOLEAN :
       /\ backend = [connected |-> FALSE, listening |-> enabled, extended |-> extended]
       /\ mode \in {"off", IF extended THEN "raw" ELSE "strict"}
  /\ open = FALSE /\ queue = <<>>
  /\ snd = Idle /\ cnf = NoConfirmation
  /\ lst = IF enabled THEN "recv" ELSE "off"
  /\ syn = "sleep"
  /\ observed = NoState
  /\ calls = <<>> /\ wire = <<>>
  /\ link \in {"absent", "down", "up"} /\ outages = 0
  /\ history = [stale |-> FALSE, cut |-> FALSE, late |-> FALSE]

-----------------------------------------------------------------------------
\* Calls.

Up == link = "up"

Stop   == [op |-> "rx_stop"]
Tx     == [op |-> "tx"]
Policy(on) == [op |-> "set_active_listening",
               mode |-> IF ~on THEN "off" ELSE IF backend.extended THEN "raw" ELSE "strict"]

Result == [op |-> "result"]

Call(c) == calls' = IF Up THEN Append(calls, c) ELSE calls

\* Mutant: what was received before is kept.
set_active_listening_no_drain(on) == queue' = queue /\ Call(Policy(on))

\* set_active_listening of the transport.  The queue is drained before the
\* call is made, whether or not it raises.
set_active_listening(on) ==
  /\ queue' = IF on THEN <<>> ELSE queue
  /\ Call(Policy(on))

\* connect of the backend up to its call: the transport is open even when
\* that call raises.
connect ==
  /\ open' = (link # "absent" \/ open)
  /\ IF link = "absent" THEN UNCHANGED <<queue, calls>>
     ELSE set_active_listening(backend.listening)

\* The rest of connect; a transport closed meanwhile has no status.
connected == backend' = [backend EXCEPT !.connected = open]

\* stop_rx: nothing it raises leaves the backend, and a call that raises drains
\* nothing.
stop_rx ==
  IF open /\ Up THEN Call(Stop) /\ queue' = <<>> ELSE UNCHANGED <<queue, calls>>

-----------------------------------------------------------------------------
\* What an event says.

\* The filter of the firmware must have accepted a decoded event.
rx_event_is_decodable(e) == e.kind = "rx_packet" => e.sound

\* A decoded event must fit the profile, whatever the firmware compared.
packet_from_decoded_rx_event(e) == e.remote = Own /\ e.ecc

scan_fifo_event(e) == e.state # NoState

\* The stated number of bits must fit the payload.
scan_pulse_event(e) == e.sound /\ e.state # NoState

\* receive returns a packet; of a capture, of whatever remote.
Decodes(e) ==
  /\ rx_event_is_decodable(e)
  /\ CASE e.kind = "rx_packet"     -> packet_from_decoded_rx_event(e)
       [] e.kind = "fifo_capture"  -> scan_fifo_event(e)
       [] e.kind = "pulse_capture" -> scan_pulse_event(e)

\* Receiving takes the first event; the caller gets it when it decodes.
Take == queue # <<>> /\ queue' = Tail(queue)
Taken == Head(queue).capture

Apply(e) == observed' = [remote |-> e.remote, state |-> e.state]

Listening == enabled /\ phase = "open"

\* Mutant: a listener that has ended is not started again.
Revived_never == lst

\* async_start_active_listener.
Revived == IF lst = "off" /\ Listening THEN "recv" ELSE lst

-----------------------------------------------------------------------------
\* A send.

\* A debounced send, or one of a service call, which no task of the entry names.
\* It cancels the confirmation and stops the reception.
SendStarts ==
  /\ phase = "open" /\ snd.pc = "idle" /\ Len(calls) < InFlight
  /\ \E service \in BOOLEAN :
       snd' = [Idle EXCEPT !.pc = "entry_stop", !.service = service]
  /\ cnf' = IF cnf.pc = "idle" THEN cnf ELSE [cnf EXCEPT !.cancel = TRUE]
  /\ stop_rx
  /\ UNCHANGED <<phase, enabled, backend, open, lst, syn, observed,
                 wire, link, outages, mode, history>>

\* send notes whether to listen again, and stops once more.
SendStops ==
  /\ ~snd.cancel
  /\ \/ snd.pc = "entry_stop" /\ backend.connected /\ UNCHANGED backend
     \/ snd.pc = "connect" /\ Up /\ open /\ connected
  /\ snd' = [snd EXCEPT !.pc = "stop", !.restore = backend.listening]
  /\ stop_rx
  /\ UNCHANGED <<phase, enabled, open, cnf, lst, syn, observed,
                 wire, link, outages, mode, history>>

SendConnects ==
  /\ snd.pc = "entry_stop" /\ ~snd.cancel /\ ~backend.connected
  /\ connect
  /\ snd' = IF Up THEN [snd EXCEPT !.pc = "connect"] ELSE Idle
  /\ UNCHANGED <<phase, enabled, backend, cnf, lst, syn, observed,
                 wire, link, outages, mode, history>>

\* The link was lost, or the transport closed, after the call of connect.
SendConnectFails ==
  /\ snd.pc = "connect" /\ ~snd.cancel /\ ~(Up /\ open)
  /\ snd' = Idle
  /\ UNCHANGED <<phase, enabled, backend, open, queue, cnf, lst, syn, observed,
                 world, history>>

\* send_tx.
SendTransmits ==
  /\ snd.pc = "stop" /\ ~snd.cancel /\ Up /\ open
  /\ queue' = <<>>
  /\ Call(Tx)
  /\ snd' = [snd EXCEPT !.pc = "tx"]
  /\ UNCHANGED <<phase, enabled, backend, open, cnf, lst, syn, observed,
                 wire, link, outages, mode, history>>

\* The finally clause of send.
Restores(ok) ==
  IF snd.restore
    THEN /\ IF backend.connected THEN set_active_listening(TRUE)
            ELSE UNCHANGED <<queue, calls>>
         /\ backend' = [backend EXCEPT !.listening = TRUE]
         /\ snd' = [snd EXCEPT !.pc = "restore", !.ok = ok]
    ELSE /\ UNCHANGED <<queue, calls, backend>>
         /\ snd' = [snd EXCEPT !.pc = "restore", !.ok = ok]

\* The sensors confirm the request.
SendConfirmed ==
  /\ snd.pc = "tx" /\ open /\ wire # <<>> /\ Head(wire) = Result
  /\ wire' = Tail(wire)
  /\ IF snd.cancel THEN UNCHANGED <<snd, queue, calls, backend>> ELSE Restores(TRUE)
  /\ UNCHANGED <<phase, enabled, open, cnf, lst, syn, observed,
                 link, outages, mode, history>>

ResultLost == /\ \A i \in DOMAIN calls : calls[i] # Tx
              /\ \A i \in DOMAIN wire : wire[i] # Result

\* The call raises, the wait times out after an outage, or the task was cancelled.
SendFails ==
  /\ \/ snd.pc = "stop" /\ ~snd.cancel /\ ~(Up /\ open)
     \/ snd.pc = "tx" /\ (snd.cancel \/ ~(Up /\ open) \/ ResultLost)
  /\ Restores(FALSE)
  /\ UNCHANGED <<phase, enabled, open, cnf, lst, syn, observed,
                 wire, link, outages, mode, history>>

\* After a success the listener is made sure of or, without active listening, a
\* confirmation starts; the one before it, cancelled when the send started, is
\* over by then.
SendEnds ==
  /\ \/ snd.pc = "restore"
     \/ snd.cancel /\ snd.pc \in {"entry_stop", "connect", "stop"}
  /\ snd' = Idle
  /\ IF snd.ok /\ ~snd.cancel
       THEN IF enabled THEN lst' = Revived /\ UNCHANGED cnf
            ELSE /\ cnf.pc = "idle"
                 /\ cnf' = IF open THEN [pc |-> "recv", cancel |-> FALSE] ELSE cnf
                 /\ UNCHANGED lst
       ELSE UNCHANGED <<cnf, lst>>
  /\ UNCHANGED <<phase, enabled, backend, open, queue, syn, observed, world, history>>

-----------------------------------------------------------------------------
\* The confirmation of a send.

\* A packet of the remote with the state that was asked for confirms it.
\* Nothing turns the reception on for it.
ConfirmationReceives ==
  /\ cnf.pc = "recv" /\ ~cnf.cancel /\ phase = "open" /\ backend.connected
  /\ Take
  /\ IF Decodes(Taken) /\ Taken.remote = Own /\ Taken.state = Asked
       THEN /\ cnf' = [cnf EXCEPT !.pc = "end"]
            /\ Apply(Taken)
       ELSE UNCHANGED <<cnf, observed>>
  /\ UNCHANGED <<phase, enabled, backend, open, snd, lst, syn, world, history>>

\* The window ends, or the task is cancelled.
ConfirmationEnds ==
  /\ cnf.pc = "recv"
  /\ cnf' = [cnf EXCEPT !.pc = "end"]
  /\ UNCHANGED <<phase, enabled, backend, open, queue, snd, lst, syn, observed,
                 world, history>>

\* The finally clause.
ConfirmationStops ==
  /\ cnf.pc = "end"
  /\ cnf' = NoConfirmation
  /\ stop_rx
  /\ UNCHANGED <<phase, enabled, backend, open, snd, lst, syn, observed,
                 wire, link, outages, mode, history>>

-----------------------------------------------------------------------------
\* The active listener.

\* An observed packet is applied and, when it says something new, the display
\* pushed; that it raises ends the listener.  While a send waits for its result
\* the packet may be older: what the send records replaces it.
ListenerReceives ==
  /\ lst = "recv" /\ Listening /\ backend.connected
  /\ Take
  /\ IF Decodes(Taken) /\ Taken.remote = Own
       THEN /\ Apply(Taken)
            /\ lst' \in IF Up THEN {"recv"} ELSE {"recv", "off"}
            /\ history' = [history EXCEPT !.stale = @ \/ (~Head(queue).fresh /\ snd.pc # "tx")]
       ELSE UNCHANGED <<observed, lst, history>>
  /\ UNCHANGED <<phase, enabled, backend, open, snd, cnf, syn, world>>

\* receive opens a backend that is not connected.  An entry that is not loaded
\* is tried again later; any other error ends the listener.
ListenerConnects ==
  /\ lst = "recv" /\ Listening /\ ~backend.connected
  /\ link # "absent"
  /\ connect
  /\ lst' = IF Up THEN "connect" ELSE "off"
  /\ UNCHANGED <<phase, enabled, backend, snd, cnf, syn, observed,
                 wire, link, outages, mode, history>>

ListenerConnected ==
  /\ lst = "connect" /\ Listening
  /\ connected
  /\ lst' = "recv"
  /\ UNCHANGED <<phase, enabled, open, queue, snd, cnf, syn, observed, world, history>>

ListenerStops ==
  /\ lst # "off" /\ ~Listening
  /\ lst' = "off"
  /\ UNCHANGED <<phase, enabled, backend, open, queue, snd, cnf, syn, observed,
                 world, history>>

-----------------------------------------------------------------------------
\* The periodic sync.

\* async_sync_runtime_rx_policy of a connected backend.
SyncPolicy ==
  /\ syn = "sleep" /\ phase = "open" /\ backend.connected /\ Len(calls) < InFlight
  /\ set_active_listening(enabled)
  /\ backend' = [backend EXCEPT !.listening = enabled]
  /\ syn' = IF Up THEN "policy" ELSE "sleep"
  /\ UNCHANGED <<phase, enabled, open, snd, cnf, lst, observed,
                 wire, link, outages, mode, history>>

\* The rest of async_sync_runtime_display_state: a listener that has ended is
\* started again, and the display is pushed.
SyncDisplay ==
  /\ syn = "policy" /\ phase = "open"
  /\ lst' = Revived
  /\ syn' = "sleep"
  /\ UNCHANGED <<phase, enabled, backend, open, queue, snd, cnf, observed,
                 world, history>>

\* There is no policy call without a connection; the push opens one.
SyncConnects ==
  /\ syn = "sleep" /\ phase = "open" /\ ~backend.connected
  /\ backend' = [backend EXCEPT !.listening = enabled]
  /\ lst' = Revived
  /\ connect
  /\ syn' = IF Up THEN "connect" ELSE "sleep"
  /\ UNCHANGED <<phase, enabled, snd, cnf, observed,
                 wire, link, outages, mode, history>>

SyncConnected ==
  /\ syn = "connect" /\ phase = "open"
  /\ connected
  /\ syn' = "sleep"
  /\ UNCHANGED <<phase, enabled, open, queue, snd, cnf, lst, observed, world, history>>

SyncStops ==
  /\ syn # "over" /\ phase # "open"
  /\ syn' = "over"
  /\ UNCHANGED <<phase, enabled, backend, open, queue, snd, cnf, lst, observed,
                 world, history>>

-----------------------------------------------------------------------------
\* Unloading, and the stop of Home Assistant.

Unload ==
  /\ phase = "open"
  /\ phase' = "unloading"
  /\ enabled' = FALSE
  /\ snd' = IF snd.pc = "idle" \/ snd.service THEN snd ELSE [snd EXCEPT !.cancel = TRUE]
  /\ cnf' = IF cnf.pc = "idle" THEN cnf ELSE [cnf EXCEPT !.cancel = TRUE]
  /\ history' = [history EXCEPT !.late = snd.service]
  /\ UNCHANGED <<backend, open, queue, lst, syn, observed, world>>

\* The tasks the entry names.
AllDone == (snd.pc = "idle" \/ snd.service) /\ cnf.pc = "idle" /\ lst = "off" /\ syn = "over"

\* Mutant: the reception is left as it is.
Close_no_stop ==
  /\ phase = "unloading" /\ AllDone
  /\ phase' = "stopping"
  /\ history' = [history EXCEPT !.cut = ~(open /\ Up)]
  /\ UNCHANGED <<enabled, backend, open, queue, tasks, observed, world>>

\* close stops the reception, and then closes the transport.
Close ==
  /\ phase = "unloading" /\ AllDone
  /\ phase' = "stopping"
  /\ stop_rx
  /\ history' = [history EXCEPT !.cut = ~(open /\ Up)]
  /\ UNCHANGED <<enabled, backend, open, tasks, observed,
                 wire, link, outages, mode>>

Closed ==
  /\ phase = "stopping"
  /\ phase' = "closed"
  /\ open' = FALSE
  /\ queue' = <<>>
  /\ backend' = [backend EXCEPT !.connected = FALSE, !.listening = FALSE]
  /\ UNCHANGED <<enabled, tasks, observed, world, history>>

-----------------------------------------------------------------------------
\* The link and the endpoint.

\* A frame that is heard while a reception is on.
Hear(e) ==
  /\ mode # "off" /\ Up
  /\ (mode = "strict") <=> (e.kind = "rx_packet")
  /\ Len(wire) < Backlog /\ Len(queue) < Backlog
  /\ wire' = Append(wire, [capture |-> e, fresh |-> TRUE])
  /\ UNCHANGED <<phase, enabled, backend, open, queue, tasks, observed,
                 calls, link, outages, mode, history>>

Old(s) == [i \in DOMAIN s |-> IF s[i] = Result THEN s[i] ELSE [s[i] EXCEPT !.fresh = FALSE]]

\* A transmission pauses the reception and takes it up again; its result is
\* published after everything that was heard before.
HandleCall ==
  /\ calls # <<>>
  /\ calls' = Tail(calls)
  /\ CASE Head(calls).op = "tx" ->
            /\ wire' = Append(Old(wire), Result) /\ queue' = Old(queue) /\ UNCHANGED mode
       [] Head(calls).op = "rx_stop" -> mode' = "off" /\ UNCHANGED <<wire, queue>>
       [] OTHER -> mode' = Head(calls).mode /\ UNCHANGED <<wire, queue>>
  /\ UNCHANGED <<phase, enabled, backend, open, tasks, observed,
                 link, outages, history>>

\* The event of a frame reaches the bus; a result nobody waits for any more is
\* only a sensor value.
Deliver ==
  /\ wire # <<>>
  /\ wire' = Tail(wire)
  /\ IF Head(wire) = Result THEN ~(snd.pc = "tx" /\ open) /\ UNCHANGED queue
     ELSE queue' = IF open THEN Append(queue, Head(wire)) ELSE queue
  /\ UNCHANGED <<phase, enabled, backend, open, tasks, observed,
                 calls, link, outages, mode, history>>

\* What is on the way is lost with the link; the endpoint goes on, or restarts
\* without a reception.
LinkLost ==
  /\ Up /\ outages < Outages
  /\ link' = "down"
  /\ outages' = outages + 1
  /\ calls' = <<>> /\ wire' = <<>>
  /\ mode' \in {mode, "off"}
  /\ history' = [history EXCEPT !.cut = @ \/ phase \in {"stopping", "closed"}]
  /\ UNCHANGED <<phase, enabled, backend, open, queue, tasks, observed>>

\* The entry of the endpoint is set up, then connected.
LinkBack ==
  /\ ~Up
  /\ link' = IF link = "absent" THEN "down" ELSE "up"
  /\ UNCHANGED <<phase, enabled, backend, open, queue, tasks, observed,
                 calls, wire, outages, mode, history>>

Send == SendStops \/ SendConnects \/ SendConnectFails \/ SendTransmits
          \/ SendConfirmed \/ SendFails \/ SendEnds
Confirmation == ConfirmationEnds \/ ConfirmationStops
Listener == ListenerReceives \/ ListenerConnects \/ ListenerConnected \/ ListenerStops
Sync == SyncPolicy \/ SyncDisplay \/ SyncConnects \/ SyncConnected \/ SyncStops

Next ==
  \/ SendStarts \/ Send
  \/ ConfirmationReceives \/ Confirmation
  \/ Listener \/ Sync
  \/ Unload \/ Close \/ Closed
  \/ (\E e \in Captures : Hear(e)) \/ HandleCall \/ Deliver
  \/ LinkLost \/ LinkBack

\* The tasks run, and the endpoint and its link come back and do what they are
\* told.  The timer of the sync fires for ever: SF, since InFlight can hold
\* back a sync that the code would have made.
Spec ==
  /\ Init /\ [][Next]_vars
  /\ WF_vars(Send) /\ WF_vars(Confirmation) /\ WF_vars(Listener) /\ SF_vars(Sync)
  /\ WF_vars(Close) /\ WF_vars(Closed)
  /\ WF_vars(HandleCall) /\ WF_vars(Deliver) /\ WF_vars(LinkBack)

-----------------------------------------------------------------------------

\* Whatever happened to the link and whatever is being sent, an open entry
\* comes back to the reception its option asks for, with somebody to receive
\* ("RX policy must be reapplied through the same periodic controller sync
\* path", services.py:913; the restart of the listener in
\* async_sync_runtime_display_state).
Hears == /\ mode = Policy(enabled).mode
         /\ enabled => lst # "off" /\ backend.connected
ReceptionConverges == []<>(Hears \/ phase # "open")

\* What the listener applies was decoded and of the entry's remote, and a frame
\* heard before a transmission is not applied once that transmission was
\* recorded, which would show the state before it: nothing of before is left in
\* the queue or on the way (set_active_listening drains in the finally clause
\* of send, after the sensors answered).
ObservedIsTrue ==
  /\ ~history.stale
  /\ observed # NoState => observed.remote = Own /\ observed.state \in States

\* An entry that was unloaded leaves the endpoint without reception, even when
\* the send it cancelled has just restored it, and nothing opens the transport
\* again (close).  A send that a service call started is not cancelled, and can
\* do both.
ClosedIsQuiet == phase = "closed" =>
  /\ ~history.late => ~open /\ queue = <<>>
  /\ Up /\ calls = <<>> /\ ~history.cut /\ ~history.late => mode = "off"
=============================================================================
