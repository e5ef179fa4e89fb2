---------------------------- MODULE EndpointLink ----------------------------
(***************************************************************************)
(* Home Assistant sending through the endpoint: ESPHomeAPIBackend.send and *)
(* transport.py on one side, the main loop and the worker of RadioEndpoint *)
(* on the other, and between them the native API, which keeps the order of *)
(* the calls one way and of the sensor values the other way.               *)
(*                                                                         *)
(* A call does not answer.  Home Assistant learns what became of it from   *)
(* the sensors, which it polls, and each sensor value is a message of its  *)
(* own; they are seen together when they arrive in one piece.  All         *)
(* payloads have the same length, and it is already published.             *)
(***************************************************************************)
EXTENDS RadioEndpoint, Integers, Sequences

CONSTANTS
  Requests,    \* the sends, each with a request id of its own
  NoRequest,   \* no request id published yet, or that of a test pattern
  Overlap,     \* a send may start before the last one is over
  Timeouts,    \* the wait can time out while the endpoint still works on it
  Together,    \* sensor values published together are seen together
  Listening,   \* active_listening_enabled of the backend
  MaxOutcomes  \* bound: test patterns come while fewer outcomes are published

ASSUME LinkAssumption ==
  /\ NoRequest \notin Requests
  /\ {Overlap, Timeouts, Together, Listening} \subseteq BOOLEAN
  /\ MaxOutcomes \in Nat

VARIABLES
  calls,       \* the calls on their way to the endpoint
  telemetry,   \* the sensor values on their way to Home Assistant
  own, seen,   \* the sensors as the endpoint and as Home Assistant has them
  send,        \* the sends
  onAir,       \* the request of the command last queued, if it is a tx
  sent,        \* history: the requests whose transmission went well
  crossed      \* history: the sends that met another transmission on the way

link    == <<calls, telemetry, own, seen, send, onAir, sent, crossed>>
allvars == <<vars, link>>

NoTelemetry == [result |-> "none", id |-> NoRequest, success |-> 0, failure |-> 0]

LinkInit ==
  /\ Init
  /\ calls = <<>> /\ telemetry = <<>>
  /\ own = NoTelemetry /\ seen = NoTelemetry
  /\ send = [r \in Requests |-> [pc |-> "new", pre |-> NoTelemetry]]
  /\ onAir = NoRequest
  /\ sent = {}
  /\ crossed = {}

-----------------------------------------------------------------------------
\* publish_telemetry_: the values that changed, in the order it has them.

Changed(field, new) == IF own[field] = new[field] THEN <<>>
                        ELSE <<[f \in {field} |-> new[field]]>>

Publish(new) ==
  /\ own' = new
  /\ telemetry' = telemetry \o
       IF Together THEN <<new>>
       ELSE Changed("result", new) \o Changed("id", new)
              \o Changed("success", new) \o Changed("failure", new)

-----------------------------------------------------------------------------
\* Home Assistant.

Over(r) == send[r].pc \in {"new", "ok", "failed", "unconfirmed"}
UnderWay == {r \in Requests : ~Over(r)}

\* Nothing is left of the sends and test patterns so far.
Settled ==
  /\ UnderWay = {} /\ ~txInProgress
  /\ telemetry = <<>> /\ seen = own
  /\ \A i \in DOMAIN calls : calls[i].op # "tx"

\* send() stops the reception first.
StartSend(r) ==
  /\ send[r].pc = "new"
  /\ Overlap \/ UnderWay = {}
  /\ send' = [send EXCEPT ![r].pc = "stopping"]
  /\ calls' = Append(calls, [op |-> "rx_stop"])
  /\ crossed' = IF Settled THEN crossed ELSE crossed \cup UnderWay \cup {r}
  /\ UNCHANGED <<vars, telemetry, own, seen, onAir, sent>>

\* send_tx notes the sensors and invokes the tx action.
InvokeTx(r) ==
  /\ send[r].pc = "stopping"
  /\ send' = [send EXCEPT ![r] = [pc |-> "waiting", pre |-> seen]]
  /\ calls' = Append(calls, [op |-> "tx", id |-> r])
  /\ UNCHANGED <<vars, telemetry, own, seen, onAir, sent, crossed>>

\* Mutant: only a success is looked for.
Confirms_success_only(r) ==
  /\ seen.id = r
  /\ seen.success > send[r].pre.success \/ seen.result = "ok"

\* The test of _wait_for_request_confirmation.
Confirms(r) ==
  /\ seen.id = r
  /\ \/ seen.success > send[r].pre.success \/ seen.failure > send[r].pre.failure
     \/ seen.result \in {"ok", "error:tx_busy", "error:radio_tx_failed"}

\* Mutant: a failed send does not restore the listening.
EndSend_no_finally(r, pc) ==
  /\ send' = [send EXCEPT ![r].pc = pc]
  /\ calls' = IF Listening /\ pc = "ok"
                THEN Append(calls, [op |-> "set_active_listening"]) ELSE calls
  /\ UNCHANGED <<vars, telemetry, own, seen, onAir, sent, crossed>>

\* send() restores the listening in its finally clause, however it ends.
EndSend(r, pc) ==
  /\ send' = [send EXCEPT ![r].pc = pc]
  /\ calls' = IF Listening THEN Append(calls, [op |-> "set_active_listening"]) ELSE calls
  /\ UNCHANGED <<vars, telemetry, own, seen, onAir, sent, crossed>>

Confirmed(r) ==
  /\ send[r].pc = "waiting" /\ Confirms(r)
  /\ EndSend(r, IF seen.result = "ok" THEN "ok" ELSE "failed")

TimesOut(r) ==
  /\ Timeouts
  /\ send[r].pc = "waiting" /\ ~Confirms(r)
  /\ EndSend(r, "unconfirmed")

Received(values, sensors) ==
  [f \in DOMAIN sensors |-> IF f \in DOMAIN values THEN values[f] ELSE sensors[f]]

ReadSensor ==
  /\ telemetry # <<>>
  /\ seen' = Received(Head(telemetry), seen)
  /\ telemetry' = Tail(telemetry)
  /\ UNCHANGED <<vars, calls, own, send, onAir, sent, crossed>>

-----------------------------------------------------------------------------
\* The endpoint.

Called(op) == calls # <<>> /\ Head(calls).op = op /\ calls' = Tail(calls)

HandleRxStop ==
  /\ Called("rx_stop")
  /\ SetCaptureMode("off")
  /\ UNCHANGED <<telemetry, own, seen, send, onAir, sent, crossed>>

HandleSetActiveListening ==
  /\ Called("set_active_listening")
  /\ EnableActiveListener(TRUE)
  /\ UNCHANGED <<telemetry, own, seen, send, onAir, sent, crossed>>

\* Mutant: the result of the request before is still there when the new
\* request id is published.
HandleTx_result_left ==
  /\ Called("tx")
  /\ EnqueueTx
  /\ Publish([own EXCEPT !.id = Head(calls).id])
  /\ onAir' = Head(calls).id
  /\ UNCHANGED <<seen, send, sent, crossed>>

HandleTx ==
  /\ Called("tx")
  /\ EnqueueTx
  /\ Publish([own EXCEPT !.id = Head(calls).id, !.result = "queued"])
  /\ onAir' = Head(calls).id
  /\ UNCHANGED <<seen, send, sent, crossed>>

\* A rejected request still becomes the last request.
HandleTxBusy ==
  /\ Called("tx")
  /\ txInProgress
  /\ Publish([own EXCEPT !.id = Head(calls).id, !.result = "error:tx_busy",
                         !.failure = @ + 1])
  /\ UNCHANGED <<vars, seen, send, onAir, sent, crossed>>

\* The bench action, from a button of the device; its request id is no send's.
HandleTestPattern ==
  /\ own.success + own.failure < MaxOutcomes
  /\ EnqueueTestPattern
  /\ Publish([own EXCEPT !.id = NoRequest, !.result = "queued"])
  /\ onAir' = NoRequest
  /\ crossed' = crossed \cup UnderWay
  /\ UNCHANGED <<calls, seen, send, sent>>

HandleTestPatternBusy ==
  /\ BenchActions
  /\ own.success + own.failure < MaxOutcomes
  /\ txInProgress
  /\ Publish([own EXCEPT !.id = NoRequest, !.result = "error:tx_busy", !.failure = @ + 1])
  /\ crossed' = crossed \cup UnderWay
  /\ UNCHANGED <<vars, calls, seen, send, onAir, sent>>

\* The result is published; the request id is left as it is.
Complete(ok) ==
  /\ ConsumeEvent
  /\ Publish(IF ok THEN [own EXCEPT !.result = "ok", !.success = @ + 1]
             ELSE [own EXCEPT !.result = "error:radio_tx_failed", !.failure = @ + 1])
  /\ sent' = IF ok THEN sent \cup ({onAir} \ {NoRequest}) ELSE sent
  /\ UNCHANGED <<calls, seen, send, onAir, crossed>>

Radio ==
  /\ WorkerStarts \/ WorkerEnds \/ PollFifo \/ ExportFifo \/ Reconfigure
  /\ UNCHANGED link

LinkNext ==
  \/ \E r \in Requests : StartSend(r) \/ InvokeTx(r) \/ Confirmed(r) \/ TimesOut(r)
  \/ ReadSensor
  \/ HandleRxStop \/ HandleSetActiveListening \/ HandleTx \/ HandleTxBusy
  \/ HandleTestPattern \/ HandleTestPatternBusy
  \/ \E ok \in BOOLEAN : Complete(ok)
  \/ Radio

LinkSpec == LinkInit /\ [][LinkNext]_allvars

Handle == HandleRxStop \/ HandleSetActiveListening \/ HandleTx \/ HandleTxBusy

\* The connection delivers, the main loop of the endpoint and its worker run,
\* and the waits poll.  Only a send that met another has to rely on the time-out.
LinkFairSpec ==
  /\ LinkSpec
  /\ WF_allvars(Handle) /\ WF_allvars(ReadSensor)
  /\ WF_allvars(\E ok \in BOOLEAN : Complete(ok))
  /\ WF_allvars(WorkerStarts /\ UNCHANGED link) /\ WF_allvars(WorkerEnds /\ UNCHANGED link)
  /\ WF_allvars(PollFifo /\ UNCHANGED link)
  /\ \A r \in Requests : WF_allvars(InvokeTx(r)) /\ WF_allvars(Confirmed(r) \/ (r \in crossed /\ TimesOut(r)))

-----------------------------------------------------------------------------

\* What Home Assistant takes for a success was transmitted, and what it takes for
\* a failure was not: the state it goes on showing is the fireplace's
\* (_wait_for_request_confirmation).  This is about the sends that met no other on
\* the way, whatever overlapped, timed out or came late before them: the sensors
\* are those of the last request, and a result is not tied to the id beside it.
AnswersAreTruthful == \A r \in Requests \ crossed :
  /\ send[r].pc = "ok" => r \in sent
  /\ send[r].pc = "failed" => r \notin sent

\* Every send that met no other gets an answer from the sensors.
SendsEnd == \A r \in Requests : send[r].pc = "waiting" ~> Over(r) \/ r \in crossed

\* With active listening on, a reception stopped for a send is taken up again
\* (the finally clause of send), however sends overlap and time out: no stop is
\* left standing, no restore is lost.  One that comes during a transmission leaves
\* the reception touched, and may leave it switched on with the radio idle.
Receiving == (rx.fifo \/ rx.rmt) /\ rx.state = "rx"
ListensAgain ==
  Listening /\ ~Receiving /\ (\E r \in Requests : send[r].pc = "waiting")
    ~> Receiving \/ touched
=============================================================================
