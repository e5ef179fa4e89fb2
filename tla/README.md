# A TLA+ model of HACS-Proflame2

HACS-Proflame2 controls Proflame 2 gas fireplaces by radio. A Home Assistant
integration (`src/custom_components/proflame2`) keeps the state of one fireplace,
builds frames and hands them to a radio backend; one of the backends is a
battery-powered ESPHome endpoint with a CC1101 (`src/esphome/components/proflame2_tembed`),
another a YARD Stick One in a worker process. The protocol is open loop: a
fireplace never answers. What Home Assistant shows is what it last sent or what
it overheard, and most of the difficulty is in keeping that claim true while
edits, sends, confirmations, overheard frames, restarts and unloads overlap.

This directory holds the modules, the TLC configurations and the TLAPS proofs.
`PROJECT.json` lists the components, the runs, the lines each definition stands
for, the findings, the hazards and the theorems.

## 1. The system

| Component | State it keeps | Operations | Talks to |
| --- | --- | --- | --- |
| Control core (`services.py`, `runtime.py`, entities) | `Proflame2RuntimeEntry`: last packet, confidence, active profile, desired state, operational status, `sending_in_progress`, four task references, shutdown flag; the per-entry record in the runtime cache | staging an entity edit, debounce, send, record a success or a failure, confirmation window, active listener, periodic sync, unload and stop | backends (`send`, `receive`, `stop_rx`), storage, display push |
| State model and command bytes (`control.py`, `protocol/models.py`, `encoder.py`, `packet.py`) | none (pure) | build a request, merge an edit, validate, encode, decode | every control path |
| Persistence and restore (`runtime.py`) | one stored record for each entry | persist on every change; restore or initialise to a safe default at setup | control core, storage of Home Assistant |
| Options and saved profiles (`config_flow.py`, `profile.py`, `options.py`) | the options of the entry; what each open dialog shows and selected | declare features; add, edit, delete, apply a profile; normalise | persistence (a save reloads the entry), control core |
| Guided learning and configuration flow (`config_flow.py`, `learning.py`) | the steps of a flow, the radio session, the packets heard, a capture task, closes in the background | manual, guided and rtl_433 setup; prompts, retries, diagnostic prompts, removal | backends, ECC inference |
| Protocol words, ECC (`protocol/ecc.py`, `decoder.py`) | learned constants of a remote | infer, check, encode a word | state model, learning |
| Capture analysis, waveforms (`rf/capture.py`, `pulse.py`, `waveform.py`) | none (pure, numeric) | frame to bits and pulses, and back | backends |
| Link to the endpoint (`rf/esphome_api.py`, `rf/esphome/transport.py`; telemetry of the firmware) | the sensors as each side has them; a queue of received events | stop RX, `tx`, wait for the sensors to answer, restore active listening, receive | the native API of ESPHome |
| Radio of the endpoint (`proflame2_tembed.cpp`, `radio_cc1101*.cpp`) | capture flags, pause marks, registers and mode of the chip, `tx_in_progress_`, two queues of one entry | set a capture mode or path, configure the active listener, enqueue a TX, the worker task, consume its event, poll the FIFO | link, worker task |
| FIFO window, active listener (`fifo_rx_controller.cpp`, `active_listener.cpp`) | ring buffer, export window, duplicate signature and tick | drain, trigger, export; match and suppress | radio, link |
| RMT receiver and decoder (`rmt_ook_receiver.cpp`, `proflame2_decoder.cpp`) | a symbol buffer shared with the driver callback | receive, hand over, decode | radio |
| YARD Stick backend (`rf/yardstick.py`, `yardstick_worker.py`) | worker process and its pipe, operation lock, cooldown | send, receive, request with timeout, restart, close | control core |
| Capture tools (`src/tools/proflame_capture`) | the run, the planner, the assumed fireplace, a state for each collector, a receive on a thread of its own | plan an action, prompt, read three receivers, judge the sample, summarise | operator, `rtl_433`, firmware log, YARD Stick |
| Display, battery, telemetry of the firmware | last drawn screen | render, measure | link |
| Fake backend, registry, diagnostics, scripts | none of importance | | |

How they interact. Every coroutine of the integration runs on one event loop:
between two `await`s nothing else runs, and at each one anything may. The
endpoint is two FreeRTOS tasks (ESPHome main loop, radio worker) that share the
radio without a lock; the ordering comes from two queues and one flag. Home Assistant and
the endpoint exchange fire-and-forget calls one way and sensor values and events the
other. The YARD Stick backend runs each request to its worker process in an executor thread,
which a cancelled or timed-out caller leaves behind. The capture tools poll their
receivers from one loop while processes and a thread write.

Hard behaviours and the properties that make each component correct:

* **Control core.** A timer that fires after it was replaced, an edit staged
  during a send, two sends at once, a confirmation that outlives its send, a
  cancellation at any `await`, an unload in the middle of anything. Correct
  means: the state shown follows only what was sent, heard, or kept while off
  (`ShowsKnownState`); one armed timer (`SingleTimer`), none after an unload
  (`ShutdownDisarms`); the profile, the record a reload restores and the sending flag agree with
  the rest (`ProfileMatchesCurrent`, `CacheTracksCurrent`, `SendingImpliesTx`);
  everything comes to an end (`EditsSettle`, `SendingSettles`,
  `ConfirmingEnds`, `UnloadQuiesces`).
* **State model.** The controls start from states only a remote can produce
  (thermostat, light 7, flame 0): whatever was let through is encodable
  (`EncodeNeverRejects`), and only a light at 7 keeps an edit from it (`OnlyLightSevenBlocksEdits`).
* **Restore and options.** The record is rebuilt from frame bytes: what was shown comes back
  (`RestartKeepsState`). Features may be switched off under profiles that use them, by one of
  several dialogs: what is stored can be sent (`StoredProfilesApply`), and a save touches only
  what its form is about (`SavesAreNarrow`), which does not keep two forms about one profile apart.
* **Learning.** Repeated, damaged and foreign frames, retries, a dialog closed while a step
  connects: an entry holds a profile that its frames prove (`EntryIsProven`, `LearningIsProven`),
  radios are never lost sight of (`RadioIsHeld`) and are closed (`RadioIsReleased`), and the prompts end (`LearningEnds`).
* **Capture analysis.** A receiver cuts a capture anywhere: what is whole is found
  (`WholeFrameIsFound`), what is found was sent (`DecodersAreTruthful`).
* **Radio.** One transmission at a time (`SingleFlight`, `TxCompletes`), the reception that was
  asked for and no other (`ReceiveAsWanted`), really receiving
  (`HearsWhenEnabled`), and off the radio while the worker transmits (`TxHasRadio`).
* **Link.** The answer read from the sensors is the truth about this request
  (`AnswersAreTruthful`), there is one (`SendsEnd`), and the
  reception stopped for a send is taken up again (`ListensAgain`). What the listener applies was
  not heard before the last transmission (`ObservedIsTrue`); a closed entry stays silent
  (`ClosedIsQuiet`); after any outage an open one listens again (`ReceptionConverges`).
* **YARD Stick worker.** Two processes on one USB device, a worker that outlives the close, an
  answer taken by the wrong request. Correct means: one worker at most (`NoOrphan`), none
  after a close that returned (`ClosedMeansStopped`), but for a worker that a terminate met while it was being started; a thread that does not block past its time limit
  (`RecvDoesNotBlock`), a success that means transmitted (`SendIsTruthful`).
* **Capture tools.** Reports of different receivers come late, wrong or not at all: what is
  counted was seen (`CountedStepsAreSeen`), the plan moves only with what is counted
  (`PlanIsFollowed`), and a faultless session reaches its targets (`FaultlessSessionReaches`).

## 2. The modules

```
FireplaceState        states, requests, edits, validation, command bytes (no variables)
  |-- ProflameControl         the tasks of one runtime entry
  |     |-- KnownState          abstract specification, by INSTANCE ... WITH
  |     |-- ProflameControlProofs
  |-- OptionsFlow             option dialogs on one entry (an INSTANCE for each set of features)
        |-- StateRestore        what survives a restart or a reload (composition)
              |-- StateRestoreProofs
RadioEndpoint         radio, main loop and worker of the endpoint
  |-- EndpointLink            Home Assistant's send through it (composition)
        |-- EndpointLinkProofs
EndpointReception     listener, send, confirmation, sync and unload on one transport
  |-- EndpointReceptionProofs
YardStickWorker       the YARD Stick backend, its threads and the worker process
  |-- YardStickWorkerProofs
EccProfile            checksums and the inference of a remote's constants (no variables)
  |-- ProfileLearning         what a set of frames proves (no variables)
  |     |-- ConfigFlow          the configuration flow and its radio sessions
  |           |-- ConfigFlowProofs
  |-- Waveform                frames on the air, and the decoders that find them
        |-- WaveformProofs
CapturePlanner        actions, targets and judgement of the capture tools (no variables)
  |-- CaptureSession          a session with three receivers
        |-- CaptureSessionProofs
MC<module>            constants for TLC, with one .cfg for each run
```

**FireplaceState.** A state has power, flame, thermostat and a level for each
of the five optional features; toggles have level 0 or 1. Requests and edits are
functions on a subset of the keys, like the mappings of the code. `RequestAccepted` and
`build_requested_state` are the checks and the result of one function, which
raises in the code; likewise `StageAccepted` and `build_staged_state`.
`encode_state` and `state_from_frame` compute the two command bytes bit by bit, with
`*`, `%` and `\div`.

**ProflameControl.** An action is the code between two suspension points of one
task. `snd` are the sending tasks (`sleep` in the debounce, `stop_rx`, `tx`, `persist`, named
for the `await` they are at), `cnf` the confirmation tasks, `lst` the active
listener; the pools of slots bound how many are alive at once. The four task references
of the entry are variables of their own: the code cancels what a reference names, and a task a
reference no longer names goes on. `Task.cancel()` sets a mark and
`CancelledError` arrives when the task is next resumed, so a task may be marked while
it is at any `await`. The unload cancels what the entry names and closes the backend
without waiting for them in the end, because its wait times out.
What is merged: the capability check before a confirmation never suspends, so
it belongs to `PersistDone`; the two `await`s of a confirmation's `finally`, and the storage write with the
display push, are one suspension each. A failed storage write is swallowed by
the code. The state after setup is `Init`, with any record that may have been stored: its confidence, the state its frame carries
(`Carried`: a ten-word frame has no room for the pilot setting) and the profile it was applied from, which may differ by just that. A reload is an unload followed by a new `Init`.
`cache` is the record in `hass.data`, which changes with the state; the file is written afterwards and is not modelled.
The branches of the code for a missing state or backend cannot be reached after a setup.

**KnownState.** What the entry promises, without tasks: the state shown becomes
a requested one when a transmission of it ends, an observed one when a frame is
heard, an unsent one only while the fireplace is off before and after; the
confidence falls only when a confirmation fails; the profile is the state shown, or the restored one, or none.
`Known!AbsSpec` is checked as a property of `ProflameControl` and proved of it. The
mapping: `known` is `current`, `air` the set of states the tasks in `tx` carry.

**OptionsFlow.** `options` are the features and the profiles of the entry, `dialog` what each open
dialog shows, has selected and was offered. A handler never awaits, so each is one action; what a
form shows may be older than the options it is submitted to. The normalisation is that of
`FireplaceState`, which the module instantiates for each set of features (`Model(features)`).

**StateRestore.** The data side of persistence, composed with the dialogs: packet, active profile and
record, with the operations of the core as completed ones. `Restart` rebuilds
the packet from the frame bytes as `async_restore_runtime_state` does; a save in a dialog reloads the entry,
in one step with it.
A ten-word frame has no room for the CPI feature beside its learned bit, and `state_from_frame`
reads it as off: `RestartKeepsState` compares what a frame of the remote in use carries.

**RadioEndpoint.** `rx` is the reception side (FIFO and RMT flags, pause marks,
registers and mode of the chip, direction of the data pin) and the helpers of
the firmware are functions on it. Main-loop handlers are atomic; the worker steps
between them. `wanted` and `touched` are history: the reception the calls so far ask
for, and whether one of them came during a transmission, or a bench pattern went out over an enabled reception, since the reception was last stopped.
Configuring the radio, allocating the RMT channel and starting the worker
succeed; the debug actions that change the FIFO profile are not modelled.

**EndpointLink.** Extends `RadioEndpoint` with a send of the backend: `rx_stop`, `tx`, poll
the sensors until the request is answered or the wait times out, enable the
listener again. `calls` and `telemetry` are the two ordered directions of the
native API. `sent` and `crossed` are history: the requests whose transmission went well, and the sends that met another transmission, a bench
pattern included, between their start and their end.

**EndpointReception.** The other half of the link, with the firmware reduced to a reception mode and a
transmission that takes one step: `queue` is the event queue of the transport, `snd`, `cnf`, `lst` and `syn`
are a send, its confirmation, the active listener and the periodic sync, each named for the `await` it
is at; `calls` and `wire` are what is on the way. `link` is the linked ESPHome entry: not loaded, loaded without a
connection, connected. A loss of the link drops what is on the way and may be a restart of the endpoint. A frame carries the mark `fresh`
until the endpoint handles a transmission; `history` remembers whether an old one was applied.

**YardStickWorker.** `call` are the backend calls, `thread` the supervisor requests in the
executor, which keep running after their `owner` has left (`Abandon`). `handle` stands for
`_process`, `conn` for `_conn`, `inbox` and `outbox` for the two directions of its pipe, `cooling` for the cooldown after a worker
ended. What runs under the supervisor's lock is one action, except for the start of a worker: `_process` is assigned
(`AssignsProcess`), started (`StartSpawns`) and connected (`Connects`) in three, between which `_terminate_worker` of another thread may drop it.
`poll`, `recv` and `_terminate_worker` are outside the lock, and are split. `transmitted`, `returned`, `mixed` and `missed` are history: `missed` are the
workers that a terminate met before they were connected; they start all the same and nobody stops them.
What is merged: `_conn` is read for `poll` when the request is written; a `recv` takes a whole
answer, although two threads reading one pipe may tear it; the worker transmits and answers in one step;
the check and the drop of the handles at the end of `_terminate_worker` are one, because the cooldown, 5 s, starts before them and no
worker starts during it. `connect` is the first half of a call. Only the worker mode is modelled.

**EccProfile, ProfileLearning.** The checksum of a command byte, the integrity lanes of a ten-word frame, and the
candidates for the constants a set of samples leaves; then the three ways the integration
concludes from them: guided learning, learning without prompts (what each packet of the stream leads to, and the
first that ends it), pasted `rtl_433` rows.

**ConfigFlow.** `step` is what Home Assistant shows, `at` what the running handler awaits: a disposal of the last session, the
start of one, or the diagnostic log. The capture task, the background closes and the dialog's removal interleave with it;
a removed flow goes on with the handler it is in. `radio` has the life of each session's backend. `evidence`,
the `proof` of an entry, and `orphans` are history: the packets behind a result, and the sessions nobody will close.

**Waveform.** A capture is built bit by bit as a receiver would: noise, bursts of a frame, bits lost at
either end, pulses measured too long or too short. `WholeFrameIsFound` and `DecodersAreTruthful` then
compare what the FIFO scanner and the pulse scanner make of it with what was sent.

**CapturePlanner, CaptureSession.** The planner, the semantic targets and the transition check as operators on a state of known and unknown
fields; then the session: prompt, press, the three collectors, the judgement of a complete or timed-out
sample, the count. The FIFO window of the LilyGO holds the presses of its last six seconds, of which an export may give any (the best candidate of the
analysis, where the scores are left out), and is reset by it; the exports of active listening, which keep it, are not those of a session.
`faults` bounds how often a press, a report or a read goes wrong.

## 3. What the runs check

| Run | Shows | Bounds | States |
| --- | --- | --- | --- |
| `control` | safety of the core and its refinement of `KnownState`, with every input and fault | 2 sending and 2 confirmation tasks, one feature, edits, requests and profiles that cover off, on, rejected, retained-off, the thermostat state a remote can leave, and a restored profile with a pilot setting its frame did not carry | 371,495 |
| `control_live` | staged edits, sends and confirmations settle; an unload leaves no task | 2 sending tasks, 1 confirmation task | 39,016 |
| `lostedit` | finding | as above, edits only | – |
| `restore` | the state survives a restart and a reload; profiles stay loadable; a save touches only what its form is about | 2 dialogs, 2 profile ids (three names, one without an id), 2 feature sets, 3 kinds of remote, edits, requests and frames at the boundary levels | 220,135 |
| `link` | each transmission is over, each send is answered, the endpoint listens again | 2 sends that may overlap and time out, both paths, no outcome before them | 296,338 |
| `link_busy` | one transmission at a time; answers are true; reception paused and restored on both paths | 2 sends that may overlap and time out, a bench pattern, both paths, reconfigurations during transmissions | 4,437,884 |
| `reception` | no frame of before a send is applied after it; silence after a close; listening again after outages | 2 remotes, 5 kinds of capture, 1 frame on the way and in the queue, 2 calls on the way, 2 outages | 625,510 |
| `yardstick` | one worker, none after a close, answers that belong to their requests | 2 calls of 2 callers, 2 threads, 3 workers | 324,774 |
| `yardstick_crossed` | finding | the same | – |
| `learning` | entries are proven, radios held and closed, learning ends | 2 sessions, 6 frames of 2 remotes, 4 batches of rows, 3 rows | 283,435 |
| `waveform` | whole frames are found, found frames were sent | 3 frames, 2 bursts of 2 repeats, 2 faults | 3,193 |
| `capture` | counted presses were seen, the plan is followed, targets are reached | 4 command lines, 2 faults | 978,698 |

Why the bounds are enough. Two sending tasks are the least with which a send
overlaps a send or an edit; what a third adds is one more task no reference names, and
the safety properties are proved for any number. Two confirmation tasks give a confirmation that
outlives its reference and a newer one. States differ only where a property can tell: off, on, and a state only a
remote produces; the numeric corners are the business of `restore`, which also has a
form that uses a feature that is switched off under it, and two dialogs, since a save can be stale only against another one. The
telephone game of the link needs two requests to mix up ids and results; a third repeats a pair.
Two calls and two threads are an abandoned request and the one that meets it; three workers are the one that is ended late, its
successor and one that is started after a missed start. `NoOrphan` and `ClosedMeansStopped` are proved for any number of each.
In `reception` one frame on the way and one in the queue are the two places where it can be when a transmission passes; a backlog of two passed as well (1.49 million states).
Two outages are one during a send and one during what follows it. Two sessions of learning are one being closed and its successor;
three rows are the minimum that proves a profile. Two faults of a capture session are one that spoils a sample and one that meets its retry.
Slots in `Senders` and `Confirmers`, callers and threads, and dialogs are interchangeable, so the safety runs
of these modules use symmetry; the runs of liveness do not.

`CHECK_DEADLOCK FALSE` stands where the system really stops: after an unload
with every task at its end, when the last send is over, when a flow, a session or a capture is finished.
The restored entry never stops, and its run checks deadlock.

Fairness. `FairSpec` of `ProflameControl` says that the event loop resumes a task whose
sleep, I/O or time limit has ended: the debounce is a sleep, a transmission and a
receive have timeouts, and storage and `stop_rx` return. Nothing obliges a frame
to be heard, a user to act, or a failure to happen: `ConfirmationHears`, `ListenerHears`, `Stage`,
the service calls and the unload are not fair. `EditsSettle` is about users who stop editing.
In the firmware the main loop, the worker and a transmission of finite length are fair; a FIFO poll belongs to the
main loop. In the link the connection delivers and the wait polls; a send that was not crossed is answered and needs no time limit, and one that was is
ended by its limit at the latest.
`EndpointReception` has weak fairness for its tasks, for the endpoint and for a lost link that comes back (the losses are bounded by `Outages`), and
strong fairness for the periodic sync: its timer fires for ever, but the bound `InFlight` can take its turn away, which the code would not.
`ConfigFlow` has weak fairness for the handlers the event loop or the frontend goes on with by itself (disposal, start, background close, progress,
the next prompt) and for the time limit of a prompt; a user and a remote are not obliged to anything.

Conditions of the passing runs that matter.

* `control_live` has no cancelled callers and no failing receives: a confirmation whose receive raises stays in `confirming`
  (`services.py:693`), and a caller cancelled after its transmission leaves the status `sending` until the next event.
* `AnswersAreTruthful` leaves out the sends that met another transmission (`crossed`), and `SendsEnd` lets those time out. They do go wrong: a request that
  is refused because the radio is busy leaves its id in the sensors, and the completion of the other transmission, which publishes no id, then
  confirms it. A send that timed out before its call was handled crosses the next one in the same way; a late or stale answer to any other send is covered.
* `ReceiveAsWanted`, `HearsWhenEnabled` and `TxHasRadio` leave out a reception that was `touched`, until it is next stopped. It does go wrong: a path changed
  during a transmission leaves a pause mark behind (while RMT capture is paused its flag is off, so turning it off returns early, and the restore
  afterwards turns RMT on beside the new FIFO capture); the restore after a rejected send reconfigures the radio under the other transmission
  (`proflame2_tembed.cpp:982`); and a bench pattern pauses nothing.
* `ListensAgain` leaves out the same: a `set_active_listening` handled during a transmission turns RMT on, the worker leaves the radio idle, and
  later calls find RMT on and do nothing, so the endpoint is deaf until the next stop.
* `link` has reconfigurations between transmissions and the sensors of one publication one by one (`Together` is off); `link_busy` has them
  during transmissions, and the sensors together. The theorems cover every combination.
* In `reception` the send of a service call, which no reference names, may outlive the unload and open the transport again: `ClosedIsQuiet`
  leaves that case out (`history.late`). `ObservedIsTrue` speaks of the listener; a confirmation without active listening may take a frame
  that was heard before its transmission.
* `SendIsTruthful` and `RecvDoesNotBlock` hold as long as the running worker got no request while the answer to another
  was outstanding (`mixed`); `yardstick_crossed` shows what happens then. `RecvDoesNotBlock` also leaves out the shutdown, when `stop` reads the pipe too.
* `NoOrphan` and `ClosedMeansStopped` leave out the workers that a terminate met while they were being started (`missed`). The code loses those: `_terminate_worker`
  finds a process that does not run yet, drops the handle, and the process starts.
* `DecodersAreTruthful` leaves out the row that ends one bit short of the seventh word of a ten-word frame, where the scanners ask for no guard, and a capture
  with eight bits of noise or more, which can forge a word behind a cut. Nothing in the code bounds noise.
* `RadioIsHeld` and `RadioIsReleased` leave out the sessions the code loses (`orphans`): a flow closed while it starts, a start that fails after the backend was connected, a background
  close that raises. Only the unavailability of a YARD Stick becomes a failure of the flow; any other error of a start leaves the step.
* The marker of the active profile is the state that was applied, whatever has become of that profile since.

Findings. Each violation run shows a place where the code and a text of the repository disagree:
an edit staged during a send loses its desired state when the send is recorded (`lostedit`); a send takes the answer
of another request that shares its pipe and succeeds without a transmission (`yardstick_crossed`). `PROJECT.json` quotes the lines.

## 4. What is proved

A theorem holds for every value of the constants that meets the named assumptions of its module. The assumptions say
what the schemas, the forms and the drivers of the code let through, and TLC evaluates each of them on the runs:

* `EnabledAssumption`, `TaskAssumption`, `InputAssumption` (`ProflameControl`): features are features; `NoTask` and `NoState` are no task and no
  state; edits are what the entities can make, data has the types the service schemas give it, initial states and packets pass `validate_observed`.
* `OptionsAssumption`, `RestoreAssumption` (`StateRestore`): requests, forms and edits are typed as the schemas type them, features are
  declarable ones, frames have two command bytes, and a legacy profile has no learned bit.
* `EndpointAssumption`, `LinkAssumption` (`EndpointLink`), `ReceptionAssumption` (`EndpointReception`): types, and bounds of at least one.
* `WorkerAssumption` (`YardStickWorker`): `Nobody` and `"close"` are no callers.
* `PacketAssumption`, `FlowAssumption` (`ConfigFlow`): frames are words of bytes with an id, pasted rows are legacy frames, and the entries
  that exist when the flow starts claim nothing about frames.
* `WaveformAssumption` (`Waveform`): frames are seven or ten bytes, ten with the integrity words the encoder puts there; noise is a sequence
  of bits, a pulse is measured less than half a unit of 417 µs too long or too short, and the bounds of a capture are numbers.
* `CaptureAssumption` (`CaptureSession`): the command lines `main` accepts, with numbers for samples and attempts, whose targets give a value to every field.

| Theorem | Statement | For any |
| --- | --- | --- |
| `TypeCorrect` | `Spec => []TypeOK` | tasks, features, edits, requests, profiles, packets |
| `TimerIsSingle`, `UnloadDisarms` | `[]SingleTimer`, `[]ShutdownDisarms` | the same |
| `ProfileIsCurrent`, `CacheIsCurrent` | `[]ProfileMatchesCurrent`, `[]CacheTracksCurrent` | the same |
| `SendingIsTrue` | `[]SendingImpliesTx` | the same |
| `EncoderAccepts` | `[]EncodeNeverRejects` | the same |
| `Refinement` | `Spec => ShowsKnownState` | the same |
| `LightSevenBlocks` | `[]OnlyLightSevenBlocksEdits` | remotes, requests, edits, frames, dialogs, names, forms, features |
| `ProfilesApply` | `[]StoredProfilesApply` | the same |
| `RestartKeeps`, `NarrowSaves` | `RestartKeepsState`, `SavesAreNarrow` | the same |
| `EndpointTypeCorrect`, `OneTransmission` | `LinkSpec => []TypeOK`, `LinkSpec => []SingleFlight` | requests, overlaps, timeouts, bench actions, reconfigurations |
| `AnswersAreTrue`, `ReceptionComesBack`, `ReceptionHears`, `TransmitterHasRadio` | `LinkSpec => []P` with `AnswersAreTruthful`, `ReceiveAsWanted`, `HearsWhenEnabled`, `TxHasRadio` for `P` | the same |
| `ReceptionTypeCorrect` | `Spec => []ReceptionTypeOK` (`EndpointReception`) | remotes, captures, queue lengths, outages |
| `SilenceAfterClose`, `ObservedIsNew` | `[]ClosedIsQuiet`, `[]ObservedIsTrue` | the same |
| `WorkerTypeCorrect`, `OneWorker`, `CloseStops` | `[]WorkerTypeOK`, `[]NoOrphan`, `[]ClosedMeansStopped` | callers, threads, calls, workers |
| `RecvFindsItsAnswer`, `SendsAreTruthful` | `[]RecvDoesNotBlock`, `SendIsTruthful` | the same |
| `FlowTypeCorrect` | `Spec => []FlowTypeOK` (`ConfigFlow`) | frames, remotes, sessions, rows |
| `ProvenEntries`, `RadiosAreHeld` | `[]EntryIsProven`, `[]RadioIsHeld` | the same |
| `ProvenLearning` | `[]LearningIsProven`, of the distinct packets of one remote that the flow has heard | the same |
| `InferenceDecides`, `InferenceIsExact` | `Derived(P)` is stable or has no candidate; it is stable with the constants of the remote, of undamaged frames | sets `P` of frames |
| `LearningIsNotAmbiguous`, `UndamagedStreamIsLearned` | `async_learn_remote_profile` is never ambiguous; it ends with the constants of the remote once the samples are enough | streams of any length |
| `TrueConstants` | `Spec => []EntryIsDetermined` | frames, remotes, sessions, rows |
| `FoundWhole` | `Spec => []WholeFrameIsFound` (`Waveform`) | frames, noise, repeats, bursts, losses, jitter |
| `RowsKept` | `[]PulsesKeepTheRow` | the same |
| `NothingIsMadeUp` | `[]DecodedIsOnAir` | the same |
| `TruthfulDecoders` | `Spec => []DecodersAreTruthful` | the same |
| `PlannedSamples`, `CountedSamples` | `PlanIsFollowed`, `CountedStepsAreSeen` (`CaptureSession`) | command lines, faults |
| `PlainSessionsReach` | `Spec => [](Plain(cfg) => FaultlessSessionReaches)` | command lines, limits, starting states, reports |

The arguments:

* `TypeOK` of the core is not inductive: `TxOk` makes the request of a task the current
  state, so a task past its start must have one. `Typed` adds that
  (`Carries`, `Confirms`). That a built request is a state again rests on
  `RequestIsState` and `EditIsState`, which use nothing but the checks that let the data through.
* `Timers` (one armed timer, none in a shutdown) is inductive over `Typed`.
  The heart is `CancelDisarms`: since only the named timer can be armed, cancelling it disarms
  all; every handler that starts a send, drops an edit or unloads does so. `DebounceFires` does not cancel the
  timer but becomes the send itself, the second case of `TimersBegin`.
* `Shown` (profile and record) holds over `Typed`: what is recorded settles the profile (`Settled`), so the restored one can differ from the current state
  only while no task has recorded a send (`NoneRecorded`); then no confirmation can expire and write it down again.
* `SendingImpliesTx` is inductive over `Typed`: a step that ends a transmission lowers the
  flag, and no other step changes `pc = "tx"` of any task.
* `EncodeNeverRejects` is far from inductive: an edit starts from the current
  state, which the encoder itself may refuse. `Sendable` says what is kept of the current state by an edit (`Keepable`), and that
  what is staged, carried or awaited was built by a function whose result the encoder accepts
  (`RequestEncodes`, `EditEncodes`).
* `Refinement`: each handler maps to one abstract step or to none. The lemmas
  `CancelKeepsAir`, `QuietKeepsAir` and `EndOfTransmission` say what a step on the pool does to the set in the air; the last
  has to allow for two tasks that carry the same state.
* `RestoreInv` has three parts. `OptionsOK`: what is stored fits the features it is stored with (`NormalizedFits`), and normalising
  it again only takes away what is switched off (`NormalizedAgain`). `PacketOK`: the frame of the packet reads back as its state, but for
  CPI in ten words. `RoundTrip` proves that from the arithmetic of the two command bytes, for every state that a request, an edit or a frame
  may lead to (`WellFormed`). `RecordOK`: the record holds the frame of the packet. `SavesAreNarrow` follows from `OptionsOK` step by step:
  without it, a save of the features could change a profile that nobody edited.
* `SingleFlight` counts: with the flag up, exactly one of the command, the worker and the event has the transmission.
  It holds with any overlap, because `tx_in_progress_` is tested before the queue is written.
* `LinkInv`: a send that has not crossed is alone (`Alone`), and stands asked, transmitting or answered with exactly the messages that
  belong in the two directions then (`Phase`); its id is new to the sensors until its call is handled (`Fresh`). Without
  `Fresh` an older result could carry the id of the request that is waiting. A send that begins while anything of another is left, on the way or
  on the air, has crossed from the start (`Settled`), so the induction needs nothing of those.
* `RxInv` is `Between` transmissions and `Paused` during one, for a reception that was not touched; `Loose` is what is left of it otherwise, enough for
  the next stop to make it whole again.
* `Quiet` of `EndpointReception`: from the close on no task is left, and the last call on the way is a stop, unless the link cut it off. `Clean`:
  while a transmission is on the way, what is heard lies before its result (`Answered`); what lies after it is fresh, and outside a
  send nothing old is anywhere (`Traffic`). That needs that a send restores the reception it found (`Restoring`).
* `WorkerTypeOK` needs that every request outside a stop has the id of a call, and that a caller waits for one
  thread at most (`Owned`): otherwise a late thread would hand a result to a call that is over.
* `NoOrphan` needs that a worker which is being forgotten has ended or was missed, and is older than any worker started later
  (`Sole`); that one thread at a time starts a worker, and that its worker is the newest (`Newest`); and, for the end of the close,
  that the supervisor refuses requests, and starts no worker, before it tells the worker to stop (`Stopped`). The two are kept together.
* `Private`: unless requests crossed, one thread waits, and what lies in either pipe is its request or its answer. `Guarded`: who makes a
  request holds the operation lock, also while a stop does. A caller that left still has its thread, whose request the next one can
  meet on the pipe: that is what `mixed` remembers, and `Private` leaves out.
* `FlowInv`: what a session has kept is of the remote it heard first, and a result on its way to an entry is proven by the frames
  it was concluded from (`Concluded`), through the disposal of its session and the forms before the entry. `DerivedExplains` proves of the inference itself that one candidate left means that every sample is explained, for any number of samples.
* What a sample tells: `SampleDetermines` proves that two pairs of constants with the same check byte for one command byte are the same pair,
  because a nibble is undone by XOR with itself (`XorCancels`, from the four bits of `XorOfBits`). So each word has at most one candidate left after one
  frame (`AtMostOneCandidate`), and `InferenceDecides` follows: in the code, the branch `"Ambiguous stable (c,d) tuple"` and what callers do with it is
  dead for frames of bytes. In the other direction, undamaged frames keep their constants in every round (`StableIsDecided`), which is
  `InferenceIsExact`. Nothing bounds the frames: a stream is undamaged when one pair of constants explains all of it.
* `TrueConstants`: the profile of an entry explains every frame behind it (`EntriesProven`), and a frame has one explanation (`OneExplanation`).
  Damaged frames that agree with each other on a wrong profile do not get it past one whole frame.
* `FlowTypes` is inductive over `FlowInv`, which types the frames. `Held` adds to `RadioIsHeld` that a start finds the flow without a session,
  because the disposal before it has closed the last one: otherwise the new session would push an open one out of sight.
* `PlanInv`: with a command sequence and no targets, the planner is as far as the run has valid samples, and the sample under way asks for
  the command it stands at; only a verdict moves either, and it moves both.

* `LearningIsProven` and `CountedStepsAreSeen` are about folds over what was heard. The library's induction cannot be used, so each needs an
  induction of its own: the set of the numbers for which the claim fails has no least one (`LeastNumber`, `StreamEnds`, `NumbersFromZero`).
  `StateIsHeard` is the invariant behind the second: what the runner takes for the state of the fireplace is the last state an
  accepted report held, whatever was lost or came wrong before.
* `PlainSessionsReach`: `Plain` is a command line without state targets and command sequence, with the power among its commands, with `rtl_433`
  if it has a setup sample, and with an attempt for each sample. Without `rtl_433` a setup sample is never settled, because the canonical
  state comes from it, so such a session uses up its attempts however well it goes; the condition is needed. `Progress` is the invariant: between samples nothing of an
  earlier press is left on any pipe (`Between`); before the press the command asked for is one that can move what it is about (`Unpressed`, `Asked`); after it
  each receiver is at one of a few stages of its report (`Reported`, `RtlStages`, `LilygoStages`), and every sample so far
  counted or was the setup (`Tally`). `Followed` says that stages closed under one line are closed under any number of lines; `RotationFinds` that the
  rotation comes to an eligible command; `PressMoves` that an eligible command passes the check of the transition.
* `WholeFrameIsFound`: a symbol is two bits and only a sync symbol is `11` or a guard `00`, so the symbols of a word read back as that word wherever
  they stand (`WordIsRead`), and a frame inside a capture is a hit at its offset (`Captured`). A ten-word frame is not taken for a frame of seven words,
  because its eighth word begins, with a sync, where the guard would be.
* `PulsesKeepTheRow`: pulses are the runs of a row, and a jitter below half a unit rounds to the units it had.
* `DecodedIsOnAir`: the checks on a word (sync, guards, two different bits in each symbol, parity, the bit that marks the first word) leave one sequence of
  bits for each value, the one that is sent (`WordIsWritten`). So whatever a scanner returns stood on the air as a transmission of it, guard included,
  with any noise; that somebody sent it is the next statement.
* `DecodersAreTruthful`: `Heard` is the invariant. Each bit behind the noise has a place, a bit of a word of a frame that was sent or a zero between frames, and
  the places follow each other as in a transmission, but for the cuts, where a frame starts anew (`CarriedBy`, `Follows`). Three ones and a zero
  are the start of a word, wherever a cut fell (`SyncPlaces`); from there the bits of a word come from one word, because a cut inside would put three
  ones where no word has them (`WordsPlaces`), and each word follows the one before (`WordsSent`). Only in the first word can there be noise. If it is of seven bits or less
  it reaches no further than the first bit of the second data symbol, whose second bit then gives it away, and the parity gives the first symbol (`FirstWordSent`).
  With eight bits the statement is false: two data symbols can be forged that leave the parity as it was. A zero behind
  seven words tells a frame of seven from the beginning of one of ten (`EndsWithZero`).

Only model-checked:

* liveness, because the prover does not do fairness and `ENABLED`;
* `FaultlessSessionReaches` of the sessions with state targets: whether their attempts are enough for the distance of the targets
  is decided by the command line, one by one.

`FlowTypeOK`, `EntryIsDetermined` and `DecodedIsOnAir` are proved and in no run; `PulsesKeepTheRow` is the first part of `DecodersAreTruthful`.

## 5. What is not modelled, and why

* The file behind the record in `hass.data`. It is written after the state has changed (`runtime.py:187-190`), a failed write is swallowed, and each save goes
  through a new store object, so nothing orders two writes: a restart of Home Assistant finds the last record written, which may be older. `restore` is
  about what a record carries, with operations that are complete.
* What the display shows, the link in the device registry and its retry, diagnostics, entities that only read, the counter of the debug log.
* Hardware errors of the radio and of RMT allocation. A reboot of the endpoint is a loss of the link in `EndpointReception`; in
  `EndpointLink` there is none.
* The ring buffer, trigger and repeat suppression of the firmware and its RMT receiver: sequential code over
  bytes, in one loop, that the C++ unit tests reach. What they deliver is the environment of `EndpointReception`.
* A confirmation task whose reference was cleared by an older one listens
  through the next send. No promise of the shown state is broken, so it has only
  its end checked (`UnloadQuiesces`).
* With FIFO capture paused, its registers stay during a transmission; whether
  the chip modulates well with them is outside a model.
* The direct radio mode, the frequency sweep and the learning diagnostics of the YARD Stick; the fake backends.
* Scores and diagnostics of rejected captures; a wrong byte count, which is only a warning.
* In the capture tools: artifacts on disk, wording, failures to start a process, a second session beyond the one that holds the lock, the stub
  collectors, and the marker flow, whose trigger is never awaited on the command lines that exist (`--capture-mode` offers one mode). The
  sessions have one remote, so a neighbour's frame cannot become the state of the runner, which in the code it can.
* The offline scripts and the release helpers: batch programs over files.

## 6. Plan

Done: every module of section 2, the proofs of section 4.

Left, in this order:

1. `FifoRxWindow`: ring buffer, trigger and export window of the FIFO
   controller, against a reference that keeps the whole stream, and the repeat suppression with a tick that wraps.
2. Reload of an entry with a send that outlives the unload: two generations of
   `ProflameControl` on one cache record, and on one transport of `EndpointReception`.
3. A reboot of the endpoint in `EndpointLink`.
4. The file behind `hass.data`: each save goes through a store of its own, and a restart finds the last one that was written.
5. The direct mode of the YARD Stick backend as a second instance of its calls.

Proofs to add: the window invariant of `FifoRxWindow`, and `ObservedIsTrue` over two generations of an entry.
Runs are kept to one for each question; a run whose question a later module answers better is replaced.
