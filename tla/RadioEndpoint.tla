---------------------------- MODULE RadioEndpoint ----------------------------
(***************************************************************************)
(* The radio of the T-Embed endpoint: one CC1101, used by the ESPHome main *)
(* loop to receive (proflame2_tembed.cpp) and by the radio worker task to  *)
(* transmit (radio_runtime_task_entry_).  The two share a command queue    *)
(* and an event queue of one entry each, and nothing locks the radio.      *)
(*                                                                         *)
(* An action is one handler of the main loop, or one step of the worker;   *)
(* register writes of a handler are not interleaved with the worker's.     *)
(* The radio runtime is started, and configuring the radio and allocating  *)
(* the RMT channel succeed.                                                *)
(***************************************************************************)
CONSTANTS
  CaptureModes,         \* values of set_capture_mode: "off", "fifo_trailing_window", "rmt_pulse"
  Paths,                \* values of the active listener RX path: "fifo", "rmt_pulse"
  BenchActions,         \* the test-pattern action is used
  ReconfigureWhen       \* calls that change the reception arrive in "idle" or in "tx"

ASSUME EndpointAssumption ==
  /\ CaptureModes \subseteq {"off", "fifo_trailing_window", "rmt_pulse"}
  /\ Paths \subseteq {"fifo", "rmt_pulse"} /\ Paths # {}
  /\ BenchActions \in BOOLEAN /\ ReconfigureWhen \subseteq {"idle", "tx"}

VARIABLES
  txInProgress,  \* tx_in_progress_
  command, event, \* the two queues hold an entry
  worker,        \* "waiting" on the command queue or in "tx"
  rx,            \* the capture flags, the radio and the data pin
  useRmt,        \* rx_active_listener_use_rmt_
  requested,     \* rx_active_listener_requested_
  filter,        \* rx_active_listener_filter_configured_
  wanted,        \* history: the reception the calls so far ask for
  touched        \* history: since it was last switched off between
                 \*   transmissions, a call changed the reception during one,
                 \*   or a test pattern was sent over it

tx   == <<txInProgress, command, event, worker>>
vars == <<tx, rx, useRmt, requested, filter, wanted, touched>>

Receptions == {"none", "fifo", "rmt"}

TypeOK ==
  /\ txInProgress \in BOOLEAN /\ command \in BOOLEAN /\ event \in BOOLEAN
  /\ worker \in {"waiting", "tx"}
  /\ rx \in [fifo : BOOLEAN, configured : BOOLEAN, fifoPaused : BOOLEAN,
             rmt : BOOLEAN, rmtPaused : BOOLEAN,
             regs : {"tx", "fifo", "rmt"}, state : {"idle", "rx", "tx"}, input : BOOLEAN]
  /\ useRmt \in BOOLEAN /\ requested \in BOOLEAN /\ filter \in BOOLEAN
  /\ wanted \in Receptions /\ touched \in BOOLEAN

\* setup() leaves the radio configured for transmission and idle; the stored
\* path is applied at boot.
Init ==
  /\ txInProgress = FALSE /\ command = FALSE /\ event = FALSE
  /\ worker = "waiting"
  /\ rx = [fifo |-> FALSE, configured |-> FALSE, fifoPaused |-> FALSE,
           rmt |-> FALSE, rmtPaused |-> FALSE,
           regs |-> "tx", state |-> "idle", input |-> FALSE]
  /\ useRmt \in {p = "rmt_pulse" : p \in Paths}
  /\ requested = FALSE /\ filter = FALSE
  /\ wanted = "none" /\ touched = FALSE

-----------------------------------------------------------------------------
\* The helpers of the handlers, as functions of rx.

configure_rx_fifo_capture_mode(r) == [r EXCEPT !.regs = "fifo", !.state = "rx"]

set_fifo_capture_enabled(r, on) ==
  IF r.fifo = on THEN r
  ELSE IF on
    THEN [configure_rx_fifo_capture_mode(r) EXCEPT !.fifo = TRUE, !.configured = TRUE]
    ELSE [r EXCEPT !.fifo = FALSE, !.configured = FALSE, !.fifoPaused = FALSE,
                   !.regs = "tx", !.state = "idle"]

\* Switching off while paused for a transmission finds the flag already off
\* and returns early.
set_rmt_pulse_capture_enabled(r, on) ==
  IF r.rmt = on THEN r
  ELSE IF on
    THEN [r EXCEPT !.rmt = TRUE, !.regs = "rmt", !.state = "rx", !.input = TRUE]
    ELSE [r EXCEPT !.rmt = FALSE, !.regs = "tx", !.state = "idle", !.input = FALSE]

Receive(r, reception) ==
  CASE reception = "none" ->
         set_rmt_pulse_capture_enabled(set_fifo_capture_enabled(r, FALSE), FALSE)
    [] reception = "fifo" ->
         set_fifo_capture_enabled(set_rmt_pulse_capture_enabled(r, FALSE), TRUE)
    [] reception = "rmt" ->
         set_rmt_pulse_capture_enabled(set_fifo_capture_enabled(r, FALSE), TRUE)

\* Mutant: the FIFO reception is not marked as paused.
pause_rx_for_tx_fifo_forgotten(r) ==
  IF r.rmt THEN [set_rmt_pulse_capture_enabled(r, FALSE) EXCEPT !.rmtPaused = TRUE]
  ELSE IF r.fifo THEN [r EXCEPT !.configured = FALSE, !.state = "idle"] ELSE r

\* Mutant: the RMT channel stays up during the transmission.
pause_rx_for_tx_rmt_kept(r) ==
  IF r.fifo THEN [r EXCEPT !.fifoPaused = TRUE, !.configured = FALSE, !.state = "idle"]
  ELSE r

\* What enqueue_tx_ does to the reception.  Pausing FIFO capture idles the
\* radio and keeps its registers.
pause_rx_for_tx(r) ==
  LET a == IF r.rmt
             THEN [set_rmt_pulse_capture_enabled(r, FALSE) EXCEPT !.rmtPaused = TRUE]
             ELSE r
  IN  IF a.fifo
        THEN [a EXCEPT !.fifoPaused = TRUE, !.configured = FALSE, !.state = "idle"]
        ELSE a

\* Mutant: the FIFO is configured whatever was paused.
restore_rx_after_tx_if_needed_always_fifo(r) ==
  set_fifo_capture_enabled([r EXCEPT !.rmtPaused = FALSE, !.fifoPaused = FALSE],
                           r.rmtPaused \/ r.fifo)

restore_rx_after_tx_if_needed(r) ==
  IF r.rmtPaused
    THEN set_rmt_pulse_capture_enabled([r EXCEPT !.rmtPaused = FALSE], TRUE)
  ELSE IF r.fifoPaused /\ r.fifo
    THEN [configure_rx_fifo_capture_mode(r) EXCEPT !.fifoPaused = FALSE, !.configured = TRUE]
  ELSE [r EXCEPT !.fifoPaused = FALSE]

-----------------------------------------------------------------------------
\* Transmission.

\* Mutant: the busy check is missing.
EnqueueTx_no_busy_check ==
  /\ txInProgress' = TRUE
  /\ command' = TRUE
  /\ rx' = pause_rx_for_tx(rx)
  /\ UNCHANGED <<event, worker, useRmt, requested, filter, wanted, touched>>

\* A valid tx action; one that finds a transmission in progress is rejected.
EnqueueTx ==
  /\ ~txInProgress
  /\ txInProgress' = TRUE
  /\ command' = TRUE
  /\ rx' = pause_rx_for_tx(rx)
  /\ UNCHANGED <<event, worker, useRmt, requested, filter, wanted, touched>>

\* The bench action does not pause reception.
EnqueueTestPattern ==
  /\ BenchActions
  /\ ~txInProgress
  /\ txInProgress' = TRUE
  /\ command' = TRUE
  /\ touched' = (touched \/ rx.fifo \/ rx.rmt)
  /\ UNCHANGED <<event, worker, rx, useRmt, requested, filter, wanted>>

\* The worker strobes the radio into TX with the registers it finds.
WorkerStarts ==
  /\ worker = "waiting" /\ command
  /\ worker' = "tx"
  /\ command' = FALSE
  /\ rx' = [rx EXCEPT !.state = "tx"]
  /\ UNCHANGED <<txInProgress, event, useRmt, requested, filter, wanted, touched>>

\* set_idle ends every transmission; sending the event blocks on a full queue.
WorkerEnds ==
  /\ worker = "tx" /\ ~event
  /\ worker' = "waiting"
  /\ event' = TRUE
  /\ rx' = [rx EXCEPT !.state = "idle"]
  /\ UNCHANGED <<txInProgress, command, useRmt, requested, filter, wanted, touched>>

\* Mutant: the flag is cleared only on the success path.
ConsumeEvent_flag_left ==
  /\ event
  /\ event' = FALSE
  /\ txInProgress' \in {TRUE, FALSE}
  /\ rx' = restore_rx_after_tx_if_needed(rx)
  /\ UNCHANGED <<command, worker, useRmt, requested, filter, wanted, touched>>

\* consume_radio_runtime_events_, for a success as for a failure.
ConsumeEvent ==
  /\ event
  /\ event' = FALSE
  /\ txInProgress' = FALSE
  /\ rx' = restore_rx_after_tx_if_needed(rx)
  /\ UNCHANGED <<command, worker, useRmt, requested, filter, wanted, touched>>

-----------------------------------------------------------------------------
\* Calls that change the reception.

\* set_capture_mode; rx_stop of Home Assistant is set_capture_mode("off").
SetCaptureMode(mode) ==
  LET reception == CASE mode = "off" -> "none"
                     [] mode = "fifo_trailing_window" -> "fifo"
                     [] mode = "rmt_pulse" -> "rmt"
  IN  /\ requested' = FALSE /\ filter' = FALSE
      /\ rx' = Receive(rx, reception)
      /\ wanted' = reception
      /\ touched' = (txInProgress \/ (touched /\ mode # "off"))
      /\ UNCHANGED <<tx, useRmt>>

SetActiveListenerRxPath(path) ==
  LET rmt == path = "rmt_pulse"
      reception == IF rmt THEN "rmt" ELSE "fifo"
  IN  /\ useRmt # rmt
      /\ useRmt' = rmt
      /\ IF requested
           THEN /\ rx' = Receive(rx, reception) /\ wanted' = reception
                /\ touched' = (txInProgress \/ touched)
           ELSE UNCHANGED <<rx, wanted, touched>>
      /\ UNCHANGED <<tx, requested, filter>>

\* configure_active_listener(false): a manual RMT capture goes on when the
\* listener uses the FIFO.
DisableActiveListener ==
  LET kept == ~useRmt /\ wanted = "rmt"
  IN  /\ requested' = FALSE /\ filter' = FALSE
      /\ rx' = IF useRmt THEN Receive(rx, "none") ELSE set_fifo_capture_enabled(rx, FALSE)
      /\ wanted' = IF kept THEN "rmt" ELSE "none"
      /\ touched' = (txInProgress \/ touched)
      /\ UNCHANGED <<tx, useRmt>>

\* configure_active_listener(true), with a valid profile or for learning.
EnableActiveListener(strict) ==
  /\ requested' = TRUE /\ filter' = strict
  /\ rx' = IF useRmt THEN Receive(rx, "rmt")
           ELSE IF rx.rmt THEN rx
           ELSE set_fifo_capture_enabled(rx, TRUE)
  /\ wanted' = IF useRmt \/ wanted = "rmt" THEN "rmt" ELSE "fifo"
  /\ touched' = (txInProgress \/ touched)
  /\ UNCHANGED <<tx, useRmt>>

\* The main loop polls the FIFO, and restarts a radio it finds out of RX.
PollFifo ==
  /\ rx.fifo /\ ~txInProgress
  /\ rx' = [(IF rx.configured THEN rx ELSE configure_rx_fifo_capture_mode(rx)) EXCEPT
              !.configured = TRUE, !.state = "rx"]
  /\ UNCHANGED <<tx, useRmt, requested, filter, wanted, touched>>

\* A capture that is not filtered by a profile is exported and started anew.
ExportFifo ==
  /\ rx.fifo /\ ~txInProgress /\ ~filter
  /\ rx' = [configure_rx_fifo_capture_mode(rx) EXCEPT !.configured = TRUE]
  /\ UNCHANGED <<tx, useRmt, requested, filter, wanted, touched>>

\* The select entities and actions of the device, by a user or by the code of
\* Home Assistant that EndpointLink does not have.
Reconfigure ==
  /\ (IF txInProgress THEN "tx" ELSE "idle") \in ReconfigureWhen
  /\ \/ \E m \in CaptureModes : SetCaptureMode(m)
     \/ \E p \in Paths : SetActiveListenerRxPath(p)
     \/ DisableActiveListener
     \/ \E strict \in BOOLEAN : EnableActiveListener(strict)

Next ==
  \/ EnqueueTx \/ EnqueueTestPattern
  \/ WorkerStarts \/ WorkerEnds \/ ConsumeEvent
  \/ Reconfigure
  \/ PollFifo \/ ExportFifo

Spec == Init /\ [][Next]_vars

-----------------------------------------------------------------------------

\* One transmission at a time goes through the two queues, and the flag of the
\* main loop says exactly when: no command or event is ever lost to a full
\* queue, and the worker never blocks on its event (enqueue_tx_).
SingleFlight ==
  /\ ~(command /\ worker = "tx") /\ ~(command /\ event) /\ ~(worker = "tx" /\ event)
  /\ txInProgress <=> command \/ worker = "tx" \/ event

\* "Only one radio receive mode may be active at a time."
\* (docs/lilygo_cc1101_rmt_pulse_fallback.md), and between transmissions it is the
\* one the calls so far asked for, as if no transmission had ever paused it
\* (restore_rx_after_tx_if_needed_: "Restore the selected listener").  A reception
\* touched during a transmission is left out until it is next switched off, as
\* every send does first: the handlers write the registers of the mode they enable.
ReceiveAsWanted == ~touched =>
  /\ ~(rx.fifo /\ rx.rmt)
  /\ ~txInProgress => (rx.fifo <=> wanted = "fifo") /\ (rx.rmt <=> wanted = "rmt")

\* Between transmissions an enabled reception that was not touched really receives:
\* the radio has the registers of that mode and is in RX, and the data pin has its
\* direction ("the firmware restores the previous RX state after transmit").
HearsWhenEnabled == ~touched /\ ~txInProgress =>
  /\ rx.fifo /\ ~rx.rmt => rx.regs = "fifo" /\ rx.state = "rx"
  /\ rx.rmt /\ ~rx.fifo => rx.regs = "rmt" /\ rx.state = "rx" /\ rx.input

\* While the worker drives the data pin the radio transmits what it drives:
\* it has the TX registers and is in TX ("TX has priority"), unless a call touched
\* the reception, under the worker or since it was last switched off.
\* A paused FIFO capture is left out: its registers stay (pause_rx_for_tx).
TxHasRadio == ~touched /\ worker = "tx" /\ ~rx.fifo =>
  rx.regs = "tx" /\ rx.state = "tx" /\ ~rx.input

\* An accepted transmission is over eventually, and another can be accepted.
TxCompletes == txInProgress ~> ~txInProgress
=============================================================================
