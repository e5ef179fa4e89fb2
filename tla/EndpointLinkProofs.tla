------------------------- MODULE EndpointLinkProofs -------------------------
(***************************************************************************)
(* What EndpointLink promises, proved for every number of sends.           *)
(*                                                                         *)
(* Every statement holds for every value of the constants: sends overlap   *)
(* and time out, test patterns and reconfigurations come at any moment.    *)
(* Two histories say what a statement leaves out: a reception is touched   *)
(* when a call changed it under a transmission (until it is next switched  *)
(* off), and a send is crossed when it met another on its way.             *)
(***************************************************************************)
EXTENDS EndpointLink, SequenceTheorems, TLAPS

\* The parts of a step that change the reception.
ReceptionCall ==
  \/ \E m \in CaptureModes \cup {"off"} : SetCaptureMode(m)
  \/ \E p \in Paths : SetActiveListenerRxPath(p)
  \/ DisableActiveListener
  \/ \E strict \in BOOLEAN : EnableActiveListener(strict)

\* What a step of the link is for the radio.
RadioStep ==
  \/ EnqueueTx \/ EnqueueTestPattern
  \/ WorkerStarts \/ WorkerEnds \/ ConsumeEvent
  \/ ReceptionCall
  \/ PollFifo \/ ExportFifo
  \/ UNCHANGED vars

LEMMA LinkStepsAreRadioSteps == LinkNext => RadioStep
<1> SUFFICES ASSUME LinkNext PROVE RadioStep
  OBVIOUS
<1>1. ASSUME NEW r \in Requests, StartSend(r) \/ InvokeTx(r) \/ Confirmed(r) \/ TimesOut(r)
      PROVE  RadioStep
  BY <1>1 DEF StartSend, InvokeTx, Confirmed, TimesOut, EndSend, RadioStep
<1>2. CASE ReadSensor
  BY <1>2 DEF ReadSensor, RadioStep
<1>3. CASE HandleRxStop
  BY <1>3 DEF HandleRxStop, RadioStep, ReceptionCall
<1>4. CASE HandleSetActiveListening
  BY <1>4 DEF HandleSetActiveListening, RadioStep, ReceptionCall
<1>5. CASE HandleTx \/ HandleTxBusy \/ HandleTestPattern \/ HandleTestPatternBusy
  BY <1>5 DEF HandleTx, HandleTxBusy, HandleTestPattern, HandleTestPatternBusy, RadioStep
<1>6. ASSUME NEW ok \in BOOLEAN, Complete(ok) PROVE RadioStep
  BY <1>6 DEF Complete, RadioStep
<1>7. CASE Radio
  <2>1. CASE WorkerStarts \/ WorkerEnds \/ PollFifo \/ ExportFifo
    BY <2>1 DEF RadioStep
  <2>2. CASE Reconfigure
    BY <2>2 DEF Reconfigure, RadioStep, ReceptionCall
  <2> QED  BY <1>7, <2>1, <2>2 DEF Radio
<1> QED  BY <1>1, <1>2, <1>3, <1>4, <1>5, <1>6, <1>7 DEF LinkNext

-----------------------------------------------------------------------------
\* The reception as a record.

Rx == [fifo : BOOLEAN, configured : BOOLEAN, fifoPaused : BOOLEAN,
       rmt : BOOLEAN, rmtPaused : BOOLEAN,
       regs : {"tx", "fifo", "rmt"}, state : {"idle", "rx", "tx"}, input : BOOLEAN]

\* The helpers of the handlers return a reception.
LEMMA HelpersAreTyped ==
  ASSUME NEW r \in Rx
  PROVE  /\ configure_rx_fifo_capture_mode(r) \in Rx
         /\ \A on \in BOOLEAN : set_fifo_capture_enabled(r, on) \in Rx
         /\ \A on \in BOOLEAN : set_rmt_pulse_capture_enabled(r, on) \in Rx
<1>1. configure_rx_fifo_capture_mode(r) \in Rx
  BY DEF Rx, configure_rx_fifo_capture_mode
<1>2. ASSUME NEW on \in BOOLEAN PROVE set_fifo_capture_enabled(r, on) \in Rx
  BY <1>1 DEF Rx, set_fifo_capture_enabled, configure_rx_fifo_capture_mode
<1>3. ASSUME NEW on \in BOOLEAN PROVE set_rmt_pulse_capture_enabled(r, on) \in Rx
  BY DEF Rx, set_rmt_pulse_capture_enabled
<1> QED  BY <1>1, <1>2, <1>3

LEMMA ReceptionIsTyped ==
  ASSUME NEW r \in Rx
  PROVE  /\ \A reception \in Receptions : Receive(r, reception) \in Rx
         /\ pause_rx_for_tx(r) \in Rx
         /\ restore_rx_after_tx_if_needed(r) \in Rx
<1>1. ASSUME NEW reception \in Receptions PROVE Receive(r, reception) \in Rx
  BY HelpersAreTyped DEF Receptions, Receive
<1>2. pause_rx_for_tx(r) \in Rx
  <2>1. ASSUME NEW a \in Rx
        PROVE  [a EXCEPT !.fifoPaused = TRUE, !.configured = FALSE, !.state = "idle"] \in Rx
    BY DEF Rx
  <2>2. ASSUME NEW a \in Rx PROVE [a EXCEPT !.rmtPaused = TRUE] \in Rx
    BY DEF Rx
  <2>3. set_rmt_pulse_capture_enabled(r, FALSE) \in Rx
    BY HelpersAreTyped
  <2>4. [set_rmt_pulse_capture_enabled(r, FALSE) EXCEPT !.rmtPaused = TRUE] \in Rx
    BY <2>2, <2>3
  <2> QED  BY <2>1, <2>4 DEF pause_rx_for_tx
<1>3. restore_rx_after_tx_if_needed(r) \in Rx
  <2>1. [r EXCEPT !.rmtPaused = FALSE] \in Rx /\ [r EXCEPT !.fifoPaused = FALSE] \in Rx
    BY DEF Rx
  <2>2. [configure_rx_fifo_capture_mode(r) EXCEPT !.fifoPaused = FALSE, !.configured = TRUE] \in Rx
    <3>1. ASSUME NEW a \in Rx PROVE [a EXCEPT !.fifoPaused = FALSE, !.configured = TRUE] \in Rx
      BY DEF Rx
    <3> QED  BY <3>1, HelpersAreTyped
  <2>3. set_rmt_pulse_capture_enabled([r EXCEPT !.rmtPaused = FALSE], TRUE) \in Rx
    BY <2>1, HelpersAreTyped
  <2> QED  BY <2>1, <2>2, <2>3 DEF restore_rx_after_tx_if_needed
<1> QED  BY <1>1, <1>2, <1>3

LEMMA RadioTypeStep == TypeOK /\ RadioStep => TypeOK'
<1> SUFFICES ASSUME TypeOK, RadioStep PROVE TypeOK'
  OBVIOUS
<1>t. rx \in Rx
  BY DEF TypeOK, Rx
<1>s. TypeOK' <=>
        /\ txInProgress' \in BOOLEAN /\ command' \in BOOLEAN /\ event' \in BOOLEAN
        /\ worker' \in {"waiting", "tx"} /\ rx' \in Rx
        /\ useRmt' \in BOOLEAN /\ requested' \in BOOLEAN /\ filter' \in BOOLEAN
        /\ wanted' \in Receptions /\ touched' \in BOOLEAN
  BY DEF TypeOK, Rx
<1>1. CASE EnqueueTx
  BY <1>1, <1>t, <1>s, ReceptionIsTyped DEF EnqueueTx, TypeOK
<1>2. CASE EnqueueTestPattern
  BY <1>2, <1>t, <1>s DEF EnqueueTestPattern, TypeOK
<1>3. CASE WorkerStarts \/ WorkerEnds
  <2>1. rx' \in Rx
    BY <1>3, <1>t DEF WorkerStarts, WorkerEnds, Rx
  <2> QED  BY <1>3, <1>s, <2>1 DEF WorkerStarts, WorkerEnds, TypeOK
<1>4. CASE ConsumeEvent
  BY <1>4, <1>t, <1>s, ReceptionIsTyped DEF ConsumeEvent, TypeOK
<1>5. CASE ReceptionCall
  <2>1. ASSUME NEW m \in CaptureModes \cup {"off"}, SetCaptureMode(m) PROVE TypeOK'
    <3>1. m \in {"off", "fifo_trailing_window", "rmt_pulse"}
      BY EndpointAssumption
    <3> QED  BY <2>1, <3>1, <1>t, <1>s, ReceptionIsTyped DEF SetCaptureMode, TypeOK, Receptions, tx
  <2>2. ASSUME NEW p \in Paths, SetActiveListenerRxPath(p) PROVE TypeOK'
    BY <2>2, <1>t, <1>s, ReceptionIsTyped
       DEF SetActiveListenerRxPath, TypeOK, Receptions, tx
  <2>3. CASE DisableActiveListener
    BY <2>3, <1>t, <1>s, ReceptionIsTyped, HelpersAreTyped
       DEF DisableActiveListener, TypeOK, Receptions, tx
  <2>4. ASSUME NEW strict \in BOOLEAN, EnableActiveListener(strict) PROVE TypeOK'
    BY <2>4, <1>t, <1>s, ReceptionIsTyped, HelpersAreTyped
       DEF EnableActiveListener, TypeOK, Receptions, tx
  <2> QED  BY <1>5, <2>1, <2>2, <2>3, <2>4 DEF ReceptionCall
<1>6. CASE PollFifo \/ ExportFifo
  <2>1. ASSUME NEW r \in Rx PROVE [r EXCEPT !.configured = TRUE, !.state = "rx"] \in Rx
    BY DEF Rx
  <2>2. ASSUME NEW r \in Rx PROVE [r EXCEPT !.configured = TRUE] \in Rx
    BY DEF Rx
  <2>3. configure_rx_fifo_capture_mode(rx) \in Rx
    BY <1>t, HelpersAreTyped
  <2>4. rx' \in Rx
    BY <1>6, <1>t, <2>1, <2>2, <2>3 DEF PollFifo, ExportFifo
  <2> QED  BY <1>6, <1>s, <2>4 DEF PollFifo, ExportFifo, TypeOK, tx
<1>7. CASE UNCHANGED vars
  BY <1>7 DEF vars, tx, TypeOK
<1> QED  BY <1>1, <1>2, <1>3, <1>4, <1>5, <1>6, <1>7 DEF RadioStep

LEMMA RadioTypeInit == Init => TypeOK
<1> SUFFICES ASSUME Init PROVE TypeOK
  OBVIOUS
<1>1. useRmt \in BOOLEAN
  BY Zenon DEF Init
<1>2. rx \in Rx
  BY DEF Init, Rx
<1> QED  BY <1>1, <1>2 DEF Init, TypeOK, Receptions, Rx

\* The endpoint's variables keep their types whatever is called while the worker
\* transmits: no chain of the handlers' helpers leaves a half-configured mode.
THEOREM EndpointTypeCorrect == LinkSpec => []TypeOK
<1>1. LinkInit => TypeOK
  BY RadioTypeInit DEF LinkInit
<1>2. TypeOK /\ [LinkNext]_allvars => TypeOK'
  <2>1. CASE LinkNext
    BY <2>1, LinkStepsAreRadioSteps, RadioTypeStep
  <2>2. CASE UNCHANGED allvars
    BY <2>2, RadioTypeStep DEF allvars, RadioStep
  <2> QED  BY <2>1, <2>2
<1> QED  BY <1>1, <1>2, PTL DEF LinkSpec

-----------------------------------------------------------------------------
\* The two queues.

LEMMA SingleFlightStep == TypeOK /\ SingleFlight /\ RadioStep => SingleFlight'
<1> SUFFICES ASSUME TypeOK, SingleFlight, RadioStep PROVE SingleFlight'
  OBVIOUS
<1> USE DEF TypeOK, SingleFlight
<1>1. CASE EnqueueTx
  BY <1>1 DEF EnqueueTx
<1>2. CASE EnqueueTestPattern
  BY <1>2 DEF EnqueueTestPattern
<1>3. CASE WorkerStarts
  BY <1>3 DEF WorkerStarts
<1>4. CASE WorkerEnds
  BY <1>4 DEF WorkerEnds
<1>5. CASE ConsumeEvent
  BY <1>5 DEF ConsumeEvent
<1>6. CASE UNCHANGED tx
  BY <1>6 DEF tx
<1>7. ReceptionCall \/ PollFifo \/ ExportFifo \/ UNCHANGED vars => UNCHANGED tx
  BY DEF ReceptionCall, SetCaptureMode, SetActiveListenerRxPath, DisableActiveListener,
         EnableActiveListener, PollFifo, ExportFifo, vars
<1> QED  BY <1>1, <1>2, <1>3, <1>4, <1>5, <1>6, <1>7 DEF RadioStep

\* However sends overlap, time out and meet bench patterns and reconfigurations,
\* the main loop and the worker have one transmission between them: no queue of
\* one entry ever loses a command or an event, and the worker never blocks.
THEOREM OneTransmission == LinkSpec => []SingleFlight
<1>1. LinkInit => SingleFlight
  BY DEF LinkInit, Init, SingleFlight
<1>2. TypeOK /\ SingleFlight /\ [LinkNext]_allvars => SingleFlight'
  <2>1. CASE LinkNext
    BY <2>1, LinkStepsAreRadioSteps, SingleFlightStep
  <2>2. CASE UNCHANGED allvars
    BY <2>2, SingleFlightStep DEF allvars, RadioStep
  <2> QED  BY <2>1, <2>2
<1> QED  BY <1>1, <1>2, EndpointTypeCorrect, PTL DEF LinkSpec

-----------------------------------------------------------------------------
\* The reception.

\* The reception r is w, and working.
Between(r, w) ==
  /\ r.fifo <=> w = "fifo"
  /\ r.rmt <=> w = "rmt"
  /\ ~r.rmtPaused /\ ~r.fifoPaused
  /\ r.fifo => r.regs = "fifo" /\ r.state = "rx"
  /\ r.rmt => r.regs = "rmt" /\ r.state = "rx" /\ r.input
  /\ ~r.rmt => ~r.input
  /\ ~r.fifo /\ ~r.rmt => r.regs = "tx"

\* The reception r is w, and paused for a transmission.
Paused(r, w) ==
  /\ r.fifo <=> w = "fifo"
  /\ ~r.rmt /\ ~r.input
  /\ r.rmtPaused <=> w = "rmt"
  /\ r.fifoPaused <=> r.fifo
  /\ ~r.fifo => r.regs = "tx"

\* Whatever touched it: no registers of a mode that is off, no mark of a pause
\* that is over.  Switching off between transmissions makes it good again.
Loose(r) ==
  /\ r.regs # "tx" => r.fifo \/ r.rmt
  /\ r.input => r.rmt
  /\ r.fifoPaused => r.fifo

RxInv ==
  /\ Loose(rx) /\ (~txInProgress => ~rx.rmtPaused)
  /\ ~touched /\ ~txInProgress => Between(rx, wanted)
  /\ ~touched /\ txInProgress => Paused(rx, wanted) /\ (worker = "tx" => rx.state = "tx")

LEMMA SetFifo ==
  ASSUME NEW r \in Rx, NEW w \in {"none", "fifo"}, Between(r, w)
  PROVE  /\ Between(set_fifo_capture_enabled(r, FALSE), "none")
         /\ Between(set_fifo_capture_enabled(r, TRUE), "fifo")
<1>1. Between(set_fifo_capture_enabled(r, FALSE), "none")
  BY DEF Between, Rx, set_fifo_capture_enabled
<1>2. CASE r.fifo
  BY <1>1, <1>2 DEF Between, Rx, set_fifo_capture_enabled
<1>3. CASE ~r.fifo
  <2> DEFINE c == configure_rx_fifo_capture_mode(r)
  <2>1. c = [r EXCEPT !.regs = "fifo", !.state = "rx"]
    BY DEF configure_rx_fifo_capture_mode
  <2>2. c \in Rx /\ ~c.rmt /\ ~c.rmtPaused /\ ~c.fifoPaused /\ ~c.input
             /\ c.regs = "fifo" /\ c.state = "rx"
    BY <1>3, <2>1 DEF Between, Rx
  <2> HIDE DEF c
  <2>3. Between([c EXCEPT !.fifo = TRUE, !.configured = TRUE], "fifo")
    BY <2>2 DEF Between, Rx
  <2>4. set_fifo_capture_enabled(r, TRUE) = [c EXCEPT !.fifo = TRUE, !.configured = TRUE]
    BY <1>3 DEF set_fifo_capture_enabled, Rx, c
  <2> QED  BY <1>1, <2>3, <2>4
<1> QED  BY <1>2, <1>3 DEF Rx

LEMMA SetRmt ==
  ASSUME NEW r \in Rx, NEW w \in {"none", "rmt"}, Between(r, w)
  PROVE  /\ Between(set_rmt_pulse_capture_enabled(r, FALSE), "none")
         /\ Between(set_rmt_pulse_capture_enabled(r, TRUE), "rmt")
BY DEF Between, Rx, set_rmt_pulse_capture_enabled

\* Switching off the mode that is off changes nothing.
LEMMA SetOther ==
  ASSUME NEW r \in Rx, NEW w \in Receptions, Between(r, w)
  PROVE  /\ w # "fifo" => set_fifo_capture_enabled(r, FALSE) = r
         /\ w # "rmt" => set_rmt_pulse_capture_enabled(r, FALSE) = r
BY DEF Between, Rx, set_fifo_capture_enabled, set_rmt_pulse_capture_enabled

\* From any reception the handlers reach any other.
LEMMA ReceiveReceives ==
  ASSUME NEW r \in Rx, NEW w \in Receptions, Between(r, w), NEW x \in Receptions
  PROVE  Between(Receive(r, x), x)
<1> DEFINE f == set_fifo_capture_enabled(r, FALSE)
           m == set_rmt_pulse_capture_enabled(r, FALSE)
<1>1. f \in Rx /\ m \in Rx
  BY HelpersAreTyped
<1>2. \E v \in {"none", "rmt"} : Between(f, v)
  <2>1. CASE w = "rmt"
    BY <2>1, SetOther
  <2>2. CASE w \in {"none", "fifo"}
    BY <2>2, SetFifo
  <2> QED  BY <2>1, <2>2 DEF Receptions
<1>3. \E v \in {"none", "fifo"} : Between(m, v)
  <2>1. CASE w = "fifo"
    BY <2>1, SetOther
  <2>2. CASE w \in {"none", "rmt"}
    BY <2>2, SetRmt
  <2> QED  BY <2>1, <2>2 DEF Receptions
<1> HIDE DEF f, m
<1>4. /\ Between(set_rmt_pulse_capture_enabled(f, FALSE), "none")
      /\ Between(set_rmt_pulse_capture_enabled(f, TRUE), "rmt")
  BY <1>1, <1>2, SetRmt
<1>5. Between(set_fifo_capture_enabled(m, TRUE), "fifo")
  BY <1>1, <1>3, SetFifo
<1> QED  BY <1>4, <1>5 DEF Receive, Receptions, f, m

LEMMA PauseAndRestore ==
  ASSUME NEW r \in Rx, NEW w \in Receptions
  PROVE  /\ Between(r, w) => Paused(pause_rx_for_tx(r), w)
         /\ Paused(r, w) => Between(restore_rx_after_tx_if_needed(r), w)
<1>1. ASSUME Between(r, w) PROVE Paused(pause_rx_for_tx(r), w)
  <2>1. CASE r.rmt
    <3> DEFINE s == set_rmt_pulse_capture_enabled(r, FALSE)
    <3>1. s \in Rx /\ ~s.rmt /\ ~s.fifo /\ ~s.input /\ s.regs = "tx" /\ ~s.fifoPaused
      BY <1>1, <2>1 DEF Between, Rx, set_rmt_pulse_capture_enabled
    <3> HIDE DEF s
    <3>2. Paused([s EXCEPT !.rmtPaused = TRUE], "rmt") /\ ~[s EXCEPT !.rmtPaused = TRUE].fifo
      BY <3>1 DEF Paused, Rx
    <3>3. w = "rmt"
      BY <1>1, <2>1 DEF Between
    <3> QED  BY <2>1, <3>2, <3>3 DEF pause_rx_for_tx, s
  <2>2. CASE ~r.rmt
    BY <1>1, <2>2 DEF Between, Paused, Rx, pause_rx_for_tx
  <2> QED  BY <2>1, <2>2
<1>2. ASSUME Paused(r, w) PROVE Between(restore_rx_after_tx_if_needed(r), w)
  <2>1. CASE r.rmtPaused
    <3> DEFINE s == [r EXCEPT !.rmtPaused = FALSE]
    <3>1. s \in Rx /\ ~s.rmt /\ ~s.fifo /\ ~s.rmtPaused /\ ~s.fifoPaused
      BY <1>2, <2>1 DEF Paused, Rx
    <3> HIDE DEF s
    <3>2. Between(set_rmt_pulse_capture_enabled(s, TRUE), "rmt")
      BY <3>1 DEF Between, Rx, set_rmt_pulse_capture_enabled
    <3> QED  BY <1>2, <2>1, <3>2 DEF restore_rx_after_tx_if_needed, Paused, s
  <2>2. CASE ~r.rmtPaused /\ r.fifo
    <3> DEFINE c == configure_rx_fifo_capture_mode(r)
    <3>1. c \in Rx /\ c.fifo /\ ~c.rmt /\ ~c.rmtPaused /\ ~c.input /\ c.regs = "fifo" /\ c.state = "rx"
      BY <1>2, <2>2 DEF Paused, Rx, configure_rx_fifo_capture_mode
    <3> HIDE DEF c
    <3>2. Between([c EXCEPT !.fifoPaused = FALSE, !.configured = TRUE], "fifo")
      BY <3>1 DEF Between, Rx
    <3> QED  BY <1>2, <2>2, <3>2 DEF restore_rx_after_tx_if_needed, Paused, c
  <2>3. CASE ~r.rmtPaused /\ ~r.fifo
    BY <1>2, <2>3 DEF Between, Paused, Rx, restore_rx_after_tx_if_needed
  <2> QED  BY <2>1, <2>2, <2>3 DEF Rx
<1> QED  BY <1>1, <1>2

LEMMA LooseSets ==
  ASSUME NEW r \in Rx, Loose(r), NEW on \in BOOLEAN
  PROVE  /\ Loose(set_fifo_capture_enabled(r, on))
         /\ set_fifo_capture_enabled(r, on).rmtPaused = r.rmtPaused
         /\ set_fifo_capture_enabled(r, on).fifo = on
         /\ set_fifo_capture_enabled(r, on).rmt = r.rmt
         /\ Loose(set_rmt_pulse_capture_enabled(r, on))
         /\ set_rmt_pulse_capture_enabled(r, on).rmtPaused = r.rmtPaused
         /\ set_rmt_pulse_capture_enabled(r, on).fifo = r.fifo
         /\ set_rmt_pulse_capture_enabled(r, on).rmt = on
<1>1. /\ Loose(set_fifo_capture_enabled(r, on))
      /\ set_fifo_capture_enabled(r, on).rmtPaused = r.rmtPaused
      /\ set_fifo_capture_enabled(r, on).fifo = on
      /\ set_fifo_capture_enabled(r, on).rmt = r.rmt
  BY DEF Loose, Rx, set_fifo_capture_enabled, configure_rx_fifo_capture_mode
<1>2. /\ Loose(set_rmt_pulse_capture_enabled(r, on))
      /\ set_rmt_pulse_capture_enabled(r, on).rmtPaused = r.rmtPaused
      /\ set_rmt_pulse_capture_enabled(r, on).fifo = r.fifo
      /\ set_rmt_pulse_capture_enabled(r, on).rmt = on
  BY DEF Loose, Rx, set_rmt_pulse_capture_enabled
<1> QED  BY <1>1, <1>2

LEMMA LooseReceive ==
  ASSUME NEW r \in Rx, Loose(r), NEW x \in Receptions
  PROVE  /\ Loose(Receive(r, x))
         /\ Receive(r, x).rmtPaused = r.rmtPaused
         /\ x = "none" => ~Receive(r, x).fifo /\ ~Receive(r, x).rmt
<1> DEFINE f == set_fifo_capture_enabled(r, FALSE)
           m == set_rmt_pulse_capture_enabled(r, FALSE)
<1>1. /\ f \in Rx /\ Loose(f) /\ f.rmtPaused = r.rmtPaused /\ ~f.fifo
      /\ m \in Rx /\ Loose(m) /\ m.rmtPaused = r.rmtPaused
  BY HelpersAreTyped, LooseSets
<1> HIDE DEF f, m
<1>2. \A on \in BOOLEAN :
        /\ Loose(set_rmt_pulse_capture_enabled(f, on))
        /\ set_rmt_pulse_capture_enabled(f, on).rmtPaused = r.rmtPaused
        /\ set_rmt_pulse_capture_enabled(f, on).rmt = on
        /\ ~set_rmt_pulse_capture_enabled(f, on).fifo
  BY <1>1, LooseSets
<1>3. /\ Loose(set_fifo_capture_enabled(m, TRUE))
      /\ set_fifo_capture_enabled(m, TRUE).rmtPaused = r.rmtPaused
  BY <1>1, LooseSets
<1> QED  BY <1>2, <1>3 DEF Receive, Receptions, f, m

LEMMA LoosePauseAndRestore ==
  ASSUME NEW r \in Rx, Loose(r)
  PROVE  /\ Loose(pause_rx_for_tx(r))
         /\ Loose(restore_rx_after_tx_if_needed(r))
         /\ ~restore_rx_after_tx_if_needed(r).rmtPaused
<1>1. Loose(pause_rx_for_tx(r))
  <2> DEFINE s == set_rmt_pulse_capture_enabled(r, FALSE)
             a == IF r.rmt THEN [s EXCEPT !.rmtPaused = TRUE] ELSE r
  <2>1. s \in Rx /\ Loose(s)
    BY HelpersAreTyped, LooseSets
  <2> HIDE DEF s
  <2>2. a \in Rx /\ Loose(a)
    BY <2>1 DEF Rx, Loose
  <2>3. pause_rx_for_tx(r) = IF a.fifo
          THEN [a EXCEPT !.fifoPaused = TRUE, !.configured = FALSE, !.state = "idle"] ELSE a
    BY DEF pause_rx_for_tx, s
  <2> HIDE DEF a
  <2> QED  BY <2>2, <2>3 DEF Rx, Loose
<1>2. /\ Loose(restore_rx_after_tx_if_needed(r))
      /\ ~restore_rx_after_tx_if_needed(r).rmtPaused
  <2>1. CASE r.rmtPaused
    <3> DEFINE s == [r EXCEPT !.rmtPaused = FALSE]
    <3>1. s \in Rx /\ Loose(s) /\ ~s.rmtPaused
      BY DEF Rx, Loose
    <3> HIDE DEF s
    <3>2. /\ Loose(set_rmt_pulse_capture_enabled(s, TRUE))
          /\ ~set_rmt_pulse_capture_enabled(s, TRUE).rmtPaused
      BY <3>1, LooseSets
    <3> QED  BY <2>1, <3>2 DEF restore_rx_after_tx_if_needed, s
  <2>2. CASE ~r.rmtPaused /\ r.fifoPaused /\ r.fifo
    <3> DEFINE c == configure_rx_fifo_capture_mode(r)
    <3>1. c \in Rx /\ Loose(c) /\ ~c.rmtPaused /\ c.fifo
      BY <2>2 DEF Rx, Loose, configure_rx_fifo_capture_mode
    <3> HIDE DEF c
    <3>2. /\ Loose([c EXCEPT !.fifoPaused = FALSE, !.configured = TRUE])
          /\ ~[c EXCEPT !.fifoPaused = FALSE, !.configured = TRUE].rmtPaused
      BY <3>1 DEF Rx, Loose
    <3> QED  BY <2>2, <3>2 DEF restore_rx_after_tx_if_needed, c
  <2>3. CASE ~r.rmtPaused /\ ~(r.fifoPaused /\ r.fifo)
    BY <2>3 DEF restore_rx_after_tx_if_needed, Rx, Loose
  <2> QED  BY <2>1, <2>2, <2>3
<1> QED  BY <1>1, <1>2

LEMMA RxStep == TypeOK /\ SingleFlight /\ RxInv /\ RadioStep => RxInv'
<1> SUFFICES ASSUME TypeOK, SingleFlight, RxInv, RadioStep PROVE RxInv'
  OBVIOUS
<1>t. /\ rx \in Rx /\ wanted \in Receptions
      /\ txInProgress \in BOOLEAN /\ touched \in BOOLEAN
  BY DEF TypeOK, Rx
<1>w. Loose(rx) /\ (~txInProgress => ~rx.rmtPaused)
  BY DEF RxInv
<1>1. CASE EnqueueTx
  <2>1. Loose(rx')
    BY <1>1, <1>t, <1>w, LoosePauseAndRestore DEF EnqueueTx
  <2>2. ~touched => Paused(rx', wanted')
    BY <1>1, <1>t, PauseAndRestore DEF EnqueueTx, RxInv
  <2>3. worker' # "tx"
    BY <1>1 DEF EnqueueTx, SingleFlight, TypeOK
  <2> QED  BY <1>1, <2>1, <2>2, <2>3 DEF EnqueueTx, RxInv
<1>2. CASE EnqueueTestPattern
  <2>1. worker' # "tx"
    BY <1>2 DEF EnqueueTestPattern, SingleFlight, TypeOK
  <2>2. ~touched' => Paused(rx', wanted')
    <3>1. ~touched' => ~touched /\ ~rx.fifo /\ ~rx.rmt /\ ~txInProgress
      BY <1>2, <1>t DEF EnqueueTestPattern, Rx
    <3>2. ~touched' => Between(rx, wanted)
      BY <3>1 DEF RxInv
    <3> QED  BY <1>2, <1>t, <3>1, <3>2 DEF EnqueueTestPattern, Between, Paused, Rx
  <2> QED  BY <1>2, <1>w, <2>1, <2>2 DEF EnqueueTestPattern, RxInv
<1>3. CASE WorkerStarts \/ WorkerEnds
  <2>1. txInProgress /\ UNCHANGED <<txInProgress, wanted, touched>>
    BY <1>3 DEF WorkerStarts, WorkerEnds, SingleFlight, TypeOK
  <2>2. Loose(rx')
    BY <1>3, <1>t, <1>w DEF WorkerStarts, WorkerEnds, Loose, Rx
  <2>3. ~touched => Paused(rx', wanted)
    BY <1>3, <1>t, <2>1 DEF WorkerStarts, WorkerEnds, RxInv, Paused, Rx
  <2>4. worker' = "tx" => rx'.state = "tx"
    BY <1>3, <1>t DEF WorkerStarts, WorkerEnds, Rx
  <2> QED  BY <2>1, <2>2, <2>3, <2>4 DEF RxInv
<1>4. CASE ConsumeEvent
  <2>1. txInProgress
    BY <1>4 DEF ConsumeEvent, SingleFlight, TypeOK
  <2>2. ~touched => Between(rx', wanted')
    BY <1>4, <1>t, <2>1, PauseAndRestore DEF ConsumeEvent, RxInv
  <2>3. Loose(rx') /\ ~rx'.rmtPaused
    BY <1>4, <1>t, <1>w, LoosePauseAndRestore DEF ConsumeEvent
  <2> QED  BY <1>4, <2>2, <2>3 DEF ConsumeEvent, RxInv
<1>5. CASE ReceptionCall
  <2>u. UNCHANGED tx
    BY <1>5 DEF ReceptionCall, SetCaptureMode, SetActiveListenerRxPath, DisableActiveListener,
                EnableActiveListener
  <2>w. ASSUME NEW x \in Receptions
        PROVE  Loose(Receive(rx, x)) /\ Receive(rx, x).rmtPaused = rx.rmtPaused
    BY <1>t, <1>w, LooseReceive
  <2>f. ASSUME NEW on \in BOOLEAN
        PROVE  /\ Loose(set_fifo_capture_enabled(rx, on))
               /\ set_fifo_capture_enabled(rx, on).rmtPaused = rx.rmtPaused
    BY <1>t, <1>w, LooseSets
  <2>s. ASSUME Loose(rx'), rx'.rmtPaused = rx.rmtPaused,
               ~touched' => ~txInProgress /\ Between(rx', wanted')
        PROVE  RxInv'
    BY <1>w, <2>u, <2>s DEF RxInv, tx
  <2>r. ASSUME ~touched, ~txInProgress, NEW x \in Receptions
        PROVE  Between(Receive(rx, x), x)
    BY <1>t, <2>r, ReceiveReceives DEF RxInv
  <2>1. ASSUME NEW m \in CaptureModes \cup {"off"}, SetCaptureMode(m) PROVE RxInv'
    <3>1. m \in {"off", "fifo_trailing_window", "rmt_pulse"}
      BY EndpointAssumption
    <3>2. /\ wanted' \in Receptions /\ rx' = Receive(rx, wanted')
          /\ m = "off" => wanted' = "none"
          /\ touched' = (txInProgress \/ (touched /\ m # "off"))
      BY <2>1, <3>1 DEF SetCaptureMode, Receptions
    <3>3. Loose(rx') /\ rx'.rmtPaused = rx.rmtPaused
      BY <2>w, <3>2
    <3>4. CASE ~txInProgress /\ m = "off"
      <4>1. ~rx'.fifo /\ ~rx'.rmt /\ rx' \in Rx
        BY <1>t, <1>w, <3>2, <3>4, LooseReceive, ReceptionIsTyped
      <4>2. Between(rx', "none")
        BY <1>w, <3>3, <3>4, <4>1 DEF Between, Loose, Rx
      <4> QED  BY <2>s, <3>2, <3>3, <3>4, <4>2
    <3>5. CASE txInProgress \/ m # "off"
      <4>1. ~touched' => ~touched /\ ~txInProgress
        BY <3>2, <3>5
      <4>2. ~touched' => Between(rx', wanted')
        BY <2>r, <3>2, <4>1
      <4> QED  BY <2>s, <3>3, <4>1, <4>2
    <3> QED  BY <3>4, <3>5
  <2>2. ASSUME NEW p \in Paths, SetActiveListenerRxPath(p) PROVE RxInv'
    <3>1. CASE requested
      <4>1. /\ wanted' \in Receptions /\ rx' = Receive(rx, wanted')
            /\ touched' = (txInProgress \/ touched)
        BY <2>2, <3>1 DEF SetActiveListenerRxPath, Receptions
      <4>2. Loose(rx') /\ rx'.rmtPaused = rx.rmtPaused
        BY <2>w, <4>1
      <4> QED  BY <2>s, <2>r, <4>1, <4>2
    <3>2. CASE ~requested
      <4>1. UNCHANGED <<rx, wanted, touched>>
        BY <2>2, <3>2 DEF SetActiveListenerRxPath
      <4> QED  BY <2>u, <4>1 DEF RxInv, tx
    <3> QED  BY <3>1, <3>2
  <2>3. CASE DisableActiveListener
    <3>t. touched' = (txInProgress \/ touched)
      BY <2>3 DEF DisableActiveListener
    <3>1. CASE useRmt
      <4>1. wanted' = "none" /\ rx' = Receive(rx, "none")
        BY <2>3, <3>1 DEF DisableActiveListener
      <4>2. Loose(rx') /\ rx'.rmtPaused = rx.rmtPaused
        BY <2>w, <4>1 DEF Receptions
      <4> QED  BY <2>s, <2>r, <3>t, <4>1, <4>2 DEF Receptions
    <3>2. CASE ~useRmt
      <4>1. rx' = set_fifo_capture_enabled(rx, FALSE)
            /\ wanted' = IF wanted = "rmt" THEN "rmt" ELSE "none"
        BY <2>3, <3>2 DEF DisableActiveListener
      <4>2. Loose(rx') /\ rx'.rmtPaused = rx.rmtPaused
        BY <2>f, <4>1
      <4>3. ASSUME ~touched, ~txInProgress PROVE Between(rx', wanted')
        <5>0. Between(rx, wanted)
          BY <4>3 DEF RxInv
        <5>1. CASE wanted = "rmt"
          BY <1>t, <4>1, <5>0, <5>1, SetOther
        <5>2. CASE wanted \in {"none", "fifo"}
          BY <1>t, <4>1, <5>0, <5>2, SetFifo
        <5> QED  BY <1>t, <5>1, <5>2 DEF Receptions
      <4> QED  BY <2>s, <3>t, <4>2, <4>3
    <3> QED  BY <3>1, <3>2
  <2>4. ASSUME NEW strict \in BOOLEAN, EnableActiveListener(strict) PROVE RxInv'
    <3>t. touched' = (txInProgress \/ touched)
      BY <2>4 DEF EnableActiveListener
    <3>1. CASE useRmt
      <4>1. wanted' = "rmt" /\ rx' = Receive(rx, "rmt")
        BY <2>4, <3>1 DEF EnableActiveListener
      <4>2. Loose(rx') /\ rx'.rmtPaused = rx.rmtPaused
        BY <2>w, <4>1 DEF Receptions
      <4> QED  BY <2>s, <2>r, <3>t, <4>1, <4>2 DEF Receptions
    <3>2. CASE ~useRmt /\ rx.rmt
      <4>1. rx' = rx /\ (wanted = "rmt" => wanted' = "rmt")
        BY <2>4, <3>2 DEF EnableActiveListener
      <4>2. ASSUME ~touched, ~txInProgress PROVE Between(rx', wanted')
        <5>1. Between(rx, wanted) /\ wanted = "rmt"
          BY <4>2, <3>2 DEF RxInv, Between
        <5> QED  BY <4>1, <5>1
      <4> QED  BY <1>w, <2>s, <3>t, <4>1, <4>2
    <3>3. CASE ~useRmt /\ ~rx.rmt
      <4>1. rx' = set_fifo_capture_enabled(rx, TRUE)
            /\ wanted' = IF wanted = "rmt" THEN "rmt" ELSE "fifo"
        BY <2>4, <3>3 DEF EnableActiveListener
      <4>2. Loose(rx') /\ rx'.rmtPaused = rx.rmtPaused
        BY <2>f, <4>1
      <4>3. ASSUME ~touched, ~txInProgress PROVE Between(rx', wanted')
        <5>1. Between(rx, wanted) /\ wanted \in {"none", "fifo"}
          BY <1>t, <3>3, <4>3 DEF RxInv, Between, Receptions
        <5> QED  BY <1>t, <4>1, <5>1, SetFifo
      <4> QED  BY <2>s, <3>t, <4>2, <4>3
    <3> QED  BY <3>1, <3>2, <3>3
  <2> QED  BY <1>5, <2>1, <2>2, <2>3, <2>4 DEF ReceptionCall
<1>6. CASE PollFifo \/ ExportFifo
  <2>1. ~txInProgress /\ rx.fifo /\ UNCHANGED <<tx, wanted, touched>>
    BY <1>6 DEF PollFifo, ExportFifo
  <2>2. ASSUME NEW r \in Rx, Loose(r), ~r.rmtPaused
        PROVE  /\ [r EXCEPT !.configured = TRUE, !.state = "rx"] \in Rx
               /\ Loose([r EXCEPT !.configured = TRUE, !.state = "rx"])
               /\ ~[r EXCEPT !.configured = TRUE, !.state = "rx"].rmtPaused
               /\ Loose([r EXCEPT !.configured = TRUE])
               /\ ~[r EXCEPT !.configured = TRUE].rmtPaused
    BY <2>2 DEF Rx, Loose
  <2>3. /\ configure_rx_fifo_capture_mode(rx) \in Rx
        /\ configure_rx_fifo_capture_mode(rx).fifo
        /\ Loose(configure_rx_fifo_capture_mode(rx))
        /\ ~configure_rx_fifo_capture_mode(rx).rmtPaused
    BY <1>t, <1>w, <2>1 DEF Rx, Loose, configure_rx_fifo_capture_mode
  <2>4. Loose(rx') /\ ~rx'.rmtPaused
    BY <1>6, <1>t, <1>w, <2>1, <2>2, <2>3 DEF PollFifo, ExportFifo
  <2>5. ASSUME ~touched PROVE Between(rx', wanted)
    <3>1. Between(rx, wanted)
      BY <2>1, <2>5 DEF RxInv
    <3>2. ASSUME NEW r \in Rx, Between(r, wanted), r.fifo
          PROVE  /\ [r EXCEPT !.configured = TRUE, !.state = "rx"] \in Rx
                 /\ Between([r EXCEPT !.configured = TRUE, !.state = "rx"], wanted)
                 /\ Between([r EXCEPT !.configured = TRUE], wanted)
      BY <3>2 DEF Rx, Between
    <3>3. Between(configure_rx_fifo_capture_mode(rx), wanted)
      BY <1>t, <2>1, <3>1 DEF Rx, Between, Receptions, configure_rx_fifo_capture_mode
    <3> QED  BY <1>6, <1>t, <2>1, <2>3, <3>1, <3>2, <3>3 DEF PollFifo, ExportFifo
  <2> QED  BY <2>1, <2>4, <2>5 DEF RxInv, tx
<1>7. CASE UNCHANGED vars
  BY <1>7 DEF vars, tx, RxInv
<1> QED  BY <1>1, <1>2, <1>3, <1>4, <1>5, <1>6, <1>7 DEF RadioStep

LEMMA RxInit == Init => RxInv
BY DEF Init, RxInv, Loose, Between, Receptions

\* What the runs check of the reception.
LEMMA RxFacts ==
  TypeOK /\ SingleFlight /\ RxInv => ReceiveAsWanted /\ HearsWhenEnabled /\ TxHasRadio
<1> SUFFICES ASSUME TypeOK, SingleFlight, RxInv, ~touched
             PROVE  ReceiveAsWanted /\ HearsWhenEnabled /\ TxHasRadio
  BY DEF ReceiveAsWanted, HearsWhenEnabled, TxHasRadio
<1>t. rx \in Rx /\ wanted \in Receptions /\ txInProgress \in BOOLEAN
  BY DEF TypeOK, Rx
<1>1. CASE txInProgress
  BY <1>1, <1>t DEF RxInv, Paused, Rx, ReceiveAsWanted, HearsWhenEnabled, TxHasRadio
<1>2. CASE ~txInProgress
  <2>1. worker # "tx"
    BY <1>2 DEF SingleFlight, TypeOK
  <2> QED  BY <1>2, <1>t, <2>1
              DEF RxInv, Between, Rx, ReceiveAsWanted, HearsWhenEnabled, TxHasRadio
<1> QED  BY <1>1, <1>2, <1>t

LEMMA RxInvariance == LinkSpec => []RxInv
<1>1. LinkInit => RxInv
  BY RxInit DEF LinkInit
<1>2. TypeOK /\ SingleFlight /\ RxInv /\ [LinkNext]_allvars => RxInv'
  <2>1. CASE LinkNext
    BY <2>1, LinkStepsAreRadioSteps, RxStep
  <2>2. CASE UNCHANGED allvars
    BY <2>2, RxStep DEF allvars, RadioStep
  <2> QED  BY <2>1, <2>2
<1> QED  BY <1>1, <1>2, EndpointTypeCorrect, OneTransmission, PTL DEF LinkSpec

\* However sends overlap and time out, and whatever is reconfigured: a reception
\* that no call touched during a transmission since it was last switched off is,
\* between transmissions, the one that was asked for.
THEOREM ReceptionComesBack == LinkSpec => []ReceiveAsWanted
BY RxInvariance, EndpointTypeCorrect, OneTransmission, RxFacts, PTL

\* It then really hears: registers, state and pin are those of its mode.
THEOREM ReceptionHears == LinkSpec => []HearsWhenEnabled
BY RxInvariance, EndpointTypeCorrect, OneTransmission, RxFacts, PTL

\* And the worker never transmits with the registers of a reception, but for a
\* paused FIFO capture, although nothing locks the radio.
THEOREM TransmitterHasRadio == LinkSpec => []TxHasRadio
BY RxInvariance, EndpointTypeCorrect, OneTransmission, RxFacts, PTL

-----------------------------------------------------------------------------
\* The answers of the sensors.

Sensors == [result : {"none", "queued", "ok", "error:radio_tx_failed", "error:tx_busy"},
            id : Requests \cup {NoRequest}, success : Nat, failure : Nat]

\* The calls on the way to the endpoint.
ListenCall == [op |-> "set_active_listening"]
StopCall   == [op |-> "rx_stop"]
TxCall(r)  == [op |-> "tx", id |-> r]
Calls == {ListenCall, StopCall} \cup {TxCall(r) : r \in Requests}

\* No tx call, no tx call of r, and the one of r at the end.
NoTx(s)      == \A i \in 1..Len(s) : s[i].op # "tx"
NoTxOf(s, r) == \A i \in 1..Len(s) : s[i] # TxCall(r)
OnlyTx(s, r) == /\ s # <<>> /\ s[Len(s)] = TxCall(r)
                /\ \A i \in 1..Len(s) : i # Len(s) => s[i].op # "tx"

LinkTyped ==
  /\ own \in Sensors
  /\ DOMAIN send = Requests
  /\ \A r \in Requests :
       /\ send[r] = [pc |-> send[r].pc, pre |-> send[r].pre]
       /\ send[r].pc \in {"new", "stopping", "waiting", "ok", "failed", "unconfirmed"}
  /\ send = [r \in Requests |-> send[r]]
  /\ calls \in Seq(Calls)
  /\ onAir \in Requests \cup {NoRequest}
  /\ sent \subseteq Requests /\ crossed \subseteq Requests

\* The sensors when the request r is queued and when it is over, from those
\* before it, and what is on the way to Home Assistant, which sees v, then.
Msg(field, value) == [f \in {field} |-> value]
Queued(pre, r) == [pre EXCEPT !.id = r, !.result = "queued"]
Outcome(ok, pre, r) ==
  IF ok THEN [Queued(pre, r) EXCEPT !.result = "ok", !.success = @ + 1]
  ELSE [Queued(pre, r) EXCEPT !.result = "error:radio_tx_failed", !.failure = @ + 1]
Count(ok, pre) ==
  IF ok THEN Msg("success", pre.success + 1) ELSE Msg("failure", pre.failure + 1)

Told(t, v, pre, r) ==
  \/ t = <<Queued(pre, r)>> /\ v = pre
  \/ t = <<Msg("result", "queued"), Msg("id", r)>> /\ v = pre
  \/ t = <<Msg("id", r)>> /\ v = [pre EXCEPT !.result = "queued"]
  \/ t = <<>> /\ v = Queued(pre, r)

Answers(ok, pre, r) ==
  {<<Outcome(ok, pre, r)>>, <<Msg("result", Outcome(ok, pre, r).result), Count(ok, pre)>>}

Answering(t, v, ok, pre, r) ==
  \/ \E s, a : Told(s, v, pre, r) /\ a \in Answers(ok, pre, r) /\ t = s \o a
  \/ /\ t = <<Count(ok, pre)>>
     /\ v = [Queued(pre, r) EXCEPT !.result = Outcome(ok, pre, r).result]
  \/ t = <<>> /\ v = Outcome(ok, pre, r)

\* Where a send that met no other is while it waits for its confirmation: its call
\* is on the way, the worker has its command, or its outcome is published.
Asked(r) ==
  /\ OnlyTx(calls, r) /\ ~txInProgress
  /\ telemetry = <<>> /\ seen = own
  /\ send[r].pre = own /\ own.id # r /\ r \notin sent

Transmitting(r) ==
  /\ NoTx(calls) /\ txInProgress /\ onAir = r
  /\ send[r].pre \in Sensors /\ send[r].pre.id # r /\ r \notin sent
  /\ own = Queued(send[r].pre, r)
  /\ Told(telemetry, seen, send[r].pre, r)

Answered(r) ==
  /\ NoTx(calls) /\ ~txInProgress
  /\ send[r].pre \in Sensors /\ send[r].pre.id # r
  /\ own = Outcome(r \in sent, send[r].pre, r)
  /\ Answering(telemetry, seen, r \in sent, send[r].pre, r)

\* A request id is new to the endpoint until its call is made.
Fresh(r) == send[r].pc \in {"new", "stopping"} =>
  own.id # r /\ r \notin sent /\ onAir # r /\ NoTxOf(calls, r)

Alone(r) == ~Over(r) => \A q \in Requests \ {r} : Over(q)

Phase(r) ==
  /\ send[r].pc = "stopping" =>
       NoTx(calls) /\ ~txInProgress /\ telemetry = <<>> /\ seen = own
  /\ send[r].pc = "waiting" => Asked(r) \/ Transmitting(r) \/ Answered(r)
  /\ send[r].pc = "failed" =>
       r \notin sent /\ NoTxOf(calls, r) /\ ~(txInProgress /\ onAir = r)
  /\ send[r].pc = "ok" => r \in sent

LinkInv ==
  /\ LinkTyped
  /\ \A r \in Requests : Fresh(r)
  /\ \A r \in Requests \ crossed : Alone(r) /\ Phase(r)

-----------------------------------------------------------------------------
\* The queue of calls.

LEMMA CallFacts ==
  /\ ListenCall \in Calls /\ StopCall \in Calls
  /\ ListenCall.op # "tx" /\ StopCall.op # "tx"
  /\ \A r \in Requests : TxCall(r) \in Calls /\ TxCall(r).op = "tx" /\ TxCall(r).id = r
  /\ \A r \in Requests : ListenCall # TxCall(r) /\ StopCall # TxCall(r)
  /\ \A q, r \in Requests : TxCall(q) = TxCall(r) => q = r
  /\ \A c \in Calls : c.op = "tx" => c.id \in Requests /\ c = TxCall(c.id)
<1>1. \A r : TxCall(r).op = "tx" /\ TxCall(r).id = r
  BY DEF TxCall
<1>2. ListenCall.op # "tx" /\ StopCall.op # "tx"
  BY DEF ListenCall, StopCall
<1>3. ListenCall \in Calls /\ StopCall \in Calls /\ \A r \in Requests : TxCall(r) \in Calls
  BY DEF Calls
<1>4. \A c \in Calls : c.op = "tx" => \E r \in Requests : c = TxCall(r)
  BY <1>2 DEF Calls
<1> QED  BY <1>1, <1>2, <1>3, <1>4

LEMMA CallAppended ==
  ASSUME NEW s \in Seq(Calls), NEW c \in Calls
  PROVE  /\ Append(s, c) \in Seq(Calls)
         /\ NoTx(s) /\ c.op # "tx" => NoTx(Append(s, c))
         /\ \A r \in Requests : NoTxOf(s, r) /\ c # TxCall(r) => NoTxOf(Append(s, c), r)
         /\ \A r \in Requests : NoTx(s) /\ c = TxCall(r) => OnlyTx(Append(s, c), r)
<1>1. /\ Append(s, c) \in Seq(Calls)
      /\ Len(s) \in Nat /\ Len(Append(s, c)) = Len(s) + 1
      /\ \A i \in 1..Len(s) : Append(s, c)[i] = s[i]
      /\ Append(s, c)[Len(s) + 1] = c
  BY AppendProperties, LenProperties
<1>2. Append(s, c) # <<>>
  BY <1>1
<1> DEFINE a == Append(s, c)
<1> HIDE DEF a
<1>3. /\ Len(a) = Len(s) + 1 /\ a[Len(s) + 1] = c /\ a # <<>>
      /\ \A i \in 1..Len(s) : a[i] = s[i]
  BY <1>1, <1>2 DEF a
<1>4. NoTx(s) /\ c.op # "tx" => NoTx(a)
  BY <1>1, <1>3 DEF NoTx
<1>5. \A r \in Requests : NoTxOf(s, r) /\ c # TxCall(r) => NoTxOf(a, r)
  BY <1>1, <1>3 DEF NoTxOf
<1>6. \A r \in Requests : NoTx(s) /\ c = TxCall(r) => OnlyTx(a, r)
  BY <1>1, <1>3 DEF NoTx, OnlyTx
<1> QED  BY <1>1, <1>4, <1>5, <1>6 DEF a

LEMMA CallTaken ==
  ASSUME NEW s \in Seq(Calls), s # <<>>
  PROVE  /\ Head(s) \in Calls /\ Tail(s) \in Seq(Calls)
         /\ NoTx(s) => Head(s).op # "tx" /\ NoTx(Tail(s))
         /\ \A r \in Requests : NoTxOf(s, r) => Head(s) # TxCall(r) /\ NoTxOf(Tail(s), r)
         /\ \A r \in Requests : OnlyTx(s, r) /\ Head(s).op # "tx" => OnlyTx(Tail(s), r)
         /\ \A r \in Requests : OnlyTx(s, r) /\ Head(s).op = "tx" =>
              Head(s) = TxCall(r) /\ NoTx(Tail(s))
<1> DEFINE t == Tail(s)
<1>1. /\ Head(s) \in Calls /\ Head(s) = s[1]
      /\ t \in Seq(Calls) /\ Len(t) = Len(s) - 1
      /\ Len(s) \in Nat /\ Len(s) # 0
      /\ \A i \in 1..Len(t) : t[i] = s[i + 1]
  BY HeadTailProperties, LenProperties, EmptySeq
<1>2. t = <<>> <=> Len(t) = 0
  BY <1>1, EmptySeq
<1> HIDE DEF t
<1>3. NoTx(s) => Head(s).op # "tx" /\ NoTx(t)
  BY <1>1 DEF NoTx
<1>4. \A r \in Requests : NoTxOf(s, r) => Head(s) # TxCall(r) /\ NoTxOf(t, r)
  BY <1>1 DEF NoTxOf
<1>5. \A r \in Requests : OnlyTx(s, r) /\ Head(s).op # "tx" => OnlyTx(t, r)
  <2> SUFFICES ASSUME NEW r \in Requests, OnlyTx(s, r), Head(s).op # "tx" PROVE OnlyTx(t, r)
    OBVIOUS
  <2>1. Len(s) # 1
    BY <1>1, CallFacts DEF OnlyTx
  <2>2. t # <<>> /\ t[Len(t)] = TxCall(r)
    BY <1>1, <1>2, <2>1 DEF OnlyTx
  <2>3. \A i \in 1..Len(t) : i # Len(t) => t[i].op # "tx"
    BY <1>1 DEF OnlyTx
  <2> QED  BY <2>2, <2>3 DEF OnlyTx
<1>6. \A r \in Requests : OnlyTx(s, r) /\ Head(s).op = "tx" => Head(s) = TxCall(r) /\ NoTx(t)
  <2> SUFFICES ASSUME NEW r \in Requests, OnlyTx(s, r), Head(s).op = "tx"
               PROVE  Head(s) = TxCall(r) /\ NoTx(t)
    OBVIOUS
  <2>1. Len(s) = 1
    BY <1>1 DEF OnlyTx
  <2> QED  BY <1>1, <2>1 DEF OnlyTx, NoTx
<1> QED  BY <1>1, <1>3, <1>4, <1>5, <1>6 DEF t

-----------------------------------------------------------------------------
\* The sensor values on their way.

\* The only sequence with these entries.
LEMMA Appended ==
  ASSUME NEW S, NEW s \in Seq(S), NEW e \in S, NEW t \in Seq(S),
         Len(t) = Len(s) + 1, t[Len(t)] = e,
         \A i \in 1..Len(s) : t[i] = s[i]
  PROVE  Append(s, e) = t
<1>1. Len(s) \in Nat
  BY LenProperties
<1>2. Append(s, e) \in Seq(S) /\ Len(Append(s, e)) = Len(t)
  BY AppendProperties
<1>3. \A i \in 1..Len(Append(s, e)) : Append(s, e)[i] = t[i]
  BY <1>1, <1>2, AppendProperties
<1> QED  BY <1>2, <1>3, SeqEqual

LEMMA AppendTwo == ASSUME NEW a, NEW b PROVE Append(<<a>>, b) = <<a, b>>
<1> DEFINE s == <<a>>
           t == <<a, b>>
           S == {a, b}
<1>1. /\ s \in Seq(S) /\ b \in S /\ t \in Seq(S)
      /\ Len(t) = Len(s) + 1 /\ t[Len(t)] = b
      /\ \A i \in 1..Len(s) : t[i] = s[i]
  OBVIOUS
<1> HIDE DEF s, t, S
<1>2. Append(s, b) = t
  BY <1>1, Appended
<1> QED  BY <1>2 DEF s, t

LEMMA ConcatTwo == ASSUME NEW a, NEW b PROVE <<a>> \o <<b>> = <<a, b>>
<1> DEFINE s == <<a>>
           S == {a, b}
<1>1. s \in Seq(S) /\ b \in S
  OBVIOUS
<1> HIDE DEF s, S
<1>2. Append(s, b) = s \o <<b>>
  BY <1>1, AppendIsConcat
<1>3. Append(<<a>>, b) = <<a>> \o <<b>>
  BY Zenon, <1>2 DEF s
<1>4. Append(<<a>>, b) = <<a, b>>
  BY Zenon, AppendTwo
<1> QED  BY Zenon, <1>3, <1>4

\* The values that changed, one by one.
LEMMA Concats ==
  ASSUME NEW a, NEW b
  PROVE  /\ <<>> \o (<<>> \o <<b>> \o <<>> \o <<>>) = <<b>>
         /\ <<>> \o (<<a>> \o <<b>> \o <<>> \o <<>>) = <<a, b>>
         /\ <<a>> \o <<>> \o <<b>> \o <<>> = <<a, b>>
         /\ <<a>> \o <<>> \o <<>> \o <<b>> = <<a, b>>
<1> DEFINE S == {a, b}
           ab == <<a, b>>
           sa == <<a>>
           sb == <<b>>
           none == <<>>
<1>1. ab \in Seq(S) /\ sa \in Seq(S) /\ sb \in Seq(S) /\ none \in Seq(S)
  OBVIOUS
<1>2. sa \o sb = ab
  BY Zenon, ConcatTwo
<1>3. \A s \in Seq(S) : s \o none = s /\ none \o s = s
  BY ConcatEmptySeq
<1> HIDE DEF S, ab, sa, sb, none
<1>4. /\ none \o (none \o sb \o none \o none) = sb
      /\ none \o (sa \o sb \o none \o none) = ab
      /\ sa \o none \o sb \o none = ab
      /\ sa \o none \o none \o sb = ab
  BY <1>1, <1>2, <1>3
<1> QED  BY <1>4 DEF ab, sa, sb, none

LEMMA HeadTailOne == ASSUME NEW a PROVE Head(<<a>>) = a /\ Tail(<<a>>) = <<>>
OBVIOUS

LEMMA HeadTailTwo == ASSUME NEW a, NEW b PROVE Head(<<a, b>>) = a /\ Tail(<<a, b>>) = <<b>>
OBVIOUS

LEMMA Concatenated ==
  ASSUME NEW S, NEW s \in Seq(S), NEW t \in Seq(S), s # <<>>
  PROVE  s \o t # <<>> /\ Head(s \o t) = Head(s) /\ Tail(s \o t) = Tail(s) \o t
<1> DEFINE c == s \o t
           a == Tail(c)
           b == Tail(s) \o t
<1>1. /\ c \in Seq(S) /\ Len(c) = Len(s) + Len(t)
      /\ \A i \in 1..Len(s) : c[i] = s[i]
      /\ \A i \in 1..Len(t) : c[i + Len(s)] = t[i]
  BY ConcatProperties
<1>2. Len(s) \in Nat /\ Len(t) \in Nat /\ Len(s) # 0 /\ Head(s) = s[1]
  BY LenProperties, EmptySeq, HeadTailProperties
<1>3. c # <<>>
  BY <1>1, <1>2, EmptySeq
<1> HIDE DEF c
<1>4. Head(c) = c[1] /\ a \in Seq(S) /\ Len(a) = Len(c) - 1 /\ \A i \in 1..Len(a) : a[i] = c[i + 1]
  BY <1>1, <1>3, HeadTailProperties
<1>5. /\ Tail(s) \in Seq(S) /\ Len(Tail(s)) = Len(s) - 1
      /\ \A i \in 1..Len(Tail(s)) : Tail(s)[i] = s[i + 1]
  BY HeadTailProperties
<1>6. /\ b \in Seq(S) /\ Len(b) = Len(s) - 1 + Len(t)
      /\ \A i \in 1..(Len(s) - 1) : b[i] = Tail(s)[i]
      /\ \A i \in 1..Len(t) : b[i + (Len(s) - 1)] = t[i]
  BY <1>5, ConcatProperties
<1> HIDE DEF a, b
<1>7. \A i \in 1..Len(a) : a[i] = b[i]
  <2> SUFFICES ASSUME NEW i \in 1..Len(a) PROVE a[i] = b[i]
    OBVIOUS
  <2>0. i \in Nat /\ 1 <= i /\ i <= Len(s) - 1 + Len(t)
    BY <1>1, <1>2, <1>4
  <2>1. CASE i <= Len(s) - 1
    <3>1. b[i] = s[i + 1]
      BY <1>2, <1>5, <1>6, <2>0, <2>1
    <3>2. i + 1 \in 1..Len(s)
      BY <1>2, <2>0, <2>1
    <3> QED  BY <1>1, <1>4, <3>1, <3>2
  <2>2. CASE ~(i <= Len(s) - 1)
    <3> DEFINE k == i - (Len(s) - 1)
    <3>1. k \in 1..Len(t) /\ i = k + (Len(s) - 1) /\ i + 1 = k + Len(s)
      BY <1>2, <2>0, <2>2
    <3> HIDE DEF k
    <3>2. b[k + (Len(s) - 1)] = t[k] /\ c[k + Len(s)] = t[k]
      BY <1>1, <1>6, <3>1
    <3>3. a[i] = c[i + 1]
      BY <1>4
    <3> QED  BY <3>1, <3>2, <3>3
  <2> QED  BY <2>1, <2>2
<1>8. Len(a) = Len(b)
  BY <1>1, <1>2, <1>4, <1>6
<1>9. a = b
  BY <1>4, <1>6, <1>7, <1>8, SeqEqual
<1>10. Head(c) = Head(s)
  BY <1>1, <1>2, <1>4
<1> QED  BY <1>3, <1>9, <1>10 DEF a, b, c

\* What Home Assistant sees after the next message.
LEMMA Seen ==
  ASSUME NEW pre \in Sensors, NEW r \in Requests
  PROVE  /\ Received(Queued(pre, r), pre) = Queued(pre, r)
         /\ Received(Msg("result", "queued"), pre) = [pre EXCEPT !.result = "queued"]
         /\ Received(Msg("id", r), [pre EXCEPT !.result = "queued"]) = Queued(pre, r)
<1>1. Queued(pre, r) \in Sensors
  BY DEF Queued, Sensors
<1>2. Received(Queued(pre, r), pre) = Queued(pre, r)
  <2>1. DOMAIN Queued(pre, r) = DOMAIN pre
    BY <1>1 DEF Sensors
  <2> QED  BY <1>1, <2>1 DEF Sensors, Received
<1>3. Received(Msg("result", "queued"), pre) = [pre EXCEPT !.result = "queued"]
  BY DEF Received, Msg, Sensors
<1>4. Received(Msg("id", r), [pre EXCEPT !.result = "queued"]) = Queued(pre, r)
  BY DEF Received, Msg, Sensors, Queued
<1> QED  BY <1>2, <1>3, <1>4

LEMMA ToldStep ==
  ASSUME NEW pre \in Sensors, NEW r \in Requests, NEW t, NEW v, Told(t, v, pre, r), t # <<>>
  PROVE  Told(Tail(t), Received(Head(t), v), pre, r)
<1>1. CASE t = <<Queued(pre, r)>> /\ v = pre
  <2>1. Head(t) = Queued(pre, r) /\ Tail(t) = <<>>
    BY Zenon, <1>1, HeadTailOne
  <2> QED  BY Zenon, <1>1, <2>1, Seen DEF Told
<1>2. CASE t = <<Msg("result", "queued"), Msg("id", r)>> /\ v = pre
  <2>1. Head(t) = Msg("result", "queued") /\ Tail(t) = <<Msg("id", r)>>
    BY Zenon, <1>2, HeadTailTwo
  <2> QED  BY Zenon, <1>2, <2>1, Seen DEF Told
<1>3. CASE t = <<Msg("id", r)>> /\ v = [pre EXCEPT !.result = "queued"]
  <2>1. Head(t) = Msg("id", r) /\ Tail(t) = <<>>
    BY Zenon, <1>3, HeadTailOne
  <2> QED  BY Zenon, <1>3, <2>1, Seen DEF Told
<1> QED  BY Zenon, <1>1, <1>2, <1>3 DEF Told

\* Nothing on the way to the outcome confirms the request.
LEMMA ToldIsNoAnswer ==
  ASSUME NEW pre \in Sensors, NEW r \in Requests, NEW t, NEW v, Told(t, v, pre, r),
         pre.id # r, v.id = r
  PROVE  v = Queued(pre, r)
BY DEF Told, Sensors, Queued

LEMMA QueuedFacts ==
  ASSUME NEW pre \in Sensors, NEW r \in Requests
  PROVE  /\ Queued(pre, r) \in Sensors /\ Queued(pre, r).id = r
         /\ Queued(pre, r).result = "queued"
         /\ Queued(pre, r).success = pre.success /\ Queued(pre, r).failure = pre.failure
         /\ pre.success \in Nat /\ pre.failure \in Nat
BY DEF Queued, Sensors

LEMMA OutcomeFacts ==
  ASSUME NEW pre \in Sensors, NEW r \in Requests, NEW ok \in BOOLEAN
  PROVE  /\ Outcome(ok, pre, r) \in Sensors /\ Outcome(ok, pre, r).id = r
         /\ Outcome(ok, pre, r).result = IF ok THEN "ok" ELSE "error:radio_tx_failed"
         /\ Outcome(ok, pre, r).success = IF ok THEN pre.success + 1 ELSE pre.success
         /\ Outcome(ok, pre, r).failure = IF ok THEN pre.failure ELSE pre.failure + 1
<1> DEFINE q == Queued(pre, r)
<1>1. q \in Sensors /\ q.id = r /\ q.success = pre.success /\ q.failure = pre.failure
      /\ pre.success + 1 \in Nat /\ pre.failure + 1 \in Nat
  BY QueuedFacts
<1>2. Outcome(ok, pre, r) =
        IF ok THEN [q EXCEPT !.result = "ok", !.success = pre.success + 1]
        ELSE [q EXCEPT !.result = "error:radio_tx_failed", !.failure = pre.failure + 1]
  BY <1>1 DEF Outcome
<1> HIDE DEF q
<1> QED  BY <1>1, <1>2 DEF Sensors

LEMMA SeenAnswer ==
  ASSUME NEW pre \in Sensors, NEW r \in Requests, NEW ok \in BOOLEAN
  PROVE  LET o == Outcome(ok, pre, r)
             q == Queued(pre, r)
         IN  /\ Received(o, q) = o
             /\ Received(Msg("result", o.result), q) = [q EXCEPT !.result = o.result]
             /\ Received(Count(ok, pre), [q EXCEPT !.result = o.result]) = o
<1> DEFINE o == Outcome(ok, pre, r)
           q == Queued(pre, r)
<1>1. /\ q \in Sensors /\ q.id = r /\ q.success = pre.success /\ q.failure = pre.failure
      /\ o \in Sensors /\ o.id = r
      /\ o.success = IF ok THEN pre.success + 1 ELSE pre.success
      /\ o.failure = IF ok THEN pre.failure ELSE pre.failure + 1
  BY QueuedFacts, OutcomeFacts
<1> HIDE DEF o, q
<1>2. Received(o, q) = o
  <2>1. DOMAIN o = DOMAIN q
    BY <1>1 DEF Sensors
  <2> QED  BY <1>1, <2>1 DEF Sensors, Received
<1>3. Received(Msg("result", o.result), q) = [q EXCEPT !.result = o.result]
  BY <1>1 DEF Received, Msg, Sensors
<1>4. Received(Count(ok, pre), [q EXCEPT !.result = o.result]) = o
  <2>1. CASE ok
    <3>1. Count(ok, pre) = Msg("success", o.success) /\ o.failure = q.failure /\ o.id = q.id
      BY <1>1, <2>1 DEF Count
    <3>2. Received(Msg("success", o.success), [q EXCEPT !.result = o.result]) = o
      BY <1>1, <3>1 DEF Received, Msg, Sensors
    <3> QED  BY <3>1, <3>2
  <2>2. CASE ~ok
    <3>1. Count(ok, pre) = Msg("failure", o.failure) /\ o.success = q.success /\ o.id = q.id
      BY <1>1, <2>2 DEF Count
    <3>2. Received(Msg("failure", o.failure), [q EXCEPT !.result = o.result]) = o
      BY <1>1, <3>1 DEF Received, Msg, Sensors
    <3> QED  BY <3>1, <3>2
  <2> QED  BY <2>1, <2>2
<1> QED  BY <1>2, <1>3, <1>4 DEF o, q

LEMMA AnyTuple ==
  /\ \A a : \A S : a \in S => <<a>> \in Seq(S)
  /\ \A a, b : \A S : a \in S /\ b \in S => <<a, b>> \in Seq(S)
OBVIOUS

\* A Told sequence and an answer are sequences over one set.
LEMMA ToldAndAnswer ==
  ASSUME NEW pre, NEW r, NEW ok, NEW s, NEW v, Told(s, v, pre, r),
         NEW a \in Answers(ok, pre, r)
  PROVE  \E S : s \in Seq(S) /\ a \in Seq(S)
<1> DEFINE S == {Queued(pre, r), Msg("result", "queued"), Msg("id", r), Outcome(ok, pre, r),
                 Msg("result", Outcome(ok, pre, r).result), Count(ok, pre)}
<1>1. /\ Queued(pre, r) \in S /\ Msg("result", "queued") \in S /\ Msg("id", r) \in S
      /\ Outcome(ok, pre, r) \in S /\ Msg("result", Outcome(ok, pre, r).result) \in S
      /\ Count(ok, pre) \in S
  OBVIOUS
<1> HIDE DEF S
<1>2. <<>> \in Seq(S)
  OBVIOUS
<1>3. s \in Seq(S)
  <2>1. /\ <<Queued(pre, r)>> \in Seq(S) /\ <<Msg("id", r)>> \in Seq(S)
        /\ <<Msg("result", "queued"), Msg("id", r)>> \in Seq(S)
    BY Zenon, <1>1, AnyTuple
  <2>2. \/ s = <<Queued(pre, r)>> \/ s = <<Msg("id", r)>>
        \/ s = <<Msg("result", "queued"), Msg("id", r)>> \/ s = <<>>
    BY Zenon DEF Told
  <2> QED  BY Zenon, <1>2, <2>1, <2>2
<1>4. a = <<Outcome(ok, pre, r)>> \/ a = <<Msg("result", Outcome(ok, pre, r).result), Count(ok, pre)>>
  BY DEF Answers
<1>5. a \in Seq(S)
  BY Zenon, <1>1, <1>4, AnyTuple
<1> QED  BY <1>3, <1>5

LEMMA AnsweringStep ==
  ASSUME NEW pre \in Sensors, NEW r \in Requests, NEW ok \in BOOLEAN, NEW t, NEW v,
         Answering(t, v, ok, pre, r), t # <<>>
  PROVE  Answering(Tail(t), Received(Head(t), v), ok, pre, r)
<1>1. ASSUME NEW s, NEW a, Told(s, v, pre, r), a \in Answers(ok, pre, r), t = s \o a
      PROVE  Answering(Tail(t), Received(Head(t), v), ok, pre, r)
  <2>0. PICK S : s \in Seq(S) /\ a \in Seq(S)
    BY Zenon, <1>1, ToldAndAnswer
  <2>1. CASE s # <<>>
    <3>1. Head(t) = Head(s) /\ Tail(t) = Tail(s) \o a
      BY Zenon, <1>1, <2>0, <2>1, Concatenated
    <3>2. Told(Tail(s), Received(Head(s), v), pre, r)
      BY Zenon, <1>1, <2>1, ToldStep
    <3> QED  BY Zenon, <1>1, <3>1, <3>2 DEF Answering
  <2>2. CASE s = <<>>
    <3>1. t = a
      BY <1>1, <2>0, <2>2
    <3>2. v = Queued(pre, r)
      <4>1. \A x : <<x>> # <<>>
        OBVIOUS
      <4>2. \A x, y : <<x, y>> # <<>>
        OBVIOUS
      <4> QED  BY Zenon, <1>1, <2>2, <4>1, <4>2 DEF Told
    <3>3. a = <<Outcome(ok, pre, r)>>
          \/ a = <<Msg("result", Outcome(ok, pre, r).result), Count(ok, pre)>>
      BY <1>1 DEF Answers
    <3>4. CASE a = <<Outcome(ok, pre, r)>>
      <4>1. Head(t) = Outcome(ok, pre, r) /\ Tail(t) = <<>>
        BY Zenon, <3>1, <3>4, HeadTailOne
      <4>2. Received(Outcome(ok, pre, r), Queued(pre, r)) = Outcome(ok, pre, r)
        BY SeenAnswer
      <4> QED  BY Zenon, <3>2, <4>1, <4>2 DEF Answering
    <3>5. CASE a = <<Msg("result", Outcome(ok, pre, r).result), Count(ok, pre)>>
      <4>1. Head(t) = Msg("result", Outcome(ok, pre, r).result) /\ Tail(t) = <<Count(ok, pre)>>
        BY Zenon, <3>1, <3>5, HeadTailTwo
      <4>2. Received(Msg("result", Outcome(ok, pre, r).result), Queued(pre, r))
              = [Queued(pre, r) EXCEPT !.result = Outcome(ok, pre, r).result]
        BY SeenAnswer
      <4> QED  BY Zenon, <3>2, <4>1, <4>2 DEF Answering
    <3> QED  BY <3>3, <3>4, <3>5
  <2> QED  BY <2>1, <2>2
<1>2. CASE /\ t = <<Count(ok, pre)>>
           /\ v = [Queued(pre, r) EXCEPT !.result = Outcome(ok, pre, r).result]
  <2>1. Head(t) = Count(ok, pre) /\ Tail(t) = <<>>
    BY Zenon, <1>2, HeadTailOne
  <2>2. Received(Count(ok, pre), [Queued(pre, r) EXCEPT !.result = Outcome(ok, pre, r).result])
          = Outcome(ok, pre, r)
    BY SeenAnswer
  <2> QED  BY Zenon, <1>2, <2>1, <2>2 DEF Answering
<1> QED  BY Zenon, <1>1, <1>2 DEF Answering

\* What confirms the request says how it ended.
LEMMA AnswerIsTrue ==
  ASSUME NEW pre \in Sensors, NEW r \in Requests, NEW ok \in BOOLEAN, NEW t, NEW v,
         Answering(t, v, ok, pre, r), pre.id # r, v.id = r, v # Queued(pre, r)
  PROVE  v.result = "ok" <=> ok
<1> DEFINE o == Outcome(ok, pre, r)
           q == Queued(pre, r)
<1>1. /\ q \in Sensors /\ o \in Sensors
      /\ o.result = IF ok THEN "ok" ELSE "error:radio_tx_failed"
  BY QueuedFacts, OutcomeFacts
<1>2. v = [q EXCEPT !.result = o.result] \/ v = o
  BY Zenon, ToldIsNoAnswer DEF Answering
<1> HIDE DEF o, q
<1>3. v.result = o.result
  BY <1>1, <1>2 DEF Sensors
<1> QED  BY <1>1, <1>3

-----------------------------------------------------------------------------
\* The steps.

LEMMA LinkInit_LinkInv == LinkInit => LinkInv
<1> SUFFICES ASSUME LinkInit PROVE LinkInv
  OBVIOUS
<1>1. own \in Sensors /\ own.id = NoRequest
  BY DEF LinkInit, NoTelemetry, Sensors
<1>2. \A r \in Requests : send[r] = [pc |-> "new", pre |-> NoTelemetry]
  BY DEF LinkInit
<1>3. \A r \in Requests : send[r].pc = "new"
  BY <1>2
<1>4. calls = <<>> /\ calls \in Seq(Calls) /\ Len(calls) = 0
  BY DEF LinkInit
<1>5. LinkTyped
  BY <1>1, <1>2, <1>3, <1>4 DEF LinkInit, LinkTyped
<1>6. \A r \in Requests : NoTxOf(calls, r)
  BY <1>4 DEF NoTxOf
<1>7. \A r \in Requests : Fresh(r) /\ Alone(r) /\ Phase(r)
  BY <1>1, <1>3, <1>6, LinkAssumption DEF LinkInit, Fresh, Alone, Phase, Over
<1> QED  BY <1>5, <1>7 DEF LinkInv

\* The sends that an active send did not meet are over.
LEMMA OthersOver ==
  ASSUME LinkInv, NEW r \in Requests, ~Over(r), NEW q \in Requests \ crossed, q # r
  PROVE  Over(q)
BY DEF LinkInv, Alone

LEMMA PcOfOver ==
  ASSUME LinkTyped, NEW r \in Requests
  PROVE  Over(r) <=> send[r].pc \notin {"stopping", "waiting"}
BY DEF LinkTyped, Over

\* What keeps a send that is over in its phase.
LEMMA StaysOver ==
  ASSUME NEW q \in Requests, Over(q), Phase(q), send'[q] = send[q],
         NoTxOf(calls, q) => NoTxOf(calls', q),
         q \in sent => q \in sent',
         NoTxOf(calls, q) /\ q \notin sent /\ ~(txInProgress /\ onAir = q)
           => q \notin sent' /\ ~(txInProgress' /\ onAir' = q)
  PROVE  Phase(q)'
<1>1. send'[q].pc \notin {"stopping", "waiting"}
  BY DEF Over
<1> QED  BY <1>1 DEF Phase

\* One send moves, by a step that leaves the endpoint and the sensors as they are.
LEMMA SendMoves ==
  ASSUME LinkInv, NEW r \in Requests,
         NEW pc \in {"stopping", "waiting", "ok", "failed", "unconfirmed"}, NEW pre,
         send' = [send EXCEPT ![r] = [pc |-> pc, pre |-> pre]],
         NEW c \in Calls, calls' \in {calls, Append(calls, c)},
         c.op = "tx" => c = TxCall(r) /\ pc = "waiting",
         UNCHANGED <<txInProgress, telemetry, own, seen, onAir, sent>>,
         crossed \subseteq crossed', crossed' \subseteq Requests,
         \A q \in Requests \ crossed' : q # r => Over(q),
         pc = "stopping" => Fresh(r) /\ send[r].pc = "new",
         r \notin crossed' => Phase(r)' /\ \A q \in Requests \ {r} : Over(q)
  PROVE  LinkInv'
<1>1. /\ send'[r] = [pc |-> pc, pre |-> pre] /\ send'[r].pc = pc
      /\ \A q \in Requests \ {r} : send'[q] = send[q]
      /\ DOMAIN send' = Requests
  BY DEF LinkInv, LinkTyped
<1>c. calls \in Seq(Calls)
  BY DEF LinkInv, LinkTyped
<1>2. calls' \in Seq(Calls)
  BY <1>c, CallAppended
<1>3. LinkTyped'
  <2>1. \A q \in Requests : /\ send'[q] = [pc |-> send'[q].pc, pre |-> send'[q].pre]
                            /\ send'[q].pc \in {"new", "stopping", "waiting", "ok", "failed",
                                                "unconfirmed"}
    BY <1>1 DEF LinkInv, LinkTyped
  <2>2. send' = [q \in Requests |-> send'[q]]
    BY <1>1 DEF LinkInv, LinkTyped
  <2> QED  BY <1>1, <1>2, <2>1, <2>2 DEF LinkInv, LinkTyped
<1>4. ASSUME NEW q \in Requests, NoTxOf(calls, q), q # r \/ pc # "waiting"
      PROVE  NoTxOf(calls', q)
  <2>1. c # TxCall(q)
    BY <1>4, CallFacts
  <2>2. NoTxOf(Append(calls, c), q)
    BY <1>4, <1>c, <2>1, CallAppended
  <2> QED  BY <1>4, <2>2
<1>5. ASSUME NEW q \in Requests PROVE Fresh(q)'
  <2>1. CASE q # r
    BY <1>1, <1>4, <2>1 DEF LinkInv, Fresh
  <2>2. CASE q = r /\ pc = "stopping"
    BY <1>1, <1>4, <2>2 DEF Fresh
  <2>3. CASE q = r /\ pc # "stopping"
    BY <1>1, <2>3 DEF Fresh
  <2> QED  BY <2>1, <2>2, <2>3
<1>6. \A q \in Requests \ {r} : Over(q)' <=> Over(q)
  BY <1>1 DEF Over
<1>7. ASSUME NEW q \in Requests \ crossed' PROVE Alone(q)' /\ Phase(q)'
  <2>1. CASE q = r
    BY <1>6, <1>7, <2>1 DEF Alone
  <2>2. CASE q # r
    <3>1. Over(q) /\ Over(q)'
      BY <1>6, <1>7, <2>2
    <3>2. Phase(q)
      BY <1>7 DEF LinkInv
    <3>3. Phase(q)'
      BY <1>1, <1>4, <2>2, <3>1, <3>2, StaysOver
    <3> QED  BY <3>1, <3>3 DEF Alone
  <2> QED  BY <2>1, <2>2
<1> QED  BY <1>3, <1>5, <1>7 DEF LinkInv

LEMMA PcChanges ==
  ASSUME LinkTyped, NEW r \in Requests, NEW pc
  PROVE  [send EXCEPT ![r].pc = pc] = [send EXCEPT ![r] = [pc |-> pc, pre |-> send[r].pre]]
<1>1. ASSUME NEW p, NEW q PROVE [[pc |-> p, pre |-> q] EXCEPT !.pc = pc] = [pc |-> pc, pre |-> q]
  OBVIOUS
<1>2. send[r] = [pc |-> send[r].pc, pre |-> send[r].pre]
  BY DEF LinkTyped
<1>3. [send[r] EXCEPT !.pc = pc] = [pc |-> pc, pre |-> send[r].pre]
  BY <1>1, <1>2
<1>4. [send EXCEPT ![r].pc = pc] = [send EXCEPT ![r] = [send[r] EXCEPT !.pc = pc]]
  OBVIOUS
<1> QED  BY <1>3, <1>4

LEMMA StartStep == ASSUME LinkInv, NEW r \in Requests, StartSend(r) PROVE LinkInv'
<1>1. /\ send[r].pc = "new"
      /\ send' = [send EXCEPT ![r].pc = "stopping"]
      /\ calls' = Append(calls, StopCall)
      /\ crossed' = IF Settled THEN crossed ELSE crossed \cup UnderWay \cup {r}
      /\ UNCHANGED <<txInProgress, telemetry, own, seen, onAir, sent>>
  BY DEF StartSend, vars, tx, StopCall
<1>2. send' = [send EXCEPT ![r] = [pc |-> "stopping", pre |-> send[r].pre]]
  BY <1>1, PcChanges DEF LinkInv
<1>3. Fresh(r)
  BY DEF LinkInv
<1>4. crossed \subseteq crossed' /\ crossed' \subseteq Requests
  BY <1>1 DEF UnderWay, LinkInv, LinkTyped
<1>5. \A q \in Requests \ crossed' : Over(q)
  BY <1>1 DEF Settled, UnderWay
<1>6. ASSUME r \notin crossed' PROVE Phase(r)' /\ \A q \in Requests \ {r} : Over(q)
  <2>1. Settled /\ \A q \in Requests : Over(q)
    BY <1>1, <1>6 DEF Settled, UnderWay
  <2>2. NoTx(calls)
    <3>1. DOMAIN calls = 1..Len(calls)
      BY LenProperties DEF LinkInv, LinkTyped
    <3> QED  BY <2>1, <3>1 DEF Settled, NoTx
  <2>3. NoTx(calls')
    BY <1>1, <2>2, CallFacts, CallAppended DEF LinkInv, LinkTyped
  <2>4. send'[r].pc = "stopping"
    BY <1>2 DEF LinkInv, LinkTyped
  <2>5. Phase(r)'
    BY <1>1, <2>1, <2>3, <2>4 DEF Phase, Settled
  <2> QED  BY <2>1, <2>5
<1> QED  BY <1>1, <1>2, <1>3, <1>4, <1>5, <1>6, SendMoves, CallFacts

LEMMA InvokeStep == ASSUME LinkInv, NEW r \in Requests, InvokeTx(r) PROVE LinkInv'
<1>1. /\ send[r].pc = "stopping"
      /\ send' = [send EXCEPT ![r] = [pc |-> "waiting", pre |-> seen]]
      /\ calls' = Append(calls, TxCall(r))
      /\ UNCHANGED <<txInProgress, telemetry, own, seen, onAir, sent, crossed>>
  BY DEF InvokeTx, vars, tx, TxCall
<1>2. ~Over(r)
  BY <1>1 DEF Over
<1>3. \A q \in Requests \ crossed' : q # r => Over(q)
  BY <1>1, <1>2, OthersOver
<1>4. ASSUME r \notin crossed' PROVE Phase(r)' /\ \A q \in Requests \ {r} : Over(q)
  <2>1. Phase(r) /\ Alone(r) /\ Fresh(r)
    BY <1>1, <1>4 DEF LinkInv
  <2>2. OnlyTx(calls', r)
    BY <1>1, <2>1, CallFacts, CallAppended DEF Phase, LinkInv, LinkTyped
  <2>3. send'[r] = [pc |-> "waiting", pre |-> seen]
    BY <1>1 DEF LinkInv, LinkTyped
  <2>4. Asked(r)'
    BY <1>1, <2>1, <2>2, <2>3 DEF Phase, Fresh, Asked
  <2>5. Phase(r)'
    BY <2>3, <2>4 DEF Phase
  <2> QED  BY <1>2, <2>1, <2>5 DEF Alone
<1>5. crossed \subseteq crossed' /\ crossed' \subseteq Requests
  BY <1>1 DEF LinkInv, LinkTyped
<1>6. TxCall(r) \in Calls
  BY CallFacts
<1> QED  BY <1>1, <1>3, <1>4, <1>5, <1>6, SendMoves

LEMMA EndStep ==
  ASSUME LinkInv, NEW r \in Requests, Confirmed(r) \/ TimesOut(r)
  PROVE  LinkInv'
<1>1. PICK pc \in {"ok", "failed", "unconfirmed"} :
        /\ send[r].pc = "waiting"
        /\ EndSend(r, pc)
        /\ pc # "unconfirmed" => Confirms(r) /\ (pc = "ok" <=> seen.result = "ok")
  BY DEF Confirmed, TimesOut
<1>2. /\ send' = [send EXCEPT ![r].pc = pc]
      /\ calls' \in {calls, Append(calls, ListenCall)}
      /\ UNCHANGED <<txInProgress, telemetry, own, seen, onAir, sent, crossed>>
  BY <1>1 DEF EndSend, vars, tx, ListenCall
<1>3. send' = [send EXCEPT ![r] = [pc |-> pc, pre |-> send[r].pre]]
  BY <1>2, PcChanges DEF LinkInv
<1>4. ~Over(r)
  BY <1>1 DEF Over
<1>5. \A q \in Requests \ crossed' : q # r => Over(q)
  BY <1>2, <1>4, OthersOver
<1>6. ASSUME r \notin crossed' PROVE Phase(r)' /\ \A q \in Requests \ {r} : Over(q)
  <2>1. Phase(r) /\ Alone(r)
    BY <1>2, <1>6 DEF LinkInv
  <2>2. send'[r].pc = pc
    BY <1>3 DEF LinkInv, LinkTyped
  <2>3. CASE pc = "unconfirmed"
    BY <1>4, <2>1, <2>2, <2>3 DEF Phase, Alone
  <2>4. CASE pc # "unconfirmed"
    <3>1. Asked(r) \/ Transmitting(r) \/ Answered(r)
      BY <1>1, <2>1 DEF Phase
    <3>2. seen.id = r /\ Confirms(r)
      BY <1>1, <2>4 DEF Confirms
    <3>3. ASSUME send[r].pre \in Sensors PROVE seen # Queued(send[r].pre, r)
      <4>1. /\ Queued(send[r].pre, r).result = "queued"
            /\ Queued(send[r].pre, r).success = send[r].pre.success
            /\ Queued(send[r].pre, r).failure = send[r].pre.failure
            /\ send[r].pre.success \in Nat /\ send[r].pre.failure \in Nat
        BY <3>3, QueuedFacts
      <4> QED  BY <3>2, <4>1 DEF Confirms
    <3>4. ~Asked(r)
      BY <3>2 DEF Asked
    <3>5. ~Transmitting(r)
      BY <3>2, <3>3, ToldIsNoAnswer DEF Transmitting
    <3>6. Answered(r)
      BY <3>1, <3>4, <3>5
    <3>7. (r \in sent) \in BOOLEAN
      OBVIOUS
    <3>8. seen.result = "ok" <=> r \in sent
      <4>1. PICK ok \in BOOLEAN : ok = (r \in sent)
        BY <3>7
      <4>2. /\ send[r].pre \in Sensors /\ send[r].pre.id # r
            /\ Answering(telemetry, seen, ok, send[r].pre, r)
        BY <3>6, <4>1, Zenon DEF Answered
      <4>3. seen # Queued(send[r].pre, r)
        BY <3>3, <4>2
      <4>4. ASSUME NEW p \in Sensors, p.id # r, Answering(telemetry, seen, ok, p, r), seen # Queued(p, r)
            PROVE  seen.result = "ok" <=> ok
        BY <3>2, <4>4, AnswerIsTrue
      <4>5. seen.result = "ok" <=> ok
        BY <4>2, <4>3, <4>4
      <4> QED  BY <4>1, <4>5
    <3>9. NoTxOf(calls, r) /\ NoTx(calls) /\ ~txInProgress
      BY <3>6, CallFacts DEF Answered, NoTx, NoTxOf
    <3>10. NoTxOf(calls', r)
      <4>1. calls \in Seq(Calls)
        BY DEF LinkInv, LinkTyped
      <4>2. NoTxOf(Append(calls, ListenCall), r)
        BY <3>9, <4>1, CallFacts, CallAppended
      <4> QED  BY <1>2, <3>9, <4>2
    <3> QED  BY <1>1, <1>2, <1>4, <2>1, <2>2, <2>4, <3>8, <3>9, <3>10 DEF Phase, Alone
  <2> QED  BY <2>3, <2>4
<1>7. crossed \subseteq crossed' /\ crossed' \subseteq Requests
  BY <1>2 DEF LinkInv, LinkTyped
<1>8. ListenCall \in Calls /\ ListenCall.op # "tx"
  BY CallFacts
<1> QED  BY <1>2, <1>3, <1>5, <1>6, <1>7, <1>8, SendMoves

\* The endpoint or the link moves, and no send: what is left to show then.
LEMMA SendsStay ==
  ASSUME LinkInv, UNCHANGED send, crossed \subseteq crossed', crossed' \subseteq Requests,
         own' \in Sensors, calls' \in Seq(Calls),
         onAir' \in Requests \cup {NoRequest}, sent' \subseteq Requests,
         \A q \in Requests : NoTxOf(calls, q) => NoTxOf(calls', q),
         sent \subseteq sent',
         \A q \in Requests : NoTxOf(calls, q) /\ own.id # q => own'.id # q,
         \A q \in Requests : NoTxOf(calls, q) /\ onAir # q => onAir' # q /\ (q \notin sent => q \notin sent'),
         \A q \in Requests : NoTxOf(calls, q) /\ q \notin sent /\ ~(txInProgress /\ onAir = q)
           => q \notin sent' /\ ~(txInProgress' /\ onAir' = q),
         \A q \in Requests \ crossed' : ~Over(q) => Phase(q)'
  PROVE  LinkInv'
<1>1. LinkTyped'
  BY DEF LinkInv, LinkTyped
<1>2. ASSUME NEW q \in Requests PROVE Fresh(q)'
  BY DEF LinkInv, Fresh
<1>3. ASSUME NEW q \in Requests \ crossed' PROVE Alone(q)' /\ Phase(q)'
  <2>1. Alone(q) /\ Phase(q)
    BY DEF LinkInv
  <2>2. Alone(q)'
    BY <2>1 DEF Alone, Over
  <2>3. CASE Over(q)
    <3>1. Phase(q)'
      BY <2>1, <2>3, StaysOver
    <3> QED  BY <2>2, <3>1
  <2> QED  BY <2>2, <2>3
<1> QED  BY <1>1, <1>2, <1>3 DEF LinkInv

LEMMA SensorStep == ASSUME LinkInv, ReadSensor PROVE LinkInv'
<1>1. /\ telemetry # <<>>
      /\ seen' = Received(Head(telemetry), seen) /\ telemetry' = Tail(telemetry)
      /\ UNCHANGED <<txInProgress, calls, own, send, onAir, sent, crossed>>
  BY DEF ReadSensor, vars, tx
<1>2. ASSUME NEW q \in Requests \ crossed, ~Over(q) PROVE Phase(q)'
  <2>1. Phase(q) /\ send[q].pc \in {"stopping", "waiting"}
    BY <1>2, PcOfOver DEF LinkInv
  <2>2. send[q].pc = "waiting" /\ (Transmitting(q) \/ Answered(q))
    BY <1>1, <2>1 DEF Phase, Asked
  <2>3. Transmitting(q) => Transmitting(q)'
    BY <1>1, ToldStep DEF Transmitting
  <2>4. Answered(q) => Answered(q)'
    <3>1. (q \in sent) \in BOOLEAN
      OBVIOUS
    <3> QED  BY <1>1, <3>1, AnsweringStep DEF Answered
  <2> QED  BY <1>1, <2>2, <2>3, <2>4 DEF Phase
<1>3. LinkTyped
  BY DEF LinkInv
<1> QED  BY <1>1, <1>2, <1>3, SendsStay DEF LinkTyped

\* The call at the head of the queue changes the reception.
LEMMA CallStep ==
  ASSUME LinkInv, HandleRxStop \/ HandleSetActiveListening
  PROVE  LinkInv'
<1>1. PICK op \in {"rx_stop", "set_active_listening"} : Called(op)
  BY DEF HandleRxStop, HandleSetActiveListening
<1>2. calls # <<>> /\ Head(calls).op # "tx" /\ calls' = Tail(calls)
  BY <1>1 DEF Called
<1>3. UNCHANGED <<txInProgress, telemetry, own, seen, send, onAir, sent, crossed>>
  BY DEF HandleRxStop, HandleSetActiveListening, SetCaptureMode, EnableActiveListener, tx
<1>t. LinkTyped
  BY DEF LinkInv
<1>4. /\ calls' \in Seq(Calls)
      /\ NoTx(calls) => NoTx(calls')
      /\ \A q \in Requests : NoTxOf(calls, q) => NoTxOf(calls', q)
      /\ \A q \in Requests : OnlyTx(calls, q) => OnlyTx(calls', q)
  BY <1>2, <1>t, CallTaken DEF LinkTyped
<1>5. ASSUME NEW q \in Requests \ crossed, ~Over(q) PROVE Phase(q)'
  <2>1. Phase(q) /\ send[q].pc \in {"stopping", "waiting"}
    BY <1>5, PcOfOver DEF LinkInv
  <2>2. /\ Asked(q) => Asked(q)'
        /\ Transmitting(q) => Transmitting(q)'
        /\ Answered(q) => Answered(q)'
    BY <1>3, <1>4 DEF Asked, Transmitting, Answered
  <2> QED  BY <1>3, <1>4, <2>1, <2>2 DEF Phase
<1> QED  BY <1>3, <1>4, <1>5, <1>t, SendsStay DEF LinkTyped

\* What publish_telemetry_ puts on the way.
LEMMA PublishQueued ==
  ASSUME NEW pre \in Sensors, NEW r \in Requests, pre.id # r, own = pre,
         telemetry = <<>>, Publish(Queued(pre, r))
  PROVE  Told(telemetry', pre, pre, r) /\ own' = Queued(pre, r)
<1> DEFINE q == Queued(pre, r)
<1>1. /\ q \in Sensors /\ q.id = r /\ q.result = "queued"
      /\ q.success = pre.success /\ q.failure = pre.failure
  BY QueuedFacts
<1> HIDE DEF q
<1>2. CASE Together
  <2>1. telemetry' = <<>> \o <<q>>
    BY <1>2 DEF Publish, q
  <2>2. telemetry' = <<q>>
    BY <2>1
  <2> QED  BY <2>2 DEF Told, Publish, q
<1>3. CASE ~Together
  <2>1. Changed("id", q) = <<Msg("id", r)>> /\ Changed("success", q) = <<>>
        /\ Changed("failure", q) = <<>>
    BY <1>1 DEF Changed, Msg
  <2>2. telemetry' = <<>> \o (Changed("result", q) \o Changed("id", q)
                                \o Changed("success", q) \o Changed("failure", q))
    BY <1>3 DEF Publish, q
  <2>3. CASE pre.result = "queued"
    <3>1. Changed("result", q) = <<>>
      BY <1>1, <2>3 DEF Changed
    <3>2. telemetry' = <<Msg("id", r)>>
      BY <2>1, <2>2, <3>1, Concats
    <3>3. pre = [pre EXCEPT !.result = "queued"]
      BY <2>3 DEF Sensors
    <3> QED  BY <3>2, <3>3 DEF Told, Publish
  <2>4. CASE pre.result # "queued"
    <3>1. Changed("result", q) = <<Msg("result", "queued")>>
      BY <1>1, <2>4 DEF Changed, Msg
    <3>3. telemetry' = <<Msg("result", "queued"), Msg("id", r)>>
      BY <2>1, <2>2, <3>1, Concats
    <3> QED  BY <3>3 DEF Told, Publish
  <2> QED  BY <2>3, <2>4
<1> QED  BY <1>2, <1>3

LEMMA PublishOutcome ==
  ASSUME NEW pre \in Sensors, NEW r \in Requests, NEW ok \in BOOLEAN,
         own = Queued(pre, r), Told(telemetry, seen, pre, r),
         Publish(Outcome(ok, pre, r))
  PROVE  Answering(telemetry', seen, ok, pre, r)
<1> DEFINE q == Queued(pre, r)
           o == Outcome(ok, pre, r)
<1>1. /\ q.id = r /\ q.result = "queued"
      /\ q.success = pre.success /\ q.failure = pre.failure
      /\ pre.success \in Nat /\ pre.failure \in Nat
      /\ o.id = r /\ o.result # "queued"
      /\ o.success = IF ok THEN pre.success + 1 ELSE pre.success
      /\ o.failure = IF ok THEN pre.failure ELSE pre.failure + 1
  BY QueuedFacts, OutcomeFacts
<1>2. own = q /\ Publish(o)
  OBVIOUS
<1> HIDE DEF q, o
<1>3. CASE Together
  <2>1. telemetry' = telemetry \o <<o>>
    BY <1>2, <1>3 DEF Publish
  <2>2. <<o>> \in Answers(ok, pre, r)
    BY DEF Answers, o
  <2> QED  BY Zenon, <2>1, <2>2 DEF Answering
<1>4. CASE ~Together
  <2>1. Changed("result", o) = <<Msg("result", o.result)>> /\ Changed("id", o) = <<>>
    BY <1>1, <1>2 DEF Changed, Msg
  <2>2. \/ Changed("success", o) = <<Count(ok, pre)>> /\ Changed("failure", o) = <<>>
        \/ Changed("success", o) = <<>> /\ Changed("failure", o) = <<Count(ok, pre)>>
    BY <1>1, <1>2 DEF Changed, Msg, Count
  <2>3. telemetry' = telemetry \o (Changed("result", o) \o Changed("id", o)
                                     \o Changed("success", o) \o Changed("failure", o))
    BY <1>2, <1>4 DEF Publish
  <2>5. telemetry' = telemetry \o <<Msg("result", o.result), Count(ok, pre)>>
    BY <2>1, <2>2, <2>3, Concats
  <2>6. <<Msg("result", o.result), Count(ok, pre)>> \in Answers(ok, pre, r)
    BY DEF Answers, o
  <2> QED  BY Zenon, <2>5, <2>6 DEF Answering
<1> QED  BY <1>3, <1>4

\* The call at the head of the queue is a tx action.
LEMMA TxStep ==
  ASSUME LinkInv, HandleTx \/ HandleTxBusy
  PROVE  LinkInv'
<1>1. calls # <<>> /\ Head(calls).op = "tx" /\ calls' = Tail(calls)
  BY DEF HandleTx, HandleTxBusy, Called
<1>2. UNCHANGED <<seen, send, sent, crossed>>
  BY DEF HandleTx, HandleTxBusy
<1>t. LinkTyped
  BY DEF LinkInv
<1> DEFINE x == Head(calls).id
<1>3. /\ calls' \in Seq(Calls)
      /\ x \in Requests /\ Head(calls) = TxCall(x)
      /\ ~NoTx(calls)
      /\ \A q \in Requests : NoTxOf(calls, q) => x # q /\ NoTxOf(calls', q)
      /\ \A q \in Requests : OnlyTx(calls, q) => x = q /\ NoTx(calls')
  BY <1>1, <1>t, CallTaken, CallFacts DEF LinkTyped
<1>4. own' \in Sensors /\ own'.id = x
  <2>1. /\ [own EXCEPT !.id = x, !.result = "queued"] \in Sensors
        /\ [own EXCEPT !.id = x, !.result = "queued"].id = x
    BY <1>3, <1>t DEF LinkTyped, Sensors
  <2>2. ASSUME NEW n \in Nat
        PROVE  /\ [own EXCEPT !.id = x, !.result = "error:tx_busy", !.failure = n] \in Sensors
               /\ [own EXCEPT !.id = x, !.result = "error:tx_busy", !.failure = n].id = x
    BY <1>3, <1>t DEF LinkTyped, Sensors
  <2>3. own.failure + 1 \in Nat
    BY <1>t DEF LinkTyped, Sensors
  <2>4. own' \in {[own EXCEPT !.id = x, !.result = "queued"],
                  [own EXCEPT !.id = x, !.result = "error:tx_busy", !.failure = own.failure + 1]}
    BY DEF HandleTx, HandleTxBusy, Publish
  <2> QED  BY <2>1, <2>2, <2>3, <2>4
<1>5. onAir' \in {x, onAir} /\ (txInProgress' /\ onAir' # x => txInProgress)
  BY DEF HandleTx, HandleTxBusy, EnqueueTx, vars, tx
<1> HIDE DEF x
<1>6. ASSUME NEW q \in Requests \ crossed, ~Over(q) PROVE Phase(q)'
  <2>1. Phase(q) /\ send[q].pc \in {"stopping", "waiting"}
    BY <1>6, <1>t, PcOfOver DEF LinkInv
  <2>2. send[q].pc = "waiting" /\ Asked(q)
    BY <1>3, <2>1 DEF Phase, Transmitting, Answered
  <2>3. x = q /\ NoTx(calls') /\ ~txInProgress
    BY <1>3, <2>2 DEF Asked
  <2>4. HandleTx
    BY <2>3 DEF HandleTxBusy
  <2>5. own \in Sensors /\ own.id # q /\ send[q].pre = own /\ seen = own /\ telemetry = <<>>
        /\ q \notin sent
    BY <2>2, <1>t DEF Asked, LinkTyped
  <2>6. Publish(Queued(own, q)) /\ txInProgress' = TRUE /\ onAir' = q
    BY <2>3, <2>4 DEF HandleTx, EnqueueTx, Queued, x
  <2>7. Told(telemetry', own, own, q) /\ own' = Queued(own, q)
    BY <2>5, <2>6, PublishQueued
  <2>8. Transmitting(q)'
    BY <1>2, <2>3, <2>5, <2>6, <2>7 DEF Transmitting
  <2> QED  BY <1>2, <2>2, <2>8 DEF Phase
<1> QED  BY <1>2, <1>3, <1>4, <1>5, <1>6, <1>t, SendsStay DEF LinkTyped

\* A bench pattern: the sends under way have met it.
LEMMA BenchStep ==
  ASSUME LinkInv, HandleTestPattern \/ HandleTestPatternBusy
  PROVE  LinkInv'
<1>t. LinkTyped
  BY DEF LinkInv
<1>1. /\ UNCHANGED <<calls, seen, send, sent>>
      /\ crossed' = crossed \cup UnderWay
      /\ onAir' = NoRequest \/ (onAir' = onAir /\ txInProgress' = txInProgress)
  BY DEF HandleTestPattern, HandleTestPatternBusy, vars, tx
<1>2. own' \in Sensors /\ own'.id = NoRequest
  <2>1. /\ [own EXCEPT !.id = NoRequest, !.result = "queued"] \in Sensors
        /\ [own EXCEPT !.id = NoRequest, !.result = "queued"].id = NoRequest
    BY <1>t DEF LinkTyped, Sensors
  <2>2. ASSUME NEW n \in Nat
        PROVE  /\ [own EXCEPT !.id = NoRequest, !.result = "error:tx_busy", !.failure = n] \in Sensors
               /\ [own EXCEPT !.id = NoRequest, !.result = "error:tx_busy", !.failure = n].id
                    = NoRequest
    BY <1>t DEF LinkTyped, Sensors
  <2>3. own.failure + 1 \in Nat
    BY <1>t DEF LinkTyped, Sensors
  <2>4. own' \in {[own EXCEPT !.id = NoRequest, !.result = "queued"],
                  [own EXCEPT !.id = NoRequest, !.result = "error:tx_busy",
                              !.failure = own.failure + 1]}
    BY DEF HandleTestPattern, HandleTestPatternBusy, Publish
  <2> QED  BY <2>1, <2>2, <2>3, <2>4
<1>3. \A q \in Requests \ crossed' : Over(q)
  BY <1>1 DEF UnderWay
<1>4. crossed \subseteq crossed' /\ crossed' \subseteq Requests
  BY <1>1, <1>t DEF UnderWay, LinkTyped
<1> QED  BY <1>1, <1>2, <1>3, <1>4, <1>t, LinkAssumption, SendsStay DEF LinkTyped

\* A transmission ends and its outcome is published.
LEMMA CompleteStep ==
  ASSUME LinkInv, TypeOK, SingleFlight, NEW ok \in BOOLEAN, Complete(ok)
  PROVE  LinkInv'
<1>t. LinkTyped
  BY DEF LinkInv
<1>1. txInProgress /\ txInProgress' = FALSE
  BY DEF Complete, ConsumeEvent, SingleFlight, TypeOK
<1>2. /\ UNCHANGED <<calls, seen, send, onAir, crossed>>
      /\ sent' = IF ok THEN sent \cup ({onAir} \ {NoRequest}) ELSE sent
  BY DEF Complete
<1>3. own' \in Sensors /\ own'.id = own.id
  <2>1. ASSUME NEW n \in Nat
        PROVE  /\ [own EXCEPT !.result = "ok", !.success = n] \in Sensors
               /\ [own EXCEPT !.result = "ok", !.success = n].id = own.id
               /\ [own EXCEPT !.result = "error:radio_tx_failed", !.failure = n] \in Sensors
               /\ [own EXCEPT !.result = "error:radio_tx_failed", !.failure = n].id = own.id
    BY <1>t DEF LinkTyped, Sensors
  <2>2. own.success + 1 \in Nat /\ own.failure + 1 \in Nat
    BY <1>t DEF LinkTyped, Sensors
  <2>3. own' = IF ok THEN [own EXCEPT !.result = "ok", !.success = own.success + 1]
               ELSE [own EXCEPT !.result = "error:radio_tx_failed", !.failure = own.failure + 1]
    BY DEF Complete, Publish
  <2> QED  BY <2>1, <2>2, <2>3
<1>4. sent' \subseteq Requests /\ sent \subseteq sent' /\ \A q : q \in sent' => q \in sent \/ q = onAir
  BY <1>2, <1>t DEF LinkTyped
<1>5. ASSUME NEW q \in Requests \ crossed, ~Over(q) PROVE Phase(q)'
  <2>1. Phase(q) /\ send[q].pc \in {"stopping", "waiting"}
    BY <1>5, <1>t, PcOfOver DEF LinkInv
  <2>2. send[q].pc = "waiting" /\ Transmitting(q)
    BY <1>1, <2>1 DEF Phase, Asked, Answered
  <2>3. /\ NoTx(calls) /\ onAir = q /\ send[q].pre \in Sensors /\ send[q].pre.id # q
        /\ q \notin sent /\ own = Queued(send[q].pre, q)
        /\ Told(telemetry, seen, send[q].pre, q)
    BY <2>2 DEF Transmitting
  <2>4. q \in sent' <=> ok
    BY <1>2, <2>3, LinkAssumption
  <2>5. Publish(Outcome(ok, send[q].pre, q))
    BY <2>3 DEF Complete, Outcome
  <2>6. Answering(telemetry', seen, ok, send[q].pre, q)
    BY <2>3, <2>5, PublishOutcome
  <2>7. own' = Outcome(ok, send[q].pre, q)
    BY <2>5 DEF Publish
  <2>8. (q \in sent') = ok
    BY <2>4
  <2>9. Answered(q)'
    BY <1>1, <1>2, <2>3, <2>6, <2>7, <2>8 DEF Answered
  <2> QED  BY <1>2, <2>2, <2>9 DEF Phase
<1> QED  BY <1>1, <1>2, <1>3, <1>4, <1>5, <1>t, SendsStay DEF LinkTyped

\* Steps of the radio alone.
LEMMA RadioAlone == ASSUME LinkInv, Radio \/ UNCHANGED allvars PROVE LinkInv'
<1>1. UNCHANGED <<txInProgress, calls, telemetry, own, seen, send, onAir, sent, crossed>>
  BY DEF Radio, WorkerStarts, WorkerEnds, PollFifo, ExportFifo, Reconfigure, SetCaptureMode,
         SetActiveListenerRxPath, DisableActiveListener, EnableActiveListener, allvars, vars, tx,
         link
<1>2. LinkTyped' <=> LinkTyped
  BY <1>1 DEF LinkTyped
<1>3. \A r : /\ Fresh(r)' <=> Fresh(r)
             /\ Alone(r)' <=> Alone(r)
             /\ Asked(r)' <=> Asked(r)
             /\ Transmitting(r)' <=> Transmitting(r)
             /\ Answered(r)' <=> Answered(r)
  BY <1>1 DEF Fresh, Alone, Over, Asked, Transmitting, Answered
<1>4. \A r : Phase(r)' <=> Phase(r)
  BY <1>1, <1>3 DEF Phase
<1> QED  BY <1>1, <1>2, <1>3, <1>4 DEF LinkInv

LEMMA LinkInvariance == LinkSpec => []LinkInv
<1>1. LinkInit => LinkInv
  BY LinkInit_LinkInv
<1>2. TypeOK /\ SingleFlight /\ LinkInv /\ [LinkNext]_allvars => LinkInv'
  <2> SUFFICES ASSUME TypeOK, SingleFlight, LinkInv, [LinkNext]_allvars PROVE LinkInv'
    OBVIOUS
  <2>1. CASE UNCHANGED allvars
    BY <2>1, RadioAlone
  <2>2. ASSUME NEW r \in Requests, StartSend(r) \/ InvokeTx(r) \/ Confirmed(r) \/ TimesOut(r)
        PROVE  LinkInv'
    BY <2>2, StartStep, InvokeStep, EndStep
  <2>3. CASE ReadSensor
    BY <2>3, SensorStep
  <2>4. CASE HandleRxStop \/ HandleSetActiveListening
    BY <2>4, CallStep
  <2>5. CASE HandleTx \/ HandleTxBusy
    BY <2>5, TxStep
  <2>6. CASE HandleTestPattern \/ HandleTestPatternBusy
    BY <2>6, BenchStep
  <2>7. ASSUME NEW ok \in BOOLEAN, Complete(ok) PROVE LinkInv'
    BY <2>7, CompleteStep
  <2>8. CASE Radio
    BY <2>8, RadioAlone
  <2> QED  BY <2>1, <2>2, <2>3, <2>4, <2>5, <2>6, <2>7, <2>8 DEF LinkNext
<1> QED  BY <1>1, <1>2, EndpointTypeCorrect, OneTransmission, PTL DEF LinkSpec

\* Of every send that met no other on its way, whatever came before it, what is
\* taken for a success was transmitted and what is taken for a failure was not,
\* whether the sensor values arrive in one piece or one by one: the invariant says
\* where on its way each outcome is, so no stale sensor confirms a later request.
THEOREM AnswersAreTrue == LinkSpec => []AnswersAreTruthful
<1>1. LinkInv => AnswersAreTruthful
  BY DEF LinkInv, Phase, AnswersAreTruthful
<1> QED  BY <1>1, LinkInvariance, PTL
=============================================================================
