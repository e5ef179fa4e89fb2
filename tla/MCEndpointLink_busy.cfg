\* Overlapping sends, time-outs and test patterns on both paths, with
\* reconfigurations during the transmissions.
SPECIFICATION LinkSpec
CONSTANTS
  Requests = {r1, r2}
  NoRequest = NoRequest
  Overlap = TRUE
  Timeouts = TRUE
  Together = TRUE
  Listening = TRUE
  CaptureModes = {"off"}
  Paths = {"fifo", "rmt_pulse"}
  BenchActions = TRUE
  MaxOutcomes = 1
  ReconfigureWhen = {"tx"}
INVARIANTS
  SingleFlight
  AnswersAreTruthful
  ReceiveAsWanted
  HearsWhenEnabled
  TxHasRadio
CHECK_DEADLOCK FALSE
