\* Two sends with time-outs, overlapping or not, and sensor values that arrive one
\* by one, on both paths, with reconfigurations between the transmissions.
SPECIFICATION LinkFairSpec
CONSTANTS
  Requests = {r1, r2}
  NoRequest = NoRequest
  Overlap = TRUE
  Timeouts = TRUE
  Together = FALSE
  Listening = TRUE
  CaptureModes = {"off"}
  Paths = {"fifo", "rmt_pulse"}
  BenchActions = FALSE
  MaxOutcomes = 0
  ReconfigureWhen = {"idle"}
PROPERTIES
  TxCompletes
  SendsEnd
  ListensAgain
CHECK_DEADLOCK FALSE
