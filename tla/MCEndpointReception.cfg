\* A legacy profile, for which the firmware filters, and an extended one, whose
\* captures Home Assistant decodes itself.
SPECIFICATION Spec
CONSTANTS
  Own = Own
  Other = Other
  Asked = Asked
  Else = Else
  NoState = NoState
  Remotes <- MCRemotes
  States <- MCStates
  Captures <- MCCaptures
  Backlog = 1
  InFlight = 2
  Outages = 2
INVARIANTS
  ObservedIsTrue
  ClosedIsQuiet
PROPERTY ReceptionConverges
CHECK_DEADLOCK FALSE
