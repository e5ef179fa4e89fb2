\* Does an armed debounce timer always have a staged state to send?
SPECIFICATION Spec
CONSTANTS
  Senders = {s1, s2}
  Confirmers = {c1}
  NoTask = NoTask
  NoState = NoState
  Enabled <- MCEnabled
  Extended = FALSE
  Initial <- MCInitial
  Edits <- FewEdits
  Requests <- None
  Profiles <- None
  Packets <- None
  CanConfirm = {FALSE}
  CallersCancel = FALSE
  ReceiveFails = FALSE
INVARIANT TimerHasWork
CHECK_DEADLOCK FALSE
