\* Liveness when neither callers nor receives fail.
SPECIFICATION FairSpec
CONSTANTS
  Senders = {s1, s2}
  Confirmers = {c1}
  NoTask = NoTask
  NoState = NoState
  Enabled <- MCEnabled
  Extended = FALSE
  Initial <- MCInitial
  Edits <- FewEdits
  Requests <- FewRequests
  Profiles <- None
  Packets <- MCPackets
  CanConfirm = {TRUE, FALSE}
  CallersCancel = FALSE
  ReceiveFails = FALSE
PROPERTIES
  EditsSettle
  SendingSettles
  ConfirmingEnds
  UnloadQuiesces
CHECK_DEADLOCK FALSE
