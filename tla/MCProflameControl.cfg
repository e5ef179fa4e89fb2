\* Safety with every input and every fault: overlapping sends, cancelled callers,
\* failing receives, an unload at any moment.
SPECIFICATION Spec
CONSTANTS
  Senders = {s1, s2}
  Confirmers = {c1, c2}
  NoTask = NoTask
  NoState = NoState
  Enabled <- MCEnabled
  Extended = TRUE
  Initial <- MCInitial
  Edits <- MCEdits
  Requests <- MCRequests
  Profiles <- MCProfiles
  Packets <- MCPackets
  CanConfirm = {TRUE, FALSE}
  CallersCancel = TRUE
  ReceiveFails = TRUE
SYMMETRY Symmetry
PROPERTY ShowsKnownState
INVARIANTS
  SingleTimer
  ShutdownDisarms
  ProfileMatchesCurrent
  CacheTracksCurrent
  SendingImpliesTx
  EncodeNeverRejects
CHECK_DEADLOCK FALSE
