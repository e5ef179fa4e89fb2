\* One flow: three ways to an entry, two radio sessions, a dialog closed at any moment.
SPECIFICATION Spec
CONSTANTS
  Packets <- MCPackets
  Setups <- MCSetups
  EsphomeEntries <- MCEsphome
  Batches <- MCBatches
  ManualProfiles <- MCManual
  Sessions <- MCSessions
  MaxRows = 3
  Existing <- MCExisting
INVARIANTS
  RadioIsHeld
  EntryIsProven
  LearningIsProven
PROPERTIES
  RadioIsReleased
  LearningEnds
CHECK_DEADLOCK FALSE
