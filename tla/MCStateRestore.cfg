\* Every kind of remote profile, two dialogs, two ids and two sets of features.
SPECIFICATION Spec
CONSTANTS
  Dialogs = {d1, d2}
  Names <- SomeNames
  IdOf <- SomeIds
  EmptyName = ""
  NoId = NoId
  Forms <- SomeForms
  FeatureChoices <- SomeFeatures
  Remotes <- SomeRemotes
  NoState = NoState
  Edits <- SomeEdits
  Requests <- SomeRequests
  Frames <- SomeFrames
SYMMETRY DialogSymmetry
INVARIANTS
  OnlyLightSevenBlocksEdits
  StoredProfilesApply
PROPERTIES
  RestartKeepsState
  SavesAreNarrow
