CONSTANTS
  N = 3
  HandleOf <- MCHandleOf
  InjectChoices <- MCInjectChoices
  VolumeUsers = {1}
  PruneChoices = {"StopOnFailure"}
  ExternalChoices = {FALSE, TRUE}
  InsideChoices = {FALSE, TRUE}
  StaticExternal = {}
  LogChoices = {"None"}

SPECIFICATION Spec

INVARIANT
  StoppedContainersStayStopped
