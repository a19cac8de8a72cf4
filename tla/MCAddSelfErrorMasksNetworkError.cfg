CONSTANTS
  N = 3
  HandleOf <- MCHandleOf
  InjectChoices <- MCInjectChoices
  VolumeUsers = {1}
  PruneChoices = {"RunningRegardless", "RunningOnFailure", "StopOnFailure", "RemoveRegardless"}
  ExternalChoices = {FALSE}
  InsideChoices = {TRUE}
  StaticExternal = {}
  LogChoices = {"None"}

SPECIFICATION Spec

PROPERTY
  FirstErrorIsReported
