CONSTANTS
  N = 3
  HandleOf <- MCHandleOf
  InjectChoices <- MCInjectChoices
  VolumeUsers = {1}
  PruneChoices = {"RunningRegardless", "RunningOnFailure", "StopOnFailure", "RemoveRegardless"}
  ExternalChoices = {FALSE, TRUE}
  InsideChoices = {FALSE, TRUE}
  StaticExternal = {}
  LogChoices = {"None", "Always", "OnError"}

SPECIFICATION Spec

INVARIANTS
  TypeOK
  TeardownFollowsPruneTable
  StartErrorPriority
  HandlesResolveToTheirContainer

PROPERTIES
  LifecycleSpec
