\* The first composition names an External static container that already
\* runs; the other two are the run's own.
CONSTANTS
  N = 3
  HandleOf <- MCHandleOf
  InjectChoices <- MCInjectChoices
  VolumeUsers = {1}
  PruneChoices = {"RemoveRegardless"}
  ExternalChoices = {FALSE}
  InsideChoices = {FALSE}
  StaticExternal = {1}
  LogChoices = {"None"}

SPECIFICATION Spec

INVARIANT
  HandlesResolveToTheirContainer
