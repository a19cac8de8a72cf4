CONSTANTS
  VolumeNames = {v1, v2}
  RunId = id
  MaxCompositions = 3
  MaxVolumeRefs = 3

SPECIFICATION Spec

INVARIANTS
  VolumeNamesResolveConsistently
