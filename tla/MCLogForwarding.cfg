CONSTANTS
  N = 2
  MaxLines = 2
  Options <- MCOptions

SPECIFICATION Spec

INVARIANTS
  LogsForwardedAsConfigured
