\* Two tests that declare one Dynamic static container; their log writes may
\* fail.
CONSTANTS
  r1 = r1
  r2 = r2
  r3 = r3
  Runs <- MCLeakRuns
  NoRun = NoRun
  LogErrors = TRUE

SPECIFICATION Spec

PROPERTIES
  ReferencesDrain
