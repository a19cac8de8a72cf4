\* Three tests sharing one Dynamic static container, with no log error.
\* The runs are interchangeable, so symmetry reduction is sound here.
CONSTANTS
  r1 = r1
  r2 = r2
  r3 = r3
  Runs <- MCRuns
  NoRun = NoRun
  LogErrors = FALSE

SPECIFICATION Spec

SYMMETRY MCSymmetry

INVARIANTS
  
  NoRemovalWhileInUse
