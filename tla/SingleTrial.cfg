SPECIFICATION Spec
CONSTANTS
  Procs = {p1, p2}
  FailureThreshold = 2
  ResetTimeout = 2
INVARIANTS
  SingleTrial
