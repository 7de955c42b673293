SPECIFICATION PSpec
CONSTANTS
  Procs = {p1}
  FailureThreshold = 1
  ResetTimeout = 1
  Modes <- DefaultMode
  RetryAttempts = 0
  MaxAge = 0
  Foreign <- NoForeign
  MaxSaves = 3
INVARIANTS
  StoredIsLatest
