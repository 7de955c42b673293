SPECIFICATION PFairSpec
CONSTANTS
  Procs = {p1}
  FailureThreshold = 1
  ResetTimeout = 1
  Modes <- MCModes
  RetryAttempts = 1
  MaxAge = 1
  Foreign <- MCForeign
  MaxSaves = 2
INVARIANTS
  PTypeOK
  RestartConsistent
  DurableBeforeVisible
  SaveFailuresReported
PROPERTIES
  ConservativeStart
  SavingEnds
