SPECIFICATION RuntimeSpec
CONSTANTS
  Threads = {t1, t2}
  FailureThreshold = 2
  MaxLoggers = 2
  Modes <- MCModes
  Field = {f1, f2}
  MaxArrays = 5
  MaxViews = 5
  MaxLength = 4
INVARIANTS
  TypeOK
  LeakOnlyFromOpen
  ConsistentWhenFree
  DeadlockNeedsReentry
  FieldsKept
PROPERTIES
  LinesMatchLevel
  CallsEnd
CHECK_DEADLOCK FALSE
