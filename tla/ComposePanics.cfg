SPECIFICATION Spec
CONSTANTS
  Wirings <- OnlyComposeExample
  Events = {e1}
  MaxRetries = 1
  MaxFailures = 2
  ResetTimeout = 2
  Rate = 2
  Second = 7
  MaxSpawned = 3
INVARIANT
  RecoversListener
CHECK_DEADLOCK FALSE
