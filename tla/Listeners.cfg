SPECIFICATION FairSpec
CONSTANTS
  Wirings <- MCWirings
  Events = {e1, e2}
  MaxRetries = 1
  MaxFailures = 2
  ResetTimeout = 2
  Rate = 2
  Second = 7
  MaxSpawned = 3
INVARIANTS
  TypeOK
  PanicsContained
  NoSelfOverlap
  OutcomeIsReal
  ClosedBelowMax
  AtMostRate
PROPERTIES
  OpenUntilTimeout
  HungListenerCutOff
CHECK_DEADLOCK FALSE
