SPECIFICATION FairHistorySpec
CONSTANTS
  Procs = {p1, p2, p3}
  FailureThreshold = 2
  ResetTimeout = 2
INVARIANTS
  TypeOK
  Consistent
  SnapshotsValid
  OvershootBound
  RejectionJustified
PROPERTIES
  ContractSpec
  RecoversUnderTraffic
  HalfOpenResolves
