SPECIFICATION SequentialSpec
CONSTANTS
  Procs = {p1, p2}
  FailureThreshold = 6
  ResetTimeout = 10
PROPERTIES
  ProtocolSpec
