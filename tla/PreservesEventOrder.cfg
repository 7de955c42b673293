SPECIFICATION Spec
CONSTANTS
  Modes <- BreakerOrdered
  NamedIds <- MCNamedIds
  QueueSize = 2
  MaxEvents = 2
  MaxListeners = 1
INVARIANTS
  PreservesEventOrder
CHECK_DEADLOCK FALSE
