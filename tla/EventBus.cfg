SPECIFICATION FairSpec
CONSTANTS
  Modes <- MCModes
  NamedIds <- MCNamedIds
  QueueSize = 2
  MaxEvents = 3
  MaxListeners = 2
INVARIANTS
  TypeOK
  InOrder
  AgreedOrder
  NothingNew
  CloseDrains
PROPERTIES
  Reaches
CHECK_DEADLOCK FALSE
