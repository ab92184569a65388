SPECIFICATION FairSpec
CONSTANTS
  MaxContent = 2
  MaxCalls = 3
  Failed = Failed
INVARIANTS
  NoSocketLeft
PROPERTIES
  ImplementsRead
CHECK_DEADLOCK FALSE
