SPECIFICATION Spec
CONSTANTS
  RetryDelays <- MCRetryDelays
  MaxRetryAfter = 300
  Headers <- MCHeaders
  NoHeader = NoHeader
INVARIANTS
  TypeOK
  CopiesBounded
  OneLateSend
  UnavailableOnlyWhenSpent
PROPERTY
  ImplementsDelivery
CHECK_DEADLOCK FALSE
