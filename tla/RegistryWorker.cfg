SPECIFICATION FairSpec
CONSTANTS
  Registries <- ThreeRegistries
  Floors = "floor"
  FloorsSupported = FALSE
  ReconnectDelays <- MCReconnectDelays
  Debounce = 1
  Cooldown = 2
  Refresh = 3
  MaxChanges = 2
  MaxFaults = 2
  Unset = Unset
  None = None
INVARIANTS
  TypeOK
  NoChangeForgotten
  FirstReadPending
PROPERTIES
  ImplementsFeed
  FollowsSchedule
  MirrorConverges
  WorkerStops
