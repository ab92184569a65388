SPECIFICATION Spec
CONSTANTS
  Debounce = 2
  Cooldown = 5
  Refresh = 8
  Unset = Unset
INVARIANTS
  TypeOK
  DailyRefreshOnTime
PROPERTY
  ReadsAreDebounced
