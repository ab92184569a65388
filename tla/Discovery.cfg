SPECIFICATION Spec
CONSTANTS
  Statistics <- MCStatistics
  Terms <- MCTerms
  OverrideSets <- MCOverrideSets
  Preferences <- MCPreferences
  Listings <- MCListings
  States <- MCStates
INVARIANTS
  OneMetric
PROPERTIES
  LostStatesNeverSwitch
  LostStatesKeepUnits
  VolumesLeaveElectricity
