SPECIFICATION FairSpec
CONSTANTS
  OptionSets <- MCOptionSets
  HostFiles <- MCHostFiles
  MaxFaults = 4
INVARIANTS
  TypeOK
  RefusedLeavesNoTrace
  HostOverridden
PROPERTIES
  NothingHaltsTheLoop
  StopEndsProcess
  ImportsGoOn
