SPECIFICATION Spec
CONSTANTS
  Keys = {electricity, gas}
  Electricity = {}
  Backfills = {1, 2}
  BatchSize = 2
  Rejected = {}
  StartSlot = 1
  MaxNow = 2
  MaxFaults = 1
  MaxChanges = 1
  MaxJumps = 1
  Absent = Absent
  Torn = Torn
SYMMETRY KeySymmetry
INVARIANTS
  TypeOK
  StateFileIsWhole
  CursorCovers
  KnownMappingsWereSent
PROPERTY
  SavesNeverRewind
