SPECIFICATION MeteredSpec
CONSTANTS
  Keys = {electricity}
  Electricity = {electricity}
  Backfills = {1, 3}
  BatchSize = 1
  Rejected = {}
  StartSlot = 2
  MaxNow = 3
  MaxFaults = 2
  MaxChanges = 1
  MaxJumps = 1
  Absent = Absent
  Torn = Torn
INVARIANTS
  CountedOnce
  NeighboursMeet
PROPERTY
  ImplementsContract
