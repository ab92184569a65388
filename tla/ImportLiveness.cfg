SPECIFICATION FairSpec
CONSTANTS
  Keys = {electricity, gas}
  Electricity = {electricity}
  Backfills = {2}
  BatchSize = 1
  Rejected <- OneRejected
  StartSlot = 1
  MaxNow = 2
  MaxFaults = 1
  MaxChanges = 1
  MaxJumps = 0
  Absent = Absent
  Torn = Torn
PROPERTY
  RecordedSlotArrives
