SPECIFICATION FairSpec
CONSTANTS
  Keys = {electricity, gas}
  Electricity = {electricity}
  Backfills = {1}
  BatchSize = 2
  Rejected = {}
  StartSlot = 1
  MaxNow = 1
  MaxFaults = 0
  MaxChanges = 0
  MaxJumps = 0
  Absent = Absent
  Torn = Torn
PROPERTY
  MissingDataDoesNotBlock
