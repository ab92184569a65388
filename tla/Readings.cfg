SPECIFICATION Spec
CONSTANTS
  None = None
  Scale = 2
  LastSlot = 3
  Sums <- SomeSums
INVARIANTS
  TypeOK
  DeltasAreBetweenNeighbours
  WindowsCompose
  DeltasAddUp
CHECK_DEADLOCK FALSE
