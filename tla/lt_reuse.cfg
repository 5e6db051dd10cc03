SPECIFICATION Spec
CONSTANTS
  MaxRuns = 2
  MaxUsers = 1
  MaxRequests = 1
  MaxPoints = 1
  MaxInterrupts = 2
INVARIANTS
  WholeInv
  TimelineInOrder
  OwnResults
  AwaitsTheLiving
  RaisesAFailure
PROPERTY
  ContractKept
