SPECIFICATION Spec
CONSTANTS
  MaxRuns = 2
  MaxUsers = 1
  MaxRequests = 1
  MaxPoints = 0
  MaxInterrupts = 0
INVARIANT
  LoggedTotalAgrees
