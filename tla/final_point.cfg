SPECIFICATION Spec
CONSTANTS
  MaxRuns = 1
  MaxUsers = 1
  MaxRequests = 1
  MaxPoints = 1
  MaxInterrupts = 1
INVARIANT
  FinalPointIsFinal
