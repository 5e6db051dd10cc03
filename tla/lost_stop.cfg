SPECIFICATION FairSpec
CONSTANTS
  MaxRuns = 1
  MaxUsers = 1
  MaxRequests = 2
  MaxPoints = 0
  MaxInterrupts = 0
PROPERTY
  StopHonoured
