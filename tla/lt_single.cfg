SPECIFICATION FairSpec
CONSTANTS
  MaxRuns = 1
  MaxUsers = 2
  MaxRequests = 2
  MaxPoints = 1
  MaxInterrupts = 2
INVARIANTS
  TypeOK
  SentMatchesRecorded
  QuiescentAfterRun
  ReportConsistent
  GracefulStop
  FailureReported
  LoggedTotalAgrees
  FinalPointFaithful
PROPERTIES
  EndsOnceSignalled
  RecorderStops
  ContractKept
