SPECIFICATION Spec
CONSTANTS
  Times = {0, 1, 3}
  LossWarning = 50
  LossCritical = 60
  DnsSlow = 0
  SlowP95 = 1
  SlowP99 = 2
  ErrorWarning = 50
  ErrorCritical = 60
  TimeoutWarning = 50
  SampleSize = 2
  BadgeWarning = 50
  BadgeCritical = 75
  MaxPoints = 2
  Polls = {p1, p2}
  Invocations <- MCInvocations
SYMMETRY PollSymmetry
INVARIANTS
  TypeOK
  PercentilesRanked
  FindingsDescribeRun
  ReportsAgree
  FilesTellOutcome
  PageShowsTest
PROPERTIES
  PageGoesForward
  RunAsPromised
