\* The application connects, retries and stops one client with GGA on.
CONSTANTS
  Users = {u1}
  Retrier = Retrier
  RetryFrom = {"callbacks", "itself"}
  IsGga = TRUE
  MaxConns = 1
  MaxRuns = 2
SPECIFICATION FairSpec
INVARIANTS StoppedRunDropped LossReportedOnce
PROPERTIES CallsReturn RetryGivesUp
CHECK_DEADLOCK FALSE
