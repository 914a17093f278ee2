\* A Stop while the retry goroutine is about to connect.
CONSTANTS
  Users = {u1}
  Retrier = Retrier
  RetryFrom = {"callbacks"}
  IsGga = FALSE
  MaxConns = 1
  MaxRuns = 2
SPECIFICATION Spec
INVARIANTS StopStops
CHECK_DEADLOCK FALSE
