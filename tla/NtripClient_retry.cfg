\* The application retries from its callbacks and stops the client.
CONSTANTS
  Users = {u1}
  Retrier = Retrier
  RetryFrom = {"callbacks"}
  IsGga = FALSE
  MaxConns = 2
  MaxRuns = 2
SPECIFICATION Spec
INVARIANTS OneOpenConnection CurrentIsAttended
CHECK_DEADLOCK FALSE
