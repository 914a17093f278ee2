\* A client whose callbacks reconnect, and a server that serves one connection;
\* both may be stopped at any time.
CONSTANTS
  Conns = {1, 2}
  Dials = {1, 2}
  IPOf <- MCIPOf
  Callers = {v1}
  Users = {u1}
  Reconnect = TRUE
  MaxStarts = 1
  DefaultMax = 1
  Limits = {}
SPECIFICATION FairSpec
INVARIANTS ConnectionKept LossesReported
PROPERTIES RefusalNoticed SlotReturned
CHECK_DEADLOCK FALSE
