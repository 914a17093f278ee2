\* The application stops the source and reconnects from its callbacks.
CONSTANTS
  Users = {u1, u2}
  Reconnect = TRUE
  MaxConns = 2
SPECIFICATION FairSpec
INVARIANTS OneOpenConnection LossReported StopStops
PROPERTIES CallsReturn
