\* Two subscribers of one mount point on an external address; the
\* listener is stopped and started again.
CONSTANTS
  c1 = c1  c2 = c2  k1 = k1  k2 = k2  ip1 = ip1  m1 = m1
  Keys = {k1, k2}
  Mounts = {m1}
  Beans <- MCBeans
  NoBean = NoBean
  Conns = {c1, c2}
  KeyOf <- MCKeyOf
  IPOf <- MCIPOf
  MountOf <- MCMountOf
  Callers = {u1}
  MaxStarts = 2
  DefaultMax = 0
  Limits = {}
  RequireAuth = TRUE
  AuthSettings = {TRUE}
SPECIFICATION ClientFairSpec
INVARIANTS OpenBeanHasOwner
PROPERTIES ShutdownCompletes WriterFollowsHandler DeadWriterEndsHandler
CHECK_DEADLOCK FALSE
