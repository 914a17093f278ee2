\* Progress of handlers, loops and Shutdown on an external address; the second
\* source reuses the address of the first.
CONSTANTS
  c1 = c1  c2 = c2  c3 = c3  k1 = k1  k2 = k2  k3 = k3
  ip1 = ip1  ip2 = ip2  m1 = m1  m2 = m2
  Keys = {k1, k2, k3}
  Mounts = {m1, m2}
  Beans <- MCBeans
  NoBean = NoBean
  Conns = {c1, c2}
  KeyOf <- MCReusedKeyOf
  IPOf <- MCIPOf
  MountOf <- MCMountOf
  Callers = {u1}
  MaxStarts = 1
  DefaultMax = 0
  Limits = {}
  RequireAuth = TRUE
  AuthSettings = {TRUE}
SPECIFICATION FairSpec
INVARIANTS MountNotLeaked
PROPERTIES ShutdownCompletes StoppedMapEmpties
CHECK_DEADLOCK FALSE
