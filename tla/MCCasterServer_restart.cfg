\* Two sources of one mount point; the server is stopped and started again, with
\* other limits.
CONSTANTS
  c1 = c1  c2 = c2  c3 = c3  k1 = k1  k2 = k2  k3 = k3
  ip1 = ip1  ip2 = ip2  m1 = m1  m2 = m2
  Keys = {k1, k2, k3}
  Mounts = {m1, m2}
  Beans <- MCBeans
  NoBean = NoBean
  Conns = {c1, c2}
  KeyOf <- MCKeyOf
  IPOf <- MCIPOf
  MountOf <- MCMountOf
  Callers = {u1}
  MaxStarts = 2
  DefaultMax = 0
  Limits = {1}
  RequireAuth = FALSE
  AuthSettings = {}
SPECIFICATION Spec
SYMMETRY SourceSymmetry
INVARIANTS TypeOK ServedSourceOwnsMount DisconnectAfterConnect SlotsExact
PROPERTIES ShutdownDrains
CHECK_DEADLOCK FALSE
