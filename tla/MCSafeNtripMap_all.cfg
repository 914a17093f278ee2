\* Every method, in any order: the map as the two caster sides drive it.
CONSTANTS
  k1 = k1  k2 = k2   m1 = m1  m2 = m2
  Keys = {k1, k2}
  Mounts = {m1, m2}
  Beans <- MCBeans
  NoBean = NoBean
  Callers = {g1}
SPECIFICATION Spec
INVARIANTS IndexAgrees SingleSourcePerMount
PROPERTIES ImplementsRegistry
