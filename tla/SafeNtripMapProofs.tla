------------------------- MODULE SafeNtripMapProofs -------------------------
(***************************************************************************)
(* What the critical sections of SafeNtripMap preserve, for every set of   *)
(* keys, mount points and beans, and what follows for any interleaving of  *)
(* its methods: the index agrees with the entries, and on the source side  *)
(* no mount point has two holders.  Set and SetIfMountAbsent are a Delete  *)
(* followed by an insertion, so one lemma for each of the two suffices;    *)
(* each property is then inductive together with the type.                 *)
(***************************************************************************)
EXTENDS SafeNtripMap, TLAPS
---------------------------------------------------------------------------
(* The operators.                                                          *)

\* A well-formed map whose index agrees with its entries.
Good(m) == IsMap(m) /\ IndexConsistent(m)

\* Putting b under a key that has no entry (ntrip_map.go:219-223).
Insert(m, key, b) ==
  [data |-> With(m.data, key, b),
   byMount |-> With(m.byMount, b.mount,
                    With(IF b.mount \in DOMAIN m.byMount
                         THEN m.byMount[b.mount] ELSE EmptyFcn, key, b))]

\* A new map is well formed and its index agrees with its entries
\* (NewSafeNtripMap, ntrip_map.go:191-196).
LEMMA NewIsGood == Good(NewSafeNtripMap) /\ SingleHolder(NewSafeNtripMap)
  BY DEF Good, IsMap, IndexConsistent, SingleHolder, NewSafeNtripMap,
         EmptyFcn, IsPartialFcn

\* Delete keeps the map well formed and the index in step, and removes the
\* key from both halves (ntrip_map.go:255-275).
LEMMA DeleteIsGood ==
  ASSUME NEW m, Good(m), NEW key \in Keys
  PROVE  /\ Good(Delete(m, key))
         /\ Delete(m, key).data = Without(m.data, key)
         /\ Delete(m, key).byMount = IndexWithout(m, key)
         /\ \A mt \in DOMAIN IndexWithout(m, key) :
              mt \in DOMAIN m.byMount /\ key \notin DOMAIN IndexWithout(m, key)[mt]
<1> DEFINE n == Delete(m, key)
           mt0 == m.data[key].mount
<1>0. /\ n.data = Without(m.data, key)
      /\ n.byMount = IndexWithout(m, key)
      /\ n = [data |-> n.data, byMount |-> n.byMount]
  BY DEF Delete
<1>1. /\ IsPartialFcn(n.data, Keys, Beans)
      /\ DOMAIN n.data = DOMAIN m.data \ {key}
      /\ \A j \in DOMAIN m.data \ {key} : n.data[j] = m.data[j]
  BY <1>0 DEF Without, IsPartialFcn, Good, IsMap
<1>2. CASE key \notin DOMAIN m.data
  <2>1. n.data = m.data
    BY <1>2, <1>0 DEF Without, Good, IsMap, IsPartialFcn
  <2>2. n.byMount = m.byMount
    BY <1>2, <1>0 DEF IndexWithout
  <2>3. n = m
    BY <2>1, <2>2, <1>0 DEF Good, IsMap
  <2> QED
    BY <2>1, <2>2, <2>3, <1>0, <1>2 DEF Good, IndexConsistent
<1>3. CASE key \in DOMAIN m.data
  <2> DEFINE inner == Without(m.byMount[mt0], key)
  <2>1. /\ mt0 \in DOMAIN m.byMount
        /\ key \in DOMAIN m.byMount[mt0]
        /\ IsPartialFcn(m.byMount[mt0], Keys, Beans)
    BY <1>3 DEF Good, IsMap, IndexConsistent
  <2>2. /\ IsPartialFcn(inner, Keys, Beans)
        /\ DOMAIN inner = DOMAIN m.byMount[mt0] \ {key}
        /\ \A j \in DOMAIN inner : inner[j] = m.byMount[mt0][j]
    BY <2>1 DEF Without, IsPartialFcn
  <2>3. n.byMount = IF DOMAIN inner = {} THEN Without(m.byMount, mt0)
                    ELSE With(m.byMount, mt0, inner)
    BY <1>0, <1>3, <2>1 DEF IndexWithout, DeleteMountIndex
  <2>4. /\ DOMAIN n.byMount \subseteq DOMAIN m.byMount
        /\ mt0 \in DOMAIN n.byMount <=> DOMAIN inner # {}
        /\ mt0 \in DOMAIN n.byMount => n.byMount[mt0] = inner
        /\ \A mt \in DOMAIN m.byMount \ {mt0} :
             mt \in DOMAIN n.byMount /\ n.byMount[mt] = m.byMount[mt]
        /\ n.byMount = [mt \in DOMAIN n.byMount |-> n.byMount[mt]]
    BY <2>1, <2>3 DEF With, Without
  <2>5. \A mt \in DOMAIN m.byMount \ {mt0} : key \notin DOMAIN m.byMount[mt]
    BY DEF Good, IndexConsistent
  <2>6. IsMap(n)
    <3>1. \A mt \in DOMAIN n.byMount : IsPartialFcn(n.byMount[mt], Keys, Beans)
      BY <2>2, <2>4 DEF Good, IsMap
    <3>2. DOMAIN n.byMount \subseteq Mounts
      BY <2>4 DEF Good, IsMap
    <3> QED BY <3>1, <3>2, <1>0, <1>1, <2>4 DEF IsMap
  <2>7. IndexConsistent(n)
    <3>1. \A k \in DOMAIN n.data :
            /\ n.data[k].mount \in DOMAIN n.byMount
            /\ k \in DOMAIN n.byMount[n.data[k].mount]
      <4> SUFFICES ASSUME NEW k \in DOMAIN n.data
                   PROVE  /\ n.data[k].mount \in DOMAIN n.byMount
                          /\ k \in DOMAIN n.byMount[n.data[k].mount]
        OBVIOUS
      <4>1. /\ k \in DOMAIN m.data /\ k # key /\ n.data[k] = m.data[k]
            /\ m.data[k].mount \in DOMAIN m.byMount
            /\ k \in DOMAIN m.byMount[m.data[k].mount]
        BY <1>1 DEF Good, IndexConsistent
      <4>2. CASE m.data[k].mount = mt0
        <5>1. k \in DOMAIN inner BY <4>1, <4>2, <2>2
        <5> QED BY <4>1, <4>2, <5>1, <2>4
      <4>3. CASE m.data[k].mount # mt0
        BY <4>1, <4>3, <2>4
      <4> QED BY <4>2, <4>3
    <3>2. \A mt \in DOMAIN n.byMount :
            /\ DOMAIN n.byMount[mt] # {}
            /\ \A k \in DOMAIN n.byMount[mt] :
                 /\ k \in DOMAIN n.data
                 /\ n.data[k] = n.byMount[mt][k]
                 /\ n.data[k].mount = mt
      <4> SUFFICES ASSUME NEW mt \in DOMAIN n.byMount
                   PROVE  /\ DOMAIN n.byMount[mt] # {}
                          /\ \A k \in DOMAIN n.byMount[mt] :
                               /\ k \in DOMAIN n.data
                               /\ n.data[k] = n.byMount[mt][k]
                               /\ n.data[k].mount = mt
        OBVIOUS
      <4>0. /\ mt \in DOMAIN m.byMount
            /\ DOMAIN m.byMount[mt] # {}
            /\ \A k \in DOMAIN m.byMount[mt] :
                 /\ k \in DOMAIN m.data
                 /\ m.data[k] = m.byMount[mt][k]
                 /\ m.data[k].mount = mt
        BY <2>4 DEF Good, IndexConsistent
      <4>1. CASE mt = mt0
        <5>1. n.byMount[mt] = inner /\ DOMAIN inner # {}
          BY <4>1, <2>4
        <5>2. \A k \in DOMAIN inner :
                k # key /\ k \in DOMAIN m.byMount[mt] /\ inner[k] = m.byMount[mt][k]
          BY <4>1, <2>2
        <5> HIDE DEF inner
        <5> QED BY <5>1, <5>2, <4>0, <1>1
      <4>2. CASE mt # mt0
        <5>1. n.byMount[mt] = m.byMount[mt]
          BY <4>0, <4>2, <2>4
        <5>2. key \notin DOMAIN m.byMount[mt]
          BY <4>0, <4>2, <2>5
        <5> QED BY <5>1, <5>2, <4>0, <1>1
      <4> QED BY <4>1, <4>2
    <3> QED BY <3>1, <3>2 DEF IndexConsistent
  <2>8. \A mt \in DOMAIN n.byMount : key \notin DOMAIN n.byMount[mt]
    BY <2>2, <2>4, <2>5
  <2> QED BY <1>0, <2>4, <2>6, <2>7, <2>8 DEF Good
<1> QED BY <1>2, <1>3

\* Inserting under a free key keeps the map well formed and the index in step
\* (ntrip_map.go:219-223).
LEMMA InsertIsGood ==
  ASSUME NEW m, Good(m), NEW key \in Keys, NEW b \in Beans,
         key \notin DOMAIN m.data
  PROVE  Good(Insert(m, key, b))
<1> DEFINE n == Insert(m, key, b)
           old == IF b.mount \in DOMAIN m.byMount
                  THEN m.byMount[b.mount] ELSE EmptyFcn
           inner == With(old, key, b)
<1>0. b.mount \in Mounts
  BY BeansAssumption
<1>1. /\ n.data = With(m.data, key, b)
      /\ n.byMount = With(m.byMount, b.mount, inner)
      /\ n = [data |-> n.data, byMount |-> n.byMount]
  BY DEF Insert
<1>2. /\ IsPartialFcn(n.data, Keys, Beans)
      /\ DOMAIN n.data = DOMAIN m.data \cup {key}
      /\ n.data[key] = b
      /\ \A j \in DOMAIN m.data : j # key /\ n.data[j] = m.data[j]
  BY <1>1 DEF With, IsPartialFcn, Good, IsMap
<1>3. /\ IsPartialFcn(old, Keys, Beans)
      /\ \A k \in DOMAIN old :
           k \in DOMAIN m.data /\ m.data[k] = old[k] /\ m.data[k].mount = b.mount
  <2>1. CASE b.mount \in DOMAIN m.byMount
    BY <2>1 DEF Good, IsMap, IndexConsistent
  <2>2. CASE b.mount \notin DOMAIN m.byMount
    BY <2>2 DEF EmptyFcn, IsPartialFcn
  <2> QED BY <2>1, <2>2
<1>4. /\ IsPartialFcn(inner, Keys, Beans)
      /\ DOMAIN inner = DOMAIN old \cup {key}
      /\ inner[key] = b
      /\ \A j \in DOMAIN old : j # key => inner[j] = old[j]
  <2> HIDE DEF old
  <2> QED BY <1>3 DEF With, IsPartialFcn
<1>5. /\ DOMAIN n.byMount = DOMAIN m.byMount \cup {b.mount}
      /\ n.byMount[b.mount] = inner
      /\ \A mt \in DOMAIN m.byMount : mt # b.mount => n.byMount[mt] = m.byMount[mt]
      /\ n.byMount = [mt \in DOMAIN n.byMount |-> n.byMount[mt]]
  <2> HIDE DEF inner
  <2> QED BY <1>1 DEF With
<1>6. IsMap(n)
  <2>1. \A mt \in DOMAIN n.byMount : IsPartialFcn(n.byMount[mt], Keys, Beans)
    BY <1>4, <1>5 DEF Good, IsMap
  <2> HIDE DEF inner
  <2> QED BY <2>1, <1>0, <1>1, <1>2, <1>5 DEF Good, IsMap
<1>7. \A k \in DOMAIN n.data :
        /\ n.data[k].mount \in DOMAIN n.byMount
        /\ k \in DOMAIN n.byMount[n.data[k].mount]
  <2> SUFFICES ASSUME NEW k \in DOMAIN n.data
               PROVE  /\ n.data[k].mount \in DOMAIN n.byMount
                      /\ k \in DOMAIN n.byMount[n.data[k].mount]
    OBVIOUS
  <2>1. CASE k = key
    BY <2>1, <1>2, <1>4, <1>5
  <2>2. CASE k # key
    <3>1. /\ k \in DOMAIN m.data /\ n.data[k] = m.data[k]
          /\ m.data[k].mount \in DOMAIN m.byMount
          /\ k \in DOMAIN m.byMount[m.data[k].mount]
      BY <2>2, <1>2 DEF Good, IndexConsistent
    <3>2. CASE m.data[k].mount = b.mount
      <4>1. k \in DOMAIN old BY <3>1, <3>2
      <4> HIDE DEF old, inner
      <4> QED BY <4>1, <3>1, <3>2, <1>4, <1>5
    <3>3. CASE m.data[k].mount # b.mount
      BY <3>1, <3>3, <1>5
    <3> QED BY <3>2, <3>3
  <2> QED BY <2>1, <2>2
<1>8. \A mt \in DOMAIN n.byMount :
        /\ DOMAIN n.byMount[mt] # {}
        /\ \A k \in DOMAIN n.byMount[mt] :
             /\ k \in DOMAIN n.data
             /\ n.data[k] = n.byMount[mt][k]
             /\ n.data[k].mount = mt
  <2> SUFFICES ASSUME NEW mt \in DOMAIN n.byMount
               PROVE  /\ DOMAIN n.byMount[mt] # {}
                      /\ \A k \in DOMAIN n.byMount[mt] :
                           /\ k \in DOMAIN n.data
                           /\ n.data[k] = n.byMount[mt][k]
                           /\ n.data[k].mount = mt
    OBVIOUS
  <2>1. CASE mt = b.mount
    <3> HIDE DEF old, inner
    <3>1. n.byMount[mt] = inner BY <2>1, <1>5
    <3>2. \A k \in DOMAIN inner : /\ k \in DOMAIN n.data
                                  /\ n.data[k] = inner[k]
                                  /\ n.data[k].mount = mt
      <4> SUFFICES ASSUME NEW k \in DOMAIN inner
                   PROVE  /\ k \in DOMAIN n.data
                          /\ n.data[k] = inner[k]
                          /\ n.data[k].mount = mt
        OBVIOUS
      <4>1. CASE k = key BY <4>1, <1>2, <1>4, <2>1
      <4>2. CASE k # key
        <5>1. k \in DOMAIN old /\ inner[k] = old[k] BY <4>2, <1>4
        <5> QED BY <5>1, <1>2, <1>3, <2>1
      <4> QED BY <4>1, <4>2
    <3> QED BY <3>1, <3>2, <1>4
  <2>2. CASE mt # b.mount
    <3>1. mt \in DOMAIN m.byMount /\ n.byMount[mt] = m.byMount[mt]
      BY <2>2, <1>5
    <3>2. /\ DOMAIN m.byMount[mt] # {}
          /\ \A k \in DOMAIN m.byMount[mt] :
               /\ k \in DOMAIN m.data
               /\ m.data[k] = m.byMount[mt][k]
               /\ m.data[k].mount = mt
      BY <3>1 DEF Good, IndexConsistent
    <3> QED BY <3>1, <3>2, <1>2
  <2> QED BY <2>1, <2>2
<1> QED BY <1>6, <1>7, <1>8 DEF Good, IndexConsistent

\* Set with a bean is Delete followed by an insertion.
LEMMA SetIsInsert ==
  ASSUME NEW m, Good(m), NEW key \in Keys, NEW b \in Beans
  PROVE  /\ Set(m, key, b) = Insert(Delete(m, key), key, b)
         /\ key \notin DOMAIN Delete(m, key).data
<1>1. /\ Delete(m, key).data = Without(m.data, key)
      /\ Delete(m, key).byMount = IndexWithout(m, key)
  BY DEF Delete
<1>2. With(Without(m.data, key), key, b) = With(m.data, key, b)
  BY DEF With, Without
<1>3. b # NoBean
  BY BeansAssumption
<1>4. key \notin DOMAIN Without(m.data, key)
  BY DEF Without
<1> QED BY <1>1, <1>2, <1>3, <1>4 DEF Set, Insert

\* Set keeps the map well formed and the index in step, for a bean and for nil
\* (ntrip_map.go:208-224).
LEMMA SetIsGood ==
  ASSUME NEW m, Good(m), NEW key \in Keys, NEW val \in Beans \cup {NoBean}
  PROVE  Good(Set(m, key, val))
<1>1. CASE val = NoBean
  BY <1>1, DeleteIsGood DEF Set, Delete
<1>2. CASE val \in Beans
  <2>1. Good(Delete(m, key))
    BY DeleteIsGood
  <2> QED BY <1>2, <2>1, SetIsInsert, InsertIsGood
<1> QED BY <1>1, <1>2

\* When SetIfMountAbsent stores a bean it does what Set does: the fresh inner
\* map that it makes is what is left of the old one (ntrip_map.go:235-242).
LEMMA SetIfMountAbsentIsSet ==
  ASSUME NEW m, Good(m), NEW key \in Keys, NEW b \in Beans,
         MountAbsent(m, key, b)
  PROVE  SetIfMountAbsent(m, key, b) = Set(m, key, b)
<1>1. b.mount \notin DOMAIN m.byMount
  BY DEF MountAbsent, IndexedKeys, Good, IndexConsistent
<1>2. b.mount \notin DOMAIN IndexWithout(m, key)
  BY <1>1, DeleteIsGood
<1>3. [k \in {key} |-> b] = With(EmptyFcn, key, b)
  BY DEF With, EmptyFcn
<1>4. b # NoBean
  BY BeansAssumption
<1> QED BY <1>2, <1>3, <1>4 DEF SetIfMountAbsent, Set

\* SetIfMountAbsent keeps the map well formed, the index in step and every
\* mount point with at most one holder (ntrip_map.go:226-244).
LEMMA SetIfMountAbsentIsGood ==
  ASSUME NEW m, Good(m), NEW key \in Keys, NEW b \in Beans
  PROVE  /\ Good(SetIfMountAbsent(m, key, b))
         /\ SingleHolder(m) => SingleHolder(SetIfMountAbsent(m, key, b))
<1> DEFINE n == SetIfMountAbsent(m, key, b)
<1>1. CASE ~MountAbsent(m, key, b)
  BY <1>1 DEF SetIfMountAbsent
<1>2. CASE MountAbsent(m, key, b)
  <2>1. Good(n)
    BY <1>2, SetIfMountAbsentIsSet, SetIsGood
  <2>2. \A k \in DOMAIN m.data : m.data[k].mount # b.mount
    BY <1>2 DEF MountAbsent, IndexedKeys, Good, IndexConsistent
  <2>3. n.data = With(m.data, key, b)
    BY <1>2 DEF SetIfMountAbsent
  <2>4. SingleHolder(m) => SingleHolder(n)
    BY <2>2, <2>3 DEF SingleHolder, With
  <2> QED BY <2>1, <2>4
<1> QED BY <1>1, <1>2

\* Delete keeps every mount point with at most one holder.
LEMMA DeleteIsSingle ==
  ASSUME NEW m, SingleHolder(m), NEW key
  PROVE  SingleHolder(Delete(m, key))
BY DEF SingleHolder, Delete, Without

---------------------------------------------------------------------------
(* The state machine.                                                      *)

\* Every operation keeps the variables in their types and the index in step
\* with the entries.
LEMMA StepKeepsGood ==
  TypeOK /\ IndexAgrees /\ [Next]_vars => TypeOK' /\ IndexAgrees'
<1> SUFFICES ASSUME TypeOK, IndexAgrees, [Next]_vars
             PROVE  TypeOK' /\ IndexAgrees'
  OBVIOUS
<1>0. Good(ntripMap)
  BY DEF TypeOK, IndexAgrees, Good
<1> USE DEF TypeOK, IndexAgrees
<1>1. ASSUME NEW k \in Keys, NEW val \in Beans \cup {NoBean}, DoSet(k, val)
      PROVE  TypeOK' /\ IndexAgrees'
  <2>1. Good(ntripMap')
    BY <1>0, <1>1, SetIsGood DEF DoSet
  <2> QED BY <1>1, <2>1 DEF DoSet, Good
<1>2. ASSUME NEW k \in Keys, NEW b \in Beans, DoSetIfMountAbsent(k, b)
      PROVE  TypeOK' /\ IndexAgrees'
  <2>1. Good(ntripMap')
    BY <1>0, <1>2, SetIfMountAbsentIsGood DEF DoSetIfMountAbsent
  <2> QED BY <1>2, <2>1 DEF DoSetIfMountAbsent, Good
<1>3. ASSUME NEW k \in Keys, DoDelete(k)
      PROVE  TypeOK' /\ IndexAgrees'
  <2>1. Good(ntripMap')
    BY <1>0, <1>3, DeleteIsGood DEF DoDelete
  <2> QED BY <1>3, <2>1 DEF DoDelete, Good
<1>4. ASSUME NEW c \in Callers, CloseAllClear(c)
      PROVE  TypeOK' /\ IndexAgrees'
  <2>1. Good(ntripMap')
    BY <1>4, NewIsGood DEF CloseAllClear
  <2>2. BeansIn(ntripMap) \subseteq Beans
    BY DEF BeansIn, IsMap, IsPartialFcn
  <2> QED BY <1>4, <2>1, <2>2 DEF CloseAllClear, Good
<1>5. ASSUME NEW c \in Callers, NEW mt \in Mounts, ForEachByMount(c, mt)
      PROVE  TypeOK' /\ IndexAgrees'
  <2>1. GetByMount(ntripMap, mt) \subseteq Beans
    BY DEF GetByMount, IndexedKeys, IsMap, IsPartialFcn
  <2> QED BY <1>5, <2>1 DEF ForEachByMount
<1>6. ASSUME NEW c \in Callers, NEW b \in Beans, CloseAllClose(c, b)
      PROVE  TypeOK' /\ IndexAgrees'
  BY <1>6 DEF CloseAllClose
<1>7. ASSUME NEW c \in Callers, NEW b \in Beans, ForEachVisit(c, b)
      PROVE  TypeOK' /\ IndexAgrees'
  BY <1>7 DEF ForEachVisit
<1>8. CASE UNCHANGED vars
  BY <1>8 DEF vars
<1> QED
  BY <1>1, <1>2, <1>3, <1>4, <1>5, <1>6, <1>7, <1>8 DEF Next, CallerStep

\* A new map is in its type and its index agrees.
LEMMA InitIsGood == Init => TypeOK /\ IndexAgrees
  BY NewIsGood DEF Init, TypeOK, IndexAgrees, Good

\* The variables keep their types.
THEOREM MapTypeCorrect == Spec => []TypeOK
<1>1. Spec => [](TypeOK /\ IndexAgrees)
  BY InitIsGood, StepKeepsGood, PTL DEF Spec
<1> QED BY <1>1, PTL

\* The two halves of the map agree after every sequence of calls, for any
\* number of keys, mount points, beans and callers (ntrip_map.go:208-275,
\* 350-362).
THEOREM MapIndexAgrees == Spec => []IndexAgrees
<1>1. Spec => [](TypeOK /\ IndexAgrees)
  BY InitIsGood, StepKeepsGood, PTL DEF Spec
<1> QED BY <1>1, PTL

\* With entries made by SetIfMountAbsent only, no step gives a mount point a
\* second holder.
LEMMA StepKeepsSingle ==
  TypeOK /\ IndexAgrees /\ SingleSourcePerMount /\ [Next]_vars
    => SingleSourcePerMount'
<1> SUFFICES ASSUME TypeOK, IndexAgrees, SingleSourcePerMount, [Next]_vars,
                    sourceMap'
             PROVE  SingleHolder(ntripMap')
  BY DEF SingleSourcePerMount
<1>a. sourceMap
  BY DEF Next, vars, DoSet, DoSetIfMountAbsent, DoDelete, CloseAllClear,
         ForEachByMount, CallerStep, CloseAllClose, ForEachVisit
<1>0. Good(ntripMap) /\ SingleHolder(ntripMap)
  BY <1>a DEF TypeOK, IndexAgrees, Good, SingleSourcePerMount
<1>1. ASSUME NEW k \in Keys, NEW b \in Beans, DoSetIfMountAbsent(k, b)
      PROVE  SingleHolder(ntripMap')
  BY <1>0, <1>1, SetIfMountAbsentIsGood DEF DoSetIfMountAbsent
<1>2. ASSUME NEW k \in Keys, DoDelete(k)
      PROVE  SingleHolder(ntripMap')
  BY <1>0, <1>2, DeleteIsSingle DEF DoDelete
<1>3. ASSUME NEW c \in Callers, CloseAllClear(c)
      PROVE  SingleHolder(ntripMap')
  BY <1>3, NewIsGood DEF CloseAllClear
<1>4. CASE UNCHANGED ntripMap
  BY <1>0, <1>4
<1> QED
  BY <1>a, <1>1, <1>2, <1>3, <1>4
  DEF Next, DoSet, CallerStep, ForEachByMount, CloseAllClose, ForEachVisit, vars

\* "the single-source-per-mount invariant" (ntrip_map.go:226-227) for any
\* number of keys, mount points, beans and callers.
THEOREM MapSingleSource == Spec => []SingleSourcePerMount
<1>1. Init => SingleSourcePerMount
  BY NewIsGood DEF Init, SingleSourcePerMount
<1>2. Spec => [](TypeOK /\ IndexAgrees)
  BY InitIsGood, StepKeepsGood, PTL DEF Spec
<1> QED
  BY <1>1, <1>2, StepKeepsSingle, PTL DEF Spec

---------------------------------------------------------------------------
(* The map implements MountRegistry.                                       *)

\* When the index agrees with the entries, what is read from the index is
\* what the table implies.
LEMMA GoodMapHasView ==
  ASSUME NEW m, Good(m)
  PROVE  /\ GetMountList(m) = {b.mount : b \in BeansIn(m)}
         /\ \A mt \in Mounts : GetByMount(m, mt) = {b \in BeansIn(m) : b.mount = mt}
<1>1. /\ \A k \in DOMAIN m.data :
           /\ m.data[k].mount \in DOMAIN m.byMount
           /\ k \in DOMAIN m.byMount[m.data[k].mount]
      /\ \A mt \in DOMAIN m.byMount :
           /\ DOMAIN m.byMount[mt] # {}
           /\ \A k \in DOMAIN m.byMount[mt] :
                /\ k \in DOMAIN m.data
                /\ m.data[k] = m.byMount[mt][k]
                /\ m.data[k].mount = mt
  BY DEF Good, IndexConsistent
<1>2. GetMountList(m) = {b.mount : b \in BeansIn(m)}
  BY <1>1 DEF GetMountList, BeansIn
<1>3. ASSUME NEW mt \in Mounts
      PROVE  GetByMount(m, mt) = {b \in BeansIn(m) : b.mount = mt}
  BY <1>1 DEF GetByMount, IndexedKeys, BeansIn
<1> QED BY <1>2, <1>3

\* The map implements the plain table of MountRegistry: its listing and its
\* fan-out, read from the index, are those of the entries after every step
\* (ntrip_map.go:208-348).
THEOREM MapImplementsRegistry == Spec => ImplementsRegistry
<1>1. Init => Registry!Init
  <2> SUFFICES ASSUME Init PROVE Registry!Init
    OBVIOUS
  <2>1. Registry!View
    BY InitIsGood, GoodMapHasView
    DEF TypeOK, IndexAgrees, Good, BeansIn, Registry!View, Registry!Owned
  <2> QED BY <2>1 DEF Registry!Init, Init, NewSafeNtripMap, EmptyFcn
<1>2. TypeOK /\ IndexAgrees /\ [Next]_vars => [Registry!Next]_(Registry!vars)
  <2> SUFFICES ASSUME TypeOK, IndexAgrees, [Next]_vars
               PROVE  [Registry!Next]_(Registry!vars)
    OBVIOUS
  <2>0. Good(ntripMap) /\ Good(ntripMap')
    BY StepKeepsGood DEF TypeOK, IndexAgrees, Good
  <2>1. Registry!View /\ Registry!View'
    BY <2>0, GoodMapHasView DEF BeansIn, Registry!View, Registry!Owned
  <2>2. ASSUME NEW k \in Keys, NEW b \in Beans,
               ntripMap' = Set(ntripMap, k, b)
        PROVE  Registry!Next
    <3>1. ntripMap'.data = With(ntripMap.data, k, b)
      BY <2>2, BeansAssumption DEF Set
    <3>2. Registry!Register(k, b)
      BY <3>1, <2>1 DEF Registry!Register, Registry!Put, With
    <3> QED BY <3>2 DEF Registry!Next
  <2>3. ASSUME NEW k \in Keys, ntripMap'.data = Without(ntripMap.data, k)
        PROVE  Registry!Next
    <3>1. Registry!Unregister(k)
      BY <2>3, <2>1 DEF Registry!Unregister, Without
    <3> QED BY <3>1 DEF Registry!Next
  <2>4. ASSUME NEW k \in Keys, NEW val \in Beans \cup {NoBean}, DoSet(k, val)
        PROVE  Registry!Next
    BY <2>2, <2>3, <2>4 DEF DoSet, Set
  <2>5. ASSUME NEW k \in Keys, NEW b \in Beans, DoSetIfMountAbsent(k, b)
        PROVE  Registry!Next \/ UNCHANGED ntripMap
    BY <2>0, <2>2, <2>5, SetIfMountAbsentIsSet
    DEF DoSetIfMountAbsent, SetIfMountAbsent
  <2>6. ASSUME NEW k \in Keys, DoDelete(k)
        PROVE  Registry!Next
    BY <2>3, <2>6 DEF DoDelete, Delete
  <2>7. ASSUME NEW c \in Callers, CloseAllClear(c)
        PROVE  Registry!Next
    BY <2>1, <2>7 DEF CloseAllClear, NewSafeNtripMap, EmptyFcn,
                      Registry!Next, Registry!Clear
  <2>8. CASE UNCHANGED ntripMap
    BY <2>8 DEF Registry!vars, GetMountList, GetByMount, IndexedKeys
  <2> QED
    BY <2>4, <2>5, <2>6, <2>7, <2>8
    DEF Next, CallerStep, ForEachByMount, CloseAllClose, ForEachVisit, vars
<1>3. Spec => [](TypeOK /\ IndexAgrees)
  BY InitIsGood, StepKeepsGood, PTL DEF Spec
<1> QED
  BY <1>1, <1>2, <1>3, PTL DEF Spec, ImplementsRegistry, Registry!Spec
============================================================================
