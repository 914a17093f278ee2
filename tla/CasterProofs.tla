---------------------------- MODULE CasterProofs ----------------------------
(***************************************************************************)
(* NtripCasterServer and NtripCasterClient for any number of connections,  *)
(* callers and restarts: what their listeners promise, who owns a mount    *)
(* point and when the disconnect callback runs on the side of the sources, *)
(* and who closes a bean on the side of the subscribers.                   *)
(***************************************************************************)
EXTENDS CasterServer, CasterClient, ListenerProofs

---------------------------------------------------------------------------
(* What the two sides have in common.                                      *)

\* The lemmas about the operators of the map.  They do not depend on what its
\* callers are doing.
Map == INSTANCE SafeNtripMapProofs WITH
  sourceMap <- TRUE, closed <- {}, closing <- myBeans,
  visiting <- [u \in Callers |-> {}]

\* A well-formed map whose index agrees with its entries.
Good(m) == IsMap(m) /\ IndexConsistent(m)

\* Every critical section of SafeNtripMap keeps the map good
\* (ntrip_map.go:191-275).
LEMMA MapSections ==
  /\ Good(NewSafeNtripMap)
  /\ \A m : \A key \in Keys : Good(m) => Good(Delete(m, key))
  /\ \A m : \A key \in Keys, b \in Beans :
       Good(m) => Good(Set(m, key, b)) /\ Good(SetIfMountAbsent(m, key, b))
<1>1. Map!BeansAssumption
  BY BeansAssumption DEF Map!BeansAssumption
<1>2. ASSUME NEW m
      PROVE  Good(m) <=> Map!Good(m)
  BY DEF Good, IsMap, IsPartialFcn, IndexConsistent, Map!Good, Map!IsMap,
         Map!IsPartialFcn, Map!IndexConsistent
<1>3. NewSafeNtripMap = Map!NewSafeNtripMap
  BY DEF NewSafeNtripMap, EmptyFcn, Map!NewSafeNtripMap, Map!EmptyFcn
<1>4. ASSUME NEW m, NEW key
      PROVE  /\ IndexWithout(m, key) = Map!IndexWithout(m, key)
             /\ Delete(m, key) = Map!Delete(m, key)
  BY DEF Delete, IndexWithout, DeleteMountIndex, With, Without, Map!Delete,
         Map!IndexWithout, Map!DeleteMountIndex, Map!With, Map!Without
<1>5. ASSUME NEW m, NEW key, NEW b
      PROVE  Set(m, key, b) = Map!Set(m, key, b)
  BY <1>4 DEF Set, With, Without, EmptyFcn, Map!Set, Map!With, Map!Without,
              Map!EmptyFcn
<1>6. ASSUME NEW m, NEW key, NEW b
      PROVE  SetIfMountAbsent(m, key, b) = Map!SetIfMountAbsent(m, key, b)
  BY <1>4
  DEF SetIfMountAbsent, MountAbsent, IndexedKeys, With, Map!SetIfMountAbsent,
      Map!MountAbsent, Map!IndexedKeys, Map!With
<1>7. Good(NewSafeNtripMap)
  BY <1>1, <1>2, <1>3, Map!NewIsGood
<1>8. ASSUME NEW m, NEW key \in Keys, Good(m)
      PROVE  Good(Delete(m, key))
  <2>1. Map!Good(m)
    BY <1>2, <1>8
  <2>2. Map!Good(Map!Delete(m, key))
    BY <1>1, <2>1, Map!DeleteIsGood
  <2> QED BY <1>2, <1>4, <2>2
<1>9. ASSUME NEW m, NEW key \in Keys, NEW b \in Beans, Good(m)
      PROVE  Good(Set(m, key, b)) /\ Good(SetIfMountAbsent(m, key, b))
  <2>1. Map!Good(m)
    BY <1>2, <1>9
  <2>2. Map!Good(Map!Set(m, key, b))
    BY <1>1, <2>1, Map!SetIsGood
  <2>3. Map!Good(Map!SetIfMountAbsent(m, key, b))
    BY <1>1, <2>1, Map!SetIfMountAbsentIsGood
  <2> QED BY <1>2, <1>5, <1>6, <2>2, <2>3
<1> QED BY <1>7, <1>8, <1>9

\* A bean is the bean of its own connection.
LEMMA BeanFacts ==
  /\ \A b \in Beans : b.conn \in Conns /\ b = Bean(b.conn) /\ b # NoBean
  /\ \A c \in Conns : /\ Bean(c) \in Beans /\ Bean(c).conn = c
                      /\ KeyOf[c] \in Keys /\ Bean(c).mount = MountOf[c]
                      /\ MountOf[c] \in Mounts
<1>1. \A c \in Conns : Bean(c).conn = c /\ Bean(c).mount = MountOf[c]
  BY DEF Bean
<1> HIDE DEF Bean
<1> QED BY <1>1, CasterSideAssumption, BeansAssumption

---------------------------------------------------------------------------
(* Types.                                                                  *)

AuthTypes ==
  onAuth \in BOOLEAN /\ starting \in [Callers -> {"no", "nil", "auth"}]

ClearTypes ==
  /\ clearing \in [Callers -> {"no", "map", "beans"}]
  /\ myBeans \in [Callers -> SUBSET Beans]

HandlerTypes ==
  /\ pc \in [Conns -> HandlerSteps \cup {"none"}]
  /\ removed \in [Conns -> Beans \cup {NoBean}]
  /\ told \in [Conns -> {"nothing", "connect", "disconnect"}]

StatTypes == IsPartialFcn(bytesByMount, Mounts, BOOLEAN)

\* Every step of the server is a step of its listener.
LEMMA StepOfListener ==
  ClearTypes /\ [Next]_vars => [ListenerStep]_listenerVars
<1> SUFFICES ASSUME ClearTypes, [Next]_vars
             PROVE  ListenerStep \/ UNCHANGED listenerVars
  OBVIOUS
<1>1. CASE Configure
  BY <1>1 DEF Configure, SideConfigure, OnAuth, ListenerStep
<1>2. ASSUME NEW u \in Callers, Start(u)
      PROVE  ListenerStep \/ UNCHANGED listenerVars
  BY <1>2 DEF Start, SideStart, StartRead, StartFails, StartSucceeds, ListenerStep
<1>3. CASE Network
  BY <1>3 DEF Network, SideNetwork, ListenerStep
<1>4. ASSUME NEW g \in Gens, AcceptLoop(g) \/ SpeedTick(g) \/ SpeedEnds(g)
      PROVE  ListenerStep \/ UNCHANGED listenerVars
  BY <1>4
  DEF AcceptLoop, SideAccepts, SideAdmit, SpeedTick, SpeedEnds, sideVars,
      ListenerStep
<1>5. ASSUME NEW u \in Callers, StopCloseBeans(u)
      PROVE  SocketStep
  <2>1. {b.conn : b \in myBeans[u]} \in SUBSET Conns
    BY BeanFacts DEF ClearTypes
  <2> QED BY <1>5, <2>1 DEF StopCloseBeans, SocketStep
<1>6. ASSUME NEW u \in Callers, StopBegins(u) \/ StopStep(u) \/ ContextExpires(u)
      PROVE  ListenerStep \/ UNCHANGED listenerVars
  BY <1>5, <1>6
  DEF StopBegins, SideStop, StopStep, StopClear, SideStopEnds, ContextExpires,
      SideShutdownExpires, ListenerStep
<1>7. ASSUME NEW c \in Conns, Handler(c)
      PROVE  ListenerStep \/ UNCHANGED listenerVars
  <2>1. {c} \in SUBSET Conns
    OBVIOUS
  <2> QED
    BY <1>7, <2>1
    DEF Handler, RequestAuthorized, Register, RespondOK, RespondFails, ReadData,
        CountData, Unstat, CleanUp, HandlerEnds, SideRelease, Unmap, Hangup,
        ListenerStep
<1> QED
  BY <1>1, <1>2, <1>3, <1>4, <1>6, <1>7 DEF Next, vars, sideVars

\* What a removal gives, and the beans in the map, are beans.
LEMMA TakenOut ==
  ASSUME Good(ntripMap)
  PROVE  /\ \A c \in Conns : Deleted(ntripMap, KeyOf[c]) \in Beans \cup {NoBean}
         /\ BeansIn(ntripMap) \in SUBSET Beans
  BY DEF Good, IsMap, IsPartialFcn, Deleted, BeansIn

\* OnAuth sets the callback, and a Start reads it before it takes mu
\* (ntrip_caster_server.go:134-138, 198-210): nothing else touches the two.
LEMMA StepAuthTypes == AuthTypes /\ [Next]_vars => AuthTypes'
<1> SUFFICES ASSUME AuthTypes, [Next]_vars PROVE AuthTypes'
  OBVIOUS
<1>1. CASE UNCHANGED authVars
  BY <1>1 DEF AuthTypes, authVars
<1>2. ASSUME NEW f \in AuthSettings, OnAuth(f)
      PROVE  AuthTypes'
  BY <1>2, CasterSideAssumption DEF OnAuth, AuthTypes
<1>3. ASSUME NEW u \in Callers, NEW to \in {"no", "nil", "auth"},
             starting' = [starting EXCEPT ![u] = to], onAuth' = onAuth
      PROVE  AuthTypes'
  BY <1>3 DEF AuthTypes
<1>4. ASSUME NEW u \in Callers, Start(u)
      PROVE  AuthTypes'
  BY <1>3, <1>4
  DEF Start, SideStart, StartRead, StartFails, StartSucceeds, startRest
<1>5. CASE Configure
  BY <1>1, <1>2, <1>5 DEF Configure, SideConfigure
<1> QED
  BY <1>1, <1>4, <1>5
  DEF Next, vars, sideVars, Network, SideNetwork, AcceptLoop, SideAccepts,
      SideAdmit, SpeedTick, SpeedEnds, StopBegins, SideStop, StopStep,
      StopClear, StopCloseBeans, SideStopEnds, ContextExpires,
      SideShutdownExpires, Handler, RequestAuthorized, Register, RespondOK,
      RespondFails, ReadData, CountData, Unstat, CleanUp, HandlerEnds,
      SideRelease, Unmap, Hangup, handlerRest

\* A CloseAll takes beans from the table and closes them one by one.
LEMMA StepClearTypes ==
  Good(ntripMap) /\ ClearTypes /\ [Next]_vars => ClearTypes'
<1> SUFFICES ASSUME Good(ntripMap), ClearTypes, [Next]_vars PROVE ClearTypes'
  OBVIOUS
<1>1. CASE UNCHANGED clearVars
  BY <1>1 DEF ClearTypes, clearVars
<1>2. ASSUME NEW u \in Callers, SideStop(u) \/ StopClear(u) \/ StopCloseBeans(u)
      PROVE  ClearTypes'
  <2>1. \E to \in {"no", "map", "beans"} : clearing' = [clearing EXCEPT ![u] = to]
    BY <1>2 DEF SideStop, StopClear, StopCloseBeans, Clearing
  <2>2. \/ myBeans' = myBeans
        \/ \E bs \in SUBSET Beans : myBeans' = [myBeans EXCEPT ![u] = bs]
    BY <1>2, TakenOut DEF SideStop, StopClear, StopCloseBeans
  <2> QED BY <2>1, <2>2 DEF ClearTypes
<1> QED
  BY <1>1, <1>2
  DEF Next, vars, sideVars, Configure, SideConfigure, OnAuth, Start, SideStart,
      StartRead, StartFails, StartSucceeds, startRest, Network, SideNetwork,
      AcceptLoop, SideAccepts, SideAdmit, SpeedTick, SpeedEnds, StopBegins,
      StopStep, SideStopEnds, ContextExpires, SideShutdownExpires, Handler,
      RequestAuthorized, Register, RespondOK, RespondFails, ReadData, CountData,
      Unstat, CleanUp, HandlerEnds, SideRelease, Unmap, Hangup, handlerRest

\* The handlers keep their types.
LEMMA StepHandlerTypes ==
  Good(ntripMap) /\ HandlerTypes /\ [Next]_vars => HandlerTypes'
<1> SUFFICES ASSUME Good(ntripMap), HandlerTypes, [Next]_vars PROVE HandlerTypes'
  OBVIOUS
<1>1. CASE UNCHANGED handlerVars
  BY <1>1 DEF HandlerTypes, handlerVars
<1>2. ASSUME NEW c \in Conns, NEW to \in HandlerSteps \cup {"none"},
             pc' = [pc EXCEPT ![c] = to],
             \/ removed' = removed
             \/ \E b \in Beans \cup {NoBean} : removed' = [removed EXCEPT ![c] = b],
             \/ told' = told
             \/ \E t \in {"connect", "disconnect"} : told' = [told EXCEPT ![c] = t]
      PROVE  HandlerTypes'
  BY <1>2 DEF HandlerTypes
<1>3. ASSUME NEW g \in Gens, NEW c \in Conns, SideAdmit(g, c)
      PROVE  HandlerTypes'
  BY <1>2, <1>3 DEF SideAdmit, Step, HandlerSteps
<1>4. ASSUME NEW c \in Conns, Handler(c)
      PROVE  HandlerTypes'
  <2>1. \E to \in HandlerSteps \cup {"none"} : pc' = [pc EXCEPT ![c] = to]
    BY <1>4
    DEF Handler, RequestAuthorized, Register, RespondOK, RespondFails, ReadData,
        CountData, Unstat, CleanUp, HandlerEnds, SideRelease, Unmap, Hangup,
        Step, AfterRelease, HandlerSteps
  <2>2. \/ removed' = removed
        \/ \E b \in Beans \cup {NoBean} : removed' = [removed EXCEPT ![c] = b]
    BY <1>4, TakenOut
    DEF Handler, RequestAuthorized, Register, RespondOK, RespondFails, ReadData,
        CountData, Unstat, CleanUp, HandlerEnds, SideRelease, Unmap, Hangup
  <2>3. \/ told' = told
        \/ \E t \in {"connect", "disconnect"} : told' = [told EXCEPT ![c] = t]
    BY <1>4
    DEF Handler, RequestAuthorized, Register, RespondOK, RespondFails, ReadData,
        CountData, Unstat, CleanUp, HandlerEnds, SideRelease, Unmap, Hangup
  <2> QED BY <1>2, <2>1, <2>2, <2>3
<1> QED
  BY <1>1, <1>3, <1>4
  DEF Next, vars, sideVars, Configure, SideConfigure, OnAuth, Start, SideStart,
      StartRead, StartFails, StartSucceeds, startRest, Network, SideNetwork,
      AcceptLoop, SideAccepts, SpeedTick, SpeedEnds, StopBegins, SideStop,
      StopStep, StopClear, StopCloseBeans, SideStopEnds, ContextExpires,
      SideShutdownExpires

\* The ways in which a step changes the table of sources.
LEMMA MapSteps ==
  ASSUME [Next]_vars
  PROVE  \/ ntripMap' = ntripMap
         \/ \E c \in Conns :
              Register(c) \/ RespondFails(c)
                \/ Unmap(c, IF Deleted(ntripMap, KeyOf[c]) # NoBean THEN "unstat"
                            ELSE "hangup")
         \/ \E u \in Callers : StopClear(u)
  BY DEF Next, vars, sideVars, Configure, SideConfigure, OnAuth, Start, SideStart,
      StartRead, StartFails, StartSucceeds, startRest, Network, SideNetwork,
      AcceptLoop, SideAccepts, SideAdmit, SpeedTick, SpeedEnds, StopBegins,
      SideStop, StopStep, StopCloseBeans, SideStopEnds, ContextExpires,
      SideShutdownExpires, Handler, RequestAuthorized, RespondOK, ReadData,
      CountData, Unstat, CleanUp, HandlerEnds, SideRelease, Hangup

\* Every change of the table is a critical section of SafeNtripMap.
LEMMA StepMap == Good(ntripMap) /\ [Next]_vars => Good(ntripMap')
<1> SUFFICES ASSUME Good(ntripMap), [Next]_vars PROVE Good(ntripMap')
  OBVIOUS
<1>1. ASSUME NEW c \in Conns
      PROVE  /\ Good(Delete(ntripMap, KeyOf[c]))
             /\ Good(SetIfMountAbsent(ntripMap, KeyOf[c], Bean(c)))
  BY BeanFacts, MapSections
<1> QED
  BY <1>1, MapSteps, MapSections DEF Register, RespondFails, Withdrawn, Unmap, StopClear

\* The statistics are kept by mount point.
LEMMA StepStats == HandlerTypes /\ StatTypes /\ [Next]_vars => StatTypes'
<1> SUFFICES ASSUME HandlerTypes, StatTypes, [Next]_vars PROVE StatTypes'
  OBVIOUS
<1>1. CASE UNCHANGED bytesByMount
  BY <1>1 DEF StatTypes, IsPartialFcn
<1>2. ASSUME NEW g \in Gens, SpeedTick(g)
      PROVE  StatTypes'
  BY <1>2, Zenon DEF SpeedTick, StatTypes, IsPartialFcn
<1>3. ASSUME NEW c \in Conns, CountData(c)
      PROVE  StatTypes'
  <2>1. bytesByMount' = With(bytesByMount, MountOf[c], TRUE) /\ MountOf[c] \in Mounts
    BY <1>3, BeanFacts DEF CountData
  <2>2. /\ DOMAIN bytesByMount' \subseteq Mounts
        /\ bytesByMount' = [m \in DOMAIN bytesByMount' |-> bytesByMount'[m]]
    BY <2>1 DEF With, StatTypes, IsPartialFcn
  <2>3. \A m \in DOMAIN bytesByMount' : bytesByMount'[m] \in BOOLEAN
    BY <2>1, Zenon DEF With, StatTypes, IsPartialFcn
  <2> QED BY <2>2, <2>3, Zenon DEF StatTypes, IsPartialFcn
<1>4. ASSUME NEW c \in Conns, Unstat(c)
      PROVE  StatTypes'
  <2>1. bytesByMount' = Without(bytesByMount, removed[c].mount)
    BY <1>4 DEF Unstat
  <2>2. /\ DOMAIN bytesByMount' \subseteq Mounts
        /\ bytesByMount' = [m \in DOMAIN bytesByMount' |-> bytesByMount'[m]]
    BY <2>1 DEF Without, StatTypes, IsPartialFcn
  <2>3. \A m \in DOMAIN bytesByMount' : bytesByMount'[m] \in BOOLEAN
    BY <2>1, Zenon DEF Without, StatTypes, IsPartialFcn
  <2> QED BY <2>2, <2>3, Zenon DEF StatTypes, IsPartialFcn
<1>5. CASE bytesByMount' = EmptyFcn
  BY <1>5 DEF EmptyFcn, StatTypes, IsPartialFcn
<1> QED
  BY <1>1, <1>2, <1>3, <1>4, <1>5
  DEF Next, vars, Configure, Start, Network, AcceptLoop, SpeedEnds, StopBegins,
      StopStep, ContextExpires, Handler, RequestAuthorized, Register, RespondOK,
      RespondFails, ReadData, CleanUp

\* Types, the listener's invariant and the map's.
ServerInv ==
  /\ ListenerInv /\ StatTypes
  /\ AuthTypes /\ ClearTypes /\ HandlerTypes /\ Good(ntripMap)

\* Nothing has been started.
LEMMA InitServerInv == Init => ServerInv
<1> SUFFICES ASSUME Init PROVE ServerInv
  OBVIOUS
<1>1. ListenerInv
  BY ListenerInitInv DEF Init, SideInit
<1>2. StatTypes
  BY DEF Init, StatTypes, IsPartialFcn, EmptyFcn
<1>3. AuthTypes /\ ClearTypes /\ HandlerTypes
  BY DEF Init, SideInit, AuthTypes, ClearTypes, HandlerTypes, HandlerSteps
<1>4. Good(ntripMap)
  BY MapSections DEF Init, SideInit
<1> QED BY <1>1, <1>2, <1>3, <1>4 DEF ServerInv

\* Every step keeps the invariant.
LEMMA StepServerInv == ServerInv /\ [Next]_vars => ServerInv'
<1> SUFFICES ASSUME ServerInv, [Next]_vars PROVE ServerInv'
  OBVIOUS
<1>1. ListenerInv'
  BY StepOfListener, ListenerStepInv DEF ServerInv
<1>2. StatTypes'
  BY StepStats DEF ServerInv
<1>3. AuthTypes' /\ ClearTypes' /\ HandlerTypes'
  BY StepAuthTypes, StepClearTypes, StepHandlerTypes DEF ServerInv
<1>4. Good(ntripMap)'
  <2>1. Good(ntripMap')
    BY StepMap DEF ServerInv
  <2> QED BY <2>1 DEF Good, IsMap, IsPartialFcn, IndexConsistent
<1> QED BY <1>1, <1>2, <1>3, <1>4 DEF ServerInv

\* It implies the types and the exact slots.
LEMMA ServerInvTypes == ServerInv => TypeOK /\ SlotsExact
  BY ListenerInvImplies
  DEF ServerInv, TypeOK, SideTypeOK, StatTypes, AuthTypes, ClearTypes,
      HandlerTypes, Good

\* Every reachable state has its types, for every number of sources and
\* restarts (ntrip_caster_server.go).
THEOREM CasterServerTypes == Spec => []TypeOK
  BY InitServerInv, StepServerInv, ServerInvTypes, PTL DEF Spec

\* The server implements its listener: no handler, Stop or statistics step
\* disturbs what the listener relies on (ntrip_caster_server.go:300-375).
THEOREM CasterServerListens == Spec => ListenerSpec
<1>1. ServerInv /\ [Next]_vars => [ListenerStep]_listenerVars
  BY StepOfListener DEF ServerInv
<1>2. Init => ListenerInit
  BY DEF Init, SideInit
<1> QED
  BY <1>1, <1>2, InitServerInv, StepServerInv, PTL DEF Spec, ListenerSpec

\* The slots of the source listener are exact (ntrip_caster_server.go:253-375).
THEOREM CasterServerSlotsExact == Spec => []SlotsExact
  BY CasterServerListens, ListenerSlotsExact, PTL

\* A Shutdown of the source listener that returns nil leaves no handler and
\* no loop, whatever the handlers did meanwhile (ntrip_caster_server.go:308-375).
THEOREM CasterServerShutdownDrains == Spec => ShutdownDrains
  BY CasterServerListens, ListenerShutdownDrains, PTL

---------------------------------------------------------------------------
(* Mount points.                                                           *)

\* What a change of the table does to its entries.
LEMMA EntrySteps ==
  ASSUME Good(ntripMap), NEW c \in Conns
  PROVE  /\ DOMAIN Delete(ntripMap, KeyOf[c]).data = DOMAIN ntripMap.data \ {KeyOf[c]}
         /\ \A k \in DOMAIN ntripMap.data \ {KeyOf[c]} :
              Delete(ntripMap, KeyOf[c]).data[k] = ntripMap.data[k]
         /\ MountAbsent(ntripMap, KeyOf[c], Bean(c)) =>
              LET m == SetIfMountAbsent(ntripMap, KeyOf[c], Bean(c))
              IN  /\ DOMAIN m.data = DOMAIN ntripMap.data \cup {KeyOf[c]}
                  /\ m.data[KeyOf[c]] = Bean(c)
                  /\ \A k \in DOMAIN ntripMap.data \ {KeyOf[c]} :
                       m.data[k] = ntripMap.data[k]
  BY DEF Delete, Without, SetIfMountAbsent, With

\* The owner named by an entry is a connection, and the entry is its bean.
LEMMA EntryBean ==
  ASSUME Good(ntripMap), NEW k \in DOMAIN ntripMap.data
  PROVE  /\ ntripMap.data[k].conn \in Conns
         /\ ntripMap.data[k] = Bean(ntripMap.data[k].conn)
<1>1. ntripMap.data[k] \in Beans
  BY DEF Good, IsMap, IsPartialFcn
<1> QED BY <1>1, BeanFacts

\* The steps that matter to who owns a mount point.
LEMMA ServerSteps ==
  ASSUME [Next]_vars
  PROVE  \/ UNCHANGED <<ntripMap, handlerVars>> /\ conns' \in {conns, EmptyFcn}
         \/ \E g \in Gens, c \in Conns : SideAdmit(g, c)
         \/ \E c \in Conns : Handler(c)
         \/ \E u \in Callers : StopClear(u)
<1> USE DEF listenerVars, slotVars
<1>1. CASE Configure \/ Network \/ UNCHANGED vars
  BY <1>1
  DEF Configure, SideConfigure, OnAuth, SetLimits, SetMaxConnections,
      SetMaxConnectionsPerIP, configRest, Network, SideNetwork, AcceptFails,
      Dial, acceptRest, vars, sideVars
<1>2. ASSUME NEW u \in Callers, Start(u)
      PROVE  UNCHANGED <<ntripMap, handlerVars, conns>>
  BY <1>2
  DEF Start, SideStart, StartRead, StartFails, StartSucceeds, StartBinds,
      startRest
<1>3. ASSUME NEW u \in Callers, StopBegins(u) \/ StopStep(u) \/ ContextExpires(u)
      PROVE  \/ UNCHANGED <<ntripMap, handlerVars>> /\ conns' \in {conns, EmptyFcn}
             \/ StopClear(u)
  BY <1>3
  DEF StopBegins, SideStop, StopDetach, SlotsAfterStop, StopStep,
      StopCloseBeans, SideStopEnds, StopClose, ShutdownReturns, ContextExpires,
      SideShutdownExpires, ShutdownExpires, waitRest
<1>4. ASSUME NEW g \in Gens, AcceptLoop(g) \/ SpeedTick(g) \/ SpeedEnds(g)
      PROVE  \/ UNCHANGED <<ntripMap, handlerVars, conns>>
             \/ \E c \in Conns : SideAdmit(g, c)
  BY <1>4
  DEF AcceptLoop, SideAccepts, AcceptStep, Accept, Refuse, AcceptClosed,
      BackoffEnds, SpeedTick, SpeedEnds, LoopEnds, sideVars
<1> QED BY <1>1, <1>2, <1>3, <1>4 DEF Next

\* A handler gives its entry back before it forgets that it holds one.
LEMMA StepMountNotLeaked ==
  ServerInv /\ MountNotLeaked /\ [Next]_vars => MountNotLeaked'
<1> SUFFICES ASSUME ServerInv, MountNotLeaked, [Next]_vars PROVE MountNotLeaked'
  OBVIOUS
<1> DEFINE hold == {"respond", "stream", "count", "release", "unmap"}
<1>0. Good(ntripMap) /\ HandlerTypes
  BY DEF ServerInv
<1>1. ASSUME ntripMap' = ntripMap, \A c \in Conns : Holding(c) => Holding(c)'
      PROVE  MountNotLeaked'
  <2>1. \A k \in DOMAIN ntripMap.data : ntripMap.data[k].conn \in Conns
    BY <1>0, EntryBean
  <2> QED BY <1>1, <2>1 DEF MountNotLeaked
<1>2. ASSUME NEW c \in Conns, ntripMap' = Delete(ntripMap, KeyOf[c]),
             NEW to, pc' = [pc EXCEPT ![c] = to]
      PROVE  MountNotLeaked'
  <2> DEFINE m == Delete(ntripMap, KeyOf[c])
  <2>1. /\ DOMAIN m.data = DOMAIN ntripMap.data \ {KeyOf[c]}
        /\ \A k \in DOMAIN m.data : m.data[k] = ntripMap.data[k]
    BY <1>0, EntrySteps
  <2> HIDE DEF m
  <2>2. ASSUME NEW k \in DOMAIN m.data
        PROVE  KeyOf[m.data[k].conn] = k /\ pc'[m.data[k].conn] \in hold
    <3> DEFINE d == ntripMap.data[k].conn
    <3>1. KeyOf[d] = k /\ Holding(d) /\ k # KeyOf[c]
      BY <2>1 DEF MountNotLeaked
    <3>2. d # c /\ d \in Conns
      BY <1>0, <2>1, <3>1, EntryBean
    <3>3. m.data[k].conn = d
      BY <2>1
    <3> HIDE DEF d
    <3>4. pc'[d] \in hold
      BY <1>0, <1>2, <3>1, <3>2 DEF Holding, HandlerTypes
    <3> QED BY <3>1, <3>3, <3>4
  <2> QED BY <1>2, <2>2 DEF MountNotLeaked, Holding, m
<1>3. ASSUME NEW c \in Conns, Register(c)
      PROVE  MountNotLeaked'
  <2>1. CASE MountAbsent(ntripMap, KeyOf[c], Bean(c))
    <3> DEFINE m == SetIfMountAbsent(ntripMap, KeyOf[c], Bean(c))
    <3>1. /\ DOMAIN m.data = DOMAIN ntripMap.data \cup {KeyOf[c]}
          /\ m.data[KeyOf[c]] = Bean(c)
          /\ \A k \in DOMAIN ntripMap.data \ {KeyOf[c]} : m.data[k] = ntripMap.data[k]
      BY <1>0, <2>1, EntrySteps
    <3>2. ntripMap' = m /\ pc[c] = "register" /\ pc' = [pc EXCEPT ![c] = "respond"]
      BY <1>3, <2>1 DEF Register, Step
    <3> HIDE DEF m
    <3>3. ASSUME NEW k \in DOMAIN m.data
          PROVE  KeyOf[m.data[k].conn] = k /\ pc'[m.data[k].conn] \in hold
      <4>1. CASE k = KeyOf[c]
        BY <1>0, <3>1, <3>2, <4>1, BeanFacts DEF Holding, HandlerTypes
      <4>2. CASE k # KeyOf[c]
        <5> DEFINE d == ntripMap.data[k].conn
        <5>1. KeyOf[d] = k /\ Holding(d) /\ d \in Conns /\ m.data[k].conn = d
          BY <1>0, <3>1, <4>2, EntryBean DEF MountNotLeaked
        <5> HIDE DEF d
        <5>2. pc'[d] \in hold
          BY <1>0, <3>2, <5>1 DEF Holding, HandlerTypes
        <5> QED BY <5>1, <5>2
      <4> QED BY <4>1, <4>2
    <3> QED BY <3>2, <3>3 DEF MountNotLeaked, Holding
  <2>2. CASE ~MountAbsent(ntripMap, KeyOf[c], Bean(c))
    <3>1. ntripMap' = ntripMap /\ pc' = [pc EXCEPT ![c] = "release"]
      BY <1>3, <2>2 DEF Register, Step, SetIfMountAbsent
    <3> QED BY <1>0, <1>1, <3>1 DEF Holding, HandlerTypes
  <2> QED BY <2>1, <2>2
<1>4. ASSUME NEW c \in Conns, NEW from, NEW to, Step(c, from, to), ntripMap' = ntripMap,
             \/ to \in {"stream", "count", "release", "unmap"}
             \/ from \in {"none", "header", "unstat", "hangup"}
      PROVE  MountNotLeaked'
  BY <1>0, <1>1, <1>4 DEF Holding, Step, HandlerTypes
<1>5. ASSUME NEW c \in Conns, RespondFails(c)
      PROVE  MountNotLeaked'
  BY <1>2, <1>5 DEF RespondFails, Withdrawn, Step
<1>6. ASSUME NEW c \in Conns, NEW to, Unmap(c, to)
      PROVE  MountNotLeaked'
  BY <1>2, <1>6 DEF Unmap, Step
<1>7. ASSUME NEW c \in Conns, Handler(c)
      PROVE  MountNotLeaked'
  BY <1>3, <1>4, <1>5, <1>6, <1>7
  DEF Handler, RequestAuthorized, RespondOK, ReadData, CountData, Unstat,
      CleanUp, HandlerEnds, SideRelease, Hangup, AfterRelease
<1>8. ASSUME NEW u \in Callers, StopClear(u)
      PROVE  MountNotLeaked'
  BY <1>8 DEF StopClear, NewSafeNtripMap, EmptyFcn, MountNotLeaked
<1>9. ASSUME NEW g \in Gens, NEW c \in Conns, SideAdmit(g, c)
      PROVE  MountNotLeaked'
  BY <1>4, <1>9 DEF SideAdmit
<1>10. CASE UNCHANGED <<ntripMap, handlerVars>>
  BY <1>1, <1>10 DEF handlerVars, Holding
<1> QED BY <1>7, <1>8, <1>9, <1>10, ServerSteps

\* No mount point is left occupied by nobody, for every number of sources,
\* callers and restarts (ntrip_caster_server.go:323, 365, 515-522).
THEOREM CasterServerMountNotLeaked == Spec => []MountNotLeaked
<1>1. Init => MountNotLeaked
  BY DEF Init, SideInit, NewSafeNtripMap, EmptyFcn, MountNotLeaked
<1> QED
  BY <1>1, InitServerInv, StepServerInv, StepMountNotLeaked, PTL DEF Spec

---------------------------------------------------------------------------
(* Ownership.                                                              *)

\* CloseAll runs inside a Stop; one that is not interrupted by another
\* caller's Start runs while there is no listener.
Stopping ==
  /\ \A u \in Callers : clearing[u] # "no" => ctl[u] = "close"
  /\ OneCaller => \A u \in Callers : ctl[u] = "close" => ln = 0

\* A CloseAll stays inside its Stop.
LEMMA StepStopping == ServerInv /\ Stopping /\ [Next]_vars => Stopping'
<1> SUFFICES ASSUME ServerInv, Stopping, [Next]_vars PROVE Stopping'
  OBVIOUS
<1>0. /\ ctl \in [Callers -> {"idle", "close", "wait"}]
      /\ clearing \in [Callers -> {"no", "map", "beans"}]
  BY DEF ServerInv, ListenerInv, CallerTypes, ClearTypes
<1>1. CASE UNCHANGED <<ctl, clearing, ln>>
  BY <1>1 DEF Stopping, OneCaller
<1>2. ASSUME NEW u \in Callers, Start(u)
      PROVE  Stopping'
  <2>1. CASE StartBinds(u, TRUE)
    <3>1. UNCHANGED <<ctl, clearing>> /\ ctl[u] = "idle"
      BY <1>2, <2>1
      DEF Start, SideStart, StartRead, StartFails, StartSucceeds, StartBinds,
          startRest, clearVars
    <3> QED BY <3>1 DEF Stopping, OneCaller
  <2>2. CASE UNCHANGED listenerVars
    BY <1>1, <1>2, <2>2
    DEF Start, SideStart, StartRead, StartFails, StartSucceeds, startRest,
        clearVars, listenerVars, runVars
  <2> QED BY <1>2, <2>1, <2>2 DEF Start, SideStart, StartRead, StartFails, StartSucceeds
<1>3. ASSUME NEW u \in Callers, StopBegins(u)
      PROVE  Stopping'
  <2>1. /\ ctl' = [ctl EXCEPT ![u] = "close"] /\ ln' = 0
        /\ clearing' = [clearing EXCEPT ![u] = "map"]
    BY <1>3 DEF StopBegins, SideStop, StopDetach, Ctl, Clearing
  <2> QED BY <1>0, <2>1 DEF Stopping
<1>4. ASSUME NEW u \in Callers, StopStep(u)
      PROVE  Stopping'
  <2>1. CASE StopClear(u) \/ StopCloseBeans(u)
    <3>1. /\ UNCHANGED <<ctl, ln>> /\ clearing[u] # "no"
          /\ \E to : clearing' = [clearing EXCEPT ![u] = to]
      BY <2>1
      DEF StopClear, StopCloseBeans, Clearing, listenerVars, runVars
    <3> QED BY <1>0, <3>1 DEF Stopping, OneCaller
  <2>2. CASE SideStopEnds(u)
    <3>1. /\ clearing[u] = "no" \/ ctl[u] = "wait"
          /\ clearing' = clearing /\ ln' = ln
          /\ \E to \in {"idle", "wait"} : ctl' = [ctl EXCEPT ![u] = to]
      BY <2>2
      DEF SideStopEnds, StopClose, ShutdownReturns, Ctl, waitRest, runVars,
          clearVars
    <3> QED BY <1>0, <3>1 DEF Stopping, OneCaller
  <2> QED BY <1>4, <2>1, <2>2 DEF StopStep
<1>5. ASSUME NEW u \in Callers, ContextExpires(u)
      PROVE  Stopping'
  <2>1. /\ ctl[u] = "wait" /\ ctl' = [ctl EXCEPT ![u] = "idle"]
        /\ clearing' = clearing /\ ln' = ln
    BY <1>5
    DEF ContextExpires, SideShutdownExpires, ShutdownExpires, Ctl, waitRest,
        runVars, clearVars
  <2> QED BY <1>0, <2>1 DEF Stopping, OneCaller
<1>6. ASSUME NEW c \in Conns, Handler(c)
      PROVE  Stopping'
  BY <1>1, <1>6
  DEF Handler, RequestAuthorized, Register, RespondOK, RespondFails, ReadData,
      CountData, Unstat, CleanUp, HandlerEnds, SideRelease, Release, Unmap,
      Hangup, HandlerDone, handlerRest, clearVars, listenerVars, runVars
<1>7. ASSUME NEW g \in Gens, AcceptLoop(g) \/ SpeedTick(g) \/ SpeedEnds(g)
      PROVE  Stopping'
  BY <1>1, <1>7
  DEF AcceptLoop, SideAccepts, SideAdmit, Admit, AcceptStep, Accept, Refuse,
      AcceptClosed, BackoffEnds, acceptRest, SpeedTick, SpeedEnds, LoopEnds,
      sideVars, clearVars, listenerVars, runVars
<1>8. CASE Configure \/ Network \/ UNCHANGED vars
  BY <1>1, <1>8
  DEF Configure, SideConfigure, OnAuth, SetLimits, SetMaxConnections,
      SetMaxConnectionsPerIP, configRest, Network, SideNetwork, AcceptFails,
      Dial, acceptRest, vars, sideVars, clearVars, listenerVars, runVars
<1> QED BY <1>2, <1>3, <1>4, <1>5, <1>6, <1>7, <1>8 DEF Next

\* A step keeps every other connection's entry, and its own while it serves.
LEMMA StepOwnership ==
  ServerInv /\ Stopping /\ ServedSourceOwnsMount /\ [Next]_vars
    => ServedSourceOwnsMount'
<1> SUFFICES ASSUME ServerInv, Stopping, ServedSourceOwnsMount, [Next]_vars,
                    UniqueKeys, OneCaller
             PROVE  \A d \in DOMAIN conns' :
                      pc'[d] \in {"respond", "stream", "count"} =>
                        /\ KeyOf[d] \in DOMAIN ntripMap'.data
                        /\ ntripMap'.data[KeyOf[d]] = Bean(d)
  BY DEF ServedSourceOwnsMount, Serving, UniqueKeys, OneCaller, Bean
<1> DEFINE Owned(d, m) == KeyOf[d] \in DOMAIN m.data /\ m.data[KeyOf[d]] = Bean(d)
           serve == {"respond", "stream", "count"}
           Goal == \A d \in DOMAIN conns' : pc'[d] \in serve => Owned(d, ntripMap')
<1> SUFFICES Goal
  OBVIOUS
<1>0. /\ Good(ntripMap) /\ HandlerTypes
      /\ DOMAIN conns \subseteq Conns /\ DOMAIN conns' \subseteq Conns
  <2>1. ServerInv'
    BY StepServerInv
  <2> QED
    BY <2>1
    DEF ServerInv, ListenerInv, Slots, SlotTypes, IsConns, IsPartialFcn
<1>1. \A d \in DOMAIN conns : pc[d] \in serve => Owned(d, ntripMap)
  BY DEF ServedSourceOwnsMount, Serving
<1>2. ASSUME NEW c \in Conns
      PROVE  /\ \A d \in Conns : d # c /\ Owned(d, ntripMap)
                                => Owned(d, Delete(ntripMap, KeyOf[c]))
             /\ MountAbsent(ntripMap, KeyOf[c], Bean(c)) =>
                  LET m == SetIfMountAbsent(ntripMap, KeyOf[c], Bean(c))
                  IN  Owned(c, m) /\ \A d \in Conns : d # c /\ Owned(d, ntripMap)
                                                     => Owned(d, m)
  <2>1. \A d \in Conns : d # c => KeyOf[d] # KeyOf[c]
    BY DEF UniqueKeys
  <2> QED BY <1>0, <2>1, EntrySteps
<1> HIDE DEF Owned
<1>3. ASSUME DOMAIN conns' \subseteq DOMAIN conns, ntripMap' = ntripMap,
             \A d \in Conns : pc'[d] \in serve => pc[d] \in serve
      PROVE  Goal
  BY <1>0, <1>1, <1>3
<1>4. ASSUME NEW c \in Conns, NEW to, to \notin serve, pc' = [pc EXCEPT ![c] = to],
             DOMAIN conns' \subseteq DOMAIN conns \cup {c},
             ntripMap' \in {ntripMap, Delete(ntripMap, KeyOf[c])}
      PROVE  Goal
  BY <1>0, <1>1, <1>2, <1>4 DEF HandlerTypes
<1>5. ASSUME NEW c \in Conns, Register(c)
      PROVE  Goal
  <2>0. conns' = conns
    BY <1>5 DEF Register, listenerVars, slotVars
  <2>1. CASE MountAbsent(ntripMap, KeyOf[c], Bean(c))
    <3>1. /\ ntripMap' = SetIfMountAbsent(ntripMap, KeyOf[c], Bean(c))
          /\ pc' = [pc EXCEPT ![c] = "respond"]
      BY <1>5, <2>1 DEF Register, Step
    <3> QED BY <1>0, <1>1, <1>2, <2>0, <2>1, <3>1 DEF HandlerTypes
  <2>2. CASE ~MountAbsent(ntripMap, KeyOf[c], Bean(c))
    <3>1. ntripMap' = ntripMap /\ pc' = [pc EXCEPT ![c] = "release"]
      BY <1>5, <2>2 DEF Register, Step, SetIfMountAbsent
    <3> QED BY <1>4, <2>0, <3>1
  <2> QED BY <2>1, <2>2
<1>6. ASSUME NEW c \in Conns, RespondOK(c) \/ ReadData(c) \/ CountData(c)
      PROVE  Goal
  <2>1. /\ conns' = conns /\ ntripMap' = ntripMap /\ pc[c] \in serve
        /\ \E to : pc' = [pc EXCEPT ![c] = to]
    BY <1>6 DEF RespondOK, ReadData, CountData, Step, listenerVars, slotVars
  <2> QED BY <1>0, <1>3, <2>1 DEF HandlerTypes
<1>7. ASSUME NEW c \in Conns, SideRelease(c)
      PROVE  Goal
  <2>1. DOMAIN conns' \subseteq DOMAIN conns
    BY <1>7 DEF SideRelease, Release, Without, slotVars
  <2> QED BY <1>4, <1>7, <2>1 DEF SideRelease, Step, AfterRelease
<1>8. ASSUME NEW c \in Conns, Handler(c)
      PROVE  Goal
  <2>1. ASSUME RequestAuthorized(c) \/ RespondFails(c) \/ Unstat(c) \/ HandlerEnds(c)
        PROVE  Goal
    <3>1. conns' = conns /\ \E to : to \notin serve /\ pc' = [pc EXCEPT ![c] = to]
      BY <2>1
      DEF RequestAuthorized, RespondFails, Unstat, HandlerEnds, Step,
          listenerVars, slotVars
    <3>2. ntripMap' \in {ntripMap, Delete(ntripMap, KeyOf[c])}
      BY <2>1 DEF RequestAuthorized, RespondFails, Withdrawn, Unstat, HandlerEnds
    <3> QED BY <1>4, <3>1, <3>2
  <2>2. ASSUME NEW to \in {"unstat", "hangup"}, Unmap(c, to)
        PROVE  Goal
    BY <1>4, <2>2 DEF Unmap, Step, listenerVars, slotVars
  <2>3. ASSUME Hangup(c, {c})
        PROVE  Goal
    BY <1>4, <2>3 DEF Hangup, HandlerDone, Step, slotVars
  <2> QED BY <1>5, <1>6, <1>7, <1>8, <2>1, <2>2, <2>3 DEF Handler, CleanUp
<1>9. ASSUME NEW g \in Gens, NEW c \in Conns, SideAdmit(g, c)
      PROVE  Goal
  <2>1. DOMAIN conns' = DOMAIN conns \cup {c}
    BY <1>9 DEF SideAdmit, Admit, With
  <2> QED BY <1>4, <1>9, <2>1 DEF SideAdmit, Step
<1>10. ASSUME NEW u \in Callers, StopClear(u)
       PROVE  Goal
  <2>1. conns' = conns /\ clearing[u] = "map"
    BY <1>10 DEF StopClear, Clearing, listenerVars, slotVars
  <2>2. ln = 0
    BY <2>1 DEF Stopping
  <2>3. DOMAIN conns = {}
    BY <2>2, EmptyWhenStopped DEF ServerInv, ListenerInv
  <2> QED BY <2>1, <2>3
<1>11. ASSUME UNCHANGED <<ntripMap, handlerVars>>, conns' \in {conns, EmptyFcn}
       PROVE  Goal
  BY <1>3, <1>11 DEF handlerVars, EmptyFcn
<1> HIDE DEF Goal
<1> QED BY <1>8, <1>9, <1>10, <1>11, ServerSteps

\* A source that the running server serves owns its mount point, for every
\* number of sources and restarts (ntrip_caster_server.go:315-323, 515, 365).
THEOREM CasterServerOwnership == Spec => []ServedSourceOwnsMount
<1>1. Init => Stopping /\ ServedSourceOwnsMount
  <2> SUFFICES ASSUME Init PROVE Stopping /\ ServedSourceOwnsMount
    OBVIOUS
  <2>1. /\ clearing = [u \in Callers |-> "no"] /\ ctl = [u \in Callers |-> "idle"]
        /\ DOMAIN conns = {}
    BY DEF Init, SideInit, ListenerInit, EmptyFcn
  <2> QED BY <2>1 DEF Stopping, ServedSourceOwnsMount
<1> QED
  BY <1>1, InitServerInv, StepServerInv, StepStopping, StepOwnership, PTL
  DEF Spec

---------------------------------------------------------------------------
(* The callbacks.                                                          *)

\* DisconnectAfterConnect with what makes it inductive: a bean is in a
\* handler's hand only between Delete and onDisconnect, and a handler that
\* is past its answer has an entry only if onConnect ran.
Reporting ==
  UniqueKeys =>
    \A c \in Conns :
      /\ removed[c] # NoBean =>
           /\ removed[c] = Bean(c) /\ told[c] = "connect"
           /\ pc[c] \in {"unstat", "hangup"}
      /\ /\ KeyOf[c] \in DOMAIN ntripMap.data
         /\ pc[c] \in {"stream", "count", "release", "unmap"}
         => told[c] = "connect"

\* A handler takes its own bean out, and only after it has told of it.
LEMMA StepReporting ==
  ServerInv /\ MountNotLeaked /\ Reporting /\ [Next]_vars => Reporting'
<1> DEFINE past == {"stream", "count", "release", "unmap"}
           Fine(d, p, r, t, m) ==
             /\ r # NoBean => /\ r = Bean(d) /\ t = "connect"
                              /\ p \in {"unstat", "hangup"}
             /\ KeyOf[d] \in DOMAIN m.data /\ p \in past => t = "connect"
           Goal == \A d \in Conns : Fine(d, pc'[d], removed'[d], told'[d], ntripMap')
<1> SUFFICES ASSUME ServerInv, MountNotLeaked, Reporting, [Next]_vars, UniqueKeys
             PROVE  Goal
  BY DEF Reporting, UniqueKeys, Bean
<1>0. Good(ntripMap) /\ HandlerTypes
  BY DEF ServerInv
<1>1. \A d \in Conns : Fine(d, pc[d], removed[d], told[d], ntripMap)
  BY DEF Reporting
<1>2. ASSUME NEW d \in Conns, KeyOf[d] \in DOMAIN ntripMap.data
      PROVE  ntripMap.data[KeyOf[d]] = Bean(d) /\ Holding(d)
  <2> DEFINE e == ntripMap.data[KeyOf[d]].conn
  <2>1. KeyOf[e] = KeyOf[d] /\ Holding(e) /\ e \in Conns
        /\ ntripMap.data[KeyOf[d]] = Bean(e)
    BY <1>0, <1>2, EntryBean DEF MountNotLeaked
  <2> HIDE DEF e
  <2> QED BY <2>1 DEF UniqueKeys
<1>4. ASSUME NEW c \in Conns, NEW to, pc' = [pc EXCEPT ![c] = to],
             UNCHANGED <<removed, told, ntripMap>>,
             removed[c] # NoBean => to \in {"unstat", "hangup"},
             KeyOf[c] \in DOMAIN ntripMap.data /\ to \in past => told[c] = "connect"
      PROVE  Goal
  BY <1>0, <1>1, <1>4 DEF HandlerTypes
<1>5. ASSUME NEW c \in Conns, Register(c)
      PROVE  Goal
  <2>1. pc[c] = "register" /\ UNCHANGED <<removed, told>>
    BY <1>5 DEF Register, Step
  <2>2. KeyOf[c] \notin DOMAIN ntripMap.data /\ removed[c] = NoBean
    BY <1>1, <1>2, <2>1 DEF Holding
  <2>3. CASE MountAbsent(ntripMap, KeyOf[c], Bean(c))
    <3> DEFINE m == SetIfMountAbsent(ntripMap, KeyOf[c], Bean(c))
    <3>1. DOMAIN m.data = DOMAIN ntripMap.data \cup {KeyOf[c]}
      BY <1>0, <2>3, EntrySteps
    <3>2. ntripMap' = m /\ pc' = [pc EXCEPT ![c] = "respond"]
      BY <1>5, <2>3 DEF Register, Step
    <3> HIDE DEF m
    <3>3. \A d \in Conns \ {c} : KeyOf[d] # KeyOf[c]
      BY DEF UniqueKeys
    <3> QED BY <1>0, <1>1, <2>1, <2>2, <3>1, <3>2, <3>3 DEF HandlerTypes
  <2>4. CASE ~MountAbsent(ntripMap, KeyOf[c], Bean(c))
    <3>1. ntripMap' = ntripMap /\ pc' = [pc EXCEPT ![c] = "release"]
      BY <1>5, <2>4 DEF Register, Step, SetIfMountAbsent
    <3> QED BY <1>4, <2>1, <2>2, <3>1
  <2> QED BY <2>3, <2>4
<1>6. ASSUME NEW c \in Conns, RespondOK(c)
      PROVE  Goal
  <2>1. /\ pc[c] = "respond" /\ UNCHANGED <<removed, ntripMap>>
        /\ told' = [told EXCEPT ![c] = "connect"]
        /\ \E to \in past : pc' = [pc EXCEPT ![c] = to]
    BY <1>6 DEF RespondOK, Step
  <2> QED BY <1>0, <1>1, <2>1 DEF HandlerTypes
<1>7. ASSUME NEW c \in Conns, RespondFails(c)
      PROVE  Goal
  <2> DEFINE m == Delete(ntripMap, KeyOf[c])
  <2>1. DOMAIN m.data = DOMAIN ntripMap.data \ {KeyOf[c]}
    BY <1>0, EntrySteps
  <2>2. /\ pc[c] = "respond" /\ UNCHANGED <<removed, told>> /\ ntripMap' = m
        /\ pc' = [pc EXCEPT ![c] = "release"]
    BY <1>7 DEF RespondFails, Withdrawn, Step
  <2> HIDE DEF m
  <2> QED BY <1>0, <1>1, <2>1, <2>2 DEF HandlerTypes
<1>8. ASSUME NEW c \in Conns, NEW to,
             to = IF Deleted(ntripMap, KeyOf[c]) # NoBean THEN "unstat" ELSE "hangup",
             Unmap(c, to)
      PROVE  Goal
  <2> DEFINE m == Delete(ntripMap, KeyOf[c])
             r == Deleted(ntripMap, KeyOf[c])
  <2>1. DOMAIN m.data = DOMAIN ntripMap.data \ {KeyOf[c]}
    BY <1>0, EntrySteps
  <2>2. /\ pc[c] = "unmap" /\ told' = told /\ ntripMap' = m
        /\ removed' = [removed EXCEPT ![c] = r] /\ pc' = [pc EXCEPT ![c] = to]
    BY <1>8 DEF Unmap, Step
  <2>3. to \in {"unstat", "hangup"}
    BY <1>8
  <2>4. r # NoBean => r = Bean(c) /\ told[c] = "connect"
    <3>1. ASSUME r # NoBean PROVE KeyOf[c] \in DOMAIN ntripMap.data
      BY <3>1 DEF Deleted
    <3>2. KeyOf[c] \in DOMAIN ntripMap.data => r = ntripMap.data[KeyOf[c]]
      BY DEF Deleted
    <3> QED BY <1>1, <1>2, <2>2, <3>1, <3>2
  <2> HIDE DEF m, r
  <2> QED BY <1>0, <1>1, <2>1, <2>2, <2>3, <2>4 DEF HandlerTypes
<1>9. ASSUME NEW c \in Conns, Hangup(c, {c})
      PROVE  Goal
  <2>1. /\ pc' = [pc EXCEPT ![c] = "none"] /\ ntripMap' = ntripMap
        /\ told' = told \/ told' = [told EXCEPT ![c] = "disconnect"]
        /\ removed' = [removed EXCEPT ![c] = NoBean]
    BY <1>9 DEF Hangup, Step
  <2> QED BY <1>0, <1>1, <2>1 DEF HandlerTypes
<1>10. ASSUME NEW c \in Conns,
              RequestAuthorized(c) \/ ReadData(c) \/ CountData(c) \/ Unstat(c)
                \/ HandlerEnds(c) \/ SideRelease(c)
       PROVE  Goal
  <2>1. /\ UNCHANGED <<removed, told, ntripMap>>
        /\ \E to : /\ pc' = [pc EXCEPT ![c] = to]
                  /\ \/ pc[c] = "header" /\ to \in {"register", "release"}
                     \/ pc[c] \in past /\ to \in past
                     \/ pc[c] = "unstat" /\ to = "hangup"
    BY <1>10
    DEF RequestAuthorized, ReadData, CountData, Unstat, HandlerEnds,
        SideRelease, AfterRelease, Step
  <2>2. pc[c] = "header" => KeyOf[c] \notin DOMAIN ntripMap.data
    BY <1>2 DEF Holding
  <2>3. removed[c] # NoBean => pc[c] \in {"unstat", "hangup"}
    BY <1>1
  <2>4. KeyOf[c] \in DOMAIN ntripMap.data /\ pc[c] \in past => told[c] = "connect"
    BY <1>1
  <2> QED BY <1>4, <2>1, <2>2, <2>3, <2>4
<1>11. ASSUME NEW c \in Conns, Handler(c)
       PROVE  Goal
  <2> HIDE DEF Goal
  <2> QED
    BY <1>5, <1>6, <1>7, <1>8, <1>9, <1>10, <1>11 DEF Handler, CleanUp
<1>12. ASSUME NEW g \in Gens, NEW c \in Conns, SideAdmit(g, c)
       PROVE  Goal
  <2>1. /\ pc[c] = "none" /\ pc' = [pc EXCEPT ![c] = "header"]
        /\ UNCHANGED <<removed, told, ntripMap>>
    BY <1>12 DEF SideAdmit, Step
  <2> QED BY <1>1, <1>4, <2>1
<1>13. ASSUME NEW u \in Callers, StopClear(u)
       PROVE  Goal
  <2>1. UNCHANGED <<pc, removed, told>> /\ DOMAIN ntripMap'.data = {}
    BY <1>13 DEF StopClear, NewSafeNtripMap, EmptyFcn, handlerVars
  <2> QED BY <1>1, <2>1
<1>14. ASSUME UNCHANGED <<ntripMap, handlerVars>>
       PROVE  Goal
  BY <1>1, <1>14 DEF handlerVars
<1> HIDE DEF Goal
<1> QED BY <1>11, <1>12, <1>13, <1>14, ServerSteps

\* The disconnect callback reports the handler's own source, and only after
\* the connect callback, for every number of sources and restarts
\* (ntrip_caster_server.go:365-373, 410-413, 519-522).
THEOREM CasterServerDisconnect == Spec => []DisconnectAfterConnect
<1>1. Init => MountNotLeaked /\ Reporting
  BY DEF Init, SideInit, NewSafeNtripMap, EmptyFcn, MountNotLeaked, Reporting
<1>2. Reporting => DisconnectAfterConnect
  BY DEF Reporting, DisconnectAfterConnect
<1> QED
  BY <1>1, <1>2, InitServerInv, StepServerInv, StepMountNotLeaked,
     StepReporting, PTL
  DEF Spec

---------------------------------------------------------------------------
(* The side of the subscribers: types and the listener.                    *)

ClientHandlerTypes ==
  /\ pc \in [Conns -> ClientSteps \cup {"none"}]
  /\ removed \in [Conns -> Beans \cup {NoBean}]
  /\ told \in [Conns -> {"nothing", "connect", "disconnect"}]

BeanTypes ==
  /\ writer \in [Conns -> {"none", "run", "gone"}]
  /\ beanClosed \in [Conns -> BOOLEAN]

\* A handler closes connections of the listener: its own, or that of the bean
\* it took out (ntrip_caster_client.go:356-365).
LEMMA HungUpAreConns ==
  ASSUME ClientHandlerTypes, NEW c \in Conns
  PROVE  ConnsHungUp(c) \in SUBSET Conns
<1>1. removed[c] # NoBean => removed[c].conn \in Conns
  BY BeanFacts DEF ClientHandlerTypes
<1> QED BY <1>1 DEF ConnsHungUp

\* Every step of the subscriber side is a step of its listener; the writers
\* of the beans only close sockets (ntrip_map.go:52-55).
LEMMA ClientStepOfListener ==
  ClearTypes /\ ClientHandlerTypes /\ [ClientNext]_clientVars
    => [ListenerStep]_listenerVars
<1> SUFFICES ASSUME ClearTypes, ClientHandlerTypes, [ClientNext]_clientVars
             PROVE  ListenerStep \/ UNCHANGED listenerVars
  OBVIOUS
<1>1. CASE ClientConfigure
  BY <1>1 DEF ClientConfigure, SideConfigure, OnAuth, ListenerStep
<1>2. ASSUME NEW u \in Callers, ClientStart(u)
      PROVE  ListenerStep \/ UNCHANGED listenerVars
  BY <1>2
  DEF ClientStart, SideStart, StartRead, StartFails, StartSucceeds, ListenerStep
<1>3. CASE ClientNetwork
  BY <1>3 DEF ClientNetwork, SideNetwork, ListenerStep
<1>4. ASSUME NEW g \in Gens, ClientAcceptLoop(g)
      PROVE  ListenerStep \/ UNCHANGED listenerVars
  BY <1>4 DEF ClientAcceptLoop, SideAccepts, SideAdmit, ListenerStep
<1>5. ASSUME NEW u \in Callers, StopCloseBeans(u)
      PROVE  SocketStep
  <2>1. {b.conn : b \in myBeans[u]} \in SUBSET Conns
    BY BeanFacts DEF ClearTypes
  <2> QED BY <1>5, <2>1 DEF StopCloseBeans, SocketStep
<1>6. ASSUME NEW u \in Callers,
             ClientStopBegins(u) \/ ClientStopStep(u) \/ ClientContextExpires(u)
      PROVE  ListenerStep \/ UNCHANGED listenerVars
  BY <1>5, <1>6
  DEF ClientStopBegins, SideStop, ClientStopStep, StopClear, SideStopEnds,
      ClientContextExpires, SideShutdownExpires, ListenerStep
<1>7. ASSUME NEW c \in Conns, ClientHandler(c)
      PROVE  ListenerStep \/ UNCHANGED listenerVars
  BY <1>7, HungUpAreConns
  DEF ClientHandler, ClientAuthorized, ClientRespondOK, ClientRespondFails,
      ClientRegister, ClientCleanUp, HandlerEnds, SideRelease, Unmap, Hangup,
      ListenerStep
<1>8. ASSUME NEW c \in Conns, WriterQuits(c) \/ WriterFails(c)
      PROVE  SocketStep
  <2>1. {c} \in SUBSET Conns
    OBVIOUS
  <2> QED BY <1>8, <2>1 DEF WriterQuits, WriterFails, writerRest, SocketStep
<1> QED
  BY <1>1, <1>2, <1>3, <1>4, <1>6, <1>7, <1>8
  DEF ClientNext, clientVars, sideVars, ListenerStep

\* The steps of the subscriber side that do more than a listener does: the
\* handlers, CloseAll, and the writers of the beans.
LEMMA ClientStepKinds ==
  ASSUME [ClientNext]_clientVars
  PROVE  \/ UNCHANGED <<ntripMap, clearVars, handlerVars, beanVars>>
         \/ \E u \in Callers : /\ Clearing(u, "no", "map")
                               /\ UNCHANGED <<ntripMap, myBeans, handlerVars, beanVars>>
         \/ \E u \in Callers : StopClear(u) /\ UNCHANGED beanVars
         \/ \E u \in Callers :
              /\ StopCloseBeans(u) /\ CloseBeans({b.conn : b \in myBeans[u]})
              /\ UNCHANGED writer
         \/ \E g \in Gens, c \in Conns : SideAdmit(g, c) /\ UNCHANGED beanVars
         \/ \E c \in Conns : ClientHandler(c) \/ WriterQuits(c) \/ WriterFails(c)
<1>1. ASSUME ClientConfigure \/ ClientNetwork \/ UNCHANGED clientVars
      PROVE  UNCHANGED <<ntripMap, clearVars, handlerVars, beanVars>>
  BY <1>1
  DEF ClientConfigure, SideConfigure, OnAuth, ClientNetwork, SideNetwork,
      clientVars, sideVars
<1>2. ASSUME NEW u \in Callers, ClientStart(u) \/ ClientContextExpires(u)
      PROVE  UNCHANGED <<ntripMap, clearVars, handlerVars, beanVars>>
  BY <1>2
  DEF ClientStart, SideStart, StartRead, StartFails, StartSucceeds, startRest,
      ClientContextExpires, SideShutdownExpires
<1>3. ASSUME NEW u \in Callers, SideStopEnds(u), UNCHANGED beanVars
      PROVE  UNCHANGED <<ntripMap, clearVars, handlerVars, beanVars>>
  BY <1>3 DEF SideStopEnds
<1>4. ASSUME NEW u \in Callers, ClientStopBegins(u)
      PROVE  /\ Clearing(u, "no", "map")
             /\ UNCHANGED <<ntripMap, myBeans, handlerVars, beanVars>>
  BY <1>4 DEF ClientStopBegins, SideStop
<1>5. ASSUME NEW g \in Gens, ClientAcceptLoop(g)
      PROVE  \/ UNCHANGED <<ntripMap, clearVars, handlerVars, beanVars>>
             \/ \E c \in Conns : SideAdmit(g, c) /\ UNCHANGED beanVars
  BY <1>5 DEF ClientAcceptLoop, SideAccepts
<1> QED
  BY <1>1, <1>2, <1>3, <1>4, <1>5 DEF ClientNext, ClientStopStep

\* OnAuth sets the callback, and a Start reads it before it takes mu: nothing
\* else touches the two.
LEMMA ClientStepAuthTypes == AuthTypes /\ [ClientNext]_clientVars => AuthTypes'
<1> SUFFICES ASSUME AuthTypes, [ClientNext]_clientVars PROVE AuthTypes'
  OBVIOUS
<1>1. CASE UNCHANGED authVars
  BY <1>1 DEF AuthTypes, authVars
<1>2. ASSUME NEW f \in AuthSettings, OnAuth(f)
      PROVE  AuthTypes'
  BY <1>2, CasterSideAssumption DEF OnAuth, AuthTypes
<1>3. ASSUME NEW u \in Callers, NEW to \in {"no", "nil", "auth"},
             starting' = [starting EXCEPT ![u] = to], onAuth' = onAuth
      PROVE  AuthTypes'
  BY <1>3 DEF AuthTypes
<1>4. ASSUME NEW u \in Callers, ClientStart(u)
      PROVE  AuthTypes'
  BY <1>3, <1>4
  DEF ClientStart, SideStart, StartRead, StartFails, StartSucceeds, startRest
<1>5. CASE ClientConfigure
  BY <1>1, <1>2, <1>5 DEF ClientConfigure, SideConfigure
<1> QED
  BY <1>1, <1>4, <1>5
  DEF ClientNext, clientVars, sideVars, ClientNetwork, SideNetwork,
      ClientAcceptLoop, SideAccepts, SideAdmit, ClientStopBegins, SideStop,
      ClientStopStep, StopClear, StopCloseBeans, SideStopEnds,
      ClientContextExpires, SideShutdownExpires, ClientHandler,
      ClientAuthorized, ClientRespondOK, ClientRespondFails, ClientRegister,
      ClientCleanUp, HandlerEnds, SideRelease, Unmap, Hangup, handlerRest,
      WriterQuits, WriterFails, writerRest

\* A CloseAll takes beans from the map and closes them one by one.
LEMMA ClientStepClearTypes ==
  Good(ntripMap) /\ ClearTypes /\ [ClientNext]_clientVars => ClearTypes'
<1> SUFFICES ASSUME Good(ntripMap), ClearTypes, [ClientNext]_clientVars
             PROVE  ClearTypes'
  OBVIOUS
<1>1. CASE UNCHANGED clearVars
  BY <1>1 DEF ClearTypes, clearVars
<1>2. ASSUME NEW u \in Callers, NEW to \in {"map", "beans", "no"},
             clearing' = [clearing EXCEPT ![u] = to],
             \/ myBeans' = myBeans
             \/ \E bs \in SUBSET Beans : myBeans' = [myBeans EXCEPT ![u] = bs]
      PROVE  ClearTypes'
  BY <1>2 DEF ClearTypes
<1>3. ASSUME NEW u \in Callers, StopClear(u) \/ StopCloseBeans(u)
      PROVE  ClearTypes'
  BY <1>2, <1>3, TakenOut DEF StopClear, StopCloseBeans, Clearing
<1>4. ASSUME NEW c \in Conns, ClientHandler(c) \/ WriterQuits(c) \/ WriterFails(c)
      PROVE  UNCHANGED clearVars
  BY <1>4
  DEF ClientHandler, ClientAuthorized, ClientRespondOK, ClientRespondFails,
      ClientRegister, ClientCleanUp, HandlerEnds, SideRelease, Unmap, Hangup,
      handlerRest, WriterQuits, WriterFails, writerRest
<1>5. ASSUME NEW g \in Gens, NEW c \in Conns, SideAdmit(g, c)
      PROVE  UNCHANGED clearVars
  BY <1>5 DEF SideAdmit
<1>6. ASSUME NEW u \in Callers, Clearing(u, "no", "map"), UNCHANGED myBeans
      PROVE  ClearTypes'
  BY <1>2, <1>6 DEF Clearing
<1> QED BY <1>1, <1>3, <1>4, <1>5, <1>6, ClientStepKinds

\* The handlers and the beans keep their types.
LEMMA ClientStepHandlerTypes ==
  /\ Good(ntripMap) /\ ClientHandlerTypes /\ BeanTypes /\ [ClientNext]_clientVars
  => ClientHandlerTypes' /\ BeanTypes'
<1> SUFFICES ASSUME Good(ntripMap), ClientHandlerTypes, BeanTypes,
                    [ClientNext]_clientVars
             PROVE  ClientHandlerTypes' /\ BeanTypes'
  OBVIOUS
<1>1. ASSUME UNCHANGED handlerVars
      PROVE  ClientHandlerTypes'
  BY <1>1 DEF ClientHandlerTypes, handlerVars
<1>2. ASSUME NEW c \in Conns, NEW to \in ClientSteps \cup {"none"},
             pc' = [pc EXCEPT ![c] = to],
             \/ removed' = removed
             \/ \E b \in Beans \cup {NoBean} : removed' = [removed EXCEPT ![c] = b],
             \/ told' = told
             \/ \E t \in {"connect", "disconnect"} : told' = [told EXCEPT ![c] = t]
      PROVE  ClientHandlerTypes'
  BY <1>2 DEF ClientHandlerTypes
<1>3. ASSUME NEW g \in Gens, NEW c \in Conns, SideAdmit(g, c)
      PROVE  ClientHandlerTypes'
  BY <1>2, <1>3 DEF SideAdmit, Step, ClientSteps
<1>4. ASSUME NEW c \in Conns, ClientHandler(c)
      PROVE  ClientHandlerTypes'
  <2>1. \E to \in ClientSteps \cup {"none"} : pc' = [pc EXCEPT ![c] = to]
    BY <1>4
    DEF ClientHandler, ClientAuthorized, ClientRespondOK, ClientRespondFails,
        ClientRegister, ClientCleanUp, HandlerEnds, SideRelease, Unmap, Hangup,
        Step, AfterRelease, ClientSteps
  <2>2. \/ removed' = removed
        \/ \E b \in Beans \cup {NoBean} : removed' = [removed EXCEPT ![c] = b]
    BY <1>4, TakenOut
    DEF ClientHandler, ClientAuthorized, ClientRespondOK, ClientRespondFails,
        ClientRegister, ClientCleanUp, HandlerEnds, SideRelease, Unmap, Hangup
  <2>3. \/ told' = told
        \/ \E t \in {"connect", "disconnect"} : told' = [told EXCEPT ![c] = t]
    BY <1>4
    DEF ClientHandler, ClientAuthorized, ClientRespondOK, ClientRespondFails,
        ClientRegister, ClientCleanUp, HandlerEnds, SideRelease, Unmap, Hangup
  <2> QED BY <1>2, <2>1, <2>2, <2>3
<1>5. ASSUME \/ writer' = writer
             \/ \E c \in Conns, w \in {"run", "gone"} : writer' = [writer EXCEPT ![c] = w],
             beanClosed' = beanClosed \/ \E cs : CloseBeans(cs)
      PROVE  BeanTypes'
  <2>1. writer' \in [Conns -> {"none", "run", "gone"}]
    BY <1>5 DEF BeanTypes
  <2>2. beanClosed' \in [Conns -> BOOLEAN]
    BY <1>5, Zenon DEF BeanTypes, CloseBeans
  <2> QED BY <2>1, <2>2 DEF BeanTypes
<1>6. ASSUME NEW c \in Conns, ClientHandler(c) \/ WriterQuits(c) \/ WriterFails(c)
      PROVE  BeanTypes'
  BY <1>5, <1>6
  DEF ClientHandler, ClientAuthorized, ClientRespondOK, ClientRespondFails,
      ClientRegister, ClientCleanUp, WriterQuits, WriterFails, beanVars
<1>7. ASSUME NEW c \in Conns, WriterQuits(c) \/ WriterFails(c)
      PROVE  UNCHANGED handlerVars
  BY <1>7 DEF WriterQuits, WriterFails, writerRest
<1>8. ASSUME UNCHANGED beanVars
      PROVE  BeanTypes'
  BY <1>5, <1>8 DEF beanVars
<1>9. ASSUME NEW u \in Callers, StopClear(u) \/ StopCloseBeans(u)
      PROVE  UNCHANGED handlerVars
  BY <1>9 DEF StopClear, StopCloseBeans
<1> QED BY <1>1, <1>3, <1>4, <1>5, <1>6, <1>7, <1>8, <1>9, ClientStepKinds

\* Every change of the map is a critical section of SafeNtripMap.
LEMMA ClientStepMap ==
  Good(ntripMap) /\ [ClientNext]_clientVars => Good(ntripMap')
<1> SUFFICES ASSUME Good(ntripMap), [ClientNext]_clientVars PROVE Good(ntripMap')
  OBVIOUS
<1>1. ASSUME NEW c \in Conns
      PROVE  /\ Good(Delete(ntripMap, KeyOf[c]))
             /\ Good(Set(ntripMap, KeyOf[c], Bean(c)))
  BY BeanFacts, MapSections
<1>2. ASSUME NEW c \in Conns, ClientHandler(c) \/ WriterQuits(c) \/ WriterFails(c)
      PROVE  Good(ntripMap')
  BY <1>1, <1>2
  DEF ClientHandler, ClientAuthorized, ClientRespondOK, ClientRespondFails,
      ClientRegister, ClientCleanUp, HandlerEnds, SideRelease, Unmap, Hangup,
      WriterQuits, WriterFails, writerRest
<1>3. ASSUME NEW u \in Callers, StopClear(u) \/ StopCloseBeans(u)
      PROVE  Good(ntripMap')
  BY <1>3, MapSections DEF StopClear, StopCloseBeans
<1>4. ASSUME NEW g \in Gens, NEW c \in Conns, SideAdmit(g, c)
      PROVE  Good(ntripMap')
  BY <1>4 DEF SideAdmit
<1> QED BY <1>2, <1>3, <1>4, ClientStepKinds

\* Types, the listener's invariant and the map's.
ClientInv ==
  /\ ListenerInv /\ AuthTypes /\ ClearTypes /\ ClientHandlerTypes /\ BeanTypes
  /\ Good(ntripMap)

\* A side that has not been started satisfies the invariant.
LEMMA InitClientInv == ClientInit => ClientInv
<1> SUFFICES ASSUME ClientInit PROVE ClientInv
  OBVIOUS
<1>1. ListenerInv
  BY ListenerInitInv DEF ClientInit, SideInit
<1>2. AuthTypes /\ ClearTypes /\ ClientHandlerTypes
  BY DEF ClientInit, SideInit, AuthTypes, ClearTypes, ClientHandlerTypes
<1>3. BeanTypes
  BY Zenon DEF ClientInit, BeanTypes
<1>4. Good(ntripMap)
  BY MapSections DEF ClientInit, SideInit
<1> QED BY <1>1, <1>2, <1>3, <1>4 DEF ClientInv

\* Every step of the subscriber side keeps the invariant.
LEMMA StepClientInv == ClientInv /\ [ClientNext]_clientVars => ClientInv'
  BY ClientStepOfListener, ListenerStepInv, ClientStepAuthTypes,
     ClientStepClearTypes, ClientStepHandlerTypes, ClientStepMap
  DEF ClientInv, Good

\* Every reachable state has its types, for every number of subscribers,
\* callers and restarts (ntrip_caster_client.go).
THEOREM CasterClientTypes == ClientSpec => []ClientTypeOK
<1>1. ClientInv => ClientTypeOK
  BY ListenerInvImplies
  DEF ClientInv, AuthTypes, ClearTypes, ClientHandlerTypes, BeanTypes, Good,
      ClientTypeOK, SideTypeOK
<1> QED BY <1>1, InitClientInv, StepClientInv, PTL DEF ClientSpec

\* The subscriber side implements the abstract listener: what its handlers
\* and the writers of its beans do is either a step of the listener or no
\* business of it (ntrip_caster_client.go:198-367).
THEOREM CasterClientListens == ClientSpec => ListenerSpec
<1>1. ClientInv /\ [ClientNext]_clientVars => [ListenerStep]_listenerVars
  BY ClientStepOfListener DEF ClientInv
<1>2. ClientInit => ListenerInit
  BY DEF ClientInit, SideInit
<1> QED
  BY <1>1, <1>2, InitClientInv, StepClientInv, PTL DEF ClientSpec, ListenerSpec

\* The slots of the subscriber listener are exact
\* (ntrip_caster_client.go:270-299, 344-355).
THEOREM CasterClientSlotsExact == ClientSpec => []SlotsExact
  BY CasterClientListens, ListenerSlotsExact, PTL

\* A Shutdown of the subscriber listener that returns nil leaves no handler
\* and no accept loop, whatever the writers did meanwhile
\* (ntrip_caster_client.go:330-339).
THEOREM CasterClientShutdownDrains == ClientSpec => ShutdownDrains
  BY CasterClientListens, ListenerShutdownDrains, PTL

---------------------------------------------------------------------------
(* Who closes a bean.                                                      *)

\* Whoever is in the map is there under the address of its own connection,
\* and has a handler that announces it to the application, in the step that
\* enters it, and has still to take it out (ntrip_caster_client.go:356,
\* 398-402).
EntriesServed ==
  \A k \in DOMAIN ntripMap.data :
    LET c == ntripMap.data[k].conn
    IN  /\ KeyOf[c] = k
        /\ pc[c] \in {"stream", "release", "unmap"} /\ told[c] = "connect"

\* Beans are in a handler's hand only between Delete and Close, in that of a
\* Stop only between the two halves of CloseAll, so that neither is dropped
\* for another (ntrip_caster_client.go:356-362, ntrip_map.go:350-367).
InHand ==
  /\ \A c \in Conns : removed[c] # NoBean => pc[c] = "hangup"
  /\ \A u \in Callers : myBeans[u] # {} => clearing[u] = "beans"

\* What Set and Delete do to the beans of the other connections.
LEMMA BeanEntries ==
  ASSUME Good(ntripMap), EntriesServed, UniqueKeys, NEW c \in Conns
  PROVE  /\ LET m == Set(ntripMap, KeyOf[c], Bean(c))
            IN  /\ Bean(c) \in BeansIn(m)
                /\ \A d \in Conns \ {c} : Bean(d) \in BeansIn(ntripMap)
                                          => Bean(d) \in BeansIn(m)
         /\ LET m == Delete(ntripMap, KeyOf[c])
            IN  \A d \in Conns \ {c} : Bean(d) \in BeansIn(ntripMap)
                                       => Bean(d) \in BeansIn(m)
         /\ Bean(c) \in BeansIn(ntripMap) => Deleted(ntripMap, KeyOf[c]) = Bean(c)
<1>1. ASSUME NEW d \in Conns, Bean(d) \in BeansIn(ntripMap)
      PROVE  /\ KeyOf[d] \in DOMAIN ntripMap.data
             /\ ntripMap.data[KeyOf[d]] = Bean(d)
  <2>1. PICK k \in DOMAIN ntripMap.data : ntripMap.data[k] = Bean(d)
    BY <1>1 DEF BeansIn
  <2> QED BY <2>1, BeanFacts DEF EntriesServed
<1>2. \A d \in Conns \ {c} : KeyOf[d] # KeyOf[c]
  BY DEF UniqueKeys
<1>3. Bean(c) # NoBean
  BY BeanFacts
<1> HIDE DEF Bean
<1>4. LET m == Set(ntripMap, KeyOf[c], Bean(c))
      IN  /\ KeyOf[c] \in DOMAIN m.data /\ m.data[KeyOf[c]] = Bean(c)
          /\ \A k \in DOMAIN ntripMap.data \ {KeyOf[c]} :
               k \in DOMAIN m.data /\ m.data[k] = ntripMap.data[k]
  BY <1>3 DEF Set, With
<1>5. LET m == Delete(ntripMap, KeyOf[c])
      IN  \A k \in DOMAIN ntripMap.data \ {KeyOf[c]} :
            k \in DOMAIN m.data /\ m.data[k] = ntripMap.data[k]
  BY DEF Delete, Without
<1> HIDE DEF Set, Delete
<1> QED BY <1>1, <1>2, <1>4, <1>5 DEF BeansIn, Deleted

\* A handler enters its own bean under its own key, and takes out by the same
\* key before it ends.
LEMMA StepEntriesServed ==
  ClientInv /\ EntriesServed /\ [ClientNext]_clientVars => EntriesServed'
<1> DEFINE served == {"stream", "release", "unmap"}
           Fine(k, m, p, t) == /\ KeyOf[m.data[k].conn] = k
                               /\ p[m.data[k].conn] \in served
                               /\ t[m.data[k].conn] = "connect"
           Goal == \A k \in DOMAIN ntripMap'.data : Fine(k, ntripMap', pc', told')
<1> SUFFICES ASSUME ClientInv, EntriesServed, [ClientNext]_clientVars PROVE Goal
  BY DEF EntriesServed
<1>0. /\ Good(ntripMap) /\ ClientHandlerTypes
      /\ \A k \in DOMAIN ntripMap.data : ntripMap.data[k].conn \in Conns
  BY EntryBean DEF ClientInv
<1>1. \A k \in DOMAIN ntripMap.data : Fine(k, ntripMap, pc, told)
  BY DEF EntriesServed
<1>2. CASE UNCHANGED <<ntripMap, handlerVars>>
  BY <1>1, <1>2 DEF handlerVars
<1>3. ASSUME NEW c \in Conns, NEW from, NEW to, Step(c, from, to),
             from \notin served \/ to \in served,
             ntripMap' = ntripMap,
             told' = told \/ (from \notin served /\ \E t : told' = [told EXCEPT ![c] = t])
      PROVE  Goal
  <2>1. ASSUME NEW k \in DOMAIN ntripMap.data
        PROVE  Fine(k, ntripMap', pc', told')
    <3> DEFINE d == ntripMap.data[k].conn
    <3>1. d \in Conns /\ KeyOf[d] = k /\ pc[d] \in served /\ told[d] = "connect"
      BY <1>0, <1>1
    <3>2. ntripMap'.data[k].conn = d
      BY <1>3
    <3> HIDE DEF d
    <3>3. pc'[d] \in served /\ told'[d] = "connect"
      BY <1>0, <1>3, <3>1 DEF Step, ClientHandlerTypes
    <3> QED BY <3>1, <3>2, <3>3
  <2> QED BY <1>3, <2>1
<1>4. ASSUME NEW c \in Conns, ClientRegister(c)
      PROVE  Goal
  <2> DEFINE m == Set(ntripMap, KeyOf[c], Bean(c))
  <2>1. Bean(c).conn = c /\ Bean(c) # NoBean
    BY BeanFacts
  <2>2. /\ DOMAIN m.data = DOMAIN ntripMap.data \cup {KeyOf[c]}
        /\ m.data[KeyOf[c]] = Bean(c)
        /\ \A k \in DOMAIN ntripMap.data \ {KeyOf[c]} : m.data[k] = ntripMap.data[k]
    <3> HIDE DEF Bean
    <3> QED BY <2>1 DEF Set, With
  <2>3. /\ ntripMap' = m /\ pc' = [pc EXCEPT ![c] = "stream"]
        /\ told' = [told EXCEPT ![c] = "connect"]
    BY <1>4 DEF ClientRegister, Step
  <2> HIDE DEF m
  <2>4. Fine(KeyOf[c], m, pc', told')
    BY <1>0, <2>1, <2>2, <2>3 DEF ClientHandlerTypes
  <2>5. ASSUME NEW k \in DOMAIN ntripMap.data \ {KeyOf[c]}
        PROVE  Fine(k, m, pc', told')
    <3> DEFINE d == ntripMap.data[k].conn
    <3>1. d \in Conns /\ KeyOf[d] = k /\ pc[d] \in served /\ told[d] = "connect"
      BY <1>0, <1>1
    <3>2. m.data[k].conn = d
      BY <2>2
    <3> HIDE DEF d
    <3>3. pc'[d] \in served /\ told'[d] = "connect"
      BY <1>0, <2>3, <3>1 DEF ClientHandlerTypes
    <3> QED BY <3>1, <3>2, <3>3
  <2> QED BY <2>2, <2>3, <2>4, <2>5
<1>5. ASSUME NEW c \in Conns, Unmap(c, "hangup")
      PROVE  Goal
  <2> DEFINE m == Delete(ntripMap, KeyOf[c])
  <2>1. /\ DOMAIN m.data = DOMAIN ntripMap.data \ {KeyOf[c]}
        /\ \A k \in DOMAIN m.data : m.data[k] = ntripMap.data[k]
    BY <1>0, EntrySteps
  <2>2. ntripMap' = m /\ pc' = [pc EXCEPT ![c] = "hangup"] /\ told' = told
    BY <1>5 DEF Unmap, Step
  <2> HIDE DEF m
  <2>3. ASSUME NEW k \in DOMAIN m.data
        PROVE  Fine(k, m, pc', told')
    <3> DEFINE d == ntripMap.data[k].conn
    <3>1. /\ d \in Conns /\ KeyOf[d] = k /\ pc[d] \in served /\ told[d] = "connect"
          /\ k # KeyOf[c]
      BY <1>0, <1>1, <2>1
    <3>2. m.data[k].conn = d
      BY <2>1
    <3> HIDE DEF d
    <3>3. pc'[d] \in served /\ told'[d] = "connect"
      BY <1>0, <2>2, <3>1 DEF ClientHandlerTypes
    <3> QED BY <3>1, <3>2, <3>3
  <2> QED BY <2>2, <2>3
<1> HIDE DEF Goal
<1>6. ASSUME NEW c \in Conns, ClientHandler(c)
      PROVE  Goal
  BY <1>3, <1>4, <1>5, <1>6
  DEF ClientHandler, ClientAuthorized, ClientRespondOK, ClientRespondFails,
      ClientCleanUp, HandlerEnds, SideRelease, AfterRelease, Hangup
<1>7. ASSUME NEW c \in Conns, WriterQuits(c) \/ WriterFails(c)
      PROVE  Goal
  BY <1>2, <1>7 DEF WriterQuits, WriterFails, writerRest
<1>8. ASSUME NEW u \in Callers, StopClear(u) \/ StopCloseBeans(u)
      PROVE  Goal
  BY <1>2, <1>8 DEF StopClear, StopCloseBeans, NewSafeNtripMap, EmptyFcn, Goal
<1>9. ASSUME NEW g \in Gens, NEW c \in Conns, SideAdmit(g, c)
      PROVE  Goal
  BY <1>3, <1>9 DEF SideAdmit
<1> QED BY <1>2, <1>6, <1>7, <1>8, <1>9, ClientStepKinds

\* No subscriber is left in the map by its handler, so that no broadcast goes
\* to a connection that nobody serves, for every number of subscribers,
\* callers, restarts and reused addresses (ntrip_caster_client.go:356, 398).
THEOREM CasterClientEntriesServed == ClientSpec => []EntriesServed
<1>1. ClientInit => EntriesServed
  BY DEF ClientInit, SideInit, NewSafeNtripMap, EmptyFcn, EntriesServed
<1> QED
  BY <1>1, InitClientInv, StepClientInv, StepEntriesServed, PTL DEF ClientSpec

\* A handler that finds a bean under its key finds its own, announced.
LEMMA ClientStepDisconnect ==
  /\ ClientInv /\ EntriesServed /\ DisconnectAfterConnect /\ [ClientNext]_clientVars
  => DisconnectAfterConnect'
<1> DEFINE Goal == \A d \in Conns : removed'[d] # NoBean =>
                     removed'[d] = Bean(d) /\ told'[d] = "connect"
<1> SUFFICES ASSUME ClientInv, EntriesServed, DisconnectAfterConnect,
                    [ClientNext]_clientVars, UniqueKeys
             PROVE  Goal
  BY DEF DisconnectAfterConnect, UniqueKeys, Bean
<1>0. Good(ntripMap) /\ ClientHandlerTypes
  BY DEF ClientInv
<1>1. \A d \in Conns : removed[d] # NoBean => removed[d] = Bean(d) /\ told[d] = "connect"
  BY DEF DisconnectAfterConnect
<1>2. CASE UNCHANGED <<removed, told>>
  BY <1>1, <1>2
<1>3. ASSUME NEW c \in Conns, ClientRegister(c)
      PROVE  Goal
  BY <1>0, <1>1, <1>3 DEF ClientRegister, ClientHandlerTypes
<1>4. ASSUME NEW c \in Conns, Unmap(c, "hangup")
      PROVE  Goal
  <2> DEFINE r == Deleted(ntripMap, KeyOf[c])
  <2>1. removed' = [removed EXCEPT ![c] = r] /\ told' = told
    BY <1>4 DEF Unmap
  <2>2. ASSUME KeyOf[c] \in DOMAIN ntripMap.data
        PROVE  r = Bean(c) /\ told[c] = "connect"
    <3> DEFINE e == ntripMap.data[KeyOf[c]].conn
    <3>1. KeyOf[e] = KeyOf[c] /\ told[e] = "connect" /\ e \in Conns
          /\ ntripMap.data[KeyOf[c]] = Bean(e) /\ r = Bean(e)
      BY <1>0, <2>2, EntryBean DEF EntriesServed, Deleted
    <3> HIDE DEF e
    <3> QED BY <3>1 DEF UniqueKeys
  <2>3. KeyOf[c] \notin DOMAIN ntripMap.data => r = NoBean
    BY DEF Deleted
  <2> HIDE DEF r
  <2> QED BY <1>0, <1>1, <2>1, <2>2, <2>3 DEF ClientHandlerTypes
<1>5. ASSUME NEW c \in Conns, Hangup(c, ConnsHungUp(c))
      PROVE  Goal
  <2>1. /\ removed' = [removed EXCEPT ![c] = NoBean]
        /\ told' \in {told, [told EXCEPT ![c] = "disconnect"]}
    BY <1>5 DEF Hangup
  <2> QED BY <1>0, <1>1, <2>1 DEF ClientHandlerTypes
<1> HIDE DEF Goal
<1>6. ASSUME NEW c \in Conns, ClientHandler(c) \/ WriterQuits(c) \/ WriterFails(c)
      PROVE  Goal
  BY <1>2, <1>3, <1>4, <1>5, <1>6
  DEF ClientHandler, ClientAuthorized, ClientRespondOK, ClientRespondFails,
      ClientCleanUp, HandlerEnds, SideRelease, WriterQuits, WriterFails,
      writerRest, handlerVars
<1>7. ASSUME NEW u \in Callers, StopClear(u) \/ StopCloseBeans(u)
      PROVE  Goal
  BY <1>2, <1>7 DEF StopClear, StopCloseBeans, handlerVars
<1>8. ASSUME NEW g \in Gens, NEW c \in Conns, SideAdmit(g, c)
      PROVE  Goal
  BY <1>2, <1>8 DEF SideAdmit
<1> QED BY <1>2, <1>6, <1>7, <1>8, ClientStepKinds DEF handlerVars

\* The disconnect callback reports the handler's own subscriber, and only
\* after the connect callback, for every number of subscribers and restarts
\* (ntrip_caster_client.go:356-361, 398-402).
THEOREM CasterClientDisconnect == ClientSpec => []DisconnectAfterConnect
<1>1. ClientInit => EntriesServed /\ DisconnectAfterConnect
  BY DEF ClientInit, SideInit, NewSafeNtripMap, EmptyFcn, EntriesServed,
         DisconnectAfterConnect
<1> QED
  BY <1>1, InitClientInv, StepClientInv, StepEntriesServed, ClientStepDisconnect,
     PTL
  DEF ClientSpec

\* A handler and a Stop put down what they took before they take again.
LEMMA StepInHand == ClientInv /\ InHand /\ [ClientNext]_clientVars => InHand'
<1> SUFFICES ASSUME ClientInv, InHand, [ClientNext]_clientVars PROVE InHand'
  OBVIOUS
<1>0. ClientHandlerTypes /\ ClearTypes
  BY DEF ClientInv
<1>1. ASSUME UNCHANGED handlerVars
      PROVE  \A c \in Conns : removed'[c] # NoBean => pc'[c] = "hangup"
  BY <1>1 DEF handlerVars, InHand
<1>2. ASSUME UNCHANGED clearVars
      PROVE  \A u \in Callers : myBeans'[u] # {} => clearing'[u] = "beans"
  BY <1>2 DEF clearVars, InHand
<1>3. ASSUME NEW c \in Conns, ClientHandler(c)
      PROVE  InHand'
  <2>1. UNCHANGED clearVars
    BY <1>3
    DEF ClientHandler, ClientAuthorized, ClientRespondOK, ClientRespondFails,
        ClientRegister, ClientCleanUp, HandlerEnds, SideRelease, Unmap, Hangup,
        handlerRest
  <2>2. \E to : /\ pc' = [pc EXCEPT ![c] = to]
                /\ \/ pc[c] # "hangup" /\ removed' = removed
                   \/ to = "hangup" /\ \E r : removed' = [removed EXCEPT ![c] = r]
                   \/ removed' = [removed EXCEPT ![c] = NoBean]
    BY <1>3
    DEF ClientHandler, ClientAuthorized, ClientRespondOK, ClientRespondFails,
        ClientRegister, ClientCleanUp, HandlerEnds, SideRelease, Unmap, Hangup,
        Step
  <2>3. \A d \in Conns : removed'[d] # NoBean => pc'[d] = "hangup"
    BY <1>0, <2>2 DEF InHand, ClientHandlerTypes
  <2> QED BY <1>2, <2>1, <2>3 DEF InHand
<1>4. ASSUME NEW u \in Callers, Clearing(u, "no", "map"),
             UNCHANGED <<myBeans, handlerVars>>
      PROVE  InHand'
  BY <1>0, <1>1, <1>4 DEF Clearing, InHand, ClearTypes
<1>5. ASSUME NEW u \in Callers, StopClear(u) \/ StopCloseBeans(u)
      PROVE  InHand'
  BY <1>0, <1>1, <1>5 DEF StopClear, StopCloseBeans, Clearing, InHand, ClearTypes
<1>6. ASSUME NEW g \in Gens, NEW c \in Conns, SideAdmit(g, c)
      PROVE  InHand'
  BY <1>0, <1>2, <1>6 DEF SideAdmit, Step, InHand, ClientHandlerTypes
<1>7. ASSUME NEW c \in Conns, WriterQuits(c) \/ WriterFails(c)
      PROVE  InHand'
  BY <1>1, <1>2, <1>7 DEF WriterQuits, WriterFails, writerRest, InHand
<1>8. CASE UNCHANGED <<clearVars, handlerVars>>
  BY <1>1, <1>2, <1>8 DEF InHand
<1> QED BY <1>3, <1>4, <1>5, <1>6, <1>7, <1>8, ClientStepKinds

\* An open bean passes from hand to hand until somebody closes it.
LEMMA StepOwner ==
  /\ ClientInv /\ EntriesServed /\ InHand /\ OpenBeanHasOwner /\ [ClientNext]_clientVars
  => OpenBeanHasOwner'
<1> DEFINE Open(d) == writer[d] = "run" /\ ~beanClosed[d]
           Owned(d) == \/ pc[d] = "set"
                       \/ Bean(d) \in BeansIn(ntripMap)
                       \/ removed[d] = Bean(d)
                       \/ \E u \in Callers : Bean(d) \in myBeans[u]
           Kept(d) == Open(d)' => Owned(d)'
           Goal == \A d \in Conns : Kept(d)
<1> SUFFICES ASSUME ClientInv, EntriesServed, InHand, OpenBeanHasOwner,
                    [ClientNext]_clientVars, UniqueKeys
             PROVE  Goal
  BY DEF OpenBeanHasOwner, UniqueKeys
<1>0. Good(ntripMap) /\ ClientHandlerTypes /\ ClearTypes /\ BeanTypes
  BY DEF ClientInv
<1>1. \A d \in Conns : Open(d) => Owned(d)
  BY DEF OpenBeanHasOwner
<1>2. ASSUME NEW d \in Conns, Open(d)' => Open(d), UNCHANGED <<ntripMap, myBeans>>,
             removed'[d] = removed[d], pc[d] = "set" => pc'[d] = "set"
      PROVE  Kept(d)
  BY <1>1, <1>2
<1>3. ASSUME NEW cs, CloseBeans(cs), writer' = writer, NEW d \in Conns
      PROVE  (Open(d)' => Open(d)) /\ (d \in cs => ~Open(d)')
  BY <1>3 DEF CloseBeans
<1>4. CASE UNCHANGED <<ntripMap, myBeans, handlerVars, beanVars>>
  BY <1>2, <1>4 DEF handlerVars, beanVars
<1>5. ASSUME NEW c \in Conns, ClientRespondOK(c)
      PROVE  Goal
  <2>1. /\ pc' = [pc EXCEPT ![c] = "set"] /\ writer' = [writer EXCEPT ![c] = "run"]
        /\ UNCHANGED <<ntripMap, myBeans, removed, beanClosed>>
    BY <1>5 DEF ClientRespondOK, Step, handlerRest, clearVars
  <2>2. \A d \in Conns : (Open(d)' => Open(d) \/ d = c) /\ pc'[c] = "set"
                         /\ (d # c => pc'[d] = pc[d])
    BY <1>0, <2>1 DEF ClientHandlerTypes, BeanTypes
  <2> QED BY <1>2, <2>1, <2>2
<1>6. ASSUME NEW c \in Conns, ClientRegister(c)
      PROVE  Goal
  <2>1. /\ pc' = [pc EXCEPT ![c] = "stream"]
        /\ ntripMap' = Set(ntripMap, KeyOf[c], Bean(c))
        /\ UNCHANGED <<myBeans, removed, beanClosed, writer>>
    BY <1>6 DEF ClientRegister, Step, handlerRest, clearVars, beanVars
  <2>2. Bean(c) \in BeansIn(ntripMap')
    BY <1>0, <2>1, BeanEntries
  <2>3. ASSUME NEW d \in Conns \ {c}, Bean(d) \in BeansIn(ntripMap)
        PROVE  Bean(d) \in BeansIn(ntripMap')
    BY <1>0, <2>1, <2>3, BeanEntries
  <2>4. \A d \in Conns \ {c} : pc'[d] = pc[d]
    BY <1>0, <2>1 DEF ClientHandlerTypes
  <2> QED BY <1>1, <2>1, <2>2, <2>3, <2>4
<1>7. ASSUME NEW c \in Conns, Unmap(c, "hangup"), UNCHANGED beanVars
      PROVE  Goal
  <2>1. /\ pc[c] = "unmap" /\ pc' = [pc EXCEPT ![c] = "hangup"]
        /\ ntripMap' = Delete(ntripMap, KeyOf[c])
        /\ removed' = [removed EXCEPT ![c] = Deleted(ntripMap, KeyOf[c])]
        /\ UNCHANGED <<myBeans, beanClosed, writer>>
    BY <1>7 DEF Unmap, Step, handlerRest, clearVars, beanVars
  <2>2. \A d \in Conns \ {c} : pc'[d] = pc[d] /\ removed'[d] = removed[d]
    BY <1>0, <2>1 DEF ClientHandlerTypes
  <2>3. ASSUME NEW d \in Conns \ {c}, Bean(d) \in BeansIn(ntripMap)
        PROVE  Bean(d) \in BeansIn(ntripMap')
    BY <1>0, <2>1, <2>3, BeanEntries
  <2>4. Bean(c) \in BeansIn(ntripMap) => removed'[c] = Bean(c)
    BY <1>0, <2>1, BeanEntries DEF ClientHandlerTypes
  <2>5. removed[c] # Bean(c)
    BY <2>1, BeanFacts DEF InHand
  <2> QED BY <1>1, <2>1, <2>2, <2>3, <2>4, <2>5
<1>8. ASSUME NEW c \in Conns, Hangup(c, ConnsHungUp(c)), CloseBeans(BeansHungUp(c)),
             UNCHANGED writer
      PROVE  Goal
  <2>1. /\ pc[c] = "hangup" /\ pc' = [pc EXCEPT ![c] = "none"]
        /\ removed' = [removed EXCEPT ![c] = NoBean]
        /\ UNCHANGED <<ntripMap, myBeans>>
    BY <1>8 DEF Hangup, Step, handlerRest, clearVars
  <2>2. \A d \in Conns \ {c} : pc'[d] = pc[d] /\ removed'[d] = removed[d]
    BY <1>0, <2>1 DEF ClientHandlerTypes
  <2>3. removed[c] = Bean(c) => c \in BeansHungUp(c)
    BY BeanFacts DEF BeansHungUp
  <2> QED BY <1>1, <1>2, <1>3, <1>8, <2>1, <2>2, <2>3
<1>9. ASSUME NEW c \in Conns,
             ClientAuthorized(c) \/ ClientRespondFails(c) \/ HandlerEnds(c)
               \/ SideRelease(c),
             UNCHANGED beanVars
      PROVE  Goal
  <2>1. /\ pc[c] # "set" /\ \E to : pc' = [pc EXCEPT ![c] = to]
        /\ UNCHANGED <<ntripMap, myBeans, removed, beanVars>>
    BY <1>9
    DEF ClientAuthorized, ClientRespondFails, HandlerEnds, SideRelease, Step,
        handlerRest, clearVars
  <2>2. \A d \in Conns : pc[d] = "set" => pc'[d] = "set"
    BY <1>0, <2>1 DEF ClientHandlerTypes
  <2> QED BY <1>2, <2>1, <2>2 DEF beanVars
<1>10. ASSUME NEW c \in Conns, WriterQuits(c) \/ WriterFails(c)
       PROVE  Goal
  <2>1. /\ writer' = [writer EXCEPT ![c] = "gone"]
        /\ UNCHANGED <<ntripMap, myBeans, handlerVars>>
    BY <1>10 DEF WriterQuits, WriterFails, writerRest, clearVars
  <2>2. \A d \in Conns : Open(d)' => Open(d)
    BY <1>0, <1>10, <2>1 DEF WriterQuits, WriterFails, CloseBeans, BeanTypes
  <2> QED BY <1>2, <2>1, <2>2 DEF handlerVars
<1>11. ASSUME NEW u \in Callers, StopClear(u), UNCHANGED beanVars
       PROVE  Goal
  <2>1. /\ clearing[u] = "map"
        /\ myBeans' = [myBeans EXCEPT ![u] = BeansIn(ntripMap)]
        /\ UNCHANGED <<handlerVars, beanVars>>
    BY <1>11 DEF StopClear, Clearing
  <2>2. myBeans'[u] = BeansIn(ntripMap) /\ \A v \in Callers \ {u} : myBeans'[v] = myBeans[v]
    BY <1>0, <2>1 DEF ClearTypes
  <2>3. myBeans[u] = {}
    BY <2>1 DEF InHand
  <2> QED BY <1>1, <2>1, <2>2, <2>3 DEF handlerVars, beanVars
<1>12. ASSUME NEW u \in Callers, StopCloseBeans(u),
              CloseBeans({b.conn : b \in myBeans[u]}), UNCHANGED writer
       PROVE  Goal
  <2>1. /\ myBeans' = [myBeans EXCEPT ![u] = {}]
        /\ UNCHANGED <<ntripMap, handlerVars>>
    BY <1>12 DEF StopCloseBeans
  <2>2. \A v \in Callers \ {u} : myBeans'[v] = myBeans[v]
    BY <1>0, <2>1 DEF ClearTypes
  <2>3. \A d \in Conns : Bean(d) \in myBeans[u] => d \in {b.conn : b \in myBeans[u]}
    BY BeanFacts
  <2>4. \A d \in Conns : Open(d)' => Open(d) /\ Bean(d) \notin myBeans[u]
    BY <1>3, <1>12, <2>3
  <2> QED BY <1>1, <2>1, <2>2, <2>4 DEF handlerVars
<1>13. ASSUME NEW g \in Gens, NEW c \in Conns, SideAdmit(g, c), UNCHANGED beanVars
       PROVE  Goal
  <2>1. /\ pc[c] = "none" /\ pc' = [pc EXCEPT ![c] = "header"]
        /\ UNCHANGED <<ntripMap, myBeans, removed, beanVars>>
    BY <1>13 DEF SideAdmit, Step, clearVars
  <2>2. \A d \in Conns : pc[d] = "set" => pc'[d] = "set"
    BY <1>0, <2>1 DEF ClientHandlerTypes
  <2> QED BY <1>2, <2>1, <2>2 DEF beanVars
<1> HIDE DEF Goal
<1>14. ASSUME NEW c \in Conns, ClientHandler(c)
       PROVE  Goal
  BY <1>5, <1>6, <1>7, <1>8, <1>9, <1>14
  DEF ClientHandler, ClientAuthorized, ClientRespondFails, ClientCleanUp
<1> QED
  BY <1>4, <1>10, <1>11, <1>12, <1>13, <1>14, ClientStepKinds DEF clearVars

\* A bean that is not closed has someone who will close it, for every number
\* of subscribers, callers and restarts: a handler that is about to register
\* it, the map, the handler that took it out or the Stop that did
\* (ntrip_caster_client.go:317, 356-362, 398, 463).
THEOREM CasterClientBeanOwned == ClientSpec => []OpenBeanHasOwner
<1>1. ClientInit => EntriesServed /\ InHand /\ OpenBeanHasOwner
  BY DEF ClientInit, SideInit, NewSafeNtripMap, EmptyFcn, EntriesServed, InHand,
         OpenBeanHasOwner
<1> QED
  BY <1>1, InitClientInv, StepClientInv, StepEntriesServed, StepInHand, StepOwner, PTL
  DEF ClientSpec
============================================================================
