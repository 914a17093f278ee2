----------------------------- MODULE CasterSide -----------------------------
(***************************************************************************)
(* What the two sides of the caster, NtripCasterServer for sources and     *)
(* NtripCasterClient for subscribers, have in common beyond the listener:  *)
(* the authentication callback that Start asks for, the table of served    *)
(* connections (ntripMap) and its place in Stop, and the clean-up of a     *)
(* handler.  Written down from ntrip/ntrip_caster_client.go.               *)
(*                                                                         *)
(* What comes from the network is a nondeterministic choice: whether a     *)
(* request is well formed, when a read or a write fails.                   *)
(***************************************************************************)
EXTENDS Listener, NtripMapOps

CONSTANTS
  KeyOf,        \* connection -> remote address, the key in the map
  MountOf,      \* connection -> mount point it asks for
  RequireAuth,  \* requireAuth: bound to a non-loopback address
  AuthSettings  \* values given to OnAuth: TRUE a callback, FALSE nil

Bean(c) == [conn |-> c, mount |-> MountOf[c]]

ASSUME CasterSideAssumption ==
  /\ KeyOf \in [Conns -> Keys]
  /\ MountOf \in [Conns -> Mounts]
  /\ RequireAuth \in BOOLEAN
  /\ AuthSettings \subseteq BOOLEAN
  /\ Beans = {Bean(c) : c \in Conns}

VARIABLES
  onAuth,    \* an OnAuth callback is installed
  starting,  \* caller -> what its Start read: "no" Start, "nil", "auth"
  ntripMap,  \* s.ntripMap
  clearing,  \* caller -> where its Stop is in CloseAll: "no", "map", "beans"
  myBeans,   \* caller -> the beans that its CloseAll took out
  pc,        \* connection -> where its handler is
  removed,   \* connection -> the bean its handler took out
  told       \* connection -> callbacks that ran: a history

authVars == <<onAuth, starting>>
clearVars == <<clearing, myBeans>>
handlerVars == <<pc, removed, told>>
sideVars == <<listenerVars, authVars, ntripMap, clearVars, handlerVars>>

SideTypeOK(steps) ==
  /\ ListenerTypeOK
  /\ onAuth \in BOOLEAN /\ starting \in [Callers -> {"no", "nil", "auth"}]
  /\ IsMap(ntripMap)
  /\ clearing \in [Callers -> {"no", "map", "beans"}]
  /\ myBeans \in [Callers -> SUBSET Beans]
  /\ pc \in [Conns -> steps \cup {"none"}]
  /\ removed \in [Conns -> Beans \cup {NoBean}]
  /\ told \in [Conns -> {"nothing", "connect", "disconnect"}]

SideInit ==
  /\ ListenerInit
  /\ onAuth = FALSE /\ starting = [u \in Callers |-> "no"]
  /\ ntripMap = NewSafeNtripMap
  /\ clearing = [u \in Callers |-> "no"]
  /\ myBeans = [u \in Callers |-> {}]
  /\ pc = [c \in Conns |-> "none"]
  /\ removed = [c \in Conns |-> NoBean]
  /\ told = [c \in Conns |-> "nothing"]

---------------------------------------------------------------------------
(* Configuration and Start.                                                *)

OnAuth(f) ==
  /\ onAuth' = f
  /\ UNCHANGED <<listenerVars, starting, ntripMap, clearVars, handlerVars>>

SideConfigure ==
  \/ \E f \in AuthSettings : OnAuth(f)
  \/ SetLimits /\ UNCHANGED <<authVars, ntripMap, clearVars, handlerVars>>

startRest == <<onAuth, ntripMap, clearVars, handlerVars>>

\* Start reads the callbacks before it takes mu.
StartRead(u) ==
  /\ starting[u] = "no" /\ ctl[u] = "idle" /\ starts < MaxStarts
  /\ starting' = [starting EXCEPT ![u] = IF onAuth THEN "auth" ELSE "nil"]
  /\ UNCHANGED <<startRest, listenerVars>>

\* Already started, no callback on an external address, or listen fails.
StartFails(u) ==
  /\ starting[u] # "no" /\ starting' = [starting EXCEPT ![u] = "no"]
  /\ UNCHANGED <<startRest, listenerVars>>

StartSucceeds(u, loop) ==
  /\ StartBinds(u, loop)
  /\ starting[u] = "auth" \/ (starting[u] = "nil" /\ ~RequireAuth)
  /\ starting' = [starting EXCEPT ![u] = "no"]
  /\ UNCHANGED startRest

SideStart(u, loop) == StartRead(u) \/ StartFails(u) \/ StartSucceeds(u, loop)

---------------------------------------------------------------------------
(* acceptLoop.                                                             *)

\* The handler of c is at step from and goes on to step to.
Step(c, from, to) == pc[c] = from /\ pc' = [pc EXCEPT ![c] = to]

SideAdmit(g, c) ==
  /\ Admit(g, c) /\ Step(c, "none", "header")
  /\ UNCHANGED <<authVars, ntripMap, clearVars, removed, told>>

SideAccepts(g) ==
  \/ AcceptStep(g) /\ UNCHANGED <<authVars, ntripMap, clearVars, handlerVars>>
  \/ \E c \in Conns : SideAdmit(g, c)

\* Peers connect, and Accept may fail.
SideNetwork ==
  /\ \E g \in Gens : AcceptFails(g) \/ \E c \in Conns : Dial(c, g)
  /\ UNCHANGED <<authVars, ntripMap, clearVars, handlerVars>>

---------------------------------------------------------------------------
(* handleConn.                                                             *)

handlerRest == <<authVars, clearVars>>

\* The read fails (time-out, the peer hung up, this side closed it), or the
\* request is too long, malformed, names a bad mount or is not authorized.
HandlerEnds(c) ==
  /\ Step(c, "header", "release") \/ Step(c, "stream", "release")
  /\ UNCHANGED <<handlerRest, listenerVars, ntripMap, removed, told>>

\* A clean-up that returns early for a connection that Stop has taken.
AfterReleaseEarly(c) == IF c \in DOMAIN conns THEN "unmap" ELSE "hangup"

AfterRelease(c) == "unmap"

\* The deferred function: the slot is given back.
SideRelease(c) ==
  /\ Release(c) /\ Step(c, "release", AfterRelease(c))
  /\ UNCHANGED <<handlerRest, ntripMap, removed, told>>

\* removed := s.ntripMap.Delete(key), then step to.
Unmap(c, to) ==
  /\ Step(c, "unmap", to)
  /\ ntripMap' = Delete(ntripMap, KeyOf[c])
  /\ removed' = [removed EXCEPT ![c] = Deleted(ntripMap, KeyOf[c])]
  /\ UNCHANGED <<handlerRest, listenerVars, told>>

\* onDisconnect for what was removed; the connections cs are closed.
Hangup(c, cs) ==
  /\ HandlerDone(c, cs) /\ Step(c, "hangup", "none")
  /\ told' = IF removed[c] = NoBean THEN told
             ELSE [told EXCEPT ![c] = "disconnect"]
  /\ removed' = [removed EXCEPT ![c] = NoBean]
  /\ UNCHANGED <<handlerRest, ntripMap>>

---------------------------------------------------------------------------
(* Stop and Shutdown.                                                      *)

Clearing(u, from, to) ==
  clearing[u] = from /\ clearing' = [clearing EXCEPT ![u] = to]

SideStop(u) ==
  /\ starting[u] = "no"
  /\ StopDetach(u) /\ Clearing(u, "no", "map")
  /\ UNCHANGED <<authVars, ntripMap, myBeans, handlerVars>>

\* CloseAll under the mutex of the map.
StopClear(u) ==
  /\ Clearing(u, "map", "beans")
  /\ ntripMap' = NewSafeNtripMap
  /\ myBeans' = [myBeans EXCEPT ![u] = BeansIn(ntripMap)]
  /\ UNCHANGED <<listenerVars, authVars, handlerVars>>

\* CloseAll after the mutex, bean.Close() closing the connection of each bean.
StopCloseBeans(u) ==
  /\ Clearing(u, "beans", "no")
  /\ CloseSockets({b.conn : b \in myBeans[u]})
  /\ myBeans' = [myBeans EXCEPT ![u] = {}]
  /\ UNCHANGED <<runVars, slotVars, limitVars, wg, stage, home, ctl, localVars,
                 authVars, ntripMap, handlerVars>>

\* The rest of Stop, and Shutdown.
SideStopEnds(u) ==
  /\ \/ StopClose(u) /\ clearing[u] = "no"
     \/ ShutdownReturns(u)
  /\ UNCHANGED <<authVars, ntripMap, clearVars, handlerVars>>

SideShutdownExpires(u) ==
  ShutdownExpires(u) /\ UNCHANGED <<authVars, ntripMap, clearVars, handlerVars>>

---------------------------------------------------------------------------
(* Properties.                                                             *)

UniqueKeys == \A c, d \in Conns : KeyOf[c] = KeyOf[d] => c = d

\* The map of a stopped side empties, although handlers may register after
\* CloseAll has run (ntrip_caster_client.go:317, 356, 398,
\* ntrip_caster_server.go:323, 365, 515).
StoppedMapEmpties ==
  OneCaller => []<>(ln # 0 \/ DOMAIN ntripMap.data = {})
============================================================================
