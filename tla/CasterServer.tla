---------------------------- MODULE CasterServer ----------------------------
(***************************************************************************)
(* NtripCasterServer of ntrip/ntrip_caster_server.go: the listener for     *)
(* NTRIP sources, with its table of sources and its statistics.            *)
(*                                                                         *)
(* An action is one critical section (of mu, of statsMu, of the mutex of   *)
(* the map) or one call on a socket, with the code up to the next one.     *)
(* Each operation is the step of CasterSide it consists of, with what it   *)
(* does to the statistics.                                                 *)
(***************************************************************************)
EXTENDS CasterSide

VARIABLE bytesByMount  \* mount -> "bytes counted since the last tick"

vars == <<sideVars, bytesByMount>>

HandlerSteps == {"header", "register", "respond", "stream", "count",
                 "release", "unmap", "unstat", "hangup"}

TypeOK == SideTypeOK(HandlerSteps) /\ IsPartialFcn(bytesByMount, Mounts, BOOLEAN)

Init == SideInit /\ bytesByMount = EmptyFcn

---------------------------------------------------------------------------
(* Configuration, Start, acceptLoop and speedLoop.                         *)

Configure == SideConfigure /\ UNCHANGED bytesByMount

\* With the accept loop, Start begins a speed loop.
Start(u) == SideStart(u, TRUE) /\ UNCHANGED bytesByMount

Network == SideNetwork /\ UNCHANGED bytesByMount

AcceptLoop(g) == SideAccepts(g) /\ UNCHANGED bytesByMount

\* takeMountSpeeds resets every counter and keeps the mount points.
SpeedTick(g) ==
  /\ g \in loops
  /\ bytesByMount' = [mt \in DOMAIN bytesByMount |-> FALSE]
  /\ UNCHANGED sideVars

SpeedEnds(g) ==
  /\ LoopEnds(g)
  /\ UNCHANGED <<authVars, ntripMap, clearVars, handlerVars, bytesByMount>>

---------------------------------------------------------------------------
(* auth and handleConn.                                                    *)

\* A complete request that the callback lets in, or without a callback on
\* loopback the password.
RequestAuthorized(c) ==
  /\ Step(c, "header", "register")
  /\ sockOpen[c]
  /\ onAuth \/ ~RequireAuth
  /\ UNCHANGED <<handlerRest, listenerVars, ntripMap, removed, told, bytesByMount>>

\* SetIfMountAbsent: the bean goes in, or the mount point is taken.
Register(c) ==
  /\ Step(c, "register", IF MountAbsent(ntripMap, KeyOf[c], Bean(c))
                         THEN "respond" ELSE "release")
  /\ ntripMap' = SetIfMountAbsent(ntripMap, KeyOf[c], Bean(c))
  /\ UNCHANGED <<handlerRest, listenerVars, removed, told, bytesByMount>>

\* The answer is written and onConnect runs; bytes that came with the request
\* are processed next.
RespondOK(c) ==
  /\ Step(c, "respond", "stream") \/ Step(c, "respond", "count")
  /\ sockOpen[c]
  /\ told' = [told EXCEPT ![c] = "connect"]
  /\ UNCHANGED <<handlerRest, listenerVars, ntripMap, removed, bytesByMount>>

\* The bean of an unanswered source stays.
WithdrawnNot(c) == ntripMap

\* The map without the bean that could not be answered.
Withdrawn(c) == Delete(ntripMap, KeyOf[c])

RespondFails(c) ==
  /\ Step(c, "respond", "release")
  /\ ntripMap' = Withdrawn(c)
  /\ UNCHANGED <<handlerRest, listenerVars, removed, told, bytesByMount>>

\* A read returns a payload; processSourceData broadcasts it.
ReadData(c) ==
  /\ Step(c, "stream", "count")
  /\ sockOpen[c]
  /\ UNCHANGED <<handlerRest, listenerVars, ntripMap, removed, told, bytesByMount>>

\* The rest of processSourceData: s.bytesByMount[bean.mount] += len(data).
CountData(c) ==
  /\ Step(c, "count", "stream")
  /\ bytesByMount' = With(bytesByMount, MountOf[c], TRUE)
  /\ UNCHANGED <<handlerRest, listenerVars, ntripMap, removed, told>>

Unstat(c) ==
  /\ Step(c, "unstat", "hangup")
  /\ bytesByMount' = Without(bytesByMount, removed[c].mount)
  /\ UNCHANGED <<handlerRest, listenerVars, ntripMap, removed, told>>

\* The read loop ends, or a step of the deferred clean-up.
CleanUp(c) ==
  /\ \/ HandlerEnds(c)
     \/ SideRelease(c)
     \/ Unmap(c, IF Deleted(ntripMap, KeyOf[c]) # NoBean THEN "unstat"
                 ELSE "hangup")
     \/ Hangup(c, {c})
  /\ UNCHANGED bytesByMount

Handler(c) ==
  \/ RequestAuthorized(c) \/ Register(c) \/ RespondOK(c) \/ RespondFails(c)
  \/ ReadData(c) \/ CountData(c) \/ Unstat(c) \/ CleanUp(c)

---------------------------------------------------------------------------
(* Stop and Shutdown.                                                      *)

StopBegins(u) == SideStop(u) /\ UNCHANGED bytesByMount

\* CloseAll, the reset of the statistics, ln.Close() and conn.Close().
StopStep(u) ==
  \/ StopClear(u) /\ UNCHANGED bytesByMount
  \/ StopCloseBeans(u) /\ bytesByMount' = EmptyFcn
  \/ SideStopEnds(u) /\ UNCHANGED bytesByMount

ContextExpires(u) == SideShutdownExpires(u) /\ UNCHANGED bytesByMount

---------------------------------------------------------------------------
Next ==
  \/ Configure \/ Network
  \/ \E u \in Callers :
       Start(u) \/ StopBegins(u) \/ StopStep(u) \/ ContextExpires(u)
  \/ \E g \in Gens : AcceptLoop(g) \/ SpeedTick(g) \/ SpeedEnds(g)
  \/ \E c \in Conns : Handler(c)

Spec == Init /\ [][Next]_vars

\* Started goroutines keep running.  A read always ends because its deadline
\* is set, a write because WriteData sets one.  Nothing makes Accept fail, a
\* ticker fire, a context expire or a user call an operation.
FairSpec ==
  /\ Spec
  /\ \A c \in Conns : WF_vars(Handler(c))
  /\ \A g \in Gens : WF_vars(AcceptLoop(g)) /\ WF_vars(SpeedEnds(g))
  /\ \A u \in Callers : WF_vars(StopStep(u))

---------------------------------------------------------------------------
(* Properties.                                                             *)

Holding(c) ==
  pc[c] \in {"respond", "stream", "count", "release", "unmap"}

\* A mount point is never left occupied by nobody: whatever is in the map
\* belongs to a handler that has still to remove it, also when the handler
\* registered after Stop had emptied the map
\* (ntrip_caster_server.go:323, 365, 515-522).
MountNotLeaked ==
  \A k \in DOMAIN ntripMap.data :
    LET c == ntripMap.data[k].conn IN KeyOf[c] = k /\ Holding(c)

Serving(c) == pc[c] \in {"respond", "stream", "count"}

\* A connected source that the running server serves owns its mount point:
\* it is in the source table and no second source can take the mount.  Holds
\* when remote addresses are not reused and one goroutine starts and stops
\* the server (ntrip_caster_server.go:315-323, 515, 365).
ServedSourceOwnsMount ==
  UniqueKeys /\ OneCaller =>
    \A c \in DOMAIN conns :
      Serving(c) => /\ KeyOf[c] \in DOMAIN ntripMap.data
                    /\ ntripMap.data[KeyOf[c]] = Bean(c)

\* The disconnect callback reports the handler's own source, and only after
\* its connect callback: a source whose answer could not be written is never
\* reported (ntrip_caster_server.go:365-373, 410-413, 519-522).
DisconnectAfterConnect ==
  UniqueKeys =>
    \A c \in Conns :
      removed[c] # NoBean => removed[c] = Bean(c) /\ told[c] = "connect"

\* "OnDisconnect fires after the connection breaks" (README.md:411): a source
\* reported by the connect callback is reported by the disconnect callback
\* once its handler has ended (ntrip_caster_server.go:365-375).
DisconnectReported ==
  \A c \in Conns : stage[c] = "gone" => told[c] # "connect"
============================================================================
