---------------------------- MODULE CasterClient ----------------------------
(***************************************************************************)
(* NtripCasterClient of ntrip/ntrip_caster_client.go: the listener for     *)
(* subscribers.  A subscriber that is let in gets a channel bean with a    *)
(* goroutine that writes to its connection, which no wait group counts.    *)
(*                                                                         *)
(* An action is one critical section (of mu, of the mutex of the map) or   *)
(* one call on a socket, with the code up to the next one.  The queue of   *)
(* the bean is the subject of ChannelBean; here its writer runs until the  *)
(* bean is closed or a write fails for good.  Whether the mount point has  *)
(* an active source, which the other side of the caster knows at the       *)
(* moment it is asked, is a nondeterministic choice, and so is the request *)
(* for a source table, which ends the handler.  Payload from subscribers   *)
(* changes no state and is left out.                                       *)
(*                                                                         *)
(* The names carry the prefix Client where CasterServer has the same.      *)
(***************************************************************************)
EXTENDS CasterSide

VARIABLES
  writer,     \* connection -> the writer of its bean: "none", "run", "gone"
  beanClosed  \* connection -> its bean is closed

beanVars == <<writer, beanClosed>>
clientVars == <<sideVars, beanVars>>

ClientSteps == {"header", "respond", "set", "stream", "release", "unmap",
                "hangup"}

ClientTypeOK ==
  /\ SideTypeOK(ClientSteps)
  /\ writer \in [Conns -> {"none", "run", "gone"}]
  /\ beanClosed \in [Conns -> BOOLEAN]

ClientInit ==
  /\ SideInit
  /\ writer = [c \in Conns |-> "none"]
  /\ beanClosed = [c \in Conns |-> FALSE]

---------------------------------------------------------------------------
(* Configuration, Start and acceptLoop.                                    *)

ClientConfigure == SideConfigure /\ UNCHANGED beanVars

ClientStart(u) == SideStart(u, FALSE) /\ UNCHANGED beanVars

ClientNetwork == SideNetwork /\ UNCHANGED beanVars

ClientAcceptLoop(g) == SideAccepts(g) /\ UNCHANGED beanVars

---------------------------------------------------------------------------
(* auth and handleConn.                                                    *)

\* Close() of the beans of the connections cs; it closes these too.
CloseBeans(cs) == beanClosed' = [c \in Conns |-> beanClosed[c] \/ c \in cs]

\* A GET for a valid mount point that the callback lets in, or without a
\* callback on loopback the credentials; its source is active or need not be.
ClientAuthorized(c) ==
  /\ Step(c, "header", "respond")
  /\ sockOpen[c]
  /\ onAuth \/ ~RequireAuth
  /\ UNCHANGED <<handlerRest, listenerVars, ntripMap, removed, told, beanVars>>

\* The answer is written: NewNtripChannelBean starts the writer.
ClientRespondOK(c) ==
  /\ Step(c, "respond", "set")
  /\ sockOpen[c]
  /\ writer' = [writer EXCEPT ![c] = "run"]
  /\ UNCHANGED <<handlerRest, listenerVars, ntripMap, removed, told, beanClosed>>

ClientRespondFails(c) ==
  /\ Step(c, "respond", "release")
  /\ UNCHANGED <<handlerRest, listenerVars, ntripMap, removed, told, beanVars>>

\* s.ntripMap.Set(key, bean) and onConnect.
ClientRegister(c) ==
  /\ Step(c, "set", "stream")
  /\ ntripMap' = Set(ntripMap, KeyOf[c], Bean(c))
  /\ told' = [told EXCEPT ![c] = "connect"]
  /\ UNCHANGED <<handlerRest, listenerVars, removed, beanVars>>

\* Only the connection is closed.
BeansHungUpNone(c) == {}

\* removed.Close()
BeansHungUp(c) == IF removed[c] = NoBean THEN {} ELSE {removed[c].conn}

\* conn.Close() when nothing was removed.
ConnsHungUp(c) == IF removed[c] = NoBean THEN {c} ELSE {removed[c].conn}

\* The read loop ends, or a step of the deferred clean-up.
ClientCleanUp(c) ==
  \/ /\ HandlerEnds(c) \/ SideRelease(c) \/ Unmap(c, "hangup")
     /\ UNCHANGED beanVars
  \/ /\ Hangup(c, ConnsHungUp(c))
     /\ CloseBeans(BeansHungUp(c))
     /\ UNCHANGED writer

ClientHandler(c) ==
  \/ ClientAuthorized(c) \/ ClientRespondOK(c) \/ ClientRespondFails(c)
  \/ ClientRegister(c) \/ ClientCleanUp(c)

---------------------------------------------------------------------------
(* The writer of a bean.                                                   *)

writerRest == <<runVars, slotVars, limitVars, wg, stage, home, ctl, localVars,
                authVars, ntripMap, clearVars, handlerVars>>

\* A writer that does not look at quit.
WriterQuitsNever(c) == FALSE /\ UNCHANGED clientVars

\* case <-quit
WriterQuits(c) ==
  /\ writer[c] = "run" /\ beanClosed[c]
  /\ writer' = [writer EXCEPT ![c] = "gone"]
  /\ UNCHANGED <<writerRest, sockOpen, beanClosed>>

\* A writer that gives up without the deferred Close.
WriterFailsOpen(c) ==
  /\ writer[c] = "run"
  /\ writer' = [writer EXCEPT ![c] = "gone"]
  /\ UNCHANGED <<writerRest, sockOpen, beanClosed>>

\* A write fails for good; the deferred Close closes bean and connection.
WriterFails(c) ==
  /\ writer[c] = "run"
  /\ writer' = [writer EXCEPT ![c] = "gone"]
  /\ CloseBeans({c}) /\ CloseSockets({c})
  /\ UNCHANGED writerRest

---------------------------------------------------------------------------
(* Stop and Shutdown.                                                      *)

ClientStopBegins(u) == SideStop(u) /\ UNCHANGED beanVars

ClientStopStep(u) ==
  \/ (StopClear(u) \/ SideStopEnds(u)) /\ UNCHANGED beanVars
  \/ /\ StopCloseBeans(u)
     /\ CloseBeans({b.conn : b \in myBeans[u]}) /\ UNCHANGED writer

ClientContextExpires(u) == SideShutdownExpires(u) /\ UNCHANGED beanVars

---------------------------------------------------------------------------
ClientNext ==
  \/ ClientConfigure \/ ClientNetwork
  \/ \E u \in Callers :
       \/ ClientStart(u) \/ ClientStopBegins(u) \/ ClientStopStep(u)
       \/ ClientContextExpires(u)
  \/ \E g \in Gens : ClientAcceptLoop(g)
  \/ \E c \in Conns : ClientHandler(c) \/ WriterQuits(c) \/ WriterFails(c)

ClientSpec == ClientInit /\ [][ClientNext]_clientVars

\* Until it is authenticated, a connection has a read deadline; afterwards a
\* read ends when the connection is closed, and not otherwise.
ReadEnds(c) == pc[c] = "stream" => ~sockOpen[c]

\* Started goroutines keep running.  Nothing makes Accept or a write fail, a
\* context expire, a subscriber hang up or a user call an operation.
ClientFairSpec ==
  /\ ClientSpec
  /\ \A c \in Conns : /\ WF_clientVars(ReadEnds(c) /\ ClientHandler(c))
                      /\ WF_clientVars(WriterQuits(c))
  /\ \A g \in Gens : WF_clientVars(ClientAcceptLoop(g))
  /\ \A u \in Callers : WF_clientVars(ClientStopStep(u))

---------------------------------------------------------------------------
(* Properties.                                                             *)

\* A bean that is not closed has someone who will close it, although Close is
\* left to whoever takes it out of the map: its handler, or a Stop
\* (ntrip_caster_client.go:317, 356-362, 398, 463).
OpenBeanHasOwner ==
  UniqueKeys =>
    \A c \in Conns :
      writer[c] = "run" /\ ~beanClosed[c] =>
        \/ pc[c] = "set"
        \/ Bean(c) \in BeansIn(ntripMap)
        \/ removed[c] = Bean(c)
        \/ \E u \in Callers : Bean(c) \in myBeans[u]

\* No writer is left behind by its subscriber's handler
\* (ntrip_caster_client.go:356-367, ntrip_map.go:92-94).
WriterFollowsHandler ==
  UniqueKeys => []<>(\A c \in Conns : stage[c] = "gone" => writer[c] # "run")

\* A subscriber whose writer has given up does not stay: the read of its
\* handler, which has no deadline any more, is ended by the Close of the
\* writer (ntrip_map.go:52-55, ntrip_caster_client.go:397).
DeadWriterEndsHandler ==
  []<>(\A c \in Conns : pc[c] = "stream" => writer[c] = "run")
============================================================================
