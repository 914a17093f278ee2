-------------------------------- MODULE Tcp ---------------------------------
(***************************************************************************)
(* A Server and a TcpClient of the package tcp at the two ends of the same *)
(* connections.  The network delivers a close to the other end in the end, *)
(* may break a connection at either end, and may fail a dial.              *)
(***************************************************************************)
EXTENDS TcpServer, TcpClient

ASSUME EndsAssumption == Dials = Conns

vars == <<serverVars, clientVars>>

TypeOK == ServerTypeOK /\ ClientTypeOK

Init == ServerInit /\ ClientInit

\* The client's dial is the server's connection.
Connect(a, c) ==
  /\ DialOK(a, c)
  /\ \E g \in Gens : Dial(c, g)
  /\ UNCHANGED handlerVars

ServerStep ==
  /\ \/ ServerInput
     \/ \E u \in Callers : Start(u) \/ StopStep(u)
     \/ \E g \in Gens : AcceptLoop(g)
     \/ \E c \in Conns : ServerHandler(c)
  /\ UNCHANGED clientVars

ClientStep ==
  /\ \/ \E u \in Users : ClientInput(u) \/ ClientShutdownReturns(u)
     \/ \E a \in Actors : ClientStart(a)
     \/ \E c \in Conns : Reader(c)
  /\ UNCHANGED serverVars

Next ==
  \/ ServerStep \/ ClientStep
  \/ \E a \in Actors, c \in Conns : Connect(a, c)

Spec == Init /\ [][Next]_vars

\* A read ends when either end has closed the connection; a silent peer holds
\* it up otherwise.
Over(c) == ~sock[c] \/ ~sockOpen[c]

ServerProgress(c) ==
  /\ stage[c] = "serving" /\ told[c] = "connect" => Over(c)
  /\ ServerHandler(c)
  /\ UNCHANGED clientVars

ClientProgress(c) ==
  (hpc[c] = "read" => Over(c)) /\ Reader(c) /\ UNCHANGED serverVars

\* Started goroutines keep running, callbacks return, a dial has a timeout,
\* and sync.Mutex lets no waiter starve.  Nothing makes the application call
\* an operation, a context expire, or a connection break.
FairSpec ==
  /\ Spec
  /\ \A c \in Conns : WF_vars(ServerProgress(c)) /\ WF_vars(ClientProgress(c))
  /\ \A g \in Gens : WF_vars(AcceptLoop(g) /\ UNCHANGED clientVars)
  /\ \A u \in Callers : WF_vars(StopStep(u) /\ UNCHANGED clientVars)
  /\ \A a \in Actors :
       SF_vars((ClientStart(a) /\ UNCHANGED serverVars)
                 \/ \E c \in Conns : Connect(a, c))
  /\ \A u \in Users : WF_vars(ClientShutdownReturns(u) /\ UNCHANGED serverVars)

---------------------------------------------------------------------------
(* Properties of the two together.                                         *)

\* Both ends report a connection that neither of their applications took away:
\* the client the end of what was current, once, and the server the end of
\* what its running listener had announced.
LossesReported == LossReported /\ ReportedWhileListening

\* The client never keeps for good a connection that the server is done with,
\* because it was over the limit, still in the backlog, or served when a Stop
\* came (tcps.go:207-223, 255-261, 305, tcpc.go:163-172).
RefusalNoticed == []<>(conn # Nil => stage[conn] # "gone")

\* The server never keeps for good the slot of a connection that the client
\* has dropped or replaced: a client that reconnects does not use up the limit
\* (tcpc.go:144-146, 196-200, tcps.go:295-303).
SlotReturned == []<>(\A c \in DOMAIN conns : conn = c)
============================================================================
