----------------------------- MODULE TcpServer ------------------------------
(***************************************************************************)
(* Server of tcp/tcps.go: the listener with a handler for each connection, *)
(* which reads until the connection ends.  Payload changes no state and is *)
(* left out.                                                               *)
(***************************************************************************)
EXTENDS Listener

VARIABLES
  told,    \* connection -> callbacks that ran: a history
  active   \* connection -> wasActive of its handler's clean-up

handlerVars == <<told, active>>
serverVars == <<listenerVars, handlerVars>>

ServerTypeOK ==
  /\ ListenerTypeOK
  /\ told \in [Conns -> {"nothing", "connect", "disconnect"}]
  /\ active \in [Conns -> BOOLEAN]

ServerInit ==
  /\ ListenerInit
  /\ told = [c \in Conns |-> "nothing"]
  /\ active = [c \in Conns |-> FALSE]

---------------------------------------------------------------------------
Start(u) == StartBinds(u, FALSE) /\ UNCHANGED handlerVars

AcceptLoop(g) ==
  /\ AcceptStep(g) \/ \E c \in Conns : Admit(g, c)
  /\ UNCHANGED handlerVars

StopStep(u) == (StopClose(u) \/ ShutdownReturns(u)) /\ UNCHANGED handlerVars

\* What the application and the network may do at any time: set limits, stop
\* the server, let a context expire, make Accept fail.
ServerInput ==
  /\ \/ SetLimits
     \/ \E u \in Callers : StopDetach(u) \/ ShutdownExpires(u)
     \/ \E g \in Gens : AcceptFails(g)
  /\ UNCHANGED handlerVars

---------------------------------------------------------------------------
(* The goroutine of a connection: onConnect, then handleConn.              *)

Connected(c) ==
  /\ stage[c] = "serving" /\ told[c] = "nothing"
  /\ told' = [told EXCEPT ![c] = "connect"]
  /\ UNCHANGED <<listenerVars, active>>

\* A read fails, for whatever reason, and the clean-up takes mu.
ReadFails(c) ==
  /\ told[c] = "connect"
  /\ Release(c)
  /\ active' = [active EXCEPT ![c] = c \in DOMAIN conns]
  /\ UNCHANGED told

\* onDisconnect if wasActive.
Reported(c) ==
  IF active[c] THEN [told EXCEPT ![c] = "disconnect"] ELSE told

\* The rest of the clean-up.
HandlerGone(c) ==
  /\ HandlerDone(c, {c})
  /\ told' = Reported(c)
  /\ active' = [active EXCEPT ![c] = FALSE]

ServerHandler(c) == Connected(c) \/ ReadFails(c) \/ HandlerGone(c)

---------------------------------------------------------------------------
(* Properties.                                                             *)

\* While the listener of a connection runs, the connect callback of that
\* connection is followed by its disconnect callback when its handler ends
\* (tcps.go:228-235, 295-311).  About connections of a stopped listener it
\* says nothing: see ServerDisconnectReported.
ReportedWhileListening ==
  \A c \in Conns : stage[c] = "gone" /\ home[c] = ln => told[c] # "connect"

\* "OnDisconnect fires after the connection breaks" (README.md:411; the server
\* of README.md:318 prints it): a connection reported by the connect callback
\* has been reported by the disconnect callback once its handler has ended,
\* whoever ended it.
ServerDisconnectReported ==
  \A c \in Conns : stage[c] = "gone" => told[c] # "connect"
============================================================================
