---------------------------- MODULE NtripServer ----------------------------
(***************************************************************************)
(* NtripServer of ntrip/ntrip_server.go: the connection of a source to a   *)
(* caster, replaced by Start and Connect and dropped by Stop and by its    *)
(* own handler.                                                            *)
(*                                                                         *)
(* An action is one critical section or one call on a socket, with the     *)
(* code up to the next one; clearing the field Conn and the Close that     *)
(* follows are one step.  The application may reconnect from its callbacks *)
(* for errors and for lost connections, and then Start runs in the         *)
(* goroutine that calls back, which is a user's or a handler's.  What the  *)
(* caster answers and when a socket fails is a nondeterministic choice.    *)
(* Payload in either direction changes no state and is left out.           *)
(***************************************************************************)
EXTENDS Integers, FiniteSets

CONSTANTS
  Users,      \* goroutines of the application
  Reconnect,  \* the callbacks may call Start and Connect
  MaxConns    \* bound: successful dials

Conns == 1..MaxConns
Actors == Users \cup Conns  \* a connection stands for its handler's goroutine

ASSUME NtripServerAssumption ==
  /\ Reconnect \in BOOLEAN
  /\ MaxConns \in Nat
  /\ Users \cap Conns = {}

VARIABLES
  conn,       \* s.Conn, 0 for nil
  sock,       \* connection -> not closed by this side
  pc,         \* actor -> where its call of Start, Connect or Shutdown is
  mine,       \* actor -> the connection it started
  hpc,        \* connection -> where its handler is
  connected,  \* connection -> authenticated
  authResult, \* connection -> what its handler reported: "none", "ok", "failed"
  reports,    \* connection -> disconnect callbacks that ran: a history
  taken,      \* connections the application dropped or replaced: a history
  stopped     \* Stop has run and nobody has called Start since: a history

connVars == <<conn, sock, taken>>
callVars == <<pc, mine, stopped>>
handlerVars == <<hpc, connected, authResult, reports>>
vars == <<connVars, callVars, handlerVars>>

TypeOK ==
  /\ conn \in 0..MaxConns /\ sock \in [Conns -> BOOLEAN]
  /\ pc \in [Actors -> {"idle", "start", "dial", "auth", "await", "wait"}]
  /\ mine \in [Actors -> 0..MaxConns]
  /\ hpc \in [Conns -> {"none", "starting", "read", "accepted", "clean",
                        "report", "gone"}]
  /\ connected \in [Conns -> BOOLEAN]
  /\ authResult \in [Conns -> {"none", "ok", "failed"}]
  /\ reports \in [Conns -> Nat]
  /\ taken \subseteq Conns
  /\ stopped \in BOOLEAN

Init ==
  /\ conn = 0 /\ sock = [c \in Conns |-> FALSE]
  /\ pc = [a \in Actors |-> "idle"] /\ mine = [a \in Actors |-> 0]
  /\ hpc = [c \in Conns |-> "none"]
  /\ connected = [c \in Conns |-> FALSE]
  /\ authResult = [c \in Conns |-> "none"]
  /\ reports = [c \in Conns |-> 0]
  /\ taken = {} /\ stopped = FALSE

---------------------------------------------------------------------------
\* Clearing Conn without the comparison.
ClearConnAnyway(c) == conn' = 0 /\ sock' = [sock EXCEPT ![c] = FALSE]

\* clearConnIfCurrent and conn.Close().
ClearConnIfCurrent(c) ==
  /\ conn' = IF conn = c THEN 0 ELSE conn
  /\ sock' = [sock EXCEPT ![c] = FALSE]

\* The connection that replaceConn takes out, unless it is nil.
Replaced == {conn} \ {0}

\* replaceConn(conn) and old.Close(), also with nil for conn.
ReplaceConn(c) ==
  /\ conn' = c
  /\ sock' = [d \in Conns |-> d = c \/ (sock[d] /\ d \notin Replaced)]
  /\ taken' = taken \cup Replaced

---------------------------------------------------------------------------
(* Start and Connect.                                                      *)

\* Actor a calls Start or Connect.
CallStart(a) == pc' = [pc EXCEPT ![a] = "start"] /\ stopped' = FALSE

\* Actor a runs a callback, and is back where it was, or calls Start.
CallBack(a) ==
  \/ pc' = [pc EXCEPT ![a] = "idle"] /\ UNCHANGED stopped
  \/ Reconnect /\ CallStart(a)

\* startMu is held while dialling and while sending the request.
StartMuFree == \A a \in Actors : pc[a] \notin {"dial", "auth"}

\* Stop as if it did not take startMu.
StopLocksNot == TRUE

StopLocks == StartMuFree

UserStart(u) ==
  /\ pc[u] = "idle" /\ CallStart(u)
  /\ UNCHANGED <<connVars, mine, handlerVars>>

Goto(a, from, to) ==
  pc[a] = from /\ pc' = [pc EXCEPT ![a] = to] /\ UNCHANGED stopped

\* startMu.Lock(); the mount is valid.
StartLocks(a) ==
  /\ StartMuFree
  /\ Goto(a, "start", "dial")
  /\ UNCHANGED <<connVars, mine, handlerVars>>

\* startMu.Lock(); the application has set a mount that is not valid.
MountInvalid(a) ==
  /\ StartMuFree
  /\ pc[a] = "start" /\ CallBack(a)
  /\ UNCHANGED <<connVars, mine, handlerVars>>

\* Dialling fails, or Stop or a context cancels it.
DialFails(a) ==
  /\ pc[a] = "dial" /\ CallBack(a)
  /\ UNCHANGED <<connVars, mine, handlerVars>>

\* Connections are used once, in order.
Fresh(c) == hpc[c] = "none" /\ \A d \in Conns : hpc[d] = "none" => c <= d

DialOK(a, c) ==
  /\ Goto(a, "dial", "auth")
  /\ Fresh(c)
  /\ ReplaceConn(c)
  /\ hpc' = [hpc EXCEPT ![c] = "starting"]
  /\ mine' = [mine EXCEPT ![a] = c]
  /\ UNCHANGED <<connected, authResult, reports>>

DoneWith(a) == mine' = [mine EXCEPT ![a] = 0]

\* The request is sent and the handler started.  Start returns, Connect waits.
RequestSent(a) ==
  /\ \/ Goto(a, "auth", "await") /\ UNCHANGED mine
     \/ Goto(a, "auth", "idle") /\ DoneWith(a)
  /\ hpc' = [hpc EXCEPT ![mine[a]] = "read"]
  /\ UNCHANGED <<connVars, connected, authResult, reports>>

RequestFails(a) ==
  /\ pc[a] = "auth" /\ CallBack(a)
  /\ ClearConnIfCurrent(mine[a])
  /\ hpc' = [hpc EXCEPT ![mine[a]] = "gone"]
  /\ DoneWith(a)
  /\ UNCHANGED <<taken, connected, authResult, reports>>

ConnectReturns(a) ==
  /\ pc[a] = "await" /\ authResult[mine[a]] # "none"
  /\ Goto(a, "await", "idle") /\ DoneWith(a)
  /\ UNCHANGED <<connVars, handlerVars>>

\* The context of Connect ends; a connection that is not current any more has
\* been closed by whoever replaced it.
ConnectExpires(a) ==
  /\ Goto(a, "await", "idle") /\ DoneWith(a)
  /\ IF conn = mine[a]
     THEN ClearConnIfCurrent(mine[a]) /\ taken' = taken \cup {mine[a]}
     ELSE UNCHANGED connVars
  /\ UNCHANGED handlerVars

Start(a) ==
  \/ StartLocks(a) \/ MountInvalid(a) \/ DialFails(a)
  \/ RequestSent(a) \/ RequestFails(a)
  \/ \E c \in Conns : DialOK(a, c)

---------------------------------------------------------------------------
(* handleConnWithAuth.                                                     *)

\* reportAuth: the first report counts.
ReportAuth(c, result) ==
  authResult' = [authResult EXCEPT ![c] = IF @ = "none" THEN result ELSE @]

\* The handler of c is at step from, not inside a callback, and goes to step to.
Step(c, from, to) ==
  hpc[c] = from /\ pc[c] = "idle" /\ hpc' = [hpc EXCEPT ![c] = to]

\* Before authentication: a read error other than net.ErrClosed, an answer
\* that is too long, or one that is no success.
AuthFails(c) ==
  /\ ~connected[c]
  /\ Step(c, "read", "clean")
  /\ ReportAuth(c, "failed")
  /\ CallBack(c)
  /\ UNCHANGED <<connVars, mine, connected, reports>>

\* After authentication: the caster hung up, or another read error.
StreamFails(c) ==
  /\ connected[c]
  /\ Step(c, "read", "clean")
  /\ CallBack(c)
  /\ UNCHANGED <<connVars, mine, connected, authResult, reports>>

\* net.ErrClosed
ReadClosed(c) ==
  /\ ~sock[c]
  /\ Step(c, "read", "clean")
  /\ UNCHANGED <<connVars, callVars, connected, authResult, reports>>

\* The answer is a success, read before the connection was dropped or
\* replaced if it was.
Accepted(c) ==
  /\ ~connected[c]
  /\ \/ conn = c /\ Step(c, "read", "accepted") /\ UNCHANGED authResult
     \/ conn # c /\ Step(c, "read", "clean") /\ ReportAuth(c, "failed")
  /\ UNCHANGED <<connVars, callVars, connected, reports>>

\* connected, reportAuth(nil) and the connect callback.
Authenticated(c) ==
  /\ Step(c, "accepted", "read")
  /\ connected' = [connected EXCEPT ![c] = TRUE]
  /\ ReportAuth(c, "ok")
  /\ UNCHANGED <<connVars, callVars, reports>>

\* connected && wasCurrent
Lost(c) == connected[c] /\ conn = c

\* The deferred clean-up with the disconnect callback.
CleanUp(c) ==
  /\ Step(c, "clean", "report")
  /\ ClearConnIfCurrent(c)
  /\ IF Lost(c)
     THEN CallBack(c) /\ reports' = [reports EXCEPT ![c] = @ + 1]
     ELSE UNCHANGED <<pc, stopped, reports>>
  /\ UNCHANGED <<taken, mine, connected, authResult>>

\* Leaving without the deferred reportAuth.
DeferredReportNot(c) == UNCHANGED authResult

\* defer reportAuth(ErrNtripAuthenticationInterrupted)
DeferredReport(c) == ReportAuth(c, "failed")

HandlerGone(c) ==
  /\ Step(c, "report", "gone")
  /\ DeferredReport(c)
  /\ UNCHANGED <<connVars, callVars, connected, reports>>

Handler(c) ==
  \/ AuthFails(c) \/ StreamFails(c) \/ ReadClosed(c) \/ Accepted(c)
  \/ Authenticated(c) \/ CleanUp(c) \/ HandlerGone(c)

---------------------------------------------------------------------------
(* Stop and Shutdown.                                                      *)

\* Stop; Shutdown goes on to wait.
Stop(u) ==
  /\ StopLocks
  /\ pc[u] = "idle"
  /\ \E to \in {"idle", "wait"} : pc' = [pc EXCEPT ![u] = to]
  /\ ReplaceConn(0)
  /\ stopped' = \A a \in Actors : pc[a] # "start"
  /\ UNCHANGED <<mine, handlerVars>>

\* The goroutines counted by s.wg.
Running == {c \in Conns : hpc[c] \notin {"none", "starting", "gone"}}

ShutdownReturns(u) ==
  /\ Running = {}
  /\ Goto(u, "wait", "idle")
  /\ UNCHANGED <<connVars, mine, handlerVars>>

ShutdownExpires(u) ==
  /\ Goto(u, "wait", "idle")
  /\ UNCHANGED <<connVars, mine, handlerVars>>

---------------------------------------------------------------------------
Next ==
  \/ \E u \in Users :
       UserStart(u) \/ Stop(u) \/ ShutdownReturns(u) \/ ShutdownExpires(u)
  \/ \E a \in Actors : Start(a) \/ ConnectReturns(a) \/ ConnectExpires(a)
  \/ \E c \in Conns : Handler(c)

Spec == Init /\ [][Next]_vars

\* A read ends by itself when the connection is closed, and by its deadline
\* while it is unauthenticated; a silent caster blocks it otherwise.
HandlerProgress(c) ==
  (hpc[c] = "read" => ~sock[c] \/ ~connected[c]) /\ Handler(c)

\* Started goroutines keep running: a dial has a timeout, callbacks return, and
\* sync.Mutex lets no waiter starve.  Nothing makes a user call an operation, a
\* context expire or a caster hang up.
FairSpec ==
  /\ Spec
  /\ \A a \in Actors : SF_vars(Start(a)) /\ WF_vars(ConnectReturns(a))
  /\ \A u \in Users : WF_vars(ShutdownReturns(u))
  /\ \A c \in Conns : WF_vars(HandlerProgress(c))

---------------------------------------------------------------------------
(* Properties.                                                             *)

\* The connections that are open are exactly the current one: a handler that
\* cleans up after a callback that has already reconnected does not take the
\* new connection away (ntrip_server.go:95-111, 182-184, 260-261).
OneOpenConnection == \A c \in Conns : sock[c] <=> conn = c

\* Only an authenticated connection is reported, no connection twice, and one
\* that ended while it was current has been reported: the late clean-up of its
\* predecessor does not clear Conn under it, after which its own clean-up
\* would find nothing to report (ntrip_server.go:103-111, 259-270).  About
\* connections that Stop, Start or an expired Connect took away it says
\* nothing: see DisconnectReported.
LossReported ==
  \A c \in Conns :
    /\ reports[c] <= 1
    /\ reports[c] = 1 => connected[c]
    /\ hpc[c] = "gone" /\ connected[c] /\ c \notin taken => reports[c] = 1

\* DisConnect sets the callback "invoked after an authenticated connection
\* ends" (ntrip_server.go:61): an authenticated connection whose handler has
\* ended has been reported, whoever ended it.
DisconnectReported ==
  \A c \in Conns : hpc[c] = "gone" /\ connected[c] => reports[c] = 1

\* Once Stop has run, there is no connection until somebody calls Start or
\* Connect, also when Stop meets a dial in progress (ntrip_server.go:209-224).
StopStops == stopped => conn = 0

\* Connect gets a result, whatever ends the handler (ntrip_server.go:139-141,
\* 258).
ResultArrives == \A a \in Actors : pc[a] = "await" ~> pc[a] # "await"

\* "Shutdown stops the source connection and waits for its read goroutine"
\* (ntrip_server.go:226), and returns, unless somebody starts it again.
ShutdownCompletes ==
  \A u \in Users : pc[u] = "wait" ~> (pc[u] = "idle" \/ ~stopped)

\* Whoever waits inside Connect or Shutdown is let go.
CallsReturn == ResultArrives /\ ShutdownCompletes
============================================================================
