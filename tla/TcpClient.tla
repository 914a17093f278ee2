----------------------------- MODULE TcpClient ------------------------------
(***************************************************************************)
(* TcpClient of tcp/tcpc.go: one connection to a server, replaced by Start *)
(* and Connect and dropped by Stop and by its own handler.                 *)
(*                                                                         *)
(* An action is one critical section or one call on a socket, with the     *)
(* code up to the next one; clearing the field conn and the Close that     *)
(* follows are one step.  The application may start again from its         *)
(* callbacks for errors and for lost connections, and then Start runs in   *)
(* the goroutine that calls back, which is a user's or a handler's.        *)
(* Payload in either direction changes no state and is left out.           *)
(***************************************************************************)
EXTENDS Integers

CONSTANTS
  Users,      \* goroutines of the application
  Dials,      \* bound: connections that dialling may yield, numbers
  Reconnect   \* the callbacks may call Start and Connect

Actors == Users \cup Dials  \* a connection stands for its handler's goroutine

ASSUME TcpClientAssumption ==
  /\ Reconnect \in BOOLEAN
  /\ Dials \subseteq Nat
  /\ Users \cap Dials = {}

\* c.conn when it is nil
Nil == -1

VARIABLES
  conn,     \* c.conn
  sock,     \* connection -> not closed by this side
  pc,       \* actor -> where its call of Start, Connect or Shutdown is
  hpc,      \* connection -> where its handler is
  reports,  \* connection -> disconnect callbacks that ran: a history
  taken,    \* connections the application dropped or replaced: a history
  stopped   \* Stop has run and nobody has called Start since: a history

fieldVars == <<conn, sock, taken>>
readerVars == <<hpc, reports>>
clientVars == <<fieldVars, readerVars, pc, stopped>>

ClientTypeOK ==
  /\ conn \in Dials \cup {Nil} /\ sock \in [Dials -> BOOLEAN]
  /\ pc \in [Actors -> {"idle", "start", "dial", "announce", "wait"}]
  /\ hpc \in [Dials -> {"none", "read", "report", "error", "gone"}]
  /\ reports \in [Dials -> Nat]
  /\ taken \subseteq Dials
  /\ stopped \in BOOLEAN

ClientInit ==
  /\ conn = Nil /\ sock = [c \in Dials |-> FALSE]
  /\ pc = [a \in Actors |-> "idle"]
  /\ hpc = [c \in Dials |-> "none"]
  /\ reports = [c \in Dials |-> 0]
  /\ taken = {} /\ stopped = FALSE

---------------------------------------------------------------------------
\* The old connection is not closed.
ReplaceConnOpen(c) ==
  /\ conn' = c
  /\ sock' = [d \in Dials |-> d = c \/ sock[d]]
  /\ taken' = taken \cup ({conn} \ {Nil})

\* replaceConn(conn) and old.Close(), also with nil for conn.
ReplaceConn(c) ==
  /\ conn' = c
  /\ sock' = [d \in Dials |-> d = c \/ (sock[d] /\ d # conn)]
  /\ taken' = taken \cup ({conn} \ {Nil})

\* Clearing conn without the comparison.
CloseConnAnyway(c) == conn' = Nil /\ sock' = [sock EXCEPT ![c] = FALSE]

CloseConnIfCurrent(c) ==
  /\ conn' = IF conn = c THEN Nil ELSE conn
  /\ sock' = [sock EXCEPT ![c] = FALSE]

---------------------------------------------------------------------------
(* Start and Connect.                                                      *)

CallStart(a) == pc' = [pc EXCEPT ![a] = "start"] /\ stopped' = FALSE

\* Actor a runs a callback, and is back where it was, or calls Start.
CallBack(a) ==
  \/ pc' = [pc EXCEPT ![a] = "idle"] /\ UNCHANGED stopped
  \/ Reconnect /\ CallStart(a)

UserStart(u) ==
  /\ pc[u] = "idle" /\ CallStart(u)
  /\ UNCHANGED <<fieldVars, readerVars>>

\* startMu is held while dialling.
StartMuFree == \A a \in Actors : pc[a] # "dial"

\* Stop as if it did not take startMu.
StopLocksNot == TRUE

StopLocks == StartMuFree

Goto(a, from, to) ==
  pc[a] = from /\ pc' = [pc EXCEPT ![a] = to] /\ UNCHANGED stopped

DialBegins(a) ==
  /\ StartMuFree
  /\ Goto(a, "start", "dial")
  /\ UNCHANGED <<fieldVars, readerVars>>

\* Dialling fails, or Stop or a context cancels it; the error callback.
DialFails(a) ==
  /\ pc[a] = "dial" /\ CallBack(a)
  /\ UNCHANGED <<fieldVars, readerVars>>

\* Connections are used once, in order.
Fresh(c) == hpc[c] = "none" /\ \A d \in Dials : hpc[d] = "none" => c <= d

\* The connection is installed and its handler started under startMu.
DialOK(a, c) ==
  /\ Goto(a, "dial", "announce")
  /\ Fresh(c) /\ hpc' = [hpc EXCEPT ![c] = "read"]
  /\ ReplaceConn(c)
  /\ UNCHANGED reports

\* The connect callback, which the handler does not wait for.
Announce(a) ==
  /\ Goto(a, "announce", "idle")
  /\ UNCHANGED <<fieldVars, readerVars>>

ClientStart(a) == DialBegins(a) \/ DialFails(a) \/ Announce(a)

---------------------------------------------------------------------------
(* handleConn.                                                             *)

\* The handler of c is at step from, not inside a callback, and goes to step to.
Step(c, from, to) ==
  hpc[c] = from /\ pc[c] = "idle" /\ hpc' = [hpc EXCEPT ![c] = to]

\* wasCurrent
Lost(c) == conn = c

\* A read fails: closeConnIfCurrent and the disconnect callback.
ConnEnds(c) ==
  /\ Step(c, "read", IF Lost(c) THEN "report" ELSE "gone")
  /\ CloseConnIfCurrent(c)
  /\ IF Lost(c)
     THEN CallBack(c) /\ reports' = [reports EXCEPT ![c] = @ + 1]
     ELSE UNCHANGED <<pc, stopped, reports>>
  /\ UNCHANGED taken

\* The error callback for what is neither EOF nor net.ErrClosed.
ErrorCallback(c) ==
  /\ Step(c, "report", "error") /\ CallBack(c)
  /\ UNCHANGED <<fieldVars, reports>>

ReaderGone(c) ==
  /\ Step(c, "report", "gone") \/ Step(c, "error", "gone")
  /\ UNCHANGED <<fieldVars, reports, pc, stopped>>

Reader(c) == ConnEnds(c) \/ ErrorCallback(c) \/ ReaderGone(c)

---------------------------------------------------------------------------
(* Stop and Shutdown.                                                      *)

\* Stop; Shutdown goes on to wait.
ClientStop(u) ==
  /\ StopLocks
  /\ pc[u] = "idle"
  /\ \E to \in {"idle", "wait"} : pc' = [pc EXCEPT ![u] = to]
  /\ ReplaceConn(Nil)
  /\ stopped' = \A a \in Actors : pc[a] # "start"
  /\ UNCHANGED readerVars

\* The goroutines counted by c.wg.
Readers == {c \in Dials : hpc[c] \notin {"none", "gone"}}

ClientShutdownReturns(u) ==
  /\ Readers = {}
  /\ Goto(u, "wait", "idle")
  /\ UNCHANGED <<fieldVars, readerVars>>

ClientShutdownExpires(u) ==
  /\ Goto(u, "wait", "idle")
  /\ UNCHANGED <<fieldVars, readerVars>>

\* What the application may do at any time.
ClientInput(u) == UserStart(u) \/ ClientStop(u) \/ ClientShutdownExpires(u)

---------------------------------------------------------------------------
(* Properties.                                                             *)

\* The connections that are open are exactly the current one: a handler that
\* ends late does not take its successor away, and a replaced connection is
\* closed (tcpc.go:41-60, 144-146).
OneOpenConnection == \A c \in Dials : sock[c] <=> conn = c

\* No connection is reported twice, and one that ended while it was current
\* has been reported: the late handler of its predecessor does not clear conn
\* under it, after which its own handler would find nothing to report
\* (tcpc.go:49-60, 164-176).  About connections that Stop or Start took away
\* it says nothing: see ClientDisconnectReported.
LossReported ==
  \A c \in Dials :
    /\ reports[c] <= 1
    /\ hpc[c] = "gone" /\ c \notin taken => reports[c] = 1

\* "OnDisconnect fires after the connection breaks" (README.md:411): a
\* connection whose handler has ended has been reported, whoever ended it.
ClientDisconnectReported == \A c \in Dials : hpc[c] = "gone" => reports[c] > 0

\* Once Stop has run, there is no connection until somebody calls Start or
\* Connect, also when Stop meets a dial in progress (tcpc.go:187-201).
StopStops == stopped => conn = Nil

\* c.conn is the one connection that is open, and there is none after Stop.
ConnectionKept == OneOpenConnection /\ StopStops
============================================================================
