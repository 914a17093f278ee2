---------------------------- MODULE NtripClient ----------------------------
(***************************************************************************)
(* NtripClient of ntrip/ntrip_client.go: one connection at a time to a     *)
(* caster, replaced by Start and Connect, dropped by Stop and by the       *)
(* goroutines that notice its loss, and re-established by Retry.           *)
(*                                                                         *)
(* An action is one critical section, one select or one call on a socket,  *)
(* with the code up to the next one.  A channel quit is a run, numbered in *)
(* the order of their making; a connection is numbered in the order in     *)
(* which dialling succeeded.  Each connection has a handler, an idle       *)
(* monitor and, when GGA is on, a GGA sender.  Retry is called by the      *)
(* application, from its own goroutines and from the callbacks for lost    *)
(* connections and errors, and so runs in the goroutine of whoever calls   *)
(* back.  The configuration passes validateMount and validateGGAInput.     *)
(* Delays are left out: a timer fires at some moment.  What a caster       *)
(* answers, and when a call on a socket fails, is a nondeterministic       *)
(* choice.  A response header that arrives in pieces is one read.          *)
(***************************************************************************)
EXTENDS Integers, FiniteSets

CONSTANTS
  Users,      \* goroutines of the application
  Retrier,    \* the goroutine started by Retry; there is at most one
  RetryFrom,  \* where the application calls Retry: "callbacks", "itself"
  IsGga,      \* the client sends GGA sentences
  MaxConns,   \* bound: successful dials
  MaxRuns     \* bound: runs

Conns == 1..MaxConns
Runs == 1..MaxRuns
Starters == Users \cup {Retrier}
Helpers == {"monitor", "gga"}
Actors == Starters \cup (Conns \X (Helpers \cup {"handler"}))

ASSUME NtripClientAssumption ==
  /\ Retrier \notin Users
  /\ RetryFrom \subseteq {"callbacks", "itself"}
  /\ IsGga \in BOOLEAN
  /\ MaxConns \in Nat /\ MaxRuns \in Nat \ {0}

VARIABLES
  conn,       \* c.conn, 0 for nil
  quit,       \* c.quit: the current run
  closed,     \* the runs whose channel is closed
  pc,         \* starter -> where its operation is
  run,        \* starter -> the run that beginRun returned
  mine,       \* starter -> the connection it started
  rrun,       \* the run that Retry captured for its goroutine; these
              \* locals are reset after their last use
  call,       \* actor -> progress of its call of Retry
  hpc,        \* connection -> where its handler is
  helper,     \* connection -> helper -> "off", "on", "leave"
  runOf,      \* connection -> the run its goroutines listen to
  sock,       \* connection -> open
  connected,  \* connection -> authenticated
  authResult, \* connection -> what its handler reported: "none", "ok", "failed"
  reports,    \* connection -> disconnect callbacks that ran: a history
  taken,      \* connections the application dropped or replaced: a history
  stopped     \* Stop has run and nobody has called Start since: a history

startVars == <<pc, run, mine, rrun>>
lifeVars == <<quit, closed>>
connVars == <<conn, sock>>
handlerVars == <<hpc, helper, runOf, connected, authResult>>
vars == <<connVars, lifeVars, startVars, call, handlerVars, reports, taken,
          stopped>>

\* A call of Retry: none, begun, or past its first check with a run in hand.
NotCalling == -1
Entering == 0

TypeOK ==
  /\ conn \in 0..MaxConns /\ sock \in [Conns -> BOOLEAN]
  /\ quit \in Runs /\ closed \subseteq Runs
  /\ pc \in [Starters -> {"idle", "start", "dial", "auth", "await", "stop",
                          "stopConn", "wait", "timer", "leave"}]
  /\ run \in [Starters -> Runs] /\ mine \in [Starters -> 0..MaxConns]
  /\ rrun \in Runs
  /\ call \in [Actors -> {NotCalling, Entering} \cup Runs]
  /\ hpc \in [Conns -> {"none", "starting", "loop", "read", "refused", "accepted", "lost",
                        "end", "gone"}]
  /\ helper \in [Conns -> [Helpers -> {"off", "on", "leave"}]]
  /\ runOf \in [Conns -> Runs]
  /\ connected \in [Conns -> BOOLEAN]
  /\ authResult \in [Conns -> {"none", "ok", "failed"}]
  /\ reports \in [Conns -> Nat]
  /\ taken \subseteq Conns
  /\ stopped \in BOOLEAN

Init ==
  /\ conn = 0 /\ sock = [c \in Conns |-> FALSE]
  /\ quit = 1 /\ closed = {}
  /\ pc = [a \in Starters |-> "idle"]
  /\ run = [a \in Starters |-> 1] /\ mine = [a \in Starters |-> 0]
  /\ rrun = 1
  /\ call = [a \in Actors |-> NotCalling]
  /\ hpc = [c \in Conns |-> "none"]
  /\ helper = [c \in Conns |-> [k \in Helpers |-> "off"]]
  /\ runOf = [c \in Conns |-> 1]
  /\ connected = [c \in Conns |-> FALSE]
  /\ authResult = [c \in Conns |-> "none"]
  /\ reports = [c \in Conns |-> 0]
  /\ taken = {}
  /\ stopped = FALSE

---------------------------------------------------------------------------
(* The current connection.                                                 *)

\* Closing a connection and clearing c.conn without the comparison.
CloseConnAnyway(c) == conn' = 0 /\ sock' = [sock EXCEPT ![c] = FALSE]

\* closeConnIfCurrent and clearConnIfCurrent: nil the field only when it
\* still holds c.
CloseConnIfCurrent(c) ==
  /\ conn' = IF conn = c THEN 0 ELSE conn
  /\ sock' = [sock EXCEPT ![c] = FALSE]

\* replaceConn, and old.Close().
ReplaceConn(c) ==
  /\ conn' = c
  /\ sock' = [d \in Conns |-> d = c \/ (sock[d] /\ d # conn)]

\* closeConn
CloseConn == conn' = 0 /\ sock' = [c \in Conns |-> sock[c] /\ c # conn]

---------------------------------------------------------------------------
(* Callbacks and Retry.                                                    *)

\* The application's callback, run by actor a, calls Retry.
CallBack(a) ==
  call' = IF "callbacks" \in RetryFrom
          THEN [call EXCEPT ![a] = Entering] ELSE call

\* A callback for every goroutine that sees the end of the connection.
NotifyLossAlways(a, c) ==
  /\ CallBack(a)
  /\ reports' = [reports EXCEPT ![c] = @ + 1]

\* notifyDisconnect by actor a when it was the one to clear c.conn.
NotifyLoss(a, c) ==
  IF conn = c /\ connected[c]
  THEN /\ CallBack(a)
       /\ reports' = [reports EXCEPT ![c] = @ + 1]
  ELSE UNCHANGED <<call, reports>>

\* currentRun and isClosed.
RetryEnter(a) ==
  /\ call[a] = Entering
  /\ call' = [call EXCEPT ![a] = IF quit \in closed THEN NotCalling ELSE quit]
  /\ UNCHANGED <<connVars, lifeVars, startVars, handlerVars, reports, taken,
                 stopped>>

\* The compare-and-swap on retrying; on success the goroutine is started.
RetrySwap(a) ==
  /\ call[a] \in Runs
  /\ call' = [call EXCEPT ![a] = NotCalling]
  /\ IF pc[Retrier] = "idle"
     THEN /\ pc' = [pc EXCEPT ![Retrier] = "timer"]
          /\ rrun' = call[a]
     ELSE UNCHANGED <<pc, rrun>>
  /\ UNCHANGED <<connVars, lifeVars, run, mine, handlerVars, reports,
                 taken, stopped>>

\* Actor a is not inside a call of Retry.
Free(a) == call[a] = NotCalling

RetryCall(a) == RetryEnter(a) \/ RetrySwap(a)

---------------------------------------------------------------------------
(* startConnectionContext, by a user or by the retry goroutine.            *)

Goto(a, from, to) ==
  pc[a] = from /\ Free(a) /\ pc' = [pc EXCEPT ![a] = to]

\* startMu as if Stop did not take it.
StopLocksNot == TRUE

\* startMu is held while dialling, while sending the request and inside Stop.
StartMuFree == \A a \in Starters : pc[a] \notin {"dial", "auth", "stopConn"}

StopLocks == StartMuFree

\* Where a call that fails leaves its caller.
AfterFailure(a) == IF a = Retrier THEN "timer" ELSE "idle"

UserStart(u) ==
  /\ Goto(u, "idle", "start")
  /\ stopped' = FALSE
  /\ UNCHANGED <<connVars, lifeVars, run, mine, rrun, call,
                 handlerVars, reports, taken>>

\* beginRun
NextRun == IF quit \in closed THEN quit + 1 ELSE quit

\* Lock startMu, beginRun, dial.
BeginRun(a) ==
  /\ Goto(a, "start", "dial")
  /\ StartMuFree
  /\ quit' = NextRun
  /\ run' = [run EXCEPT ![a] = quit']
  /\ UNCHANGED <<connVars, closed, mine, rrun, call, handlerVars, reports,
                 taken, stopped>>

\* Dialling fails or is cancelled: startMu is released, then the callback runs.
DialFails(a) ==
  /\ Goto(a, "dial", AfterFailure(a))
  /\ run' = [run EXCEPT ![a] = 1]
  /\ CallBack(a)
  /\ UNCHANGED <<connVars, lifeVars, mine, rrun, handlerVars, reports, taken,
                 stopped>>

\* Connections are used once, in order.
Fresh(c) == hpc[c] = "none" /\ \A d \in Conns : hpc[d] = "none" => c <= d

DialOK(a, c) ==
  /\ Goto(a, "dial", "auth")
  /\ Fresh(c)
  /\ ReplaceConn(c)
  /\ hpc' = [hpc EXCEPT ![c] = "starting"]
  /\ runOf' = [runOf EXCEPT ![c] = run[a]]
  /\ run' = [run EXCEPT ![a] = 1]
  /\ mine' = [mine EXCEPT ![a] = c]
  /\ taken' = taken \cup ({conn} \ {0})
  /\ UNCHANGED <<lifeVars, rrun, call, helper, connected, authResult, reports,
                 stopped>>

DoneWith(a) == mine' = [mine EXCEPT ![a] = 0]

\* The request is sent and the handler started; startMu is released.  Start
\* returns, Connect and the retry goroutine go on to wait for authResult.
RequestSent(a) ==
  /\ \/ Goto(a, "auth", "await") /\ UNCHANGED mine
     \/ a \in Users /\ Goto(a, "auth", "idle") /\ DoneWith(a)
  /\ hpc' = [hpc EXCEPT ![mine[a]] = "loop"]
  /\ helper' = [helper EXCEPT ![mine[a]]["monitor"] = "on"]
  /\ UNCHANGED <<connVars, lifeVars, run, rrun, call, runOf, connected,
                 authResult, reports, taken, stopped>>

\* Giving up without closeConnIfCurrent.
RequestFailsOpen(a) ==
  /\ Goto(a, "auth", AfterFailure(a))
  /\ hpc' = [hpc EXCEPT ![mine[a]] = "gone"]
  /\ DoneWith(a)
  /\ CallBack(a)
  /\ UNCHANGED <<connVars, lifeVars, run, rrun, helper, runOf, connected,
                 authResult, reports, taken, stopped>>

\* The request cannot be written.
RequestFails(a) ==
  /\ Goto(a, "auth", AfterFailure(a))
  /\ CloseConnIfCurrent(mine[a])
  /\ hpc' = [hpc EXCEPT ![mine[a]] = "gone"]
  /\ DoneWith(a)
  /\ CallBack(a)
  /\ UNCHANGED <<lifeVars, run, rrun, helper, runOf, connected,
                 authResult, reports, taken, stopped>>

\* Connect receives from authResult.
ConnectReturns(u) ==
  /\ u \in Users /\ Goto(u, "await", "idle")
  /\ authResult[mine[u]] # "none"
  /\ DoneWith(u)
  /\ UNCHANGED <<connVars, lifeVars, run, rrun, call, handlerVars, reports, taken, stopped>>

\* The context of Connect ends.
ConnectExpires(u) ==
  /\ u \in Users /\ Goto(u, "await", "idle")
  /\ CloseConnIfCurrent(mine[u])
  /\ taken' = taken \cup {mine[u]}
  /\ DoneWith(u)
  /\ UNCHANGED <<lifeVars, run, rrun, call, handlerVars,
                 reports, stopped>>

Start(a) ==
  \/ BeginRun(a) \/ DialFails(a) \/ RequestSent(a) \/ RequestFails(a)
  \/ \E c \in Conns : DialOK(a, c)

---------------------------------------------------------------------------
(* The goroutine of Retry.                                                 *)

retryRest == <<connVars, lifeVars, run, call, handlerVars, reports, taken,
               stopped>>

\* A goroutine that does not listen to the quit channel it captured.
RetryQuitNever(from) == FALSE /\ from \in STRING /\ UNCHANGED vars

\* case <-quit, while waiting for the timer and for authResult.
RetryQuit(from) ==
  /\ rrun \in closed
  /\ Goto(Retrier, from, "leave")
  /\ DoneWith(Retrier)
  /\ UNCHANGED <<retryRest, rrun>>

\* case <-timer.C: somebody else has connected, or it is time to try.
RetryTimer ==
  /\ Goto(Retrier, "timer", IF conn # 0 THEN "leave" ELSE "start")
  /\ UNCHANGED <<retryRest, mine, rrun>>

\* case authErr := <-authResult
RetryResult ==
  /\ pc[Retrier] = "await" /\ authResult[mine[Retrier]] # "none"
  /\ Goto(Retrier, "await",
          IF authResult[mine[Retrier]] = "ok" THEN "leave" ELSE "timer")
  /\ DoneWith(Retrier)
  /\ UNCHANGED <<retryRest, rrun>>

\* The deferred retrying.Store(false) and wg.Done().
RetryLeaves ==
  /\ Goto(Retrier, "leave", "idle")
  /\ rrun' = 1
  /\ UNCHANGED <<retryRest, mine>>

Retrying ==
  \/ RetryQuit("timer") \/ RetryQuit("await")
  \/ RetryTimer \/ RetryResult \/ RetryLeaves

---------------------------------------------------------------------------
(* handleConnWithAuth.                                                     *)

Handler(c) == <<c, "handler">>

\* The handler of c is at step from and goes on to step to.
Step(c, from, to) ==
  hpc[c] = from /\ Free(Handler(c)) /\ hpc' = [hpc EXCEPT ![c] = to]

handlerRest == <<lifeVars, startVars, runOf, taken, stopped>>

\* reportAuth: the first report counts.
ReportAuth(c, result) ==
  authResult' = [authResult EXCEPT ![c] = IF @ = "none" THEN result ELSE @]

\* defer reportAuth(ErrNtripAuthenticationInterrupted)
DeferredReport(c) == ReportAuth(c, "failed")

\* The select on quit at the head of the loop.
HandlerLoop(c) ==
  /\ runOf[c] \notin closed
  /\ Step(c, "loop", "read")
  /\ UNCHANGED <<handlerRest, connVars, call, helper, connected, authResult,
                 reports>>

HandlerQuit(c) ==
  /\ runOf[c] \in closed
  /\ Step(c, "loop", "end")
  /\ CloseConnIfCurrent(c)
  /\ NotifyLoss(Handler(c), c)
  /\ ReportAuth(c, "failed")
  /\ UNCHANGED <<handlerRest, helper, connected>>

\* Read returns payload, which is delivered.
HandlerData(c) ==
  /\ sock[c] /\ connected[c]
  /\ Step(c, "read", "loop")
  /\ UNCHANGED <<handlerRest, connVars, call, helper, connected, authResult,
                 reports>>

\* Read fails: the peer hung up, a time-out, an error; or net.ErrClosed, after
\* which an unauthenticated connection is not reported.
HandlerReadFails(c) ==
  /\ Step(c, "read",
          IF sock[c] /\ conn = c /\ ~connected[c] THEN "lost" ELSE "end")
  /\ CloseConnIfCurrent(c)
  /\ NotifyLoss(Handler(c), c)
  /\ UNCHANGED <<handlerRest, helper, connected, authResult>>

\* The failure of an unauthenticated connection, unless the run has ended.
HandlerLost(c) ==
  /\ Step(c, "lost", "end")
  /\ IF runOf[c] \in closed THEN UNCHANGED <<authResult, call>>
     ELSE /\ ReportAuth(c, "failed")
          /\ CallBack(Handler(c))
  /\ UNCHANGED <<handlerRest, connVars, helper, connected, reports>>

\* The caster's answer is a refusal, too long or not understood: reportAuth.
HandlerRefused(c) ==
  /\ sock[c] /\ ~connected[c]
  /\ Step(c, "read", "refused")
  /\ ReportAuth(c, "failed")
  /\ UNCHANGED <<handlerRest, connVars, call, helper, connected, reports>>

\* ... and then closeConnIfCurrent and the error callback.
HandlerDrops(c) ==
  /\ Step(c, "refused", "end")
  /\ CloseConnIfCurrent(c)
  /\ IF conn = c THEN CallBack(Handler(c)) ELSE UNCHANGED call
  /\ UNCHANGED <<handlerRest, helper, connected, authResult, reports>>

\* The caster's answer is a success, read before the connection was dropped
\* or replaced if it was.
HandlerAccepted(c) ==
  /\ ~connected[c]
  /\ \/ conn = c /\ Step(c, "read", "accepted")
        /\ UNCHANGED <<connVars, authResult>>
     \/ conn # c /\ Step(c, "read", "end")
        /\ sock' = [sock EXCEPT ![c] = FALSE]
        /\ ReportAuth(c, "failed")
        /\ UNCHANGED conn
  /\ UNCHANGED <<handlerRest, call, helper, connected, reports>>

\* connected, reportAuth(nil), the connect callback, startGGA.
HandlerConnected(c) ==
  /\ Step(c, "accepted", "loop")
  /\ connected' = [connected EXCEPT ![c] = TRUE]
  /\ ReportAuth(c, "ok")
  /\ helper' = IF IsGga THEN [helper EXCEPT ![c]["gga"] = "on"] ELSE helper
  /\ UNCHANGED <<handlerRest, connVars, call, reports>>

\* The deferred functions: report, close(connDone), wg.Done().
HandlerGone(c) ==
  /\ Step(c, "end", "gone")
  /\ DeferredReport(c)
  /\ UNCHANGED <<handlerRest, connVars, call, helper, connected, reports>>

HandlerStep(c) ==
  \/ HandlerLoop(c) \/ HandlerQuit(c) \/ HandlerData(c) \/ HandlerReadFails(c)
  \/ HandlerLost(c) \/ HandlerRefused(c) \/ HandlerDrops(c)
  \/ HandlerAccepted(c) \/ HandlerConnected(c) \/ HandlerGone(c)

HelperGoto(c, k, from, to) ==
  /\ helper[c][k] = from /\ Free(<<c, k>>)
  /\ helper' = [helper EXCEPT ![c][k] = to]

helperRest == <<handlerRest, hpc, connected, authResult>>

\* quit or connDone is closed; or the last step after the callback.
HelperEnds(c, k) ==
  /\ \/ (runOf[c] \in closed \/ hpc[c] = "gone") /\ HelperGoto(c, k, "on", "off")
     \/ HelperGoto(c, k, "leave", "off")
  /\ UNCHANGED <<helperRest, connVars, call, reports>>

\* No data for 60 seconds, or a GGA sentence cannot be written.  The read of
\* an unauthenticated connection ends long before, after 10 seconds.
HelperFails(c, k) ==
  /\ k = "monitor" => connected[c]
  /\ HelperGoto(c, k, "on", "leave")
  /\ CloseConnIfCurrent(c)
  /\ NotifyLoss(<<c, k>>, c)
  /\ UNCHANGED helperRest

---------------------------------------------------------------------------
(* Stop and Shutdown.                                                      *)

stopRest == <<run, mine, rrun, call, handlerVars, reports>>

\* Cancel the dial in progress, if there is one: it may fail at any time.
StopCancel(u) ==
  /\ Goto(u, "idle", "stop")
  /\ quit < MaxRuns
  /\ UNCHANGED <<stopRest, connVars, lifeVars, taken, stopped>>

\* startMu.Lock() and safeClose(c.currentRun()).
StopQuit(u) ==
  /\ Goto(u, "stop", "stopConn")
  /\ StopLocks
  /\ quit < MaxRuns
  /\ closed' = closed \cup {quit}
  /\ UNCHANGED <<stopRest, connVars, quit, taken, stopped>>

\* closeConn and startMu.Unlock(); Stop returns and Shutdown goes on to wait.
StopConn(u) ==
  /\ Goto(u, "stopConn", "idle") \/ Goto(u, "stopConn", "wait")
  /\ CloseConn
  /\ taken' = taken \cup ({conn} \ {0})
  /\ stopped' = \A v \in Users : pc[v] # "start"
  /\ UNCHANGED <<stopRest, lifeVars>>

\* The goroutines counted by c.wg.
Running ==
  {c \in Conns : hpc[c] \notin {"none", "starting", "gone"}}
    \cup {c \in Conns : \E k \in Helpers : helper[c][k] # "off"}
    \cup {r \in {0} : pc[Retrier] # "idle"}

ShutdownReturns(u) ==
  /\ Goto(u, "wait", "idle")
  /\ Running = {}
  /\ UNCHANGED <<stopRest, connVars, lifeVars, taken, stopped>>

ShutdownExpires(u) ==
  /\ Goto(u, "wait", "idle")
  /\ UNCHANGED <<stopRest, connVars, lifeVars, taken, stopped>>

\* The application calls Retry itself.
UserRetry(u) ==
  /\ "itself" \in RetryFrom
  /\ pc[u] = "idle" /\ Free(u)
  /\ call' = [call EXCEPT ![u] = Entering]
  /\ UNCHANGED <<connVars, lifeVars, startVars, handlerVars, reports, taken,
                 stopped>>

---------------------------------------------------------------------------
UserCalls(u) == UserStart(u) \/ StopCancel(u) \/ UserRetry(u)

StopStep(u) == StopQuit(u) \/ StopConn(u) \/ ShutdownReturns(u)

Next ==
  \/ \E u \in Users :
       \/ UserCalls(u) \/ StopStep(u) \/ ShutdownExpires(u)
       \/ ConnectReturns(u) \/ ConnectExpires(u)
  \/ \E a \in Starters : Start(a)
  \/ \E a \in Actors : RetryCall(a)
  \/ Retrying
  \/ \E c \in Conns : HandlerStep(c)
  \/ \E c \in Conns, k \in Helpers : HelperEnds(c, k) \/ HelperFails(c, k)

Spec == Init /\ [][Next]_vars

\* A read without the deadline.
ReadEndsIfClosed(c) == hpc[c] = "read" => ~sock[c]

\* A read ends by itself when the connection is closed, and by its deadline
\* while the connection is unauthenticated; a silent caster blocks it otherwise.
ReadEnds(c) == hpc[c] = "read" => ~sock[c] \/ ~connected[c]

HandlerProgress(c) == ReadEnds(c) /\ HandlerStep(c)

\* Started goroutines keep running: a dial has a timeout, the read of an
\* unauthenticated connection and every write a deadline, callbacks return.
\* A select that finds several cases ready picks one at random, so it does not
\* pass over quit for ever; sync.Mutex lets no waiter starve.  Nothing makes
\* the application call an operation, a context expire, or a helper find fault
\* with the connection.
FairSpec ==
  /\ Spec
  /\ \A a \in Starters : SF_vars(Start(a))
  /\ \A a \in Actors : WF_vars(RetryCall(a))
  /\ \A u \in Users : SF_vars(StopStep(u)) /\ WF_vars(ConnectReturns(u))
  /\ WF_vars(Retrying) /\ SF_vars(RetryQuit("timer"))
  /\ \A c \in Conns : WF_vars(HandlerProgress(c))
  /\ \A c \in Conns, k \in Helpers : WF_vars(HelperEnds(c, k))

---------------------------------------------------------------------------
(* Properties.                                                             *)

\* The connections that are open are exactly the current one: a goroutine
\* that drops the connection it was made for never takes its successor away,
\* and a replaced connection is closed (ntrip_client.go:105-140, 361-363).  The
\* Close that follows the unlock of connMu counts as part of the same step.
OneOpenConnection == \A c \in Conns : sock[c] <=> conn = c

\* The handler, the idle monitor and the GGA sender all try to report the
\* end of a connection; one of them does, and once, if it ended while it was
\* current (ntrip_client.go:505-514, 540-542, 574-576, 588-590, 600-622).  That
\* a connection taken away by Stop, Start or an expired Connect is reported
\* too, it does not say: see DisconnectReported.
LossReportedOnce ==
  \A c \in Conns :
    /\ reports[c] <= 1
    /\ reports[c] = 1 => connected[c] /\ conn # c
    /\ hpc[c] = "gone" /\ connected[c] /\ c \notin taken => reports[c] = 1

\* "OnDisconnect fires after the connection breaks" (README.md:411): an
\* authenticated connection whose handler has ended has been reported, whoever
\* ended it.
DisconnectReported ==
  \A c \in Conns : hpc[c] = "gone" /\ connected[c] => reports[c] = 1

\* A current connection always has someone to notice its end: its handler,
\* or the call that is about to start one (ntrip_client.go:361-382).
CurrentIsAttended ==
  conn # 0 =>
    \/ hpc[conn] \in {"loop", "read", "refused", "accepted"}
    \/ hpc[conn] = "starting"
         /\ \E a \in Starters : pc[a] = "auth" /\ mine[a] = conn

\* "Shutdown stops the client" (ntrip_client.go:399): once Stop has run, there
\* is no connection until the application calls Start or Connect again.
StopStops == stopped => conn = 0

\* The current connection belongs to a run that has not been stopped, except
\* while the Stop that ended it still has to drop it: whatever was dialling
\* when quit was closed is dropped too (ntrip_client.go:143-150, 386-397).
StoppedRunDropped ==
  conn # 0 /\ (\A u \in Users : pc[u] # "stopConn") => runOf[conn] \notin closed

\* Connect and the retry goroutine, waiting for the result of authentication,
\* get one, whatever ends the handler (ntrip_client.go:316-318, 448-455, 498).
ResultArrives ==
  \A a \in Starters : pc[a] = "await" ~> pc[a] # "await"

\* Shutdown with a context that does not expire returns, unless a new run
\* begins, by a Start or by a pending Retry (see StopStops): all goroutines it
\* waits for end, with silent casters too (ntrip_client.go:386-407).
ShutdownCompletes ==
  \A u \in Users : pc[u] = "wait" ~> (pc[u] = "idle" \/ quit \notin closed)

\* Whoever waits inside Connect, Retry or Shutdown is let go.
CallsReturn == ResultArrives /\ ShutdownCompletes

\* The goroutine of Retry ends once its run is stopped, whatever it is doing
\* (ntrip_client.go:439-454).
RetryGivesUp == (pc[Retrier] # "idle" /\ rrun \in closed) ~> pc[Retrier] = "idle"
============================================================================
