------------------------- MODULE NtripClientProofs --------------------------
(***************************************************************************)
(* NtripClient for any number of users, connections and runs, wherever the *)
(* application calls Retry: types, one open connection that somebody       *)
(* attends to, the end of a stopped run, and the reports of losses.        *)
(***************************************************************************)
EXTENDS NtripClient, TLAPS

---------------------------------------------------------------------------
(* The inductive invariant.  TypeOK comes in four parts.                   *)

StartSteps == {"idle", "start", "dial", "auth", "await", "stop", "stopConn", "wait",
               "timer", "leave"}

\* The steps at which a starter holds startMu.
Locked == {"dial", "auth", "stopConn"}

StartTypes == pc \in [Starters -> StartSteps] /\ mine \in [Starters -> 0..MaxConns]

HandlerTypes ==
  /\ hpc \in [Conns -> {"none", "starting", "loop", "read", "refused", "accepted", "lost",
                        "end", "gone"}]
  /\ helper \in [Conns -> [Helpers -> {"off", "on", "leave"}]]
  /\ authResult \in [Conns -> {"none", "ok", "failed"}]

Truths ==
  /\ sock \in [Conns -> BOOLEAN] /\ connected \in [Conns -> BOOLEAN]
  /\ stopped \in BOOLEAN

RunTypes ==
  /\ quit \in Runs /\ closed \subseteq Runs /\ rrun \in Runs
  /\ run \in [Starters -> Runs] /\ runOf \in [Conns -> Runs]
  /\ call \in [Actors -> {NotCalling, Entering} \cup Runs]

\* A starter has a connection of its own exactly between the dial and the end
\* of its call, and the handler of a connection being started does not run.
Owns ==
  \A a \in Starters :
    /\ pc[a] \in {"auth", "await"} <=> mine[a] # 0
    /\ pc[a] = "auth" => hpc[mine[a]] = "starting"

\* startMu has at most one holder.
OneStarts == \A a, b \in Starters : pc[a] \in Locked /\ pc[b] \in Locked => a = b

\* Only the current run and earlier ones have ended, and while somebody dials
\* for the current run nobody ends it.
Current ==
  /\ \A r \in closed : r <= quit
  /\ quit \in closed => quit < MaxRuns
  /\ \A a \in Starters : pc[a] = "dial" => run[a] = quit /\ quit \notin closed

StartInv == StartTypes /\ HandlerTypes /\ Owns /\ OneStarts

\* What the position of its handler says about a connection.  As long as it
\* is current nobody has reported its loss; when it no longer is, the
\* application took it or its loss has been reported, once it had been
\* authenticated.
Place(c) ==
  /\ conn = c => /\ c \notin taken /\ reports[c] = 0
                 /\ hpc[c] \notin {"none", "lost", "end", "gone"}
  /\ hpc[c] = "none" => c \notin taken /\ reports[c] = 0
  /\ hpc[c] \in {"none", "starting", "refused", "accepted", "lost"} => ~connected[c]
  /\ helper[c]["gga"] = "on" => connected[c]
  /\ reports[c] # 0 => reports[c] = 1 /\ connected[c]
  /\ conn # c /\ connected[c] /\ c \notin taken => reports[c] = 1
  /\ hpc[c] = "accepted" /\ c \notin taken => conn = c

Positions ==
  /\ conn \in 0..MaxConns /\ reports \in [Conns -> Nat] /\ taken \subseteq Conns
  /\ \A c \in Conns : Place(c)

---------------------------------------------------------------------------
(* The calls of the starters.                                              *)

\* Starter a, with no connection of its own, goes to a step without the lock.
Moves(a, to) ==
  /\ pc[a] \notin {"auth", "await"} /\ to \in StartSteps \ ({"await"} \cup Locked)
  /\ pc' = [pc EXCEPT ![a] = to]
  /\ mine' = mine \/ mine' = [mine EXCEPT ![a] = 0]

\* Starter a takes startMu.
Locks(a, to) ==
  /\ pc[a] \notin {"auth", "await"} /\ to \in {"dial", "stopConn"} /\ StartMuFree
  /\ pc' = [pc EXCEPT ![a] = to] /\ mine' = mine

\* Starter a is done with its connection.
Ends(a, to) ==
  /\ pc[a] \in {"auth", "await"} /\ to \in StartSteps \ ({"await"} \cup Locked)
  /\ pc' = [pc EXCEPT ![a] = to] /\ mine' = [mine EXCEPT ![a] = 0]

\* Starter a has sent its request and waits.
Awaits(a) ==
  /\ pc[a] = "auth" /\ pc' = [pc EXCEPT ![a] = "await"] /\ mine' = mine

\* No handler of a connection that is being started has run.
StartingKept == \A d \in Conns : hpc[d] = "starting" => hpc'[d] = "starting"

\* The steps of users that are not those of startConnectionContext.
LEMMA UserSteps ==
  ASSUME StartInv, NEW u \in Users,
         \/ UserCalls(u) \/ StopStep(u) \/ ShutdownExpires(u)
         \/ ConnectReturns(u) \/ ConnectExpires(u)
  PROVE  /\ \/ UNCHANGED <<pc, mine>>
            \/ \E to \in StartSteps :
                 Moves(u, to) \/ Locks(u, to) \/ (pc[u] = "await" /\ Ends(u, to))
         /\ UNCHANGED hpc
<1> USE DEF handlerVars, StartSteps, Locked, Goto
<1>1. CASE UserStart(u) \/ StopCancel(u)
  <2>1. /\ pc[u] = "idle" /\ mine' = mine /\ UNCHANGED hpc
        /\ pc' = [pc EXCEPT ![u] = "start"] \/ pc' = [pc EXCEPT ![u] = "stop"]
    BY <1>1 DEF UserStart, StopCancel, stopRest
  <2>2. Moves(u, "start") \/ Moves(u, "stop")
    BY <2>1 DEF Moves
  <2> QED BY <2>1, <2>2
<1>2. CASE UserRetry(u)
  BY <1>2 DEF UserRetry, startVars
<1>3. CASE StopQuit(u)
  <2>1. UNCHANGED hpc /\ Locks(u, "stopConn")
    BY <1>3 DEF StopQuit, Locks, StopLocks, stopRest
  <2> QED BY <2>1
<1>4. CASE StopConn(u)
  <2>1. /\ pc[u] = "stopConn" /\ mine' = mine /\ UNCHANGED hpc
        /\ pc' = [pc EXCEPT ![u] = "idle"] \/ pc' = [pc EXCEPT ![u] = "wait"]
    BY <1>4 DEF StopConn, stopRest
  <2>2. Moves(u, "idle") \/ Moves(u, "wait")
    BY <2>1 DEF Moves
  <2> QED BY <2>1, <2>2
<1>5. CASE ShutdownReturns(u) \/ ShutdownExpires(u)
  <2>1. /\ pc[u] = "wait" /\ mine' = mine /\ UNCHANGED hpc /\ pc' = [pc EXCEPT ![u] = "idle"]
    BY <1>5 DEF ShutdownReturns, ShutdownExpires, stopRest
  <2>2. Moves(u, "idle")
    BY <2>1 DEF Moves
  <2> QED BY <2>1, <2>2
<1>6. CASE ConnectReturns(u) \/ ConnectExpires(u)
  <2>1. UNCHANGED hpc /\ pc[u] = "await" /\ Ends(u, "idle")
    BY <1>6 DEF ConnectReturns, ConnectExpires, DoneWith, Ends
  <2> QED BY <2>1
<1> QED BY <1>1, <1>2, <1>3, <1>4, <1>5, <1>6 DEF UserCalls, StopStep

\* The steps of the retry goroutine and of calls of Retry.
LEMMA RetrySteps ==
  ASSUME StartInv, Retrying \/ \E a \in Actors : RetryCall(a)
  PROVE  /\ \/ UNCHANGED <<pc, mine>>
            \/ \E to \in StartSteps :
                 Moves(Retrier, to) \/ (pc[Retrier] = "await" /\ Ends(Retrier, to))
         /\ UNCHANGED hpc
<1> USE DEF handlerVars, StartSteps, Locked, Goto
<1>0. Retrier \in Starters
  BY DEF Starters
<1>1. CASE RetryQuit("timer") \/ RetryQuit("await")
  <2>1. /\ UNCHANGED hpc
        /\ Moves(Retrier, "leave") \/ (pc[Retrier] = "await" /\ Ends(Retrier, "leave"))
    BY <1>1 DEF RetryQuit, DoneWith, retryRest, Moves, Ends
  <2> QED BY <2>1
<1>2. CASE RetryTimer
  <2>1. UNCHANGED hpc /\ (Moves(Retrier, "leave") \/ Moves(Retrier, "start"))
    BY <1>2 DEF RetryTimer, retryRest, Moves
  <2> QED BY <2>1
<1>3. CASE RetryResult
  <2>1. /\ UNCHANGED hpc /\ pc[Retrier] = "await"
        /\ Ends(Retrier, "leave") \/ Ends(Retrier, "timer")
    BY <1>3 DEF RetryResult, DoneWith, retryRest, Ends
  <2> QED BY <2>1
<1>4. CASE RetryLeaves
  <2>1. UNCHANGED hpc /\ Moves(Retrier, "idle")
    BY <1>4 DEF RetryLeaves, retryRest, Moves
  <2> QED BY <2>1
<1>5. ASSUME NEW a \in Actors, RetryEnter(a)
      PROVE  UNCHANGED <<pc, mine, hpc>>
  BY <1>5 DEF RetryEnter, startVars
<1>6. ASSUME NEW a \in Actors, RetrySwap(a)
      PROVE  UNCHANGED hpc /\ (UNCHANGED <<pc, mine>> \/ Moves(Retrier, "timer"))
  BY <1>6 DEF RetrySwap, Moves
<1> QED BY <1>1, <1>2, <1>3, <1>4, <1>5, <1>6 DEF Retrying, RetryCall

\* The goroutines of a connection leave the starters alone, and the handler
\* of one that is being started does not run.
LEMMA ConnectionSteps ==
  ASSUME StartInv, NEW c \in Conns,
         HandlerStep(c) \/ \E k \in Helpers : HelperEnds(c, k) \/ HelperFails(c, k)
  PROVE  UNCHANGED <<pc, mine>> /\ StartingKept
<1>0. hpc \in [Conns -> {"none", "starting", "loop", "read", "refused", "accepted", "lost",
                         "end", "gone"}]
  BY DEF StartInv, HandlerTypes
<1>1. CASE HandlerStep(c)
  <2>1. /\ UNCHANGED <<pc, mine>> /\ hpc[c] # "starting"
        /\ \E to : hpc' = [hpc EXCEPT ![c] = to]
    BY <1>1
    DEF HandlerStep, HandlerLoop, HandlerQuit, HandlerData, HandlerReadFails, HandlerLost,
        HandlerRefused, HandlerDrops, HandlerAccepted, HandlerConnected, HandlerGone,
        Step, handlerRest, startVars
  <2> QED BY <1>0, <2>1 DEF StartingKept
<1>2. ASSUME NEW k \in Helpers, HelperEnds(c, k) \/ HelperFails(c, k)
      PROVE  UNCHANGED <<pc, mine, hpc>>
  BY <1>2 DEF HelperEnds, HelperFails, helperRest, handlerRest, startVars
<1> QED BY <1>1, <1>2 DEF StartingKept

\* The steps of startConnectionContext.
LEMMA StarterSteps ==
  ASSUME StartInv, NEW a \in Starters, Start(a)
  PROVE  \/ UNCHANGED hpc /\ \E to \in StartSteps : Moves(a, to) \/ Locks(a, to)
         \/ \E c \in Conns : DialOK(a, c)
         \/ /\ \E h \in {"loop", "gone"} : hpc' = [hpc EXCEPT ![mine[a]] = h]
            /\ pc[a] = "auth"
            /\ Awaits(a) \/ \E to \in StartSteps : Ends(a, to)
<1> USE DEF handlerVars, StartSteps, Locked, Goto, AfterFailure
<1>1. CASE BeginRun(a)
  <2>1. UNCHANGED hpc /\ Locks(a, "dial")
    BY <1>1 DEF BeginRun, Locks
  <2> QED BY <2>1
<1>2. CASE DialFails(a)
  <2>1. UNCHANGED hpc /\ (Moves(a, "timer") \/ Moves(a, "idle"))
    BY <1>2 DEF DialFails, Moves
  <2> QED BY <2>1
<1>3. CASE RequestSent(a)
  <2>1. /\ hpc' = [hpc EXCEPT ![mine[a]] = "loop"] /\ pc[a] = "auth"
        /\ Awaits(a) \/ Ends(a, "idle")
    BY <1>3 DEF RequestSent, Awaits, Ends, DoneWith
  <2> QED BY <2>1
<1>4. CASE RequestFails(a)
  <2>1. /\ hpc' = [hpc EXCEPT ![mine[a]] = "gone"] /\ pc[a] = "auth"
        /\ Ends(a, "timer") \/ Ends(a, "idle")
    BY <1>4 DEF RequestFails, Ends, DoneWith
  <2> QED BY <2>1
<1> QED BY <1>1, <1>2, <1>3, <1>4 DEF Start

\* A starter's connection is its own, and startMu has one holder.
LEMMA StepOwns ==
  StartInv /\ [Next]_vars => StartTypes' /\ Owns' /\ OneStarts'
<1> SUFFICES ASSUME StartInv, [Next]_vars
             PROVE  StartTypes' /\ Owns' /\ OneStarts'
  OBVIOUS
<1>0. /\ pc \in [Starters -> StartSteps] /\ mine \in [Starters -> 0..MaxConns]
      /\ hpc \in [Conns -> {"none", "starting", "loop", "read", "refused", "accepted",
                            "lost", "end", "gone"}]
      /\ 0 \in 0..MaxConns /\ \A c \in Conns : c \in 0..MaxConns /\ c # 0
      /\ \A n \in 0..MaxConns : n # 0 => n \in Conns
  BY NtripClientAssumption DEF StartInv, StartTypes, HandlerTypes, Conns
<1>1. ASSUME UNCHANGED <<pc, mine>>, StartingKept
      PROVE  StartTypes' /\ Owns' /\ OneStarts'
  BY <1>0, <1>1 DEF StartInv, StartTypes, Owns, OneStarts, StartingKept
<1>2. ASSUME NEW a \in Starters, NEW to \in StartSteps, Moves(a, to) \/ Locks(a, to),
             UNCHANGED hpc
      PROVE  StartTypes' /\ Owns' /\ OneStarts'
  <2>1. /\ pc[a] \notin {"auth", "await"} /\ to \notin {"auth", "await"}
        /\ pc' = [pc EXCEPT ![a] = to]
        /\ mine' = mine \/ mine' = [mine EXCEPT ![a] = 0]
        /\ to \in Locked => \A b \in Starters : pc[b] \notin Locked
    BY <1>2 DEF Moves, Locks, Locked, StartMuFree
  <2>2. mine' = mine
    <3>1. mine[a] = 0
      BY <2>1 DEF StartInv, Owns
    <3> QED BY <1>0, <2>1, <3>1
  <2>3. \A b \in Starters : b # a => pc'[b] = pc[b]
    BY <1>0, <2>1
  <2>4. pc'[a] = to
    BY <1>0, <2>1
  <2>5. StartTypes'
    BY <1>0, <2>1, <2>2 DEF StartTypes
  <2>6. Owns'
    BY <1>2, <2>1, <2>2, <2>3, <2>4 DEF StartInv, Owns
  <2>7. OneStarts'
    BY <2>1, <2>3, <2>4 DEF StartInv, OneStarts
  <2> QED BY <2>5, <2>6, <2>7
<1>3. ASSUME NEW a \in Starters, NEW to \in StartSteps, Ends(a, to),
             \/ UNCHANGED hpc
             \/ /\ pc[a] = "auth"
                /\ \E h \in {"loop", "gone"} : hpc' = [hpc EXCEPT ![mine[a]] = h]
      PROVE  StartTypes' /\ Owns' /\ OneStarts'
  <2>1. /\ pc[a] \in {"auth", "await"} /\ to \notin {"auth", "await"} /\ to \notin Locked
        /\ pc' = [pc EXCEPT ![a] = to] /\ mine' = [mine EXCEPT ![a] = 0]
    BY <1>3 DEF Ends, Locked
  <2>2. \A b \in Starters : b # a => pc'[b] = pc[b] /\ mine'[b] = mine[b]
    BY <1>0, <2>1
  <2>3. pc'[a] = to /\ mine'[a] = 0
    BY <1>0, <2>1
  <2>4. \A b \in Starters : b # a /\ pc[b] = "auth" => hpc'[mine[b]] = "starting"
    BY <1>3 DEF StartInv, Owns, OneStarts, Locked
  <2>5. StartTypes'
    BY <1>0, <2>1 DEF StartTypes
  <2>6. Owns'
    BY <2>1, <2>2, <2>3, <2>4 DEF StartInv, Owns
  <2>7. OneStarts'
    BY <2>1, <2>2, <2>3 DEF StartInv, OneStarts
  <2> QED BY <2>5, <2>6, <2>7
<1>4. ASSUME NEW a \in Starters, Awaits(a),
             \E h \in {"loop", "gone"} : hpc' = [hpc EXCEPT ![mine[a]] = h]
      PROVE  StartTypes' /\ Owns' /\ OneStarts'
  <2>1. pc[a] = "auth" /\ pc' = [pc EXCEPT ![a] = "await"] /\ mine' = mine
    BY <1>4 DEF Awaits
  <2>2. \A b \in Starters : b # a => pc'[b] = pc[b] /\ pc[b] # "auth"
    BY <1>0, <2>1 DEF StartInv, OneStarts, Locked
  <2>3. pc'[a] = "await"
    BY <1>0, <2>1
  <2>4. StartTypes'
    BY <1>0, <2>1 DEF StartTypes, StartSteps
  <2>5. Owns'
    BY <2>1, <2>2, <2>3 DEF StartInv, Owns
  <2>6. OneStarts'
    BY <2>1, <2>2, <2>3 DEF StartInv, OneStarts, Locked
  <2> QED BY <2>4, <2>5, <2>6
<1>5. ASSUME NEW a \in Starters, NEW c \in Conns, DialOK(a, c)
      PROVE  StartTypes' /\ Owns' /\ OneStarts'
  <2>1. /\ pc[a] = "dial" /\ pc' = [pc EXCEPT ![a] = "auth"] /\ hpc[c] = "none"
        /\ mine' = [mine EXCEPT ![a] = c] /\ hpc' = [hpc EXCEPT ![c] = "starting"]
    BY <1>5 DEF DialOK, Goto, Fresh
  <2>2. \A b \in Starters :
          b # a => pc'[b] = pc[b] /\ mine'[b] = mine[b] /\ pc[b] \notin Locked
    BY <1>0, <2>1 DEF StartInv, OneStarts, Locked
  <2>3. pc'[a] = "auth" /\ mine'[a] = c /\ hpc'[c] = "starting" /\ c # 0
    BY <1>0, <2>1
  <2>4. StartTypes'
    BY <1>0, <2>1 DEF StartTypes, StartSteps
  <2>5. Owns'
    BY <2>2, <2>3 DEF StartInv, Owns, Locked
  <2>6. OneStarts'
    BY <2>2 DEF OneStarts
  <2> QED BY <2>4, <2>5, <2>6
<1>6. CASE UNCHANGED vars
  BY <1>1, <1>6 DEF vars, startVars, handlerVars, StartingKept
<1>7. ASSUME NEW u \in Users,
             \/ UserCalls(u) \/ StopStep(u) \/ ShutdownExpires(u)
             \/ ConnectReturns(u) \/ ConnectExpires(u)
      PROVE  StartTypes' /\ Owns' /\ OneStarts'
  <2>1. u \in Starters
    BY DEF Starters
  <2>2. UNCHANGED hpc => StartingKept
    BY DEF StartingKept
  <2> QED BY <1>1, <1>2, <1>3, <1>7, <2>1, <2>2, UserSteps
<1>8. ASSUME Retrying \/ \E a \in Actors : RetryCall(a)
      PROVE  StartTypes' /\ Owns' /\ OneStarts'
  <2>1. Retrier \in Starters
    BY DEF Starters
  <2>2. UNCHANGED hpc => StartingKept
    BY DEF StartingKept
  <2> QED BY <1>1, <1>2, <1>3, <1>8, <2>1, <2>2, RetrySteps
<1>9. ASSUME NEW a \in Starters, Start(a)
      PROVE  StartTypes' /\ Owns' /\ OneStarts'
  BY <1>2, <1>3, <1>4, <1>5, <1>9, StarterSteps
<1>10. ASSUME NEW c \in Conns,
              HandlerStep(c) \/ \E k \in Helpers : HelperEnds(c, k) \/ HelperFails(c, k)
       PROVE  StartTypes' /\ Owns' /\ OneStarts'
  BY <1>1, <1>10, ConnectionSteps
<1> QED BY <1>6, <1>7, <1>8, <1>9, <1>10 DEF Next


---------------------------------------------------------------------------
(* The handlers and the helpers.                                           *)

\* A starter that has a connection has one of Conns.
LEMMA OwnConn ==
  ASSUME StartInv, NEW a \in Starters, pc[a] \in {"auth", "await"}
  PROVE  mine[a] \in Conns
  BY NtripClientAssumption DEF StartInv, StartTypes, Owns, Conns

\* The handlers, helpers and results keep their types.
LEMMA StepHandlerTypes == StartInv /\ [Next]_vars => HandlerTypes'
<1> SUFFICES ASSUME StartInv, [Next]_vars PROVE HandlerTypes'
  OBVIOUS
<1>0. HandlerTypes /\ "gga" \in Helpers /\ "monitor" \in Helpers
  BY DEF StartInv, Helpers
<1>1. CASE UNCHANGED <<hpc, helper, authResult>>
  BY <1>0, <1>1 DEF HandlerTypes
<1>2. ASSUME NEW c \in Conns,
             \/ hpc' = hpc
             \/ \E h \in {"starting", "loop", "read", "refused", "accepted", "lost", "end",
                          "gone"} : hpc' = [hpc EXCEPT ![c] = h],
             \/ helper' = helper
             \/ \E k \in Helpers, s \in {"off", "on", "leave"} :
                  helper' = [helper EXCEPT ![c][k] = s],
             \/ authResult' = authResult
             \/ \E r \in {"ok", "failed"} : ReportAuth(c, r)
      PROVE  HandlerTypes'
  <2>1. hpc' \in [Conns -> {"none", "starting", "loop", "read", "refused", "accepted",
                            "lost", "end", "gone"}]
    BY <1>0, <1>2 DEF HandlerTypes
  <2>2. helper' \in [Conns -> [Helpers -> {"off", "on", "leave"}]]
    BY <1>0, <1>2 DEF HandlerTypes
  <2>3. authResult' \in [Conns -> {"none", "ok", "failed"}]
    BY <1>0, <1>2 DEF HandlerTypes, ReportAuth
  <2> QED BY <2>1, <2>2, <2>3 DEF HandlerTypes
<1>3. ASSUME NEW a \in Starters, Start(a)
      PROVE  HandlerTypes'
  <2>1. CASE BeginRun(a) \/ DialFails(a)
    BY <1>1, <2>1 DEF BeginRun, DialFails, handlerVars
  <2>2. ASSUME NEW c \in Conns, DialOK(a, c) PROVE HandlerTypes'
    BY <1>2, <2>2 DEF DialOK
  <2>3. CASE RequestSent(a)
    <3>1. mine[a] \in Conns
      BY <2>3, OwnConn DEF RequestSent, Goto
    <3> QED BY <1>0, <1>2, <2>3, <3>1 DEF RequestSent
  <2>4. CASE RequestFails(a)
    <3>1. mine[a] \in Conns
      BY <2>4, OwnConn DEF RequestFails, Goto
    <3> QED BY <1>2, <2>4, <3>1 DEF RequestFails
  <2> QED BY <1>3, <2>1, <2>2, <2>3, <2>4 DEF Start
<1>4. ASSUME NEW c \in Conns, HandlerStep(c)
      PROVE  HandlerTypes'
  <2>1. CASE HandlerLoop(c) \/ HandlerData(c) \/ HandlerReadFails(c) \/ HandlerDrops(c)
    BY <1>2, <2>1 DEF HandlerLoop, HandlerData, HandlerReadFails, HandlerDrops, Step
  <2>2. CASE HandlerQuit(c) \/ HandlerRefused(c) \/ HandlerGone(c)
    BY <1>2, <2>2 DEF HandlerQuit, HandlerRefused, HandlerGone, DeferredReport, Step
  <2>3. CASE HandlerLost(c)
    BY <1>2, <2>3 DEF HandlerLost, Step
  <2>4. CASE HandlerAccepted(c)
    BY <1>2, <2>4 DEF HandlerAccepted, Step
  <2>5. CASE HandlerConnected(c)
    BY <1>0, <1>2, <2>5 DEF HandlerConnected, Step
  <2> QED BY <1>4, <2>1, <2>2, <2>3, <2>4, <2>5 DEF HandlerStep
<1>5. ASSUME NEW c \in Conns, NEW k \in Helpers, HelperEnds(c, k) \/ HelperFails(c, k)
      PROVE  HandlerTypes'
  BY <1>2, <1>5 DEF HelperEnds, HelperFails, HelperGoto, helperRest
<1>6. ASSUME NEW u \in Users,
             \/ UserCalls(u) \/ StopStep(u) \/ ShutdownExpires(u)
             \/ ConnectReturns(u) \/ ConnectExpires(u)
      PROVE  HandlerTypes'
  BY <1>1, <1>6
  DEF UserCalls, UserStart, StopCancel, UserRetry, StopStep, StopQuit, StopConn,
      ShutdownReturns, ShutdownExpires, ConnectReturns, ConnectExpires, stopRest, handlerVars
<1>7. ASSUME Retrying \/ \E a \in Actors : RetryCall(a)
      PROVE  HandlerTypes'
  BY <1>1, <1>7
  DEF Retrying, RetryQuit, RetryTimer, RetryResult, RetryLeaves, RetryCall, RetryEnter,
      RetrySwap, retryRest, handlerVars
<1>8. CASE UNCHANGED vars
  BY <1>1, <1>8 DEF vars, handlerVars
<1> QED BY <1>3, <1>4, <1>5, <1>6, <1>7, <1>8 DEF Next

\* So the calls and the handlers fit together throughout.
LEMMA StepStartInv == StartInv /\ [Next]_vars => StartInv'
  BY StepOwns, StepHandlerTypes DEF StartInv

---------------------------------------------------------------------------
(* The current connection.                                                 *)

\* Every step leaves c.conn and the sockets alone, replaces the connection,
\* drops one, or closes the socket of one that is no longer current.
LEMMA ConnSteps ==
  ASSUME StartInv, Next
  PROVE  \/ UNCHANGED <<conn, sock>>
         \/ CloseConn
         \/ \E a \in Starters, c \in Conns : DialOK(a, c)
         \/ \E c \in Conns :
              \/ CloseConnIfCurrent(c)
              \/ conn # c /\ sock' = [sock EXCEPT ![c] = FALSE] /\ UNCHANGED conn
<1>1. ASSUME NEW a \in Starters, Start(a)
      PROVE  \/ UNCHANGED <<conn, sock>>
             \/ \E c \in Conns : DialOK(a, c) \/ CloseConnIfCurrent(c)
  <2>1. CASE BeginRun(a) \/ DialFails(a) \/ RequestSent(a)
    BY <2>1 DEF BeginRun, DialFails, RequestSent, connVars
  <2>2. CASE RequestFails(a)
    <3>1. mine[a] \in Conns /\ CloseConnIfCurrent(mine[a])
      BY <2>2, OwnConn DEF RequestFails, Goto
    <3> QED BY <3>1
  <2> QED BY <1>1, <2>1, <2>2 DEF Start
<1>2. ASSUME NEW u \in Users,
             \/ UserCalls(u) \/ StopStep(u) \/ ShutdownExpires(u)
             \/ ConnectReturns(u)
      PROVE  UNCHANGED <<conn, sock>> \/ CloseConn
  BY <1>2
  DEF UserCalls, UserStart, StopCancel, UserRetry, StopStep, StopQuit, StopConn,
      ShutdownReturns, ShutdownExpires, ConnectReturns, connVars
<1>3. ASSUME NEW u \in Users, ConnectExpires(u)
      PROVE  mine[u] \in Conns /\ CloseConnIfCurrent(mine[u])
  BY <1>3, OwnConn DEF ConnectExpires, Goto, Starters
<1>4. ASSUME Retrying \/ \E a \in Actors : RetryCall(a)
      PROVE  UNCHANGED <<conn, sock>>
  BY <1>4
  DEF Retrying, RetryQuit, RetryTimer, RetryResult, RetryLeaves, RetryCall, RetryEnter,
      RetrySwap, retryRest, connVars
<1>5. ASSUME NEW c \in Conns,
             HandlerStep(c) \/ \E k \in Helpers : HelperEnds(c, k) \/ HelperFails(c, k)
      PROVE  \/ UNCHANGED <<conn, sock>>
             \/ CloseConnIfCurrent(c)
             \/ conn # c /\ sock' = [sock EXCEPT ![c] = FALSE] /\ UNCHANGED conn
  BY <1>5
  DEF HandlerStep, HandlerLoop, HandlerQuit, HandlerData, HandlerReadFails, HandlerLost,
      HandlerRefused, HandlerDrops, HandlerAccepted, HandlerConnected, HandlerGone,
      HelperEnds, HelperFails, connVars
<1> QED BY <1>1, <1>2, <1>3, <1>4, <1>5 DEF Next

\* Exactly the current connection is open.
LEMMA StepOpen ==
  ASSUME StartInv, sock \in [Conns -> BOOLEAN], OneOpenConnection, [Next]_vars
  PROVE  OneOpenConnection' /\ sock' \in [Conns -> BOOLEAN]
<1>0. \A d \in Conns : (sock[d] <=> conn = d) /\ d # 0
  BY NtripClientAssumption DEF OneOpenConnection, Conns
<1>1. CASE UNCHANGED <<conn, sock>>
  BY <1>1, Zenon DEF OneOpenConnection
<1>2. CASE CloseConn
  BY <1>0, <1>2, Zenon DEF CloseConn, OneOpenConnection
<1>3. ASSUME NEW a \in Starters, NEW c \in Conns, DialOK(a, c)
      PROVE  OneOpenConnection' /\ sock' \in [Conns -> BOOLEAN]
  BY <1>0, <1>3, Zenon DEF DialOK, ReplaceConn, OneOpenConnection
<1>4. ASSUME NEW c \in Conns, sock' = [sock EXCEPT ![c] = FALSE],
             conn' = IF conn = c THEN 0 ELSE conn
      PROVE  OneOpenConnection' /\ sock' \in [Conns -> BOOLEAN]
  <2>1. sock' \in [Conns -> BOOLEAN]
    BY <1>4, Zenon
  <2>2. ASSUME NEW d \in Conns PROVE sock'[d] <=> conn' = d
    <3>1. CASE d = c
      BY <1>0, <1>4, <3>1, Zenon
    <3>2. CASE d # c
      BY <1>0, <1>4, <3>2, Zenon
    <3> QED BY <3>1, <3>2
  <2> QED BY <2>1, <2>2, Zenon DEF OneOpenConnection
<1>5. CASE UNCHANGED vars
  BY <1>1, <1>5 DEF vars, connVars
<1> QED BY <1>1, <1>2, <1>3, <1>4, <1>5, ConnSteps DEF CloseConnIfCurrent


---------------------------------------------------------------------------
(* Runs.                                                                   *)

\* A starter comes to dial through beginRun only.
LEMMA DialBegins ==
  ASSUME StartInv, Next, NEW b \in Starters, pc'[b] = "dial", pc[b] # "dial"
  PROVE  BeginRun(b)
<1>0. pc \in [Starters -> StartSteps]
  BY DEF StartInv, StartTypes
<1>1. ASSUME NEW a \in Starters, Start(a)
      PROVE  BeginRun(a) /\ a = b
  BY <1>0, <1>1
  DEF Start, BeginRun, DialFails, DialOK, RequestSent, RequestFails, Goto, AfterFailure
<1>2. ASSUME NEW u \in Users,
             \/ UserCalls(u) \/ StopStep(u) \/ ShutdownExpires(u)
             \/ ConnectReturns(u) \/ ConnectExpires(u)
      PROVE  FALSE
  BY <1>0, <1>2
  DEF UserCalls, UserStart, StopCancel, UserRetry, StopStep, StopQuit, StopConn,
      ShutdownReturns, ShutdownExpires, ConnectReturns, ConnectExpires, Goto, startVars
<1>3. ~Retrying /\ \A a \in Actors : ~RetryCall(a)
  BY <1>0
  DEF Retrying, RetryQuit, RetryTimer, RetryResult, RetryLeaves, RetryCall, RetryEnter,
      RetrySwap, Goto, startVars
<1>4. ASSUME NEW c \in Conns,
             HandlerStep(c) \/ \E k \in Helpers : HelperEnds(c, k) \/ HelperFails(c, k)
      PROVE  FALSE
  BY <1>4, ConnectionSteps
<1> QED BY <1>1, <1>2, <1>3, <1>4 DEF Next

\* What a step does to the runs: nothing, unless it begins one, ends one or
\* binds a connection to one.
LEMMA RunSteps ==
  ASSUME StartInv, Next
  PROVE  \/ \E a \in Starters : BeginRun(a) \/ DialFails(a)
         \/ \E a \in Starters, c \in Conns : DialOK(a, c)
         \/ \E u \in Users : StopQuit(u)
         \/ UNCHANGED <<quit, closed, run, runOf>>
<1>1. ASSUME NEW u \in Users,
             \/ UserCalls(u) \/ StopConn(u) \/ ShutdownReturns(u) \/ ShutdownExpires(u)
             \/ ConnectReturns(u) \/ ConnectExpires(u)
      PROVE  UNCHANGED <<quit, closed, run, runOf>>
  BY <1>1
  DEF UserCalls, UserStart, StopCancel, UserRetry, StopConn,
      ShutdownReturns, ShutdownExpires, ConnectReturns, ConnectExpires, stopRest, startVars,
      lifeVars, handlerVars
<1>2. ASSUME NEW a \in Starters, RequestSent(a) \/ RequestFails(a)
      PROVE  UNCHANGED <<quit, closed, run, runOf>>
  BY <1>2 DEF RequestSent, RequestFails, lifeVars
<1>3. ASSUME Retrying \/ \E a \in Actors : RetryCall(a)
      PROVE  UNCHANGED <<quit, closed, run, runOf>>
  BY <1>3
  DEF Retrying, RetryQuit, RetryTimer, RetryResult, RetryLeaves, RetryCall, RetryEnter,
      RetrySwap, retryRest, lifeVars, handlerVars, startVars
<1>4. ASSUME NEW c \in Conns,
             HandlerStep(c) \/ \E k \in Helpers : HelperEnds(c, k) \/ HelperFails(c, k)
      PROVE  UNCHANGED <<quit, closed, run, runOf>>
  BY <1>4
  DEF HandlerStep, HandlerLoop, HandlerQuit, HandlerData, HandlerReadFails, HandlerLost,
      HandlerRefused, HandlerDrops, HandlerAccepted, HandlerConnected, HandlerGone,
      HelperEnds, HelperFails, helperRest, handlerRest, lifeVars, startVars
<1> QED BY <1>1, <1>2, <1>3, <1>4 DEF Next, Start, StopStep

\* What a step does to the calls of Retry.
LEMMA StepCalls ==
  ASSUME quit \in Runs, rrun \in Runs, NtripClientAssumption,
         call \in [Actors -> {NotCalling, Entering} \cup Runs], [Next]_vars
  PROVE  call' \in [Actors -> {NotCalling, Entering} \cup Runs] /\ rrun' \in Runs
<1>0. /\ Starters \subseteq Actors /\ \A c \in Conns : Handler(c) \in Actors
      /\ \A c \in Conns, k \in Helpers : <<c, k>> \in Actors
  BY DEF Actors, Handler
<1>1. ASSUME UNCHANGED call \/ \E a \in Actors : CallBack(a), rrun' = rrun
      PROVE  call' \in [Actors -> {NotCalling, Entering} \cup Runs] /\ rrun' \in Runs
  BY <1>1 DEF CallBack
<1>2. ASSUME NEW a \in Actors, RetryCall(a)
      PROVE  call' \in [Actors -> {NotCalling, Entering} \cup Runs] /\ rrun' \in Runs
  BY <1>2 DEF RetryCall, RetryEnter, RetrySwap, startVars
<1>3. CASE Retrying
  <2>1. call' = call /\ (rrun' = rrun \/ rrun' = 1)
    BY <1>3
    DEF Retrying, RetryQuit, RetryTimer, RetryResult, RetryLeaves, retryRest
  <2>2. 1 \in Runs
    BY NtripClientAssumption DEF Runs
  <2> QED BY <2>1, <2>2
<1>4. ASSUME NEW a \in Starters, Start(a)
      PROVE  (UNCHANGED call \/ CallBack(a)) /\ rrun' = rrun
  BY <1>4 DEF Start, BeginRun, DialFails, DialOK, RequestSent, RequestFails
<1>5. ASSUME NEW c \in Conns, HandlerStep(c)
      PROVE  (UNCHANGED call \/ CallBack(Handler(c))) /\ rrun' = rrun
  BY <1>5
  DEF HandlerStep, HandlerLoop, HandlerQuit, HandlerData, HandlerReadFails, HandlerLost,
      HandlerRefused, HandlerDrops, HandlerAccepted, HandlerConnected, HandlerGone,
      NotifyLoss, handlerRest, startVars
<1>6. ASSUME NEW c \in Conns, NEW k \in Helpers, HelperEnds(c, k) \/ HelperFails(c, k)
      PROVE  (UNCHANGED call \/ CallBack(<<c, k>>)) /\ rrun' = rrun
  BY <1>6 DEF HelperEnds, HelperFails, NotifyLoss, helperRest, handlerRest, startVars
<1>7. ASSUME NEW u \in Users,
             \/ UserStart(u) \/ StopCancel(u) \/ StopStep(u) \/ ShutdownExpires(u)
             \/ ConnectReturns(u) \/ ConnectExpires(u)
      PROVE  UNCHANGED call /\ rrun' = rrun
  BY <1>7
  DEF UserStart, StopCancel, StopStep, StopQuit, StopConn,
      ShutdownReturns, ShutdownExpires, ConnectReturns, ConnectExpires, stopRest
<1>8. ASSUME NEW u \in Users, UserRetry(u)
      PROVE  call' \in [Actors -> {NotCalling, Entering} \cup Runs] /\ rrun' \in Runs
  BY <1>8 DEF UserRetry, startVars
<1>9. CASE UNCHANGED vars
  BY <1>9 DEF vars, startVars
<1> QED BY <1>0, <1>1, <1>2, <1>3, <1>4, <1>5, <1>6, <1>7, <1>8, <1>9 DEF Next, UserCalls


\* The run that is dialled for is the current one and has not ended.
LEMMA StepRuns ==
  StartInv /\ RunTypes /\ Current /\ [Next]_vars => RunTypes' /\ Current'
<1> SUFFICES ASSUME StartInv, RunTypes, Current, [Next]_vars
             PROVE  RunTypes' /\ Current'
  OBVIOUS
<1>0. /\ 1 \in Runs /\ \A r \in Runs : r \in Nat /\ r <= MaxRuns
      /\ \A r \in Runs : r < MaxRuns => r + 1 \in Runs
      /\ pc \in [Starters -> StartSteps]
  BY NtripClientAssumption DEF Runs, StartInv, StartTypes
<1>1. call' \in [Actors -> {NotCalling, Entering} \cup Runs] /\ rrun' \in Runs
  BY StepCalls, NtripClientAssumption DEF RunTypes
<1>2. ASSUME UNCHANGED <<quit, closed, run, runOf>>,
             \A b \in Starters : pc'[b] = "dial" => pc[b] = "dial"
      PROVE  RunTypes' /\ Current'
  BY <1>1, <1>2 DEF RunTypes, Current
<1>3. ASSUME NEW a \in Starters, BeginRun(a)
      PROVE  RunTypes' /\ Current'
  <2>1. /\ quit' = NextRun /\ closed' = closed /\ run' = [run EXCEPT ![a] = quit']
        /\ runOf' = runOf /\ pc' = [pc EXCEPT ![a] = "dial"]
        /\ \A b \in Starters : pc[b] # "dial"
    BY <1>3 DEF BeginRun, Goto, StartMuFree, handlerVars
  <2>2. NextRun \in Runs /\ NextRun \notin closed /\ \A r \in closed : r <= NextRun
    BY <1>0 DEF NextRun, Current, RunTypes
  <2>3. RunTypes'
    BY <1>1, <2>1, <2>2 DEF RunTypes
  <2>4. ASSUME NEW b \in Starters, pc'[b] = "dial" PROVE run'[b] = quit'
    BY <1>0, <2>1, <2>4 DEF RunTypes
  <2> QED BY <2>1, <2>2, <2>3, <2>4 DEF Current
<1>4. ASSUME NEW a \in Starters, DialFails(a) \/ \E c \in Conns : DialOK(a, c)
      PROVE  RunTypes' /\ Current'
  <2>1. /\ UNCHANGED <<quit, closed>> /\ run' = [run EXCEPT ![a] = 1]
        /\ runOf' = runOf \/ \E c \in Conns : runOf' = [runOf EXCEPT ![c] = run[a]]
        /\ pc'[a] # "dial"
    BY <1>0, <1>4 DEF DialFails, DialOK, Goto, AfterFailure, lifeVars, handlerVars
  <2>2. \A b \in Starters : b # a => pc'[b] = pc[b]
    BY <1>0, <1>4 DEF DialFails, DialOK, Goto
  <2>3. RunTypes'
    BY <1>0, <1>1, <2>1 DEF RunTypes
  <2>4. \A b \in Starters : pc'[b] = "dial" => run'[b] = run[b] /\ pc[b] = "dial"
    BY <2>1, <2>2 DEF RunTypes
  <2> QED BY <2>1, <2>3, <2>4 DEF Current
<1>5. ASSUME NEW u \in Users, StopQuit(u)
      PROVE  RunTypes' /\ Current'
  <2>1. /\ quit < MaxRuns /\ closed' = closed \cup {quit} /\ UNCHANGED <<quit, run, runOf>>
        /\ pc' = [pc EXCEPT ![u] = "stopConn"]
        /\ \A b \in Starters : pc[b] # "dial"
    BY <1>5 DEF StopQuit, Goto, StopLocks, StartMuFree, stopRest, handlerVars
  <2>2. \A b \in Starters : pc'[b] # "dial"
    BY <1>0, <2>1
  <2>3. RunTypes'
    BY <1>1, <2>1 DEF RunTypes
  <2>4. \A r \in closed' : r <= quit
    BY <1>0, <2>1 DEF RunTypes, Current
  <2> QED BY <2>1, <2>2, <2>3, <2>4 DEF Current
<1>6. CASE UNCHANGED vars
  BY <1>2, <1>6 DEF vars, lifeVars, startVars, handlerVars
<1>7. ASSUME Next, UNCHANGED <<quit, closed, run, runOf>>, NEW b \in Starters, BeginRun(b)
      PROVE  RunTypes' /\ Current'
  BY <1>3, <1>7
<1> QED BY <1>2, <1>3, <1>4, <1>5, <1>6, <1>7, RunSteps, DialBegins

\* Whoever ends Stop's critical section has dropped the connection.
LEMMA StopDrops ==
  ASSUME StartInv, Next, NEW v \in Users, pc[v] = "stopConn", pc'[v] # "stopConn"
  PROVE  conn' = 0
<1>0. pc \in [Starters -> StartSteps] /\ v \in Starters
  BY DEF StartInv, StartTypes, Starters
<1>1. ASSUME NEW u \in Users,
             \/ UserCalls(u) \/ StopStep(u) \/ ShutdownExpires(u)
             \/ ConnectReturns(u) \/ ConnectExpires(u)
      PROVE  conn' = 0
  BY <1>0, <1>1
  DEF UserCalls, UserStart, StopCancel, UserRetry, StopStep, StopQuit, StopConn, CloseConn,
      ShutdownReturns, ShutdownExpires, ConnectReturns, ConnectExpires, Goto, startVars
<1>2. ASSUME NEW a \in Starters, Start(a)
      PROVE  FALSE
  BY <1>0, <1>2
  DEF Start, BeginRun, DialFails, DialOK, RequestSent, RequestFails, Goto
<1>3. ~Retrying /\ \A a \in Actors : ~RetryCall(a)
  BY <1>0
  DEF Retrying, RetryQuit, RetryTimer, RetryResult, RetryLeaves, RetryCall, RetryEnter,
      RetrySwap, Goto, startVars
<1>4. ASSUME NEW c \in Conns,
             HandlerStep(c) \/ \E k \in Helpers : HelperEnds(c, k) \/ HelperFails(c, k)
      PROVE  FALSE
  BY <1>4, ConnectionSteps
<1> QED BY <1>1, <1>2, <1>3, <1>4 DEF Next

\* The connection of a run that ends is dropped by the Stop that ends it.
LEMMA StepDropped ==
  ASSUME StartInv, RunTypes, Current, conn \in 0..MaxConns, StoppedRunDropped, [Next]_vars
  PROVE  StoppedRunDropped'
<1>0. pc \in [Starters -> StartSteps] /\ Users \subseteq Starters
  BY DEF StartInv, StartTypes, Starters
<1>1. CASE UNCHANGED vars
  BY <1>1 DEF vars, lifeVars, connVars, startVars, handlerVars, StoppedRunDropped
<1>2. ASSUME NEW a \in Starters, NEW c \in Conns, DialOK(a, c)
      PROVE  StoppedRunDropped'
  <2>1. /\ conn' = c /\ closed' = closed /\ runOf' = [runOf EXCEPT ![c] = run[a]]
        /\ pc[a] = "dial"
    BY <1>2 DEF DialOK, ReplaceConn, lifeVars, Goto
  <2>2. runOf'[c] \notin closed
    BY <2>1 DEF RunTypes, Current
  <2> QED BY <2>1, <2>2 DEF StoppedRunDropped
<1>3. ASSUME NEW u \in Users, StopQuit(u)
      PROVE  StoppedRunDropped'
  <2>1. pc'[u] = "stopConn"
    BY <1>0, <1>3 DEF StopQuit, Goto
  <2> QED BY <2>1 DEF StoppedRunDropped
<1>4. ASSUME Next, UNCHANGED <<closed, runOf>>, conn' \in {0, conn}
      PROVE  StoppedRunDropped'
  BY <1>4, StopDrops DEF StoppedRunDropped
<1>5. ASSUME NEW a \in Starters, BeginRun(a) \/ DialFails(a)
      PROVE  UNCHANGED <<closed, runOf>>
  BY <1>5 DEF BeginRun, DialFails, lifeVars, handlerVars
<1>6. ASSUME Next, \A a \in Starters, c \in Conns : ~DialOK(a, c)
      PROVE  conn' \in {0, conn}
  BY <1>6, ConnSteps DEF CloseConn, CloseConnIfCurrent
<1> QED BY <1>1, <1>2, <1>3, <1>4, <1>5, <1>6, RunSteps


---------------------------------------------------------------------------
(* The reports of losses.                                                  *)

\* What an actor got by dialling has a handler, or is about to get one.
Begun == \A a \in Starters : mine[a] # 0 => hpc[mine[a]] # "none"

\* A connection is used once.
LEMMA StepBegun == StartInv /\ Begun /\ [Next]_vars => Begun'
<1> SUFFICES ASSUME StartInv, Begun, [Next]_vars PROVE Begun'
  OBVIOUS
<1>0. /\ hpc \in [Conns -> {"none", "starting", "loop", "read", "refused", "accepted",
                            "lost", "end", "gone"}]
      /\ mine \in [Starters -> 0..MaxConns]
      /\ \A a \in Starters : mine[a] # 0 => mine[a] \in Conns
  BY NtripClientAssumption DEF StartInv, HandlerTypes, StartTypes, Conns
<1>1. ASSUME \A d \in Conns : hpc[d] # "none" => hpc'[d] # "none",
             \A a \in Starters : mine'[a] = mine[a] \/ mine'[a] = 0
      PROVE  Begun'
  BY <1>0, <1>1 DEF Begun
<1>2. CASE UNCHANGED vars
  BY <1>1, <1>2 DEF vars, startVars, handlerVars
<1>3. ASSUME NEW u \in Users,
             \/ UserCalls(u) \/ StopStep(u) \/ ShutdownExpires(u)
             \/ ConnectReturns(u) \/ ConnectExpires(u)
      PROVE  Begun'
  <2>1. mine' = mine \/ mine' = [mine EXCEPT ![u] = 0]
    BY <1>3, UserSteps DEF Moves, Locks, Ends
  <2>2. hpc' = hpc
    BY <1>3, UserSteps
  <2> QED BY <1>0, <1>1, <2>1, <2>2
<1>4. ASSUME Retrying \/ \E a \in Actors : RetryCall(a)
      PROVE  Begun'
  <2>1. mine' = mine \/ mine' = [mine EXCEPT ![Retrier] = 0]
    BY <1>4, RetrySteps DEF Moves, Ends
  <2>2. hpc' = hpc
    BY <1>4, RetrySteps
  <2> QED BY <1>0, <1>1, <2>1, <2>2
<1>5. ASSUME NEW a \in Starters, NEW c \in Conns, DialOK(a, c)
      PROVE  Begun'
  <2>1. mine' = [mine EXCEPT ![a] = c] /\ hpc' = [hpc EXCEPT ![c] = "starting"]
    BY <1>5 DEF DialOK
  <2> QED BY <1>0, <2>1 DEF Begun
<1>6. ASSUME NEW a \in Starters, Start(a), \A c \in Conns : ~DialOK(a, c)
      PROVE  Begun'
  <2>1. mine' = mine \/ mine' = [mine EXCEPT ![a] = 0]
    BY <1>6, StarterSteps DEF Moves, Locks, Ends, Awaits
  <2>2. hpc' = hpc \/ \E h \in {"loop", "gone"} : hpc' = [hpc EXCEPT ![mine[a]] = h]
    BY <1>6, StarterSteps
  <2> QED BY <1>0, <1>1, <2>1, <2>2
<1>7. ASSUME NEW c \in Conns, HandlerStep(c)
      PROVE  Begun'
  <2>1. \E to \in {"loop", "read", "refused", "accepted", "lost", "end", "gone"} :
          hpc' = [hpc EXCEPT ![c] = to]
    BY <1>7
    DEF HandlerStep, HandlerLoop, HandlerQuit, HandlerData, HandlerReadFails, HandlerLost,
        HandlerRefused, HandlerDrops, HandlerAccepted, HandlerConnected, HandlerGone, Step
  <2>2. mine' = mine
    BY <1>7, ConnectionSteps
  <2> QED BY <1>0, <1>1, <2>1, <2>2
<1>8. ASSUME NEW c \in Conns, NEW k \in Helpers, HelperEnds(c, k) \/ HelperFails(c, k)
      PROVE  Begun'
  BY <1>1, <1>8 DEF HelperEnds, HelperFails, helperRest, handlerRest, startVars
<1> QED BY <1>2, <1>3, <1>4, <1>5, <1>6, <1>7, <1>8 DEF Next

\* Dropping connection c does not matter to the others.
LEMMA OthersPlace ==
  ASSUME NEW c \in Conns, NEW d \in Conns, d # c, Place(d),
         hpc'[d] = hpc[d], connected'[d] = connected[d], reports'[d] = reports[d],
         helper'[d]["gga"] = helper[d]["gga"], taken' \in {taken, taken \cup {c}},
         conn' = conn \/ (conn' = IF conn = c THEN 0 ELSE conn)
  PROVE  Place(d)'
<1>1. d # 0
  BY NtripClientAssumption DEF Conns
<1>2. (conn' = d <=> conn = d) /\ (d \in taken' <=> d \in taken)
  BY <1>1
<1> QED BY <1>2 DEF Place

\* The steps of startConnectionContext.
LEMMA StartPlaces ==
  ASSUME StartInv, Begun, Positions, NEW a \in Starters, Start(a), NEW d \in Conns
  PROVE  Place(d)'
<1>0. /\ Place(d) /\ d # 0
      /\ hpc \in [Conns -> {"none", "starting", "loop", "read", "refused", "accepted",
                            "lost", "end", "gone"}]
      /\ helper \in [Conns -> [Helpers -> {"off", "on", "leave"}]]
  BY NtripClientAssumption DEF Positions, StartInv, HandlerTypes, Conns
<1>1. CASE BeginRun(a) \/ DialFails(a)
  BY <1>0, <1>1, Zenon DEF BeginRun, DialFails, connVars, handlerVars, Place
<1>2. ASSUME NEW c \in Conns, DialOK(a, c) PROVE Place(d)'
  <2>1. /\ hpc[c] = "none" /\ conn' = c /\ taken' = taken \cup ({conn} \ {0})
        /\ hpc' = [hpc EXCEPT ![c] = "starting"]
        /\ UNCHANGED <<connected, reports, helper>>
    BY <1>2 DEF DialOK, Fresh, ReplaceConn
  <2>2. Place(c)
    BY DEF Positions
  <2>3. CASE d = c
    BY <1>0, <2>1, <2>2, <2>3 DEF Place
  <2>4. CASE d # c
    <3>1. hpc'[d] = hpc[d] /\ conn' # d
      BY <1>0, <2>1, <2>4
    <3>2. d \in taken' <=> d \in taken \/ conn = d
      BY <1>0, <2>1
    <3>3. UNCHANGED <<connected, reports, helper>>
      BY <2>1
    <3> HIDE <1>2
    <3> QED BY <1>0, <3>1, <3>2, <3>3 DEF Place
  <2> QED BY <2>3, <2>4
<1>3. CASE RequestSent(a)
  <2>1. /\ mine[a] \in Conns /\ hpc[mine[a]] = "starting"
    BY <1>3, OwnConn DEF RequestSent, Goto, StartInv, Owns
  <2>2. /\ hpc' = [hpc EXCEPT ![mine[a]] = "loop"]
        /\ helper' = [helper EXCEPT ![mine[a]]["monitor"] = "on"]
        /\ UNCHANGED <<conn, taken, connected, reports>>
    BY <1>3 DEF RequestSent, connVars
  <2>3. helper'[d]["gga"] = helper[d]["gga"]
    BY <1>0, <2>1, <2>2 DEF Helpers
  <2>4. CASE d = mine[a]
    BY <1>0, <2>1, <2>2, <2>3, <2>4 DEF Place
  <2>5. CASE d # mine[a]
    BY <1>0, <2>1, <2>2, <2>3, <2>5, OthersPlace
  <2> QED BY <2>4, <2>5
<1>4. CASE RequestFails(a)
  <2>1. /\ mine[a] \in Conns /\ hpc[mine[a]] = "starting"
    BY <1>4, OwnConn DEF RequestFails, Goto, StartInv, Owns
  <2>2. /\ hpc' = [hpc EXCEPT ![mine[a]] = "gone"]
        /\ conn' = IF conn = mine[a] THEN 0 ELSE conn
        /\ UNCHANGED <<taken, connected, reports, helper>>
    BY <1>4 DEF RequestFails, CloseConnIfCurrent
  <2>3. CASE d = mine[a]
    BY <1>0, <2>1, <2>2, <2>3 DEF Place
  <2>4. CASE d # mine[a]
    BY <1>0, <2>1, <2>2, <2>4, OthersPlace
  <2> QED BY <2>3, <2>4
<1> QED BY <1>1, <1>2, <1>3, <1>4 DEF Start

\* The other steps of users and those of Retry.
LEMMA UserPlaces ==
  ASSUME StartInv, Begun, Positions, NEW d \in Conns,
         \/ \E u \in Users :
              \/ UserCalls(u) \/ StopStep(u) \/ ShutdownExpires(u)
              \/ ConnectReturns(u) \/ ConnectExpires(u)
         \/ Retrying \/ \E a \in Actors : RetryCall(a)
  PROVE  Place(d)'
<1>0. Place(d) /\ d # 0
  BY NtripClientAssumption DEF Positions, Conns
<1>1. CASE UNCHANGED <<conn, taken, hpc, connected, reports, helper>>
  BY <1>0, <1>1 DEF Place
<1>2. ASSUME NEW u \in Users,
             \/ UserCalls(u) \/ StopQuit(u) \/ ShutdownReturns(u) \/ ShutdownExpires(u)
             \/ ConnectReturns(u)
      PROVE  UNCHANGED <<conn, taken, hpc, connected, reports, helper>>
  BY <1>2
  DEF UserCalls, UserStart, StopCancel, UserRetry, StopQuit, ShutdownReturns,
      ShutdownExpires, ConnectReturns, stopRest, connVars, handlerVars
<1>3. ASSUME NEW u \in Users, StopConn(u)
      PROVE  Place(d)'
  <2>1. /\ conn' = 0 /\ taken' = taken \cup ({conn} \ {0})
        /\ UNCHANGED <<hpc, connected, reports, helper>>
    BY <1>3 DEF StopConn, CloseConn, stopRest, handlerVars
  <2>2. d \in taken' <=> d \in taken \/ conn = d
    BY <1>0, <2>1
  <2> QED BY <1>0, <2>1, <2>2 DEF Place
<1>4. ASSUME NEW u \in Users, ConnectExpires(u)
      PROVE  Place(d)'
  <2>1. mine[u] \in Conns /\ hpc[mine[u]] # "none"
    <3>1. u \in Starters /\ pc[u] = "await"
      BY <1>4 DEF ConnectExpires, Goto, Starters
    <3> QED BY <3>1, OwnConn DEF Begun, StartInv, Owns
  <2>2. /\ conn' = (IF conn = mine[u] THEN 0 ELSE conn) /\ taken' = taken \cup {mine[u]}
        /\ UNCHANGED <<hpc, connected, reports, helper>>
    BY <1>4 DEF ConnectExpires, CloseConnIfCurrent, handlerVars
  <2>3. CASE d = mine[u]
    BY <1>0, <2>1, <2>2, <2>3 DEF Place
  <2>4. CASE d # mine[u]
    BY <1>0, <2>1, <2>2, <2>4, OthersPlace
  <2> QED BY <2>3, <2>4
<1>5. ASSUME Retrying \/ \E a \in Actors : RetryCall(a)
      PROVE  UNCHANGED <<conn, taken, hpc, connected, reports, helper>>
  BY <1>5
  DEF Retrying, RetryQuit, RetryTimer, RetryResult, RetryLeaves, RetryCall, RetryEnter,
      RetrySwap, retryRest, connVars, handlerVars
<1> QED BY <1>1, <1>2, <1>3, <1>4, <1>5 DEF StopStep


\* The steps of a handler.
LEMMA HandlerPlaces ==
  ASSUME StartInv, Truths, Positions, NEW c \in Conns, HandlerStep(c), NEW d \in Conns
  PROVE  Place(d)'
<1>0. /\ Place(c) /\ Place(d) /\ c # 0 /\ d # 0
      /\ hpc \in [Conns -> {"none", "starting", "loop", "read", "refused", "accepted",
                            "lost", "end", "gone"}]
      /\ helper \in [Conns -> [Helpers -> {"off", "on", "leave"}]]
      /\ reports \in [Conns -> Nat]
  BY NtripClientAssumption DEF Positions, StartInv, HandlerTypes, Conns
<1>1. CASE HandlerLoop(c) \/ HandlerData(c) \/ HandlerGone(c)
  <2>1. /\ UNCHANGED <<conn, taken, connected, reports, helper>>
        /\ \/ hpc[c] = "loop" /\ hpc' = [hpc EXCEPT ![c] = "read"]
           \/ hpc[c] = "read" /\ hpc' = [hpc EXCEPT ![c] = "loop"]
           \/ hpc[c] = "end" /\ hpc' = [hpc EXCEPT ![c] = "gone"]
    BY <1>1 DEF HandlerLoop, HandlerData, HandlerGone, Step, handlerRest, connVars
  <2>2. CASE d = c
    BY <1>0, <2>1, <2>2 DEF Place
  <2>3. CASE d # c
    BY <1>0, <2>1, <2>3, OthersPlace
  <2> QED BY <2>2, <2>3
<1>2. CASE HandlerQuit(c) \/ HandlerReadFails(c)
  <2>1. /\ hpc[c] \in {"loop", "read"} /\ UNCHANGED <<taken, connected, helper>>
        /\ \/ hpc' = [hpc EXCEPT ![c] = "end"]
           \/ hpc' = [hpc EXCEPT ![c] = "lost"] /\ ~connected[c]
        /\ conn' = IF conn = c THEN 0 ELSE conn
        /\ IF conn = c /\ connected[c]
           THEN reports' = [reports EXCEPT ![c] = @ + 1] ELSE reports' = reports
    BY <1>2
    DEF HandlerQuit, HandlerReadFails, Step, CloseConnIfCurrent, NotifyLoss, handlerRest
  <2>2. CASE d = c
    BY <1>0, <2>1, <2>2 DEF Place
  <2>3. CASE d # c
    BY <1>0, <2>1, <2>3, OthersPlace
  <2> QED BY <2>2, <2>3
<1>3. CASE HandlerLost(c) \/ HandlerDrops(c)
  <2>1. /\ hpc[c] \in {"lost", "refused"} /\ UNCHANGED <<taken, connected, helper, reports>>
        /\ hpc' = [hpc EXCEPT ![c] = "end"]
        /\ \/ hpc[c] = "lost" /\ conn' = conn
           \/ conn' = IF conn = c THEN 0 ELSE conn
    BY <1>3 DEF HandlerLost, HandlerDrops, Step, CloseConnIfCurrent, connVars, handlerRest
  <2>2. CASE d = c
    BY <1>0, <2>1, <2>2 DEF Place
  <2>3. CASE d # c
    BY <1>0, <2>1, <2>3, OthersPlace
  <2> QED BY <2>2, <2>3
<1>4. CASE HandlerRefused(c) \/ HandlerAccepted(c)
  <2>1. /\ hpc[c] = "read" /\ UNCHANGED <<conn, taken, connected, helper, reports>>
        /\ ~connected[c]
        /\ \/ hpc' = [hpc EXCEPT ![c] = "refused"]
           \/ conn = c /\ hpc' = [hpc EXCEPT ![c] = "accepted"]
           \/ conn # c /\ hpc' = [hpc EXCEPT ![c] = "end"]
    BY <1>4 DEF HandlerRefused, HandlerAccepted, Step, connVars, handlerRest
  <2>2. CASE d = c
    BY <1>0, <2>1, <2>2 DEF Place
  <2>3. CASE d # c
    BY <1>0, <2>1, <2>3, OthersPlace
  <2> QED BY <2>2, <2>3
<1>5. CASE HandlerConnected(c)
  <2>1. /\ hpc[c] = "accepted" /\ UNCHANGED <<conn, taken, reports>>
        /\ hpc' = [hpc EXCEPT ![c] = "loop"]
        /\ helper' = helper \/ helper' = [helper EXCEPT ![c]["gga"] = "on"]
    BY <1>5 DEF HandlerConnected, Step, connVars, handlerRest
  <2>2. connected'[c] /\ (d # c => connected'[d] = connected[d])
    BY <1>5, Zenon DEF HandlerConnected, Truths
  <2>3. CASE d = c
    BY <1>0, <2>1, <2>2, <2>3 DEF Place
  <2>4. CASE d # c
    BY <1>0, <2>1, <2>2, <2>4, OthersPlace
  <2> QED BY <2>3, <2>4
<1> QED BY <1>1, <1>2, <1>3, <1>4, <1>5 DEF HandlerStep

\* The steps of the idle monitor and of the GGA sender.
LEMMA HelperPlaces ==
  ASSUME StartInv, Positions, NEW c \in Conns, NEW k \in Helpers,
         HelperEnds(c, k) \/ HelperFails(c, k), NEW d \in Conns
  PROVE  Place(d)'
<1>0. /\ Place(c) /\ Place(d) /\ c # 0 /\ d # 0
      /\ helper \in [Conns -> [Helpers -> {"off", "on", "leave"}]]
      /\ reports \in [Conns -> Nat] /\ "gga" \in Helpers
  BY NtripClientAssumption DEF Positions, StartInv, HandlerTypes, Conns, Helpers
<1>1. ASSUME NEW to \in {"off", "leave"}, helper' = [helper EXCEPT ![c][k] = to]
      PROVE  helper'[d]["gga"] = helper[d]["gga"] \/ helper'[d]["gga"] # "on"
  BY <1>0, <1>1
<1>2. ASSUME NEW to, helper' = [helper EXCEPT ![c][k] = to], d # c
      PROVE  helper'[d]["gga"] = helper[d]["gga"]
  BY <1>0, <1>2
<1>3. CASE HelperEnds(c, k)
  <2>1. /\ UNCHANGED <<conn, taken, hpc, connected, reports>>
        /\ helper' = [helper EXCEPT ![c][k] = "off"]
    BY <1>3 DEF HelperEnds, HelperGoto, helperRest, handlerRest, connVars
  <2> QED BY <1>0, <1>1, <2>1 DEF Place
<1>4. CASE HelperFails(c, k)
  <2>1. /\ UNCHANGED <<taken, hpc, connected>>
        /\ helper[c][k] = "on" /\ helper' = [helper EXCEPT ![c][k] = "leave"]
        /\ k = "monitor" => connected[c]
        /\ conn' = IF conn = c THEN 0 ELSE conn
        /\ IF conn = c /\ connected[c]
           THEN reports' = [reports EXCEPT ![c] = @ + 1] ELSE reports' = reports
    BY <1>4
    DEF HelperFails, HelperGoto, CloseConnIfCurrent, NotifyLoss, helperRest, handlerRest
  <2>2. connected[c]
    BY <1>0, <2>1 DEF Place, Helpers
  <2>3. CASE d = c
    <3>1. \/ conn = c /\ conn' = 0 /\ reports'[c] = reports[c] + 1
          \/ conn # c /\ conn' = conn /\ reports'[c] = reports[c]
      BY <1>0, <2>1, <2>2
    <3>2. helper'[c]["gga"] = helper[c]["gga"] \/ helper'[c]["gga"] # "on"
      BY <1>1, <2>1, <2>3
    <3> QED BY <1>0, <2>1, <2>2, <2>3, <3>1, <3>2 DEF Place
  <2>4. CASE d # c
    <3>1. reports'[d] = reports[d]
      BY <1>0, <2>1, <2>4
    <3> QED BY <1>0, <1>2, <2>1, <2>4, <3>1, OthersPlace
  <2> QED BY <2>3, <2>4
<1> QED BY <1>3, <1>4


\* Every loss is accounted for.
LEMMA StepPositions ==
  ASSUME StartInv, Truths, Begun, Positions, [Next]_vars
  PROVE  Positions'
<1>0. /\ conn \in 0..MaxConns /\ reports \in [Conns -> Nat] /\ taken \subseteq Conns
      /\ 0 \in 0..MaxConns /\ \A c \in Conns : c \in 0..MaxConns
      /\ \A n \in 0..MaxConns : n # 0 => n \in Conns
  BY NtripClientAssumption DEF Positions, Conns
<1>1. \A d \in Conns : Place(d)'
  <2>1. CASE UNCHANGED vars
    BY <2>1 DEF vars, connVars, handlerVars, Positions, Place
  <2> QED BY <2>1, StartPlaces, UserPlaces, HandlerPlaces, HelperPlaces DEF Next
<1>2. conn' \in 0..MaxConns
  <2>1. CASE UNCHANGED vars
    BY <1>0, <2>1 DEF vars, connVars
  <2> QED BY <1>0, <2>1, ConnSteps DEF CloseConn, CloseConnIfCurrent, DialOK, ReplaceConn
<1>3. reports' \in [Conns -> Nat]
  <2>1. ASSUME NEW a \in Starters, Start(a)
        PROVE  reports' = reports
    BY <2>1 DEF Start, BeginRun, DialFails, DialOK, RequestSent, RequestFails
  <2>2. ASSUME \/ \E u \in Users :
                    \/ UserCalls(u) \/ StopStep(u) \/ ShutdownExpires(u)
                    \/ ConnectReturns(u) \/ ConnectExpires(u)
               \/ Retrying \/ \E a \in Actors : RetryCall(a)
        PROVE  reports' = reports
    BY <2>2
    DEF UserCalls, UserStart, StopCancel, UserRetry, StopStep, StopQuit, StopConn,
        ShutdownReturns, ShutdownExpires, ConnectReturns, ConnectExpires, stopRest,
        Retrying, RetryQuit, RetryTimer, RetryResult, RetryLeaves, RetryCall, RetryEnter,
        RetrySwap, retryRest
  <2>3. ASSUME NEW c \in Conns,
               HandlerStep(c) \/ \E k \in Helpers : HelperEnds(c, k) \/ HelperFails(c, k)
        PROVE  reports' = reports \/ reports' = [reports EXCEPT ![c] = @ + 1]
    BY <2>3
    DEF HandlerStep, HandlerLoop, HandlerQuit, HandlerData, HandlerReadFails, HandlerLost,
        HandlerRefused, HandlerDrops, HandlerAccepted, HandlerConnected, HandlerGone,
        HelperEnds, HelperFails, NotifyLoss
  <2>4. \/ reports' = reports
        \/ \E c \in Conns : reports' = [reports EXCEPT ![c] = @ + 1]
    BY <2>1, <2>2, <2>3 DEF Next, vars
  <2> QED BY <1>0, <2>4
<1>4. taken' \subseteq Conns
  <2>1. ASSUME NEW a \in Starters, Start(a)
        PROVE  taken' = taken \/ taken' = taken \cup ({conn} \ {0})
    BY <2>1 DEF Start, BeginRun, DialFails, DialOK, RequestSent, RequestFails
  <2>2. ASSUME \/ \E u \in Users :
                    \/ UserCalls(u) \/ StopStep(u) \/ ShutdownExpires(u) \/ ConnectReturns(u)
               \/ Retrying \/ \E a \in Actors : RetryCall(a)
        PROVE  taken' = taken \/ taken' = taken \cup ({conn} \ {0})
    BY <2>2
    DEF UserCalls, UserStart, StopCancel, UserRetry, StopStep, StopQuit, StopConn,
        ShutdownReturns, ShutdownExpires, ConnectReturns,
        Retrying, RetryQuit, RetryTimer, RetryResult, RetryLeaves, RetryCall, RetryEnter,
        RetrySwap, retryRest
  <2>3. ASSUME NEW u \in Users, ConnectExpires(u)
        PROVE  mine[u] \in Conns /\ taken' = taken \cup {mine[u]}
    BY <2>3, OwnConn DEF ConnectExpires, Goto, Starters
  <2>4. ASSUME NEW c \in Conns,
               HandlerStep(c) \/ \E k \in Helpers : HelperEnds(c, k) \/ HelperFails(c, k)
        PROVE  taken' = taken
    BY <2>4
    DEF HandlerStep, HandlerLoop, HandlerQuit, HandlerData, HandlerReadFails, HandlerLost,
        HandlerRefused, HandlerDrops, HandlerAccepted, HandlerConnected, HandlerGone,
        HelperEnds, HelperFails, helperRest, handlerRest
  <2>5. \/ taken' = taken \/ taken' = taken \cup ({conn} \ {0})
        \/ \E c \in Conns : taken' = taken \cup {c}
    BY <2>1, <2>2, <2>3, <2>4 DEF Next, vars
  <2> QED BY <1>0, <2>5
<1> QED BY <1>1, <1>2, <1>3, <1>4 DEF Positions

---------------------------------------------------------------------------
(* Who attends to the current connection.                                  *)

\* A connection without a handler yet is in the hands of a starter.
Starting ==
  \A c \in Conns :
    hpc[c] = "starting" => \E a \in Starters : pc[a] = "auth" /\ mine[a] = c

\* It stays there until its handler runs or it is given up.
LEMMA StepStarting == StartInv /\ Starting /\ [Next]_vars => Starting'
<1> SUFFICES ASSUME StartInv, Starting, [Next]_vars, NEW d \in Conns, hpc'[d] = "starting"
             PROVE  \E b \in Starters : pc'[b] = "auth" /\ mine'[b] = d
  BY DEF Starting
<1>0. /\ hpc \in [Conns -> {"none", "starting", "loop", "read", "refused", "accepted",
                            "lost", "end", "gone"}]
      /\ mine \in [Starters -> 0..MaxConns] /\ pc \in [Starters -> StartSteps]
  BY DEF StartInv, HandlerTypes, StartTypes
<1>1. ASSUME hpc[d] = "starting", UNCHANGED <<pc, mine>>
      PROVE  \E b \in Starters : pc'[b] = "auth" /\ mine'[b] = d
  BY <1>1 DEF Starting
<1>2. ASSUME hpc[d] = "starting", NEW a \in Starters, NEW to, pc[a] # "auth",
             Moves(a, to) \/ Locks(a, to) \/ Ends(a, to)
      PROVE  \E b \in Starters : pc'[b] = "auth" /\ mine'[b] = d
  <2>1. PICK b \in Starters : pc[b] = "auth" /\ mine[b] = d
    BY <1>2 DEF Starting
  <2>2. pc'[b] = pc[b] /\ mine'[b] = mine[b]
    BY <1>0, <1>2, <2>1 DEF Moves, Locks, Ends
  <2> QED BY <2>1, <2>2
<1>3. ASSUME NEW a \in Starters, NEW c \in Conns, DialOK(a, c)
      PROVE  \E b \in Starters : pc'[b] = "auth" /\ mine'[b] = d
  <2>1. /\ pc[a] = "dial" /\ pc' = [pc EXCEPT ![a] = "auth"]
        /\ mine' = [mine EXCEPT ![a] = c] /\ hpc' = [hpc EXCEPT ![c] = "starting"]
    BY <1>3 DEF DialOK, Goto
  <2>2. CASE d = c
    BY <1>0, <2>1, <2>2
  <2>3. CASE d # c
    <3>1. PICK b \in Starters : pc[b] = "auth" /\ mine[b] = d
      BY <1>0, <2>1, <2>3 DEF Starting
    <3> QED BY <1>0, <2>1, <3>1
  <2> QED BY <2>2, <2>3
<1>4. ASSUME NEW a \in Starters, pc[a] = "auth", NEW h \in {"loop", "gone"},
             hpc' = [hpc EXCEPT ![mine[a]] = h]
      PROVE  FALSE
  <2>1. mine[a] \in Conns
    BY <1>4, OwnConn
  <2>2. hpc[d] = "starting" /\ d # mine[a]
    BY <1>0, <1>4, <2>1
  <2>3. PICK b \in Starters : pc[b] = "auth" /\ mine[b] = d
    BY <2>2 DEF Starting
  <2> QED BY <1>4, <2>2, <2>3 DEF StartInv, OneStarts, Locked
<1>5. ASSUME NEW a \in Starters, Start(a)
      PROVE  \E b \in Starters : pc'[b] = "auth" /\ mine'[b] = d
  <2>1. ASSUME NEW to, Moves(a, to) \/ Locks(a, to) PROVE pc[a] # "auth"
    BY <2>1 DEF Moves, Locks
  <2> QED BY <1>2, <1>3, <1>4, <1>5, <2>1, StarterSteps
<1>6. ASSUME NEW u \in Users,
             \/ UserCalls(u) \/ StopStep(u) \/ ShutdownExpires(u)
             \/ ConnectReturns(u) \/ ConnectExpires(u)
      PROVE  \E b \in Starters : pc'[b] = "auth" /\ mine'[b] = d
  <2>1. ASSUME NEW to, Moves(u, to) \/ Locks(u, to) PROVE pc[u] # "auth"
    BY <2>1 DEF Moves, Locks
  <2>2. u \in Starters
    BY DEF Starters
  <2> QED BY <1>1, <1>2, <1>6, <2>1, <2>2, UserSteps
<1>7. ASSUME Retrying \/ \E a \in Actors : RetryCall(a)
      PROVE  \E b \in Starters : pc'[b] = "auth" /\ mine'[b] = d
  <2>1. ASSUME NEW to, Moves(Retrier, to) PROVE pc[Retrier] # "auth"
    BY <2>1 DEF Moves
  <2>2. Retrier \in Starters
    BY DEF Starters
  <2> QED BY <1>1, <1>2, <1>7, <2>1, <2>2, RetrySteps
<1>8. ASSUME NEW c \in Conns, HandlerStep(c)
      PROVE  hpc[d] = "starting"
  <2>1. \E to \in {"loop", "read", "refused", "accepted", "lost", "end", "gone"} :
          hpc' = [hpc EXCEPT ![c] = to]
    BY <1>8
    DEF HandlerStep, HandlerLoop, HandlerQuit, HandlerData, HandlerReadFails, HandlerLost,
        HandlerRefused, HandlerDrops, HandlerAccepted, HandlerConnected, HandlerGone, Step
  <2> QED BY <1>0, <2>1
<1>9. ASSUME NEW c \in Conns, NEW k \in Helpers, HelperEnds(c, k) \/ HelperFails(c, k)
      PROVE  hpc' = hpc
  BY <1>9 DEF HelperEnds, HelperFails, helperRest
<1>10. CASE UNCHANGED vars
  BY <1>1, <1>10 DEF vars, startVars, handlerVars
<1> QED BY <1>1, <1>5, <1>6, <1>7, <1>8, <1>9, <1>10, ConnectionSteps DEF Next

---------------------------------------------------------------------------
(* The theorems.                                                           *)

\* The Boolean part of the types.
LEMMA StepTruths ==
  ASSUME StartInv, Truths, OneOpenConnection, [Next]_vars
  PROVE  Truths' /\ OneOpenConnection'
<1>1. sock' \in [Conns -> BOOLEAN] /\ OneOpenConnection'
  BY StepOpen DEF Truths
<1>2. connected' \in [Conns -> BOOLEAN]
  <2>1. ASSUME NEW c \in Conns, HandlerConnected(c)
        PROVE  connected' \in [Conns -> BOOLEAN]
    BY <2>1, Zenon DEF HandlerConnected, Truths
  <2>2. \/ connected' = connected
        \/ \E c \in Conns : HandlerConnected(c)
    <3>1. ASSUME NEW a \in Starters, Start(a) PROVE connected' = connected
      BY <3>1
      DEF Start, BeginRun, DialFails, DialOK, RequestSent, RequestFails, handlerVars
    <3>2. ASSUME \/ \E u \in Users :
                      \/ UserCalls(u) \/ StopStep(u) \/ ShutdownExpires(u)
                      \/ ConnectReturns(u) \/ ConnectExpires(u)
                 \/ Retrying \/ \E a \in Actors : RetryCall(a)
          PROVE  connected' = connected
      BY <3>2
      DEF UserCalls, UserStart, StopCancel, UserRetry, StopStep, StopQuit, StopConn,
          ShutdownReturns, ShutdownExpires, ConnectReturns, ConnectExpires, stopRest,
          Retrying, RetryQuit, RetryTimer, RetryResult, RetryLeaves, RetryCall, RetryEnter,
          RetrySwap, retryRest, handlerVars
    <3>3. ASSUME NEW c \in Conns,
                 HandlerStep(c) \/ \E k \in Helpers : HelperEnds(c, k) \/ HelperFails(c, k)
          PROVE  connected' = connected \/ HandlerConnected(c)
      BY <3>3
      DEF HandlerStep, HandlerLoop, HandlerQuit, HandlerData, HandlerReadFails, HandlerLost,
          HandlerRefused, HandlerDrops, HandlerAccepted, HandlerGone,
          HelperEnds, HelperFails, helperRest, handlerRest
    <3>4. UNCHANGED vars => connected' = connected
      BY DEF vars, handlerVars
    <3> QED BY <3>1, <3>2, <3>3, <3>4 DEF Next
  <2> QED BY <2>1, <2>2 DEF Truths
<1>3. stopped' \in BOOLEAN
  <2>1. ASSUME NEW a \in Starters, Start(a) PROVE stopped' = stopped
    BY <2>1 DEF Start, BeginRun, DialFails, DialOK, RequestSent, RequestFails
  <2>2. ASSUME NEW u \in Users,
               \/ UserCalls(u) \/ StopStep(u) \/ ShutdownExpires(u)
               \/ ConnectReturns(u) \/ ConnectExpires(u)
        PROVE  stopped' = stopped \/ stopped' \in BOOLEAN
    BY <2>2
    DEF UserCalls, UserStart, StopCancel, UserRetry, StopStep, StopQuit, StopConn,
        ShutdownReturns, ShutdownExpires, ConnectReturns, ConnectExpires
  <2>3. ASSUME Retrying \/ \E a \in Actors : RetryCall(a) PROVE stopped' = stopped
    BY <2>3
    DEF Retrying, RetryQuit, RetryTimer, RetryResult, RetryLeaves, RetryCall, RetryEnter,
        RetrySwap, retryRest
  <2>4. ASSUME NEW c \in Conns,
               HandlerStep(c) \/ \E k \in Helpers : HelperEnds(c, k) \/ HelperFails(c, k)
        PROVE  stopped' = stopped
    BY <2>4
    DEF HandlerStep, HandlerLoop, HandlerQuit, HandlerData, HandlerReadFails, HandlerLost,
        HandlerRefused, HandlerDrops, HandlerAccepted, HandlerConnected, HandlerGone,
        HelperEnds, HelperFails, helperRest, handlerRest
  <2>5. stopped' = stopped \/ stopped' \in BOOLEAN
    BY <2>1, <2>2, <2>3, <2>4 DEF Next, vars
  <2> QED BY <2>5 DEF Truths
<1> QED BY <1>1, <1>2, <1>3 DEF Truths

\* The inductive invariant.
ClientInv ==
  /\ StartInv /\ Truths /\ OneOpenConnection /\ RunTypes /\ Current
  /\ Begun /\ Positions /\ Starting /\ StoppedRunDropped

\* Nothing has been started.
LEMMA InitClientInv == Init => ClientInv
<1> SUFFICES ASSUME Init PROVE ClientInv
  OBVIOUS
<1> USE NtripClientAssumption
<1>0. 1 \in Runs /\ \A c \in Conns : c # 0
  BY DEF Runs, Conns
<1>1. StartTypes /\ HandlerTypes
  BY DEF Init, StartTypes, StartSteps, HandlerTypes
<1>2. Owns /\ OneStarts /\ Begun /\ Starting
  BY DEF Init, Owns, OneStarts, Locked, Begun, Starting
<1>3. Truths
  BY Zenon DEF Init, Truths
<1>4. OneOpenConnection
  BY <1>0 DEF Init, OneOpenConnection
<1>5. RunTypes
  BY <1>0 DEF Init, RunTypes
<1>6. Current /\ StoppedRunDropped
  BY DEF Init, Current, StoppedRunDropped
<1>7. Positions
  <2>1. conn \in 0..MaxConns /\ reports \in [Conns -> Nat] /\ taken \subseteq Conns
    BY DEF Init
  <2>2. \A c \in Conns : Place(c)
    BY <1>0 DEF Init, Place, Helpers
  <2> QED BY <2>1, <2>2 DEF Positions
<1> QED BY <1>1, <1>2, <1>3, <1>4, <1>5, <1>6, <1>7 DEF ClientInv, StartInv

\* Every step keeps it.
LEMMA StepClientInv == ClientInv /\ [Next]_vars => ClientInv'
<1> SUFFICES ASSUME ClientInv, [Next]_vars PROVE ClientInv'
  OBVIOUS
<1> USE DEF ClientInv
<1>1. StartInv' /\ Begun' /\ Starting'
  BY StepStartInv, StepBegun, StepStarting
<1>2. Truths' /\ OneOpenConnection'
  BY StepTruths
<1>3. RunTypes' /\ Current'
  BY StepRuns
<1>4. Positions'
  BY StepPositions
<1>5. StoppedRunDropped'
  BY StepDropped DEF Positions
<1> QED BY <1>1, <1>2, <1>3, <1>4, <1>5

\* It holds throughout.
LEMMA AlwaysClientInv == Spec => []ClientInv
  BY InitClientInv, StepClientInv, PTL DEF Spec

\* The variables keep their types, for any number of users, connections and
\* runs, and wherever the application calls Retry.
THEOREM ClientTypes == Spec => []TypeOK
<1>1. ClientInv => TypeOK
  BY DEF ClientInv, StartInv, StartTypes, StartSteps, HandlerTypes, Truths, RunTypes,
         Positions, TypeOK
<1> QED BY <1>1, AlwaysClientInv, PTL

\* The open connections are exactly the current one: no handler, monitor, GGA
\* sender or expired Connect takes away or leaves open somebody else's
\* (ntrip_client.go:105-140, 361-363).
THEOREM ClientOneOpen == Spec => []OneOpenConnection
<1>1. ClientInv => OneOpenConnection
  BY DEF ClientInv
<1> QED BY <1>1, AlwaysClientInv, PTL

\* A current connection has a handler that will notice its end, or is still
\* in the hands of the call that dialled it (ntrip_client.go:361-382).
THEOREM ClientCurrentIsAttended == Spec => []CurrentIsAttended
<1>1. ASSUME ClientInv PROVE CurrentIsAttended
  <2> SUFFICES ASSUME conn # 0
               PROVE  \/ hpc[conn] \in {"loop", "read", "refused", "accepted"}
                      \/ /\ hpc[conn] = "starting"
                         /\ \E a \in Starters : pc[a] = "auth" /\ mine[a] = conn
    BY DEF CurrentIsAttended
  <2>1. conn \in Conns
    BY <1>1, NtripClientAssumption DEF ClientInv, Positions, Conns
  <2>2. hpc[conn] \in {"starting", "loop", "read", "refused", "accepted"}
    BY <1>1, <2>1 DEF ClientInv, StartInv, HandlerTypes, Positions, Place
  <2> QED BY <1>1, <2>1, <2>2 DEF ClientInv, Starting
<1> QED BY <1>1, AlwaysClientInv, PTL

\* A Stop leaves no connection of the run it ends, not even one that was
\* being dialled when it came (ntrip_client.go:143-150, 386-397).
THEOREM ClientStoppedRunDropped == Spec => []StoppedRunDropped
<1>1. ClientInv => StoppedRunDropped
  BY DEF ClientInv
<1> QED BY <1>1, AlwaysClientInv, PTL

\* Of the goroutines that may notice the loss of an authenticated connection
\* exactly one reports it, unless the application took the connection away
\* (ntrip_client.go:505-514, 540-542, 574-576, 588-590, 600-622).
THEOREM ClientLossReportedOnce == Spec => []LossReportedOnce
<1>1. ASSUME ClientInv PROVE LossReportedOnce
  <2> SUFFICES ASSUME NEW c \in Conns
               PROVE  /\ reports[c] <= 1
                      /\ reports[c] = 1 => connected[c] /\ conn # c
                      /\ hpc[c] = "gone" /\ connected[c] /\ c \notin taken => reports[c] = 1
    BY DEF LossReportedOnce
  <2>1. Place(c) /\ reports[c] \in Nat
    BY <1>1 DEF ClientInv, Positions
  <2> QED BY <2>1 DEF Place
<1> QED BY <1>1, AlwaysClientInv, PTL


============================================================================
