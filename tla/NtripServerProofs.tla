------------------------- MODULE NtripServerProofs --------------------------
(***************************************************************************)
(* NtripServer for any number of users and connections: types, one open    *)
(* connection, silence after Stop, and the reports of lost connections.    *)
(***************************************************************************)
EXTENDS NtripServer, TLAPS

USE NtripServerAssumption DEF Conns, Actors

\* An actor has a connection of its own exactly between the dial and the end
\* of its call, and the handler of a connection being started does not run.
Owns ==
  \A a \in Actors :
    /\ pc[a] \in {"auth", "await"} <=> mine[a] # 0
    /\ pc[a] = "auth" => hpc[mine[a]] = "starting"

\* startMu is held by at most one actor.
OneStarts ==
  \A a, b \in Actors :
    pc[a] \in {"dial", "auth"} /\ pc[b] \in {"dial", "auth"} => a = b

\* The two halves of TypeOK; they need different provers.
Truths ==
  /\ sock \in [Conns -> BOOLEAN] /\ connected \in [Conns -> BOOLEAN]
  /\ stopped \in BOOLEAN
Values ==
  /\ conn \in 0..MaxConns
  /\ pc \in [Actors -> {"idle", "start", "dial", "auth", "await", "wait"}]
  /\ mine \in [Actors -> 0..MaxConns]
  /\ hpc \in [Conns -> {"none", "starting", "read", "accepted", "clean",
                        "report", "gone"}]
  /\ authResult \in [Conns -> {"none", "ok", "failed"}]
  /\ reports \in [Conns -> Nat]
  /\ taken \subseteq Conns

\* The inductive invariant for types.
Typed == Truths /\ Values /\ Owns /\ OneStarts

\* What a handler's position says about its connection: while the handler has
\* not cleaned up, the connection is current or the application took it, and
\* the loss is reported by the clean-up.
Place(c) ==
  /\ conn = c => c \notin taken
  /\ hpc[c] = "none" => conn # c /\ c \notin taken
  /\ hpc[c] \in {"none", "starting"} => ~connected[c]
  /\ hpc[c] \in {"starting", "read", "accepted", "clean"} /\ c \notin taken
       => conn = c
  /\ hpc[c] \in {"report", "gone"} => conn # c
  /\ hpc[c] \notin {"report", "gone"} => reports[c] = 0
  /\ reports[c] # 0 => connected[c] /\ c \notin taken
  /\ hpc[c] \in {"report", "gone"} /\ connected[c] /\ c \notin taken
       => reports[c] = 1
Positions == \A c \in Conns : Place(c)

\* Nobody is on the way to a new connection once the source is stopped.
NoneUnderWay ==
  stopped => \A a \in Actors : pc[a] \notin {"start", "dial", "auth"}

\* The initial state satisfies all of them.
LEMMA InitHolds ==
  Init => /\ Typed /\ OneOpenConnection
          /\ Positions /\ NoneUnderWay /\ StopStops
<1> SUFFICES ASSUME Init
             PROVE  /\ Typed /\ OneOpenConnection
                    /\ Positions /\ NoneUnderWay /\ StopStops
  OBVIOUS
<1>1. Truths BY Zenon DEF Init, Truths
<1>2. Values BY DEF Init, Values
<1>3. Owns BY DEF Init, Owns
<1>4. OneStarts BY DEF Init, OneStarts
<1>5. OneOpenConnection
  BY DEF Init, OneOpenConnection
<1>6. Positions
  BY DEF Init, Positions, Place
<1>7. NoneUnderWay /\ StopStops
  BY DEF Init, NoneUnderWay, StopStops
<1> QED BY <1>1, <1>2, <1>3, <1>4, <1>5, <1>6, <1>7 DEF Typed

\* The steps of Start keep the types.
LEMMA StartTypes ==
  ASSUME Typed, NEW a \in Actors, Start(a)
  PROVE  Typed'
<1> USE DEF Typed
<1>1. CASE StartLocks(a)
  <2> USE <1>1 DEF StartLocks, StartMuFree, Goto, connVars, handlerVars
  <2>1. Truths' BY Zenon DEF Truths
  <2>2. Values' BY DEF Values
  <2>3. Owns' BY DEF Values, Owns
  <2>4. OneStarts' BY DEF Values, OneStarts
  <2> QED BY <2>1, <2>2, <2>3, <2>4
<1>2. CASE MountInvalid(a) \/ DialFails(a)
  <2> USE <1>2 DEF MountInvalid, DialFails, CallBack, CallStart, connVars, handlerVars
  <2>1. Truths' BY Zenon DEF Truths
  <2>2. Values' BY DEF Values
  <2>3. Owns' BY DEF Values, Owns
  <2>4. OneStarts' BY DEF Values, OneStarts
  <2> QED BY <2>1, <2>2, <2>3, <2>4
<1>3. ASSUME NEW c \in Conns, DialOK(a, c) PROVE Typed'
  <2> USE <1>3 DEF DialOK, Goto, Fresh, ReplaceConn, Replaced
  <2>1. Truths' BY Zenon DEF Truths
  <2>2. Values'
    <3>1. conn' \in 0..MaxConns
      BY DEF Values
    <3>2. pc' \in [Actors -> {"idle", "start", "dial", "auth", "await", "wait"}]
      BY DEF Values
    <3>3. mine' \in [Actors -> 0..MaxConns]
      BY DEF Values
    <3>4. /\ hpc' \in [Conns -> {"none", "starting", "read", "accepted",
                              "clean", "report", "gone"}]
          /\ authResult' \in [Conns -> {"none", "ok", "failed"}]
      BY DEF Values
    <3>5. reports' \in [Conns -> Nat]
      BY DEF Values
    <3>6. taken' \subseteq Conns
      BY DEF Values
    <3> HIDE <1>3 DEF DialOK, ReplaceConn
    <3> QED BY <3>1, <3>2, <3>3, <3>4, <3>5, <3>6 DEF Values
  <2>3. Owns' BY DEF Values, Owns
  <2>4. OneStarts' BY DEF Values, OneStarts
  <2> QED BY <2>1, <2>2, <2>3, <2>4
<1>4. CASE RequestSent(a)
  <2> USE <1>4 DEF RequestSent, Goto, DoneWith, connVars
  <2>1. Truths' BY Zenon DEF Truths
  <2>2. Values'
    <3>1. /\ pc' \in [Actors -> {"idle", "start", "dial", "auth", "await", "wait"}]
          /\ mine' \in [Actors -> 0..MaxConns]
      <4>1. CASE Goto(a, "auth", "await") /\ UNCHANGED mine
        BY <4>1 DEF Values
      <4>2. CASE Goto(a, "auth", "idle") /\ DoneWith(a)
        BY <4>2 DEF Values
      <4> QED BY <4>1, <4>2, Zenon
    <3>2. hpc' \in [Conns -> {"none", "starting", "read", "accepted",
                              "clean", "report", "gone"}]
      BY DEF Values
    <3>3. UNCHANGED <<conn, authResult, reports, taken>>
      OBVIOUS
    <3> HIDE <1>4 DEF RequestSent
    <3> QED BY <3>1, <3>2, <3>3 DEF Values
  <2>3. Owns' 
    <3> SUFFICES ASSUME NEW b \in Actors
                 PROVE  /\ pc'[b] \in {"auth", "await"} <=> mine'[b] # 0
                        /\ pc'[b] = "auth" => hpc'[mine'[b]] = "starting"
      BY DEF Owns
    <3>1. CASE b = a
      BY <3>1 DEF Values, Owns
    <3>2. CASE b # a
      <4>1. pc'[b] = pc[b] /\ mine'[b] = mine[b] /\ pc[b] # "auth"
        BY <3>2 DEF Values, OneStarts
      <4> QED BY <4>1 DEF Owns
    <3> QED BY <3>1, <3>2
  <2>4. OneStarts' BY DEF Values, OneStarts
  <2> QED BY <2>1, <2>2, <2>3, <2>4
<1>5. CASE RequestFails(a)
  <2> USE <1>5 DEF RequestFails, CallBack, CallStart,
                 ClearConnIfCurrent, DoneWith
  <2>1. Truths' BY Zenon DEF Truths
  <2>2. Values'
    <3>1. conn' \in 0..MaxConns
      BY DEF Values, Owns
    <3>2. pc' \in [Actors -> {"idle", "start", "dial", "auth", "await", "wait"}]
      <4>1. \/ pc' = [pc EXCEPT ![a] = "idle"]
            \/ pc' = [pc EXCEPT ![a] = "start"]
        BY Zenon
      <4> HIDE <1>5 DEF RequestFails, CallBack
      <4> QED BY <4>1 DEF Values
    <3>3. mine' \in [Actors -> 0..MaxConns]
      BY DEF Values, Owns
    <3>4. /\ hpc' \in [Conns -> {"none", "starting", "read", "accepted",
                              "clean", "report", "gone"}]
          /\ authResult' \in [Conns -> {"none", "ok", "failed"}]
      BY DEF Values, Owns
    <3>5. reports' \in [Conns -> Nat]
      BY DEF Values, Owns
    <3>6. taken' \subseteq Conns
      BY DEF Values, Owns
    <3> HIDE <1>5 DEF RequestFails, ClearConnIfCurrent
    <3> QED BY <3>1, <3>2, <3>3, <3>4, <3>5, <3>6 DEF Values
  <2>3. Owns' 
    <3> SUFFICES ASSUME NEW b \in Actors
                 PROVE  /\ pc'[b] \in {"auth", "await"} <=> mine'[b] # 0
                        /\ pc'[b] = "auth" => hpc'[mine'[b]] = "starting"
      BY DEF Owns
    <3>1. CASE b = a
      BY <3>1 DEF Values, Owns
    <3>2. CASE b # a
      <4>1. pc'[b] = pc[b] /\ mine'[b] = mine[b] /\ pc[b] # "auth"
        BY <3>2 DEF Values, OneStarts
      <4> QED BY <4>1 DEF Owns
    <3> QED BY <3>1, <3>2
  <2>4. OneStarts' BY DEF Values, OneStarts
  <2> QED BY <2>1, <2>2, <2>3, <2>4
<1> QED BY <1>1, <1>2, <1>3, <1>4, <1>5 DEF Start

\* The steps of users keep the types.
LEMMA UserTypes ==
  ASSUME Typed, NEW a \in Actors,
         \/ a \in Users /\ (UserStart(a) \/ Stop(a) \/ ShutdownReturns(a)
                              \/ ShutdownExpires(a))
         \/ ConnectReturns(a) \/ ConnectExpires(a)
  PROVE  Typed'
<1> USE DEF Typed
<1>1. CASE UserStart(a)
  <2> USE <1>1 DEF UserStart, CallStart, connVars, handlerVars
  <2>1. Truths' BY Zenon DEF Truths
  <2>2. Values' BY DEF Values
  <2>3. Owns' BY DEF Values, Owns
  <2>4. OneStarts' BY DEF Values, OneStarts
  <2> QED BY <2>1, <2>2, <2>3, <2>4
<1>2. CASE Stop(a)
  <2> USE <1>2 DEF Stop, ReplaceConn, Replaced, handlerVars
  <2>1. Truths' BY Zenon DEF Truths
  <2>2. Values' BY DEF Values
  <2>3. Owns' BY DEF Values, Owns
  <2>4. OneStarts' BY DEF Values, OneStarts
  <2> QED BY <2>1, <2>2, <2>3, <2>4
<1>3. CASE ShutdownReturns(a) \/ ShutdownExpires(a)
  <2> USE <1>3 DEF ShutdownReturns, ShutdownExpires, Goto,
                 connVars, handlerVars
  <2>1. Truths' BY Zenon DEF Truths
  <2>2. Values' BY DEF Values
  <2>3. Owns' BY DEF Values, Owns
  <2>4. OneStarts' BY DEF Values, OneStarts
  <2> QED BY <2>1, <2>2, <2>3, <2>4
<1>4. CASE ConnectReturns(a)
  <2> USE <1>4 DEF ConnectReturns, Goto, DoneWith, connVars, handlerVars
  <2>1. Truths' BY Zenon DEF Truths
  <2>2. Values' BY DEF Values
  <2>3. Owns' BY DEF Values, Owns
  <2>4. OneStarts' BY DEF Values, OneStarts
  <2> QED BY <2>1, <2>2, <2>3, <2>4
<1>5. CASE ConnectExpires(a)
  <2> USE <1>5 DEF ConnectExpires, Goto, DoneWith, connVars, handlerVars,
                 ClearConnIfCurrent
  <2>1. Truths' BY Zenon DEF Truths
  <2>2. Values'
    <3>1. conn' \in 0..MaxConns
      BY DEF Values, Owns
    <3>2. pc' \in [Actors -> {"idle", "start", "dial", "auth", "await", "wait"}]
      BY DEF Values, Owns
    <3>3. mine' \in [Actors -> 0..MaxConns]
      BY DEF Values, Owns
    <3>4. /\ hpc' \in [Conns -> {"none", "starting", "read", "accepted",
                              "clean", "report", "gone"}]
          /\ authResult' \in [Conns -> {"none", "ok", "failed"}]
      BY DEF Values, Owns
    <3>5. reports' \in [Conns -> Nat]
      BY DEF Values, Owns
    <3>6. taken' \subseteq Conns
      <4>1. mine[a] \in Conns
        BY DEF Values, Owns
      <4>2. taken' = taken \/ taken' = taken \cup {mine[a]}
        BY Zenon
      <4> HIDE <1>5 DEF ConnectExpires
      <4> QED BY <4>1, <4>2 DEF Values
    <3> HIDE <1>5 DEF ConnectExpires, ClearConnIfCurrent
    <3> QED BY <3>1, <3>2, <3>3, <3>4, <3>5, <3>6 DEF Values
  <2>3. Owns' BY DEF Values, Owns
  <2>4. OneStarts' BY DEF Values, OneStarts
  <2> QED BY <2>1, <2>2, <2>3, <2>4
<1> QED BY <1>1, <1>2, <1>3, <1>4, <1>5

\* The steps of a handler keep the types.
LEMMA HandlerTypes ==
  ASSUME Typed, NEW c \in Conns, Handler(c)
  PROVE  Typed'
<1> USE DEF Typed, Step, ReportAuth
<1>1. CASE AuthFails(c) \/ StreamFails(c)
  <2> USE <1>1 DEF AuthFails, StreamFails, CallBack, CallStart, connVars
  <2>1. Truths' BY Zenon DEF Truths
  <2>2. Values' BY DEF Values
  <2>3. Owns' BY DEF Values, Owns
  <2>4. OneStarts' BY DEF Values, OneStarts
  <2> QED BY <2>1, <2>2, <2>3, <2>4
<1>2. CASE ReadClosed(c) \/ Accepted(c)
  <2> USE <1>2 DEF ReadClosed, Accepted, connVars, callVars
  <2>1. Truths' BY Zenon DEF Truths
  <2>2. Values' BY DEF Values
  <2>3. Owns' BY DEF Values, Owns
  <2>4. OneStarts' BY DEF Values, OneStarts
  <2> QED BY <2>1, <2>2, <2>3, <2>4
<1>3. CASE Authenticated(c)
  <2> USE <1>3 DEF Authenticated, connVars, callVars
  <2>1. Truths' BY Zenon DEF Truths
  <2>2. Values' BY DEF Values
  <2>3. Owns' BY DEF Values, Owns
  <2>4. OneStarts' BY DEF Values, OneStarts
  <2> QED BY <2>1, <2>2, <2>3, <2>4
<1>4. CASE CleanUp(c)
  <2>0. /\ \/ pc' = pc \/ pc' = [pc EXCEPT ![c] = "idle"]
           \/ pc' = [pc EXCEPT ![c] = "start"]
        /\ pc[c] = "idle" /\ hpc[c] = "clean" /\ hpc' = [hpc EXCEPT ![c] = "report"]
        /\ mine' = mine /\ conn' = IF conn = c THEN 0 ELSE conn
    BY <1>4, Zenon DEF CleanUp, CallBack, CallStart, ClearConnIfCurrent
  <2>3. Owns' BY <2>0 DEF Values, Owns
  <2>4. OneStarts' BY <2>0 DEF Values, OneStarts
  <2> USE <1>4 DEF CleanUp, ClearConnIfCurrent, CallBack, CallStart, Lost
  <2>1. Truths' BY Zenon DEF Truths
  <2>2. Values'
    <3>1. conn' \in 0..MaxConns
      <4> HIDE <1>4 DEF CleanUp, ClearConnIfCurrent
      <4> QED BY <2>0 DEF Values
    <3>2. pc' \in [Actors -> {"idle", "start", "dial", "auth", "await", "wait"}]
      <4> HIDE <1>4 DEF CleanUp, CallBack
      <4> QED BY <2>0 DEF Values
    <3>3. mine' \in [Actors -> 0..MaxConns]
      BY DEF Values
    <3>4. /\ hpc' \in [Conns -> {"none", "starting", "read", "accepted",
                              "clean", "report", "gone"}]
          /\ authResult' \in [Conns -> {"none", "ok", "failed"}]
      BY DEF Values
    <3>5. reports' \in [Conns -> Nat]
      <4>1. reports' = reports \/ reports' = [reports EXCEPT ![c] = @ + 1]
        BY Zenon
      <4> HIDE <1>4 DEF CleanUp
      <4> QED BY <4>1 DEF Values
    <3>6. taken' \subseteq Conns
      BY DEF Values
    <3> HIDE <1>4 DEF CleanUp, ClearConnIfCurrent
    <3> QED BY <3>1, <3>2, <3>3, <3>4, <3>5, <3>6 DEF Values
  <2> QED BY <2>1, <2>2, <2>3, <2>4
<1>5. CASE HandlerGone(c)
  <2> USE <1>5 DEF HandlerGone, DeferredReport, connVars, callVars
  <2>1. Truths' BY Zenon DEF Truths
  <2>2. Values' BY DEF Values
  <2>3. Owns' BY DEF Values, Owns
  <2>4. OneStarts' BY DEF Values, OneStarts
  <2> QED BY <2>1, <2>2, <2>3, <2>4
<1> QED BY <1>1, <1>2, <1>3, <1>4, <1>5 DEF Handler

\* Every step keeps the types.
LEMMA StepTypes == Typed /\ [Next]_vars => Typed'
<1> SUFFICES ASSUME Typed, [Next]_vars PROVE Typed'
  OBVIOUS
<1>1. CASE UNCHANGED vars
  BY <1>1 DEF vars, connVars, callVars, handlerVars, Typed, Truths, Values, Owns,
              OneStarts
<1> QED BY <1>1, StartTypes, UserTypes, HandlerTypes DEF Next

\* The variables keep their types, for any number of users and connections.
THEOREM ServerTypeCorrect == Spec => []TypeOK
<1>1. Spec => []Typed
  BY InitHolds, StepTypes, PTL DEF Spec
<1>2. Typed => TypeOK
  BY DEF Typed, Truths, Values, TypeOK
<1> QED BY <1>1, <1>2, PTL
---------------------------------------------------------------------------
\* Every step leaves Conn and the sockets alone, replaces the connection, or
\* clears one.
LEMMA ConnSteps ==
  ASSUME Typed, Next
  PROVE  \/ UNCHANGED <<conn, sock>>
         \/ \E c \in 0..MaxConns : ReplaceConn(c)
         \/ \E c \in Conns : ClearConnIfCurrent(c)
<1>0. \A a \in Actors : pc[a] \in {"auth", "await"} => mine[a] \in Conns
  BY DEF Typed, Values, Owns
<1>1. ASSUME NEW u \in Users,
             UserStart(u) \/ Stop(u) \/ ShutdownReturns(u) \/ ShutdownExpires(u)
      PROVE  UNCHANGED <<conn, sock>> \/ ReplaceConn(0)
  BY <1>1, Zenon DEF UserStart, Stop, ShutdownReturns, ShutdownExpires, connVars
<1>2. ASSUME NEW a \in Actors, Start(a) \/ ConnectReturns(a) \/ ConnectExpires(a)
      PROVE  \/ UNCHANGED <<conn, sock>>
             \/ \E c \in Conns : ReplaceConn(c)
             \/ \E c \in Conns : ClearConnIfCurrent(c)
  BY <1>0, <1>2, Zenon DEF Start, StartLocks, MountInvalid, DialFails, DialOK, RequestSent,
     RequestFails, ConnectReturns, ConnectExpires, Goto, connVars
<1>3. ASSUME NEW c \in Conns, Handler(c)
      PROVE  UNCHANGED <<conn, sock>> \/ ClearConnIfCurrent(c)
  BY <1>3, Zenon DEF Handler, AuthFails, StreamFails, ReadClosed, Accepted,
     Authenticated, CleanUp, HandlerGone, connVars
<1>4. 0 \in 0..MaxConns /\ Conns \subseteq 0..MaxConns
  OBVIOUS
<1> QED BY <1>1, <1>2, <1>3, <1>4, Zenon DEF Next

\* Every step keeps exactly the current connection open.
LEMMA StepOpen == Typed /\ OneOpenConnection /\ [Next]_vars => OneOpenConnection'
<1> SUFFICES ASSUME Typed, OneOpenConnection, [Next]_vars,
                    NEW d \in Conns
             PROVE  sock'[d] <=> conn' = d
  BY DEF OneOpenConnection
<1>0. /\ sock[d] <=> conn = d
      /\ sock \in [Conns -> BOOLEAN]
  BY Zenon DEF OneOpenConnection, Typed, Truths
<1>1. CASE UNCHANGED <<conn, sock>>
  BY <1>0, <1>1, Zenon
<1>2. ASSUME NEW c \in 0..MaxConns, ReplaceConn(c)
      PROVE  sock'[d] <=> conn' = d
  <2>1. d # 0
    OBVIOUS
  <2> QED BY <1>0, <1>2, <2>1, Zenon DEF ReplaceConn, Replaced
<1>3. ASSUME NEW c \in Conns, ClearConnIfCurrent(c)
      PROVE  sock'[d] <=> conn' = d
  <2>1. d # 0
    OBVIOUS
  <2>2. CASE d = c
    BY <1>0, <1>3, <2>1, <2>2, Zenon DEF ClearConnIfCurrent
  <2>3. CASE d # c
    BY <1>0, <1>3, <2>1, <2>3, Zenon DEF ClearConnIfCurrent
  <2> QED BY <2>2, <2>3
<1>4. CASE UNCHANGED vars
  BY <1>1, <1>4 DEF vars, connVars
<1> QED BY <1>1, <1>2, <1>3, <1>4, ConnSteps, Zenon

\* The connections that are open are exactly the current one: no handler or
\* expired Connect takes away or leaves open somebody else's connection.
THEOREM ServerOneOpen == Spec => []OneOpenConnection
<1>1. Spec => []Typed
  BY InitHolds, StepTypes, PTL DEF Spec
<1> QED BY <1>1, InitHolds, StepOpen, PTL DEF Spec

---------------------------------------------------------------------------
\* Every step keeps a stopped source without a connection and without anybody
\* on the way to one.
LEMMA StepStopped ==
  Typed /\ NoneUnderWay /\ StopStops /\ [Next]_vars => (NoneUnderWay /\ StopStops)'
<1> SUFFICES ASSUME Typed, NoneUnderWay, StopStops, [Next]_vars, stopped'
             PROVE  /\ \A b \in Actors : pc'[b] \notin {"start", "dial", "auth"}
                    /\ conn' = 0
  BY Zenon DEF NoneUnderWay, StopStops
<1> USE DEF NoneUnderWay, StopStops
<1>0. pc \in [Actors -> {"idle", "start", "dial", "auth", "await", "wait"}]
  BY DEF Typed, Values
<1>1. ASSUME NEW u \in Users, Stop(u)
      PROVE  /\ \A b \in Actors : pc'[b] \notin {"start", "dial", "auth"}
             /\ conn' = 0
  BY <1>0, <1>1 DEF Stop, ReplaceConn, StopLocks, StartMuFree
<1>2. ASSUME NEW u \in Users, UserStart(u) PROVE FALSE
  BY <1>2, Zenon DEF UserStart, CallStart
<1>3. ASSUME NEW u \in Users, ShutdownReturns(u) \/ ShutdownExpires(u)
      PROVE  /\ stopped /\ UNCHANGED conn
             /\ pc' = [pc EXCEPT ![u] = "idle"]
  BY <1>3, Zenon DEF ShutdownReturns, ShutdownExpires, Goto, connVars
<1>4. ASSUME NEW a \in Actors, Start(a) PROVE FALSE
  BY <1>0, <1>4, Zenon DEF Start, StartLocks, MountInvalid, DialFails, DialOK, RequestSent, RequestFails,
     Goto, CallBack, CallStart
<1>5. ASSUME NEW a \in Actors, ConnectReturns(a) \/ ConnectExpires(a)
      PROVE  /\ stopped /\ (conn' = conn \/ conn' = 0)
             /\ pc' = [pc EXCEPT ![a] = "idle"]
  BY <1>5, Zenon DEF ConnectReturns, ConnectExpires, Goto, connVars, ClearConnIfCurrent
<1>6. ASSUME NEW c \in Conns, Handler(c)
      PROVE  /\ stopped /\ (conn' = conn \/ conn' = 0)
             /\ pc' = pc \/ pc' = [pc EXCEPT ![c] = "idle"]
  BY <1>6, Zenon DEF Handler, AuthFails, StreamFails, ReadClosed, Accepted, Authenticated,
     CleanUp, HandlerGone, CallBack, CallStart, ClearConnIfCurrent, connVars, callVars
<1>7. CASE UNCHANGED vars
  BY <1>7, Zenon DEF vars, callVars, connVars
<1>8. ASSUME stopped, conn' = conn \/ conn' = 0, NEW a \in Actors,
             pc' = pc \/ pc' = [pc EXCEPT ![a] = "idle"]
      PROVE  /\ \A b \in Actors : pc'[b] \notin {"start", "dial", "auth"}
             /\ conn' = 0
  BY <1>0, <1>8
<1>9. Users \subseteq Actors /\ Conns \subseteq Actors
  OBVIOUS
<1> QED BY <1>1, <1>2, <1>3, <1>4, <1>5, <1>6, <1>7, <1>8, <1>9, Zenon DEF Next

\* After Stop there is no connection until somebody calls Start or Connect.
THEOREM ServerStopStops == Spec => []StopStops
<1>1. Spec => []Typed
  BY InitHolds, StepTypes, PTL DEF Spec
<1> QED BY <1>1, InitHolds, StepStopped, PTL DEF Spec

---------------------------------------------------------------------------
\* The steps of Start keep the handlers' positions.
LEMMA StartReports ==
  ASSUME Typed, Positions, NEW a \in Actors, Start(a), NEW d \in Conns
  PROVE  Place(d)'
<1>0. /\ Place(d)
      /\ hpc \in [Conns -> {"none", "starting", "read", "accepted", "clean",
                            "report", "gone"}]
  BY DEF Positions, Typed, Values
<1>1. CASE StartLocks(a) \/ MountInvalid(a) \/ DialFails(a)
  BY <1>0, <1>1, Zenon DEF StartLocks, MountInvalid, DialFails, connVars, handlerVars, Place
<1>2. ASSUME NEW c \in Conns, DialOK(a, c) PROVE Place(d)'
  <2>1. /\ hpc[c] = "none" /\ conn' = c /\ taken' = taken \cup ({conn} \ {0})
        /\ hpc' = [hpc EXCEPT ![c] = "starting"]
        /\ UNCHANGED <<connected, reports>>
    BY <1>2, Zenon DEF DialOK, Fresh, ReplaceConn, Replaced
  <2>2. Place(c)
    BY DEF Positions
  <2>3. CASE d = c
    BY <1>0, <2>1, <2>3 DEF Place
  <2>4. CASE d # c
    <3>1. hpc'[d] = hpc[d]
      BY <1>0, <2>1, <2>4
    <3> QED BY <1>0, <2>1, <2>4, <3>1 DEF Place
  <2> QED BY <2>3, <2>4
<1>3. CASE RequestSent(a)
  <2>1. /\ mine[a] \in Conns /\ hpc[mine[a]] = "starting"
    BY <1>3 DEF RequestSent, Goto, Typed, Values, Owns
  <2>2. /\ hpc' = [hpc EXCEPT ![mine[a]] = "read"]
        /\ UNCHANGED <<conn, taken, connected, reports>>
    BY <1>3, Zenon DEF RequestSent, connVars
  <2>3. CASE d = mine[a]
    BY <1>0, <2>1, <2>2, <2>3 DEF Place
  <2>4. CASE d # mine[a]
    BY <1>0, <2>1, <2>2, <2>4 DEF Place
  <2> QED BY <2>3, <2>4
<1>4. CASE RequestFails(a)
  <2>1. /\ mine[a] \in Conns /\ hpc[mine[a]] = "starting"
    BY <1>4 DEF RequestFails, Typed, Values, Owns
  <2>2. /\ hpc' = [hpc EXCEPT ![mine[a]] = "gone"]
        /\ conn' = IF conn = mine[a] THEN 0 ELSE conn
        /\ UNCHANGED <<taken, connected, reports>>
    BY <1>4, Zenon DEF RequestFails, ClearConnIfCurrent
  <2>3. CASE d = mine[a]
    BY <1>0, <2>1, <2>2, <2>3 DEF Place
  <2>4. CASE d # mine[a]
    BY <1>0, <2>1, <2>2, <2>4 DEF Place
  <2> QED BY <2>3, <2>4
<1> QED BY <1>1, <1>2, <1>3, <1>4 DEF Start

\* The other steps of users keep the handlers' positions.
LEMMA UserReports ==
  ASSUME Typed, Positions, NEW a \in Actors, NEW d \in Conns,
         \/ UserStart(a) \/ Stop(a) \/ ShutdownReturns(a) \/ ShutdownExpires(a)
         \/ ConnectReturns(a) \/ ConnectExpires(a)
  PROVE  Place(d)'
<1>0. Place(d)
  BY DEF Positions
<1>1. CASE UserStart(a) \/ ShutdownReturns(a) \/ ShutdownExpires(a) \/ ConnectReturns(a)
  BY <1>0, <1>1, Zenon DEF UserStart, ShutdownReturns, ShutdownExpires,
     ConnectReturns, connVars, handlerVars, Place
<1>2. CASE Stop(a)
  <2>1. /\ conn' = 0 /\ taken' = taken \cup ({conn} \ {0})
        /\ UNCHANGED <<hpc, connected, reports>>
    BY <1>2, Zenon DEF Stop, ReplaceConn, Replaced, handlerVars
  <2> QED BY <1>0, <2>1 DEF Place
<1>3. CASE ConnectExpires(a)
  <2>1. /\ UNCHANGED <<hpc, connected, reports>>
        /\ \/ UNCHANGED <<conn, taken>>
           \/ conn' = 0 /\ taken' = taken \cup {conn}
    BY <1>3, Zenon DEF ConnectExpires, ClearConnIfCurrent, connVars, handlerVars
  <2> QED BY <1>0, <2>1 DEF Place
<1> QED BY <1>1, <1>2, <1>3

\* The steps of a handler keep the handlers' positions.
LEMMA HandlerReports ==
  ASSUME Typed, Positions, NEW c \in Conns, Handler(c), NEW d \in Conns
  PROVE  Place(d)'
<1>0. /\ Place(c) /\ Place(d)
      /\ hpc \in [Conns -> {"none", "starting", "read", "accepted", "clean",
                            "report", "gone"}]
      /\ reports \in [Conns -> Nat]
  BY DEF Positions, Typed, Values
<1>1. CASE AuthFails(c) \/ StreamFails(c) \/ ReadClosed(c) \/ Accepted(c)
  <2>1. /\ hpc[c] = "read" /\ UNCHANGED <<conn, taken, connected, reports>>
        /\ \E to \in {"clean", "accepted"} : hpc' = [hpc EXCEPT ![c] = to]
    BY <1>1, Zenon DEF AuthFails, StreamFails, ReadClosed, Accepted, Step, connVars
  <2>2. CASE d = c
    BY <1>0, <2>1, <2>2 DEF Place
  <2>3. CASE d # c
    BY <1>0, <2>1, <2>3 DEF Place
  <2> QED BY <2>2, <2>3
<1>2. CASE Authenticated(c)
  <2>1. /\ hpc[c] = "accepted" /\ hpc' = [hpc EXCEPT ![c] = "read"]
        /\ UNCHANGED <<conn, taken, reports>>
    BY <1>2, Zenon DEF Authenticated, Step, connVars
  <2>2. CASE d = c
    BY <1>0, <2>1, <2>2 DEF Place
  <2>3. CASE d # c
    <3>1. connected'[d] = connected[d]
      BY <1>2, <2>3, Zenon DEF Authenticated, Typed, Truths
    <3> QED BY <1>0, <2>1, <2>3, <3>1 DEF Place
  <2> QED BY <2>2, <2>3
<1>3. CASE CleanUp(c)
  <2>1. /\ hpc[c] = "clean" /\ hpc' = [hpc EXCEPT ![c] = "report"]
        /\ conn' = IF conn = c THEN 0 ELSE conn
        /\ UNCHANGED <<taken, connected>>
        /\ IF connected[c] /\ conn = c
           THEN reports' = [reports EXCEPT ![c] = @ + 1]
           ELSE reports' = reports
    BY <1>3, Zenon DEF CleanUp, Step, ClearConnIfCurrent, Lost
  <2>2. CASE d = c
    BY <1>0, <2>1, <2>2 DEF Place
  <2>3. CASE d # c
    BY <1>0, <2>1, <2>3 DEF Place
  <2> QED BY <2>2, <2>3
<1>4. CASE HandlerGone(c)
  <2>1. /\ hpc[c] = "report" /\ hpc' = [hpc EXCEPT ![c] = "gone"]
        /\ UNCHANGED <<conn, taken, connected, reports>>
    BY <1>4, Zenon DEF HandlerGone, Step, connVars
  <2>2. CASE d = c
    BY <1>0, <2>1, <2>2 DEF Place
  <2>3. CASE d # c
    BY <1>0, <2>1, <2>3 DEF Place
  <2> QED BY <2>2, <2>3
<1> QED BY <1>1, <1>2, <1>3, <1>4 DEF Handler

\* Every step keeps the handlers' positions.
LEMMA StepReports == Typed /\ Positions /\ [Next]_vars => Positions'
<1> SUFFICES ASSUME Typed, Positions, [Next]_vars, NEW d \in Conns
             PROVE  Place(d)'
  BY DEF Positions
<1>1. CASE UNCHANGED vars
  BY <1>1, Zenon DEF vars, connVars, handlerVars, Positions, Place
<1>2. Users \subseteq Actors
  OBVIOUS
<1> QED BY <1>1, <1>2, StartReports, UserReports, HandlerReports, Zenon DEF Next

\* The disconnect callback runs for authenticated connections only, at most
\* once, and for each one that ended while it was current
\* (ntrip_server.go:259-270).
THEOREM ServerLossReported == Spec => []LossReported
<1>1. Spec => []Typed
  BY InitHolds, StepTypes, PTL DEF Spec
<1>2. Spec => []Positions
  BY <1>1, InitHolds, StepReports, PTL DEF Spec
<1>3. Positions => LossReported
  <2> SUFFICES ASSUME Positions, NEW c \in Conns
               PROVE  /\ reports[c] <= 1
                      /\ reports[c] = 1 => connected[c]
                      /\ hpc[c] = "gone" /\ connected[c] /\ c \notin taken
                           => reports[c] = 1
    BY DEF LossReported
  <2>1. Place(c)
    BY DEF Positions
  <2>2. reports[c] = 0 \/ reports[c] = 1
    BY <2>1, Zenon DEF Place
  <2> QED BY <2>1, <2>2 DEF Place
<1> QED BY <1>2, <1>3, PTL
============================================================================
