----------------------------- MODULE TcpProofs ------------------------------
(***************************************************************************)
(* A tcp.Server and a TcpClient for any number of connections, users and   *)
(* restarts: types, what the listener promises, the one connection of the  *)
(* client, and the losses that both ends report.                           *)
(***************************************************************************)
EXTENDS Tcp, ListenerProofs

---------------------------------------------------------------------------
(* The steps of the two ends.                                              *)

\* The steps of the listener that are not a handler's.
NoHandlerStep ==
  \/ SetLimits
  \/ \E u \in Callers :
       \/ StartBinds(u, FALSE) \/ StopDetach(u) \/ StopClose(u)
       \/ ShutdownReturns(u) \/ ShutdownExpires(u)
  \/ \E g \in Gens :
       \/ AcceptStep(g) \/ AcceptFails(g)
       \/ \E c \in Conns : Dial(c, g) \/ Admit(g, c)

\* What a step is to the server: nothing, a step of its listener, or one of a
\* handler, which also writes the histories.
LEMMA ServerStepKinds ==
  ASSUME [Next]_vars
  PROVE  \/ UNCHANGED serverVars
         \/ NoHandlerStep /\ UNCHANGED handlerVars
         \/ \E c \in Conns : ServerHandler(c)
<1>1. ASSUME NEW a \in Actors, NEW c \in Conns, Connect(a, c)
      PROVE  NoHandlerStep /\ UNCHANGED handlerVars
  BY <1>1 DEF Connect, NoHandlerStep
<1>2. ASSUME ServerStep
      PROVE  \/ NoHandlerStep /\ UNCHANGED handlerVars
             \/ \E c \in Conns : ServerHandler(c)
  BY <1>2
  DEF ServerStep, ServerInput, Start, StopStep, AcceptLoop, NoHandlerStep
<1> QED BY <1>1, <1>2 DEF Next, vars, ClientStep

\* Every step of the two ends is a step of the server's listener.
LEMMA StepOfListener == [Next]_vars => [ListenerStep]_listenerVars
<1>1. ASSUME NEW c \in Conns, ServerHandler(c)
      PROVE  [ListenerStep]_listenerVars
  <2>1. {c} \in SUBSET Conns
    OBVIOUS
  <2> QED
    BY <1>1, <2>1
    DEF ServerHandler, Connected, ReadFails, HandlerGone, ListenerStep
<1>2. ASSUME NoHandlerStep
      PROVE  ListenerStep
  BY <1>2 DEF NoHandlerStep, ListenerStep
<1> QED BY <1>1, <1>2, ServerStepKinds DEF serverVars

\* What a step is to the client: nothing, or one of the client's own.
LEMMA ClientStepKinds ==
  ASSUME [Next]_vars
  PROVE  \/ UNCHANGED clientVars
         \/ \E u \in Users : ClientInput(u) \/ ClientShutdownReturns(u)
         \/ \E a \in Actors : ClientStart(a)
         \/ \E c \in Dials : Reader(c)
         \/ \E a \in Actors, c \in Dials : DialOK(a, c)
  BY EndsAssumption DEF Next, vars, ServerStep, ClientStep, Connect

---------------------------------------------------------------------------
(* Types.                                                                  *)

ServerTypes ==
  /\ told \in [Conns -> {"nothing", "connect", "disconnect"}]
  /\ active \in [Conns -> BOOLEAN]

\* The two halves of ClientTypeOK; they need different provers.
ClientTruths == sock \in [Dials -> BOOLEAN] /\ stopped \in BOOLEAN

ClientValues ==
  /\ conn \in Dials \cup {Nil}
  /\ pc \in [Actors -> {"idle", "start", "dial", "announce", "wait"}]
  /\ hpc \in [Dials -> {"none", "read", "report", "error", "gone"}]
  /\ reports \in [Dials -> Nat]
  /\ taken \subseteq Dials

\* The histories of the server's handlers keep their types.
LEMMA StepServerTypes == ServerTypes /\ [Next]_vars => ServerTypes'
<1> SUFFICES ASSUME ServerTypes, [Next]_vars PROVE ServerTypes'
  OBVIOUS
<1>1. CASE UNCHANGED handlerVars
  BY <1>1 DEF handlerVars, ServerTypes
<1>2. ASSUME NEW c \in Conns, ServerHandler(c)
      PROVE  ServerTypes'
  <2>1. \/ told' = told
        \/ \E t \in {"connect", "disconnect"} : told' = [told EXCEPT ![c] = t]
    BY <1>2 DEF ServerHandler, Connected, ReadFails, HandlerGone, Reported
  <2>2. \E b \in BOOLEAN : active' \in {active, [active EXCEPT ![c] = b]}
    <3>1. CASE Connected(c)
      BY <3>1, Zenon DEF Connected
    <3>2. CASE ReadFails(c)
      <4>1. (c \in DOMAIN conns) \in BOOLEAN
        OBVIOUS
      <4>2. active' = [active EXCEPT ![c] = c \in DOMAIN conns]
        BY <3>2 DEF ReadFails
      <4> QED BY <4>1, <4>2, Zenon
    <3>3. CASE HandlerGone(c)
      BY <3>3 DEF HandlerGone
    <3> QED BY <1>2, <3>1, <3>2, <3>3 DEF ServerHandler
  <2> QED BY <2>1, <2>2 DEF ServerTypes
<1> QED BY <1>1, <1>2, ServerStepKinds DEF serverVars

\* The Boolean fields of the client keep their types.
LEMMA StepClientTruths == ClientTruths /\ [Next]_vars => ClientTruths'
<1> SUFFICES ASSUME ClientTruths, [Next]_vars PROVE ClientTruths'
  OBVIOUS
<1>1. ASSUME NEW c, ReplaceConn(c) PROVE sock' \in [Dials -> BOOLEAN]
  BY <1>1, Zenon DEF ReplaceConn
<1>2. ASSUME NEW c \in Dials, CloseConnIfCurrent(c)
      PROVE  sock' \in [Dials -> BOOLEAN]
  BY <1>2, Zenon DEF CloseConnIfCurrent, ClientTruths
<1>3. ASSUME UNCHANGED fieldVars PROVE sock' \in [Dials -> BOOLEAN]
  BY <1>3 DEF fieldVars, ClientTruths
<1>4. ASSUME UNCHANGED stopped PROVE stopped' \in BOOLEAN
  BY <1>4 DEF ClientTruths
<1>5. ASSUME NEW a, CallBack(a) \/ CallStart(a) PROVE stopped' \in BOOLEAN
  BY <1>4, <1>5, Zenon DEF CallBack, CallStart
<1>6. ASSUME NEW u \in Users, ClientInput(u) \/ ClientShutdownReturns(u)
      PROVE  ClientTruths'
  <2>1. CASE UserStart(u)
    BY <1>3, <1>5, <2>1 DEF UserStart, ClientTruths
  <2>2. CASE ClientStop(u)
    <3>1. sock' \in [Dials -> BOOLEAN]
      BY <1>1, <2>2 DEF ClientStop
    <3>2. stopped' \in BOOLEAN
      BY <2>2, Zenon DEF ClientStop
    <3> QED BY <3>1, <3>2 DEF ClientTruths
  <2>3. CASE ClientShutdownExpires(u) \/ ClientShutdownReturns(u)
    BY <1>3, <1>4, <2>3
    DEF ClientShutdownExpires, ClientShutdownReturns, Goto, ClientTruths
  <2> QED BY <1>6, <2>1, <2>2, <2>3 DEF ClientInput
<1>7. ASSUME NEW a \in Actors, ClientStart(a) PROVE ClientTruths'
  BY <1>3, <1>4, <1>5, <1>7
  DEF ClientStart, DialBegins, DialFails, Announce, Goto, ClientTruths
<1>8. ASSUME NEW c \in Dials, Reader(c) PROVE ClientTruths'
  BY <1>2, <1>3, <1>4, <1>5, <1>8
  DEF Reader, ConnEnds, ErrorCallback, ReaderGone, ClientTruths
<1>9. ASSUME NEW a \in Actors, NEW c \in Dials, DialOK(a, c) PROVE ClientTruths'
  BY <1>1, <1>4, <1>9 DEF DialOK, Goto, ClientTruths
<1>10. CASE UNCHANGED clientVars
  BY <1>3, <1>4, <1>10 DEF clientVars, ClientTruths
<1> QED BY <1>6, <1>7, <1>8, <1>9, <1>10, ClientStepKinds

\* The other fields of the client keep their types.
LEMMA StepClientValues == ClientValues /\ [Next]_vars => ClientValues'
<1> SUFFICES ASSUME ClientValues, [Next]_vars PROVE ClientValues'
  OBVIOUS
<1> DEFINE Pcs == {"idle", "start", "dial", "announce", "wait"}
           Hpcs == {"none", "read", "report", "error", "gone"}
           Field == conn \in Dials \cup {Nil} /\ taken \subseteq Dials
           Hand == hpc \in [Dials -> Hpcs] /\ reports \in [Dials -> Nat]
           Pc == pc \in [Actors -> Pcs]
<1>0. Dials \subseteq Actors /\ Users \subseteq Actors
  BY DEF Actors
<1>1. ASSUME NEW c \in Dials \cup {Nil}, ReplaceConn(c) PROVE Field'
  BY <1>1 DEF ReplaceConn, ClientValues
<1>2. ASSUME NEW c \in Dials, CloseConnIfCurrent(c), UNCHANGED taken PROVE Field'
  BY <1>2 DEF CloseConnIfCurrent, ClientValues
<1>3. ASSUME UNCHANGED fieldVars PROVE Field'
  BY <1>3 DEF fieldVars, ClientValues
<1>4. ASSUME NEW c \in Dials, NEW to \in Hpcs, hpc' = [hpc EXCEPT ![c] = to],
             reports' = reports \/ reports' = [reports EXCEPT ![c] = @ + 1]
      PROVE  Hand'
  BY <1>4 DEF ClientValues
<1>5. ASSUME UNCHANGED readerVars PROVE Hand'
  BY <1>5 DEF readerVars, ClientValues
<1>6. ASSUME NEW a \in Actors, NEW to \in Pcs, pc' = [pc EXCEPT ![a] = to]
      PROVE  Pc'
  BY <1>6 DEF ClientValues
<1>7. ASSUME NEW a \in Actors, CallBack(a) \/ CallStart(a) PROVE Pc'
  BY <1>6, <1>7 DEF CallBack, CallStart
<1>8. ASSUME UNCHANGED pc PROVE Pc'
  BY <1>8 DEF ClientValues
<1>9. ClientValues' <=> Field' /\ Hand' /\ Pc'
  BY DEF ClientValues
<1> HIDE DEF Field, Hand, Pc
<1>10. ASSUME NEW u \in Users, ClientInput(u) \/ ClientShutdownReturns(u)
       PROVE  ClientValues'
  BY <1>0, <1>1, <1>3, <1>5, <1>6, <1>7, <1>9, <1>10
  DEF ClientInput, UserStart, ClientStop, ClientShutdownExpires,
      ClientShutdownReturns, Goto
<1>11. ASSUME NEW a \in Actors, ClientStart(a) PROVE ClientValues'
  BY <1>3, <1>5, <1>6, <1>7, <1>9, <1>11
  DEF ClientStart, DialBegins, DialFails, Announce, Goto
<1>12. ASSUME NEW c \in Dials, Reader(c) PROVE ClientValues'
  BY <1>0, <1>2, <1>3, <1>4, <1>7, <1>8, <1>9, <1>12
  DEF Reader, ConnEnds, ErrorCallback, ReaderGone, Step
<1>13. ASSUME NEW a \in Actors, NEW c \in Dials, DialOK(a, c) PROVE ClientValues'
  BY <1>1, <1>4, <1>6, <1>9, <1>13 DEF DialOK, Goto
<1>14. CASE UNCHANGED clientVars
  BY <1>3, <1>5, <1>8, <1>9, <1>14 DEF clientVars
<1> QED BY <1>10, <1>11, <1>12, <1>13, <1>14, ClientStepKinds

\* Types and the listener's invariant.
TcpInv == ListenerInv /\ ServerTypes /\ ClientTruths /\ ClientValues

\* The two ends before anything has happened.
LEMMA InitTcpInv == Init => TcpInv
<1> SUFFICES ASSUME Init PROVE TcpInv
  OBVIOUS
<1>1. ListenerInv
  BY ListenerInitInv DEF Init, ServerInit
<1>2. ServerTypes
  BY DEF Init, ServerInit, ServerTypes
<1>3. ClientTruths
  BY Zenon DEF Init, ClientInit, ClientTruths
<1>4. ClientValues
  BY DEF Init, ClientInit, ClientValues
<1> QED BY <1>1, <1>2, <1>3, <1>4 DEF TcpInv

\* Every step keeps the invariant.
LEMMA StepTcpInv == TcpInv /\ [Next]_vars => TcpInv'
  BY StepOfListener, ListenerStepInv, StepServerTypes, StepClientTruths,
     StepClientValues
  DEF TcpInv

\* Every reachable state has its types, for every number of connections,
\* users and restarts (tcps.go, tcpc.go).
THEOREM TcpTypes == Spec => []TypeOK
<1>1. TcpInv => TypeOK
  BY ListenerInvImplies
  DEF TcpInv, ServerTypes, ClientTruths, ClientValues, TypeOK, ServerTypeOK,
      ClientTypeOK
<1> QED BY <1>1, InitTcpInv, StepTcpInv, PTL DEF Spec

\* The server implements the abstract listener, whatever its handlers and
\* the client at the other end do (tcps.go:134-311).
THEOREM TcpListens == Spec => ListenerSpec
<1>1. Init => ListenerInit
  BY DEF Init, ServerInit
<1> QED BY <1>1, StepOfListener, PTL DEF Spec, ListenerSpec

\* The slots of the server are exact (tcps.go:207-225, 240-253, 295-303).
THEOREM TcpSlotsExact == Spec => []SlotsExact
  BY TcpListens, ListenerSlotsExact, PTL

\* A Shutdown of the server that returns nil leaves no handler and no accept
\* loop (tcps.go:265-276, 306-311).
THEOREM TcpShutdownDrains == Spec => ShutdownDrains
  BY TcpListens, ListenerShutdownDrains, PTL

---------------------------------------------------------------------------
(* The connection of the client.                                           *)

\* Replacing and dropping keep the open connections to the current one.
LEMMA StepOneOpen ==
  TcpInv /\ OneOpenConnection /\ [Next]_vars => OneOpenConnection'
<1> SUFFICES ASSUME TcpInv, OneOpenConnection, [Next]_vars
             PROVE  OneOpenConnection'
  OBVIOUS
<1>0. ClientTruths /\ Nil \notin Dials
  BY TcpClientAssumption DEF TcpInv, Nil
<1>1. ASSUME NEW c \in Dials \cup {Nil}, ReplaceConn(c)
      PROVE  OneOpenConnection'
  <2>1. conn' = c /\ \A d \in Dials : sock'[d] <=> d = c \/ (sock[d] /\ d # conn)
    BY <1>1, Zenon DEF ReplaceConn
  <2> QED BY <2>1 DEF OneOpenConnection
<1>2. ASSUME NEW c \in Dials, CloseConnIfCurrent(c)
      PROVE  OneOpenConnection'
  <2>1. \A d \in Dials : sock'[d] <=> sock[d] /\ d # c
    BY <1>0, <1>2, Zenon DEF CloseConnIfCurrent, ClientTruths
  <2>2. conn' = IF conn = c THEN Nil ELSE conn
    BY <1>2 DEF CloseConnIfCurrent
  <2> QED BY <1>0, <2>1, <2>2 DEF OneOpenConnection
<1>3. CASE UNCHANGED fieldVars
  BY <1>3 DEF fieldVars, OneOpenConnection
<1>4. ASSUME NEW u \in Users, ClientInput(u) \/ ClientShutdownReturns(u)
      PROVE  OneOpenConnection'
  BY <1>1, <1>3, <1>4
  DEF ClientInput, UserStart, ClientStop, ClientShutdownExpires,
      ClientShutdownReturns
<1>5. ASSUME NEW a \in Actors, ClientStart(a)
      PROVE  OneOpenConnection'
  BY <1>3, <1>5 DEF ClientStart, DialBegins, DialFails, Announce
<1>6. ASSUME NEW c \in Dials, Reader(c)
      PROVE  OneOpenConnection'
  BY <1>2, <1>3, <1>6 DEF Reader, ConnEnds, ErrorCallback, ReaderGone
<1>7. ASSUME NEW a \in Actors, NEW c \in Dials, DialOK(a, c)
      PROVE  OneOpenConnection'
  BY <1>1, <1>7 DEF DialOK
<1> QED
  BY <1>3, <1>4, <1>5, <1>6, <1>7, ClientStepKinds DEF clientVars

\* Nobody is on the way to a new connection once the client is stopped:
\* Stop waits for startMu, and a Start that has not got it counts as a Start
\* after the Stop (tcpc.go:113, 187-196).
NoneUnderWay == stopped => \A a \in Actors : pc[a] \notin {"start", "dial"}

\* A dial that was under way has ended before Stop takes the connection.
LEMMA StepStopStops ==
  TcpInv /\ NoneUnderWay /\ StopStops /\ [Next]_vars => NoneUnderWay' /\ StopStops'
<1> SUFFICES ASSUME TcpInv, NoneUnderWay, StopStops, [Next]_vars
             PROVE  NoneUnderWay' /\ StopStops'
  OBVIOUS
<1>0. ClientValues /\ Dials \subseteq Actors /\ Users \subseteq Actors
  BY DEF TcpInv, Actors
<1>1. CASE ~stopped'
  BY <1>1 DEF NoneUnderWay, StopStops
<1>2. ASSUME stopped' = stopped, conn' = conn \/ conn' = Nil,
             \A a \in Actors : pc'[a] \in {"start", "dial"}
                                 => pc[a] \in {"start", "dial"}
      PROVE  NoneUnderWay' /\ StopStops'
  BY <1>2 DEF NoneUnderWay, StopStops
<1>3. ASSUME NEW a \in Actors, CallBack(a), conn' = conn \/ conn' = Nil
      PROVE  NoneUnderWay' /\ StopStops'
  BY <1>0, <1>1, <1>2, <1>3 DEF CallBack, CallStart, ClientValues
<1>4. ASSUME NEW u \in Users, ClientStop(u)
      PROVE  NoneUnderWay' /\ StopStops'
  <2>1. /\ \A a \in Actors : pc[a] # "dial"
        /\ stopped' => \A a \in Actors : pc[a] # "start"
        /\ conn' = Nil
        /\ \E to \in {"idle", "wait"} : pc' = [pc EXCEPT ![u] = to]
    BY <1>4 DEF ClientStop, StopLocks, StartMuFree, ReplaceConn
  <2> QED BY <1>0, <2>1 DEF NoneUnderWay, StopStops, ClientValues
<1>5. ASSUME NEW u \in Users, ClientInput(u) \/ ClientShutdownReturns(u)
      PROVE  NoneUnderWay' /\ StopStops'
  <2>1. CASE UserStart(u)
    BY <1>1, <2>1 DEF UserStart, CallStart
  <2>2. CASE ClientShutdownExpires(u) \/ ClientShutdownReturns(u)
    BY <1>0, <1>2, <2>2
    DEF ClientShutdownExpires, ClientShutdownReturns, Goto, fieldVars,
        ClientValues
  <2> QED BY <1>4, <1>5, <2>1, <2>2 DEF ClientInput
<1>6. ASSUME NEW a \in Actors, ClientStart(a)
      PROVE  NoneUnderWay' /\ StopStops'
  <2>1. CASE DialBegins(a) \/ Announce(a)
    BY <1>0, <1>2, <2>1 DEF DialBegins, Announce, Goto, fieldVars, ClientValues
  <2>2. CASE DialFails(a)
    BY <1>3, <2>2 DEF DialFails, fieldVars
  <2> QED BY <1>6, <2>1, <2>2 DEF ClientStart
<1>7. ASSUME NEW c \in Dials, Reader(c)
      PROVE  NoneUnderWay' /\ StopStops'
  <2>1. conn' = conn \/ conn' = Nil
    BY <1>7
    DEF Reader, ConnEnds, CloseConnIfCurrent, ErrorCallback, ReaderGone,
        fieldVars
  <2>2. CallBack(c) \/ UNCHANGED <<pc, stopped>>
    BY <1>7 DEF Reader, ConnEnds, ErrorCallback, ReaderGone
  <2> QED BY <1>0, <1>2, <1>3, <2>1, <2>2
<1>8. ASSUME NEW a \in Actors, NEW c \in Dials, DialOK(a, c)
      PROVE  NoneUnderWay' /\ StopStops'
  <2>1. pc[a] = "dial" /\ stopped' = stopped
    BY <1>8 DEF DialOK, Goto
  <2> QED BY <1>1, <2>1 DEF NoneUnderWay
<1>9. CASE UNCHANGED clientVars
  BY <1>2, <1>9 DEF clientVars, fieldVars
<1> QED BY <1>5, <1>6, <1>7, <1>8, <1>9, ClientStepKinds

\* c.conn is the one connection that is open, and there is none after Stop,
\* for every number of users, connections and reconnecting callbacks
\* (tcpc.go:41-60, 144-146, 187-201).
THEOREM TcpConnectionKept == Spec => []ConnectionKept
<1>1. Init => OneOpenConnection /\ NoneUnderWay /\ StopStops
  BY TcpClientAssumption
  DEF Init, ClientInit, OneOpenConnection, NoneUnderWay, StopStops, Nil
<1>2. OneOpenConnection /\ StopStops => ConnectionKept
  BY DEF ConnectionKept
<1> QED
  BY <1>1, <1>2, InitTcpInv, StepTcpInv, StepOneOpen, StepStopStops, PTL DEF Spec

---------------------------------------------------------------------------
(* The losses that the client reports.                                     *)

\* What a handler's position says about its connection: while it reads, the
\* connection is current or the application took it, and the loss is reported
\* by the step that ends the reading.
Place(c) ==
  /\ conn = c => hpc[c] = "read" /\ c \notin taken
  /\ hpc[c] = "none" => c \notin taken
  /\ hpc[c] = "read" /\ c \notin taken => conn = c
  /\ hpc[c] \in {"none", "read"} => reports[c] = 0
  /\ hpc[c] \in {"report", "error"} => reports[c] = 1
  /\ reports[c] # 0 => c \notin taken
  /\ hpc[c] = "gone" /\ c \notin taken => reports[c] = 1
Positions == \A c \in Dials : Place(c)

\* Each step moves one handler, or takes the connection of one.
LEMMA StepPositions == TcpInv /\ Positions /\ [Next]_vars => Positions'
<1> SUFFICES ASSUME TcpInv, Positions, [Next]_vars, NEW d \in Dials
             PROVE  Place(d)'
  BY DEF Positions
<1>0. ClientValues /\ Nil \notin Dials /\ Place(d)
  BY TcpClientAssumption DEF TcpInv, Nil, Positions
<1>1. CASE UNCHANGED <<fieldVars, readerVars>>
  BY <1>0, <1>1 DEF fieldVars, readerVars, Place
<1>2. ASSUME NEW u \in Users, ClientStop(u)
      PROVE  Place(d)'
  <2>1. /\ conn' = Nil /\ taken' = taken \cup ({conn} \ {Nil})
        /\ UNCHANGED <<hpc, reports>>
    BY <1>2 DEF ClientStop, ReplaceConn, readerVars
  <2> QED BY <1>0, <2>1 DEF Place
<1>3. ASSUME NEW u \in Users, ClientInput(u) \/ ClientShutdownReturns(u)
      PROVE  Place(d)'
  BY <1>1, <1>2, <1>3
  DEF ClientInput, UserStart, ClientShutdownExpires, ClientShutdownReturns
<1>4. ASSUME NEW a \in Actors, ClientStart(a)
      PROVE  Place(d)'
  BY <1>1, <1>4 DEF ClientStart, DialBegins, DialFails, Announce
<1>5. ASSUME NEW c \in Dials, ConnEnds(c)
      PROVE  Place(d)'
  <2>1. /\ hpc[c] = "read" /\ taken' = taken
        /\ conn' = IF conn = c THEN Nil ELSE conn
        /\ IF conn = c
           THEN /\ hpc' = [hpc EXCEPT ![c] = "report"]
                /\ reports' = [reports EXCEPT ![c] = @ + 1]
           ELSE hpc' = [hpc EXCEPT ![c] = "gone"] /\ reports' = reports
    BY <1>5 DEF ConnEnds, Step, Lost, CloseConnIfCurrent
  <2>2. CASE d = c
    BY <1>0, <2>1, <2>2 DEF Place, ClientValues
  <2>3. CASE d # c
    BY <1>0, <2>1, <2>3 DEF Place, ClientValues
  <2> QED BY <2>2, <2>3
<1>6. ASSUME NEW c \in Dials, ErrorCallback(c) \/ ReaderGone(c)
      PROVE  Place(d)'
  <2>1. /\ UNCHANGED <<conn, taken, reports>>
        /\ hpc[c] \in {"report", "error"}
        /\ \E to \in {"error", "gone"} : hpc' = [hpc EXCEPT ![c] = to]
    BY <1>6 DEF ErrorCallback, ReaderGone, Step, fieldVars
  <2> QED BY <1>0, <2>1 DEF Place, ClientValues
<1>7. ASSUME NEW a \in Actors, NEW c \in Dials, DialOK(a, c)
      PROVE  Place(d)'
  <2>1. /\ hpc[c] = "none" /\ hpc' = [hpc EXCEPT ![c] = "read"]
        /\ conn' = c /\ taken' = taken \cup ({conn} \ {Nil})
        /\ reports' = reports
    BY <1>7 DEF DialOK, Fresh, ReplaceConn
  <2>2. Place(c)
    BY DEF Positions
  <2> QED BY <1>0, <2>1, <2>2 DEF Place, ClientValues
<1> QED
  BY <1>1, <1>3, <1>4, <1>5, <1>6, <1>7, ClientStepKinds DEF Reader, clientVars

---------------------------------------------------------------------------
(* The losses that the server reports.                                     *)

\* Generations are numbered in order, and a connection belongs to one that
\* has begun.
Numbered ==
  /\ ln <= starts /\ \A g \in listening : g <= starts
  /\ \A c \in Conns : home[c] <= starts /\ (stage[c] # "none" => home[c] # 0)

\* While the generation of a connection runs, the connection is counted until
\* its handler gives the slot back, and the handler then knows that it was:
\* what ended was not silenced by a Stop.
Settled(c) ==
  /\ stage[c] \in {"none", "backlog", "accepted"} => told[c] = "nothing"
  /\ home[c] = ln =>
       /\ stage[c] = "serving" => c \in DOMAIN conns
       /\ stage[c] = "released" => active[c]
       /\ stage[c] = "gone" => told[c] # "connect"

\* Start numbers the generations, and a peer dials one that listens.
LEMMA StepNumbered ==
  TcpInv /\ Numbered /\ [Next]_vars => Numbered'
<1> SUFFICES ASSUME TcpInv, Numbered, [Next]_vars PROVE Numbered'
  OBVIOUS
<1>0. RunTypes /\ ConnTypes
  BY DEF TcpInv, ListenerInv
<1> USE ListenerAssumption DEF Gens
<1>1. ASSUME UNCHANGED <<starts, home>>, ln' \in {ln, 0}, listening' \subseteq listening,
             \A c \in Conns : stage'[c] # "none" => stage[c] # "none"
      PROVE  Numbered'
  <2>1. 0 <= starts
    BY <1>0 DEF RunTypes
  <2>2. ln' <= starts' /\ \A g \in listening' : g <= starts'
    BY <1>1, <2>1 DEF Numbered
  <2>3. \A c \in Conns : home'[c] <= starts' /\ (stage'[c] # "none" => home'[c] # 0)
    BY <1>1 DEF Numbered
  <2> QED BY <2>2, <2>3 DEF Numbered
<1>2. ASSUME NEW c \in Conns, NEW from, NEW to, from # "none", Stage(c, from, to),
             UNCHANGED <<starts, home, ln, listening>>
      PROVE  Numbered'
  BY <1>0, <1>1, <1>2 DEF Stage, ConnTypes
<1>3. CASE UNCHANGED <<ln, starts, listening, stage, home>>
  BY <1>1, <1>3
<1>4. ASSUME NEW u \in Callers, StartBinds(u, FALSE)
      PROVE  Numbered'
  <2>1. /\ starts' = starts + 1 /\ ln' = starts + 1
        /\ listening' = listening \cup {starts + 1}
        /\ UNCHANGED <<stage, home>>
    BY <1>4 DEF StartBinds, connVars
  <2> QED BY <1>0, <2>1 DEF Numbered, RunTypes, ConnTypes
<1>5. ASSUME NEW u \in Callers,
             StopDetach(u) \/ StopClose(u) \/ ShutdownReturns(u) \/ ShutdownExpires(u)
      PROVE  Numbered'
  <2>1. CASE StopClose(u)
    <3>1. /\ UNCHANGED <<starts, home, ln>> /\ listening' \subseteq listening
          /\ \A c \in Conns : stage'[c] # stage[c] => stage[c] = "backlog"
      BY <2>1 DEF StopClose, Backlog
    <3> QED BY <1>1, <3>1
  <2>2. CASE StopDetach(u)
    BY <1>1, <2>2 DEF StopDetach, connVars
  <2>3. CASE ShutdownReturns(u) \/ ShutdownExpires(u)
    BY <1>3, <2>3 DEF ShutdownReturns, ShutdownExpires, waitRest, runVars, connVars
  <2> QED BY <1>5, <2>1, <2>2, <2>3
<1>6. ASSUME NEW g \in Gens, NEW c \in Conns, Dial(c, g)
      PROVE  Numbered'
  <2>1. /\ g \in listening /\ home' = [home EXCEPT ![c] = g]
        /\ stage' = [stage EXCEPT ![c] = "backlog"]
        /\ UNCHANGED <<ln, starts, listening>>
    BY <1>6 DEF Dial, Stage, acceptRest
  <2> QED BY <1>0, <2>1 DEF Numbered, ConnTypes, RunTypes
<1>7. ASSUME NEW g \in Gens, NEW c \in Conns, Accept(g, c) \/ Refuse(g, c) \/ Admit(g, c)
      PROVE  Numbered'
  BY <1>2, <1>7 DEF Accept, Refuse, Admit, acceptRest
<1>8. ASSUME NEW g \in Gens, AcceptClosed(g) \/ BackoffEnds(g) \/ AcceptFails(g)
      PROVE  Numbered'
  BY <1>3, <1>8 DEF AcceptClosed, BackoffEnds, AcceptFails, acceptRest, connVars
<1>9. CASE SetLimits
  BY <1>3, <1>9
  DEF SetLimits, SetMaxConnections, SetMaxConnectionsPerIP, configRest, runVars,
      connVars
<1>10. ASSUME NEW c \in Conns, ServerHandler(c)
       PROVE  Numbered'
  BY <1>2, <1>3, <1>10
  DEF ServerHandler, Connected, ReadFails, Release, HandlerGone, HandlerDone,
      listenerVars, runVars, connVars
<1>11. CASE UNCHANGED serverVars
  BY <1>3, <1>11 DEF serverVars, listenerVars, runVars, connVars
<1> QED
  BY <1>4, <1>5, <1>6, <1>7, <1>8, <1>9, <1>10, <1>11, ServerStepKinds
  DEF NoHandlerStep, AcceptStep

\* A loss is reported unless a Stop has taken the connection before.
LEMMA StepSettled ==
  TcpInv /\ Numbered /\ (\A c \in Conns : Settled(c)) /\ [Next]_vars
    => \A c \in Conns : Settled(c)'
<1> SUFFICES ASSUME TcpInv, Numbered, \A c \in Conns : Settled(c), [Next]_vars,
                    NEW d \in Conns
             PROVE  Settled(d)'
  OBVIOUS
<1>0. /\ RunTypes /\ ConnTypes /\ ServerTypes /\ Settled(d)
      /\ ln \in Nat /\ starts \in Nat /\ home[d] \in Nat
      /\ home[d] <= starts /\ (stage[d] # "none" => home[d] # 0)
  BY ListenerAssumption
  DEF TcpInv, ListenerInv, RunTypes, ConnTypes, Numbered
<1>1. ASSUME UNCHANGED <<ln, conns, stage, home, handlerVars>>
      PROVE  Settled(d)'
  BY <1>0, <1>1 DEF Settled, handlerVars
<1>2. ASSUME NEW u \in Callers, StartBinds(u, FALSE), UNCHANGED handlerVars
      PROVE  Settled(d)'
  <2>1. ln' = starts + 1 /\ UNCHANGED <<stage, home, told>>
    BY <1>2 DEF StartBinds, connVars, handlerVars
  <2> QED BY <1>0, <2>1 DEF Settled
<1>3. ASSUME NEW u \in Callers, StopDetach(u), UNCHANGED handlerVars
      PROVE  Settled(d)'
  <2>1. ln' = 0 /\ UNCHANGED <<stage, home, told>>
    BY <1>3 DEF StopDetach, connVars, handlerVars
  <2> QED BY <1>0, <2>1 DEF Settled
<1>4. ASSUME NEW u \in Callers, StopClose(u), UNCHANGED handlerVars
      PROVE  Settled(d)'
  <2>1. /\ UNCHANGED <<ln, conns, home, told, active>>
        /\ stage'[d] = stage[d] \/ (stage[d] = "backlog" /\ stage'[d] = "gone")
    BY <1>4 DEF StopClose, Backlog, slotVars, handlerVars
  <2> QED BY <1>0, <2>1 DEF Settled
<1>5. ASSUME NEW g \in Gens, NEW c \in Conns, Dial(c, g), UNCHANGED handlerVars
      PROVE  Settled(d)'
  <2>1. /\ UNCHANGED <<ln, conns, told, active>> /\ stage[c] = "none"
        /\ home' = [home EXCEPT ![c] = g] /\ stage' = [stage EXCEPT ![c] = "backlog"]
    BY <1>5 DEF Dial, Stage, acceptRest, slotVars, handlerVars
  <2> QED BY <1>0, <2>1 DEF Settled, ConnTypes
<1>6. ASSUME NEW g \in Gens, NEW c \in Conns, Accept(g, c) \/ Refuse(g, c),
             UNCHANGED handlerVars
      PROVE  Settled(d)'
  <2>1. /\ UNCHANGED <<ln, conns, home, told, active>>
        /\ \/ stage[c] = "backlog" /\ stage' = [stage EXCEPT ![c] = "accepted"]
           \/ stage[c] = "accepted" /\ stage' = [stage EXCEPT ![c] = "gone"]
    BY <1>6 DEF Accept, Refuse, Stage, acceptRest, slotVars, handlerVars
  <2> QED BY <1>0, <2>1 DEF Settled, ConnTypes
<1>7. ASSUME NEW g \in Gens, NEW c \in Conns, Admit(g, c), UNCHANGED handlerVars
      PROVE  Settled(d)'
  <2>1. /\ UNCHANGED <<ln, home, told, active>>
        /\ stage' = [stage EXCEPT ![c] = "serving"]
        /\ DOMAIN conns' = DOMAIN conns \cup {c}
    BY <1>7 DEF Admit, Stage, acceptRest, handlerVars, With
  <2> QED BY <1>0, <2>1 DEF Settled, ConnTypes
<1>8. ASSUME NoHandlerStep, UNCHANGED handlerVars
      PROVE  Settled(d)'
  <2>1. ASSUME SetLimits
        PROVE  UNCHANGED <<ln, conns, stage, home>>
    BY <2>1
    DEF SetLimits, SetMaxConnections, SetMaxConnectionsPerIP, configRest, runVars,
        slotVars, connVars
  <2>2. ASSUME NEW u \in Callers, ShutdownReturns(u) \/ ShutdownExpires(u)
        PROVE  UNCHANGED <<ln, conns, stage, home>>
    BY <2>2
    DEF ShutdownReturns, ShutdownExpires, waitRest, runVars, slotVars, connVars
  <2>3. ASSUME NEW g \in Gens, AcceptClosed(g) \/ BackoffEnds(g) \/ AcceptFails(g)
        PROVE  UNCHANGED <<ln, conns, stage, home>>
    BY <2>3
    DEF AcceptClosed, BackoffEnds, AcceptFails, acceptRest, slotVars, connVars
  <2> QED
    BY <1>1, <1>2, <1>3, <1>4, <1>5, <1>6, <1>7, <1>8, <2>1, <2>2, <2>3
    DEF NoHandlerStep, AcceptStep
<1>9. ASSUME NEW c \in Conns, Connected(c)
      PROVE  Settled(d)'
  <2>1. /\ UNCHANGED <<ln, conns, stage, home, active>> /\ stage[c] = "serving"
        /\ told' = [told EXCEPT ![c] = "connect"]
    BY <1>9 DEF Connected, listenerVars, runVars, slotVars, connVars
  <2> QED BY <1>0, <2>1 DEF Settled, ServerTypes
<1>10. ASSUME NEW c \in Conns, ReadFails(c)
       PROVE  Settled(d)'
  <2>1. /\ UNCHANGED <<ln, home, told>>
        /\ stage[c] = "serving" /\ stage' = [stage EXCEPT ![c] = "released"]
        /\ active' = [active EXCEPT ![c] = c \in DOMAIN conns]
    BY <1>10 DEF ReadFails, Release, Stage, runVars
  <2>2. \A e \in DOMAIN conns : e # c => e \in DOMAIN conns'
    BY <1>10 DEF ReadFails, Release, Without, slotVars
  <2>3. CASE d = c
    <3>1. active'[d] <=> d \in DOMAIN conns
      BY <1>0, <2>1, <2>3, Zenon DEF ServerTypes
    <3>2. stage'[d] = "released"
      BY <1>0, <2>1, <2>3 DEF ConnTypes
    <3> QED BY <1>0, <2>1, <2>3, <3>1, <3>2 DEF Settled
  <2>4. CASE d # c
    <3>1. stage'[d] = stage[d] /\ active'[d] = active[d]
      BY <1>0, <2>1, <2>4 DEF ConnTypes, ServerTypes
    <3> QED BY <1>0, <2>1, <2>2, <2>4, <3>1 DEF Settled
  <2> QED BY <2>3, <2>4
<1>11. ASSUME NEW c \in Conns, HandlerGone(c)
       PROVE  Settled(d)'
  <2>1. /\ UNCHANGED <<ln, conns, home>>
        /\ stage[c] = "released" /\ stage' = [stage EXCEPT ![c] = "gone"]
        /\ told' = IF active[c] THEN [told EXCEPT ![c] = "disconnect"] ELSE told
        /\ active' = [active EXCEPT ![c] = FALSE]
    BY <1>11 DEF HandlerGone, HandlerDone, Reported, Stage, runVars, slotVars
  <2>2. CASE d = c
    <3>1. stage'[d] = "gone" /\ (active[d] => told'[d] = "disconnect")
      BY <1>0, <2>1, <2>2 DEF ConnTypes, ServerTypes
    <3> QED BY <1>0, <2>1, <2>2, <3>1 DEF Settled
  <2>3. CASE d # c
    <3>1. stage'[d] = stage[d] /\ active'[d] = active[d] /\ told'[d] = told[d]
      BY <1>0, <2>1, <2>3 DEF ConnTypes, ServerTypes
    <3> QED BY <1>0, <2>1, <2>3, <3>1 DEF Settled
  <2> QED BY <2>2, <2>3
<1>12. CASE UNCHANGED serverVars
  BY <1>1, <1>12 DEF serverVars, listenerVars, runVars, slotVars, connVars
<1> QED
  BY <1>8, <1>9, <1>10, <1>11, <1>12, ServerStepKinds DEF ServerHandler

\* The client reports each connection that ended while it was current, exactly
\* once, and the server each connection it had announced that ended while its
\* listener was running, for every number of connections, users and restarts
\* (tcpc.go:164-176, tcps.go:228-235, 295-311).
THEOREM TcpLossesReported == Spec => []LossesReported
<1> DEFINE AllSettled == \A c \in Conns : Settled(c)
<1>1. Init => Positions /\ Numbered /\ AllSettled
  <2> SUFFICES ASSUME Init PROVE Positions /\ Numbered /\ AllSettled
    OBVIOUS
  <2>1. Positions
    BY TcpClientAssumption DEF Init, ClientInit, Positions, Place, Nil
  <2>2. Numbered /\ AllSettled
    BY DEF Init, ServerInit, ListenerInit, Numbered, Settled
  <2> QED BY <2>1, <2>2
<1>2. TcpInv /\ Positions => LossReported
  BY DEF TcpInv, ClientValues, Positions, Place, LossReported
<1>3. AllSettled => ReportedWhileListening
  BY DEF Settled, ReportedWhileListening
<1>4. TcpInv /\ Numbered /\ AllSettled /\ [Next]_vars => AllSettled'
  BY StepSettled
<1> HIDE DEF AllSettled
<1> QED
  BY <1>1, <1>2, <1>3, <1>4, InitTcpInv, StepTcpInv, StepPositions,
     StepNumbered, PTL
  DEF Spec, LossesReported
============================================================================
