--------------------------- MODULE ListenerProofs ---------------------------
(***************************************************************************)
(* The listener for any number of connections, callers and generations and *)
(* any limits: the slots are exact, and a Shutdown that returns without an *)
(* error has drained the server.                                           *)
(*                                                                         *)
(* ListenerSpec lets the steps of Listener happen in any order: what it    *)
(* satisfies, every server built on the listener does.                     *)
(***************************************************************************)
EXTENDS Listener, FiniteSetTheorems, TLAPS

\* A step that only closes sockets (bean.Close()), or leaves the listener
\* alone.
SocketStep ==
  /\ \E cs \in SUBSET Conns : CloseSockets(cs) \/ UNCHANGED sockOpen
  /\ UNCHANGED <<runVars, slotVars, limitVars, wg, stage, home, ctl, localVars>>

ListenerStep ==
  \/ SetLimits
  \/ \E u \in Callers :
       \/ \E loop \in BOOLEAN : StartBinds(u, loop)
       \/ StopDetach(u) \/ StopClose(u)
       \/ ShutdownReturns(u) \/ ShutdownExpires(u)
  \/ \E g \in Gens :
       \/ AcceptStep(g) \/ AcceptFails(g) \/ LoopEnds(g)
       \/ \E c \in Conns : Dial(c, g) \/ Admit(g, c)
  \/ \E c \in Conns :
       Release(c) \/ \E cs \in SUBSET Conns : HandlerDone(c, cs)
  \/ SocketStep

ListenerSpec == ListenerInit /\ [][ListenerStep]_listenerVars

---------------------------------------------------------------------------
(* Counting.                                                               *)

\* A finite set gains or loses one element.
LEMMA OneMore ==
  ASSUME NEW S, NEW x, IsFiniteSet(S), x \notin S
  PROVE  /\ IsFiniteSet(S \cup {x}) /\ Cardinality(S) \in Nat
         /\ Cardinality(S \cup {x}) = Cardinality(S) + 1
  BY FS_AddElement, FS_CardinalityType

\* Removing an element lowers the cardinality by one.
LEMMA OneLess ==
  ASSUME NEW S, NEW x, IsFiniteSet(S), x \in S
  PROVE  /\ IsFiniteSet(S \ {x}) /\ Cardinality(S) \in Nat
         /\ Cardinality(S \ {x}) \in Nat
         /\ Cardinality(S \ {x}) = Cardinality(S) - 1
  BY FS_RemoveElement, FS_CardinalityType

\* cs is a value of s.conns.
IsConns(cs) == IsPartialFcn(cs, Conns, IPs)

\* The connections from ip in a value cs of s.conns.
From(cs, ip) == {c \in DOMAIN cs : cs[c] = ip}

\* The counters ct of s.connectionsByIP fit the value cs of s.conns.
Fits(cs, ct) ==
  /\ DOMAIN ct = {cs[c] : c \in DOMAIN cs}
  /\ \A ip \in DOMAIN ct : ct[ip] = Cardinality(From(cs, ip))

\* Reading a counter as Go does, a missing entry being zero.
Read(ct, ip) == IF ip \in DOMAIN ct THEN ct[ip] ELSE 0

\* There are finitely many connections, in all and from an address.
LEMMA SlotsFinite ==
  ASSUME NEW cs, IsConns(cs)
  PROVE  /\ IsFiniteSet(DOMAIN cs) /\ Cardinality(DOMAIN cs) \in Nat
         /\ \A ip : IsFiniteSet(From(cs, ip)) /\ Cardinality(From(cs, ip)) \in Nat
<1>1. ASSUME NEW S \in SUBSET Conns
      PROVE  IsFiniteSet(S) /\ Cardinality(S) \in Nat
  BY ListenerAssumption, FS_Subset, FS_CardinalityType
<1>2. DOMAIN cs \in SUBSET Conns /\ \A ip : From(cs, ip) \in SUBSET Conns
  BY DEF IsConns, IsPartialFcn, From
<1> QED BY <1>1, <1>2

\* A counter that fits is the number of connections, zero included.
LEMMA ReadIsCount ==
  ASSUME NEW cs, NEW ct, IsConns(cs), Fits(cs, ct), NEW ip
  PROVE  /\ Read(ct, ip) = Cardinality(From(cs, ip))
         /\ Read(ct, ip) \in Nat
<1>1. CASE ip \in DOMAIN ct
  BY <1>1, SlotsFinite DEF Read, Fits
<1>2. CASE ip \notin DOMAIN ct
  <2>1. From(cs, ip) = {}
    BY <1>2 DEF From, Fits
  <2> QED BY <1>2, <2>1, FS_EmptySet DEF Read
<1> QED BY <1>1, <1>2

\* Admitting a connection (tcps.go:224-225).
LEMMA FitsWith ==
  ASSUME NEW cs, NEW ct, IsConns(cs), Fits(cs, ct),
         NEW c \in Conns, c \notin DOMAIN cs, NEW ip \in IPs
  PROVE  LET cs2 == With(cs, c, ip)
         IN  /\ IsConns(cs2)
             /\ Fits(cs2, With(ct, ip, Read(ct, ip) + 1))
             /\ DOMAIN cs2 = DOMAIN cs \cup {c} /\ cs2[c] = ip
             /\ \A d \in DOMAIN cs : cs2[d] = cs[d]
             /\ From(cs2, ip) = From(cs, ip) \cup {c}
             /\ \A jp : jp # ip => From(cs2, jp) = From(cs, jp)
<1> DEFINE cs2 == With(cs, c, ip)
           ct2 == With(ct, ip, Read(ct, ip) + 1)
<1>1. /\ DOMAIN cs2 = DOMAIN cs \cup {c} /\ cs2[c] = ip
      /\ \A d \in DOMAIN cs : cs2[d] = cs[d]
      /\ cs2 = [d \in DOMAIN cs2 |-> cs2[d]]
  BY DEF With
<1>2. /\ DOMAIN ct2 = DOMAIN ct \cup {ip} /\ ct2[ip] = Read(ct, ip) + 1
      /\ \A jp \in DOMAIN ct : jp # ip => ct2[jp] = ct[jp]
  BY DEF With
<1> HIDE DEF cs2, ct2
<1>3. IsConns(cs2)
  BY <1>1 DEF IsConns, IsPartialFcn
<1>4. /\ From(cs2, ip) = From(cs, ip) \cup {c}
      /\ \A jp : jp # ip => From(cs2, jp) = From(cs, jp)
  BY <1>1 DEF From
<1>5. DOMAIN ct2 = {cs2[d] : d \in DOMAIN cs2}
  BY <1>1, <1>2 DEF Fits
<1>6. ct2[ip] = Cardinality(From(cs2, ip))
  <2>1. c \notin From(cs, ip) /\ IsFiniteSet(From(cs, ip))
    BY SlotsFinite DEF From
  <2>2. Cardinality(From(cs, ip) \cup {c}) = Cardinality(From(cs, ip)) + 1
    BY <2>1, OneMore
  <2> QED BY <1>2, <1>4, <2>2, ReadIsCount
<1>7. Fits(cs2, ct2)
  BY <1>2, <1>4, <1>5, <1>6 DEF Fits
<1> QED BY <1>1, <1>3, <1>4, <1>7 DEF cs2, ct2

\* Giving a slot back (tcps.go:295-303): a counter of one is deleted.
LEMMA FitsWithout ==
  ASSUME NEW cs, NEW ct, IsConns(cs), Fits(cs, ct), NEW c \in DOMAIN cs
  PROVE  LET cs2 == Without(cs, c)
             ip  == cs[c]
             ct2 == IF Read(ct, ip) <= 1 THEN Without(ct, ip)
                    ELSE With(ct, ip, Read(ct, ip) - 1)
         IN  /\ IsConns(cs2) /\ Fits(cs2, ct2)
             /\ DOMAIN cs2 = DOMAIN cs \ {c}
             /\ \A d \in DOMAIN cs2 : cs2[d] = cs[d]
             /\ \A jp : From(cs2, jp) \subseteq From(cs, jp)
<1> DEFINE cs2 == Without(cs, c)
           ip  == cs[c]
           ct2 == IF Read(ct, ip) <= 1 THEN Without(ct, ip)
                  ELSE With(ct, ip, Read(ct, ip) - 1)
<1>1. /\ DOMAIN cs2 = DOMAIN cs \ {c}
      /\ \A d \in DOMAIN cs2 : cs2[d] = cs[d]
      /\ cs2 = [d \in DOMAIN cs2 |-> cs2[d]]
  BY DEF Without
<1> HIDE DEF cs2
<1>2. IsConns(cs2)
  BY <1>1 DEF IsConns, IsPartialFcn
<1>3. /\ From(cs2, ip) = From(cs, ip) \ {c}
      /\ \A jp : jp # ip => From(cs2, jp) = From(cs, jp)
      /\ c \in From(cs, ip)
  BY <1>1 DEF From
<1>4. /\ Cardinality(From(cs2, ip)) = Read(ct, ip) - 1
      /\ Cardinality(From(cs2, ip)) \in Nat /\ Read(ct, ip) \in Nat
  <2>1. IsFiniteSet(From(cs, ip))
    BY SlotsFinite
  <2>2. /\ Cardinality(From(cs, ip) \ {c}) = Cardinality(From(cs, ip)) - 1
        /\ Cardinality(From(cs, ip) \ {c}) \in Nat
    BY <1>3, <2>1, OneLess
  <2> QED BY <1>3, <2>2, ReadIsCount
<1>5. ip \in DOMAIN ct
  BY DEF Fits
<1>6. \A jp : jp # ip => (jp \in {cs2[d] : d \in DOMAIN cs2} <=> jp \in DOMAIN ct)
  BY <1>1 DEF Fits
<1>7. Fits(cs2, ct2)
  <2>1. CASE Read(ct, ip) <= 1
    <3>1. /\ DOMAIN ct2 = DOMAIN ct \ {ip}
          /\ \A jp \in DOMAIN ct2 : ct2[jp] = ct[jp]
      BY <2>1 DEF Without
    <3>2. From(cs2, ip) = {}
      <4>1. Cardinality(From(cs2, ip)) = 0
        BY <1>4, <2>1
      <4> QED BY <1>2, <4>1, SlotsFinite, FS_EmptySet
    <3>3. ip \notin {cs2[d] : d \in DOMAIN cs2}
      BY <3>2 DEF From
    <3> HIDE DEF ip, ct2
    <3>4. DOMAIN ct2 = {cs2[d] : d \in DOMAIN cs2}
      BY <1>6, <3>1, <3>3
    <3> QED BY <1>3, <3>1, <3>4 DEF Fits
  <2>2. CASE ~(Read(ct, ip) <= 1)
    <3>1. /\ DOMAIN ct2 = DOMAIN ct /\ ct2[ip] = Read(ct, ip) - 1
          /\ \A jp \in DOMAIN ct : jp # ip => ct2[jp] = ct[jp]
      BY <1>5, <2>2 DEF With
    <3>2. From(cs2, ip) # {}
      <4>1. Cardinality(From(cs2, ip)) # 0
        BY <1>4, <2>2
      <4> QED BY <4>1, FS_EmptySet
    <3>3. ip \in {cs2[d] : d \in DOMAIN cs2}
      BY <3>2 DEF From
    <3> HIDE DEF ip, ct2
    <3>4. DOMAIN ct2 = {cs2[d] : d \in DOMAIN cs2}
      BY <1>5, <1>6, <3>1, <3>3
    <3> QED BY <1>3, <1>4, <3>1, <3>4 DEF Fits
  <2> QED BY <2>1, <2>2
<1>8. \A jp : From(cs2, jp) \subseteq From(cs, jp)
  BY <1>1 DEF From
<1> QED BY <1>1, <1>2, <1>7, <1>8 DEF cs2

---------------------------------------------------------------------------
(* Types.  ListenerTypeOK in parts; that wg is not negative follows from   *)
(* what it counts.                                                         *)

RunTypes ==
  /\ ln \in 0..MaxStarts /\ starts \in 0..MaxStarts
  /\ listening \subseteq Gens /\ loops \subseteq Gens
  /\ acc \in [Gens -> {"off", "accept", "admit", "backoff"}]

ConnTypes ==
  /\ stage \in [Conns -> {"none", "backlog", "accepted", "serving",
                          "released", "gone"}]
  /\ home \in [Conns -> 0..MaxStarts]

CallerTypes ==
  /\ ctl \in [Callers -> {"idle", "close", "wait"}]
  /\ myLn \in [Callers -> 0..MaxStarts]
  /\ myConns \in [Callers -> SUBSET Conns]

SockTypes == sockOpen \in [Conns -> BOOLEAN]

SlotTypes ==
  /\ IsConns(conns) /\ IsPartialFcn(connectionsByIP, IPs, Nat)
  /\ maxConnections \in Nat /\ maxConnectionsPerIP \in Nat

\* The generations that do not exist yet have no loops.
Unused == \A g \in Gens : g > starts => acc[g] = "off" /\ g \notin loops

\* Generations are made by Start, in order; each has its own loops.
LEMMA StepRunTypes == RunTypes /\ Unused /\ [ListenerStep]_listenerVars
                        => RunTypes' /\ Unused'
<1> SUFFICES ASSUME RunTypes, Unused, [ListenerStep]_listenerVars
             PROVE  RunTypes' /\ Unused'
  OBVIOUS
<1> USE ListenerAssumption DEF Gens
<1>1. CASE UNCHANGED runVars
  BY <1>1 DEF runVars, RunTypes, Unused
<1>2. ASSUME NEW g \in Gens, NEW to \in {"off", "accept", "admit", "backoff"},
             acc[g] # "off", acc' = [acc EXCEPT ![g] = to],
             UNCHANGED <<ln, starts, listening, loops>>
      PROVE  RunTypes' /\ Unused'
  BY <1>2 DEF RunTypes, Unused
<1>3. ASSUME NEW u \in Callers, NEW loop \in BOOLEAN, StartBinds(u, loop)
      PROVE  RunTypes' /\ Unused'
  <2>1. /\ starts' = starts + 1 /\ ln' = starts + 1 /\ starts < MaxStarts
        /\ listening' = listening \cup {starts + 1}
        /\ acc' = [acc EXCEPT ![starts + 1] = "accept"]
        /\ loops' = loops \cup {starts + 1} \/ loops' = loops
    BY <1>3 DEF StartBinds
  <2>2. starts + 1 \in Gens /\ starts + 1 \in 0..MaxStarts
    BY <2>1 DEF RunTypes
  <2>3. RunTypes'
    BY <2>1, <2>2 DEF RunTypes
  <2>4. ASSUME NEW g \in Gens, g > starts'
        PROVE  acc'[g] = "off" /\ g \notin loops'
    <3>1. g > starts /\ g # starts + 1
      BY <2>1, <2>4 DEF RunTypes
    <3> QED BY <2>1, <3>1 DEF Unused, RunTypes
  <2> QED BY <2>3, <2>4 DEF Unused
<1>4. ASSUME NEW u \in Callers, StopDetach(u)
      PROVE  RunTypes' /\ Unused'
  BY <1>4 DEF StopDetach, RunTypes, Unused
<1>5. ASSUME NEW u \in Callers, StopClose(u)
      PROVE  RunTypes' /\ Unused'
  <2>1. UNCHANGED <<ln, starts, acc, loops>> /\ listening' = listening \ {myLn[u]}
    BY <1>5 DEF StopClose
  <2> QED BY <2>1 DEF RunTypes, Unused
<1>6. ASSUME NEW g \in Gens, LoopEnds(g)
      PROVE  RunTypes' /\ Unused'
  <2>1. UNCHANGED <<ln, starts, acc, listening>> /\ loops' = loops \ {g}
    BY <1>6 DEF LoopEnds
  <2> QED BY <2>1 DEF RunTypes, Unused
<1>7. ASSUME NEW g \in Gens, AcceptStep(g) \/ AcceptFails(g) \/ \E c \in Conns : Admit(g, c)
      PROVE  RunTypes' /\ Unused'
  BY <1>2, <1>7
  DEF AcceptStep, AcceptFails, Admit, Accept, Refuse, AcceptClosed,
      BackoffEnds, AcceptGoto, acceptRest
<1>8. ASSUME NEW g \in Gens, NEW c \in Conns, Dial(c, g)
      PROVE  RunTypes' /\ Unused'
  BY <1>1, <1>8 DEF Dial, acceptRest, runVars
<1> QED
  BY <1>1, <1>3, <1>4, <1>5, <1>6, <1>7, <1>8
  DEF ListenerStep, SetLimits, SetMaxConnections, SetMaxConnectionsPerIP,
      configRest, ShutdownReturns, ShutdownExpires, waitRest, Release,
      HandlerDone, SocketStep, listenerVars

\* A connection belongs to the generation that accepted it.
LEMMA StepConnTypes == RunTypes /\ ConnTypes /\ [ListenerStep]_listenerVars
                         => ConnTypes'
<1> SUFFICES ASSUME RunTypes, ConnTypes, [ListenerStep]_listenerVars
             PROVE  ConnTypes'
  OBVIOUS
<1>1. CASE UNCHANGED <<stage, home>>
  BY <1>1 DEF ConnTypes
<1>2. ASSUME NEW c \in Conns,
             NEW to \in {"backlog", "accepted", "serving", "released", "gone"},
             stage' = [stage EXCEPT ![c] = to], home' = home
      PROVE  ConnTypes'
  BY <1>2 DEF ConnTypes
<1>3. ASSUME NEW g \in Gens, NEW c \in Conns, Dial(c, g)
      PROVE  ConnTypes'
  <2>1. /\ stage' = [stage EXCEPT ![c] = "backlog"]
        /\ home' = [home EXCEPT ![c] = g] /\ g \in 0..MaxStarts
    BY <1>3, ListenerAssumption DEF Dial, Stage, Gens
  <2> QED BY <2>1 DEF ConnTypes
<1>4. ASSUME NEW u \in Callers, StopClose(u)
      PROVE  ConnTypes'
  BY <1>4 DEF StopClose, ConnTypes
<1>5. ASSUME NEW g \in Gens, AcceptStep(g) \/ AcceptFails(g) \/ \E c \in Conns : Admit(g, c)
      PROVE  ConnTypes'
  BY <1>1, <1>2, <1>5
  DEF AcceptStep, AcceptFails, Admit, Accept, Refuse, AcceptClosed,
      BackoffEnds, Stage, connVars
<1>6. ASSUME NEW c \in Conns, Release(c) \/ \E cs \in SUBSET Conns : HandlerDone(c, cs)
      PROVE  ConnTypes'
  BY <1>2, <1>6 DEF Release, HandlerDone, Stage
<1> QED
  BY <1>1, <1>3, <1>4, <1>5, <1>6
  DEF ListenerStep, SetLimits, SetMaxConnections, SetMaxConnectionsPerIP,
      configRest, ShutdownReturns, ShutdownExpires, waitRest, StartBinds,
      StopDetach, LoopEnds, SocketStep, listenerVars, connVars

\* A Stop closes connections that were registered.
LEMMA StepCallerTypes ==
  RunTypes /\ SlotTypes /\ CallerTypes /\ [ListenerStep]_listenerVars
    => CallerTypes'
<1> SUFFICES ASSUME RunTypes, SlotTypes, CallerTypes, [ListenerStep]_listenerVars
             PROVE  CallerTypes'
  OBVIOUS
<1>1. CASE UNCHANGED <<ctl, localVars>>
  BY <1>1 DEF CallerTypes, localVars
<1>2. ASSUME NEW u \in Callers, StopDetach(u)
      PROVE  CallerTypes'
  <2>1. /\ ctl' = [ctl EXCEPT ![u] = "close"] /\ myLn' = [myLn EXCEPT ![u] = ln]
        /\ myConns' = [myConns EXCEPT ![u] = DOMAIN conns]
    BY <1>2 DEF StopDetach, Ctl
  <2>2. DOMAIN conns \in SUBSET Conns /\ ln \in 0..MaxStarts
    BY DEF SlotTypes, IsConns, IsPartialFcn, RunTypes
  <2> QED BY <2>1, <2>2 DEF CallerTypes
<1>3. ASSUME NEW u \in Callers, StopClose(u)
      PROVE  CallerTypes'
  <2>1. /\ ctl' = [ctl EXCEPT ![u] = "idle"] \/ ctl' = [ctl EXCEPT ![u] = "wait"]
        /\ myLn' = [myLn EXCEPT ![u] = 0] /\ myConns' = [myConns EXCEPT ![u] = {}]
    BY <1>3 DEF StopClose, Ctl
  <2>2. 0 \in 0..MaxStarts
    BY ListenerAssumption
  <2> QED BY <2>1, <2>2 DEF CallerTypes
<1>4. ASSUME NEW u \in Callers, ShutdownReturns(u) \/ ShutdownExpires(u)
      PROVE  CallerTypes'
  BY <1>4
  DEF ShutdownReturns, ShutdownExpires, Ctl, waitRest, localVars, CallerTypes
<1> QED
  BY <1>1, <1>2, <1>3, <1>4
  DEF ListenerStep, SetLimits, SetMaxConnections, SetMaxConnectionsPerIP,
      configRest, StartBinds, AcceptStep, AcceptFails, Admit, Accept, Refuse,
      AcceptClosed, BackoffEnds, Dial, LoopEnds, Release, HandlerDone,
      SocketStep, acceptRest, listenerVars

\* The sockets keep their types.
LEMMA StepSockTypes == SockTypes /\ [ListenerStep]_listenerVars => SockTypes'
<1> SUFFICES ASSUME SockTypes, [ListenerStep]_listenerVars
             PROVE  SockTypes'
  OBVIOUS
<1>1. CASE UNCHANGED sockOpen
  BY <1>1 DEF SockTypes
<1>2. ASSUME NEW cs, CloseSockets(cs)
      PROVE  SockTypes'
  BY <1>2, Zenon DEF CloseSockets, SockTypes
<1>3. ASSUME NEW c \in Conns, sockOpen' = [sockOpen EXCEPT ![c] = FALSE]
      PROVE  SockTypes'
  BY <1>3, Zenon DEF SockTypes
<1> QED
  BY <1>1, <1>2, <1>3
  DEF ListenerStep, SetLimits, SetMaxConnections, SetMaxConnectionsPerIP,
      configRest, StartBinds, AcceptStep, AcceptFails, Admit, Accept, Refuse,
      AcceptClosed, BackoffEnds, Dial, LoopEnds, Release, HandlerDone,
      StopDetach, StopClose, ShutdownReturns, ShutdownExpires, SocketStep,
      acceptRest, waitRest, connVars, listenerVars

---------------------------------------------------------------------------
(* The slots.                                                              *)

\* LimitsHold with the connections as counted above.
Within ==
  /\ maxConnections > 0 => Cardinality(DOMAIN conns) <= maxConnections
  /\ maxConnectionsPerIP > 0 =>
       \A ip \in IPs : Cardinality(From(conns, ip)) <= maxConnectionsPerIP

\* SlotsExact and the types it rests on.
Slots ==
  /\ SlotTypes /\ Fits(conns, connectionsByIP) /\ Within
  /\ NoStaleAdmission

\* Slots is the property with the types of the fields it is about.
LEMMA SlotsAreExact == SlotTypes /\ SlotsExact <=> Slots
  BY DEF Slots, SlotsExact, CountersExact, LimitsHold, Within, Fits, From,
         ConnsOf

\* No connection is counted where there is no listener.
LEMMA EmptyWhenStopped ==
  ASSUME Slots, ln = 0
  PROVE  /\ Cardinality(DOMAIN conns) = 0
         /\ \A ip : Cardinality(From(conns, ip)) = 0
         /\ DOMAIN conns = {}
<1>1. DOMAIN conns = {}
  BY DEF Slots, NoStaleAdmission
<1>2. \A ip : From(conns, ip) = {}
  BY <1>1 DEF From
<1> QED BY <1>1, <1>2, FS_EmptySet

\* The accept loop counts a connection it lets in, and no other
\* (tcps.go:207-225).
LEMMA AdmitSlots ==
  ASSUME RunTypes, ConnTypes, Slots, NEW g \in Gens, NEW c \in Conns,
         Admit(g, c)
  PROVE  Slots'
<1> DEFINE ip == IPOf[c]
<1>1. ln = g /\ ~AtLimit(c) /\ home[c] = g /\ stage[c] = "accepted"
  BY DEF Admit, Refused, Stage
<1>2. /\ conns' = With(conns, c, ip)
      /\ connectionsByIP' = With(connectionsByIP, ip, Read(connectionsByIP, ip) + 1)
      /\ stage' = [stage EXCEPT ![c] = "serving"]
      /\ UNCHANGED <<ln, home, maxConnections, maxConnectionsPerIP>>
  BY DEF Admit, Stage, acceptRest, limitVars, CountOf, Read
<1>3. c \notin DOMAIN conns /\ ip \in IPs
  BY <1>1 DEF Slots, NoStaleAdmission, IPs
<1>4. IsConns(conns) /\ Fits(conns, connectionsByIP)
  BY DEF Slots, SlotTypes
<1>5. /\ Read(connectionsByIP, ip) = Cardinality(From(conns, ip))
      /\ Read(connectionsByIP, ip) \in Nat
  BY <1>4, ReadIsCount
<1>6. AtLimit(c) <=>
        \/ maxConnections > 0 /\ Cardinality(DOMAIN conns) >= maxConnections
        \/ maxConnectionsPerIP > 0
             /\ Read(connectionsByIP, ip) >= maxConnectionsPerIP
  BY DEF AtLimit, CountOf, Read
<1> HIDE DEF ip
<1>7. /\ IsConns(conns') /\ Fits(conns', connectionsByIP')
      /\ DOMAIN conns' = DOMAIN conns \cup {c}
      /\ From(conns', ip) = From(conns, ip) \cup {c}
      /\ \A jp : jp # ip => From(conns', jp) = From(conns, jp)
  BY <1>2, <1>3, <1>4, FitsWith
<1>8. SlotTypes'
  <2>1. IsPartialFcn(connectionsByIP', IPs, Nat)
    BY <1>2, <1>3, <1>5 DEF Slots, SlotTypes, IsPartialFcn, With
  <2>2. IsConns(conns)'
    BY <1>7 DEF IsConns, IsPartialFcn
  <2> QED BY <1>2, <2>1, <2>2 DEF Slots, SlotTypes
<1>9. Within'
  <2>1. /\ IsFiniteSet(DOMAIN conns) /\ Cardinality(DOMAIN conns) \in Nat
        /\ IsFiniteSet(From(conns, ip)) /\ Cardinality(From(conns, ip)) \in Nat
    BY <1>4, SlotsFinite
  <2>2. /\ Cardinality(DOMAIN conns') = Cardinality(DOMAIN conns) + 1
        /\ Cardinality(From(conns', ip)) = Cardinality(From(conns, ip)) + 1
    <3>1. c \notin From(conns, ip)
      BY <1>3 DEF From
    <3> QED BY <1>3, <1>7, <2>1, <3>1, OneMore
  <2>3. maxConnections \in Nat /\ maxConnectionsPerIP \in Nat
    BY DEF Slots, SlotTypes
  <2>4. /\ maxConnections > 0 => Cardinality(DOMAIN conns) + 1 <= maxConnections
        /\ maxConnectionsPerIP > 0 =>
             Cardinality(From(conns, ip)) + 1 <= maxConnectionsPerIP
    BY <1>1, <1>5, <1>6, <2>1, <2>3
  <2>5. ASSUME NEW jp \in IPs, maxConnectionsPerIP > 0
        PROVE  Cardinality(From(conns', jp)) <= maxConnectionsPerIP
    <3>1. CASE jp = ip
      BY <2>2, <2>4, <2>5, <3>1
    <3>2. CASE jp # ip
      BY <1>7, <2>5, <3>2 DEF Slots, Within
    <3> QED BY <3>1, <3>2
  <2> QED BY <1>2, <2>2, <2>4, <2>5 DEF Within, From
<1>10. NoStaleAdmission'
  <2>1. ln \in Gens /\ ln # 0
    BY <1>1, ListenerAssumption DEF Gens
  <2> QED BY <1>1, <1>2, <1>7, <2>1 DEF Slots, NoStaleAdmission, ConnTypes
<1>11. Fits(conns, connectionsByIP)'
  BY <1>7 DEF Fits, From
<1> QED BY <1>8, <1>9, <1>10, <1>11 DEF Slots

\* The clean-up of a handler gives back the slot of a connection that has one,
\* once (tcps.go:293-305).
LEMMA ReleaseSlots ==
  ASSUME ConnTypes, Slots, NEW c \in Conns, Release(c)
  PROVE  Slots'
<1>1. /\ UNCHANGED <<ln, home, maxConnections, maxConnectionsPerIP>>
      /\ stage' = [stage EXCEPT ![c] = "released"]
  BY DEF Release, Stage, runVars, limitVars
<1>2. CASE c \in DOMAIN conns
  <2> DEFINE ip == conns[c]
  <2>1. /\ conns' = Without(conns, c)
        /\ connectionsByIP' =
             IF Read(connectionsByIP, ip) <= 1 THEN Without(connectionsByIP, ip)
             ELSE With(connectionsByIP, ip, Read(connectionsByIP, ip) - 1)
    BY <1>2 DEF Release, CountedDown, CountOf, Read
  <2>2. IsConns(conns) /\ Fits(conns, connectionsByIP)
    BY DEF Slots, SlotTypes
  <2>3. /\ Read(connectionsByIP, ip) \in Nat /\ ip \in IPs
    BY <1>2, <2>2, ReadIsCount DEF IsConns, IsPartialFcn
  <2> HIDE DEF ip
  <2>4. /\ IsConns(conns') /\ Fits(conns', connectionsByIP')
        /\ DOMAIN conns' = DOMAIN conns \ {c}
        /\ \A jp : From(conns', jp) \subseteq From(conns, jp)
    BY <1>2, <2>1, <2>2, FitsWithout DEF ip
  <2>5. SlotTypes'
    <3>1. IsPartialFcn(connectionsByIP', IPs, Nat)
      BY <2>1, <2>3 DEF Slots, SlotTypes, IsPartialFcn, With, Without
    <3>2. IsConns(conns)'
      BY <2>4 DEF IsConns, IsPartialFcn
    <3> QED BY <1>1, <3>1, <3>2 DEF Slots, SlotTypes
  <2>6. Within'
    <3>1. /\ Cardinality(DOMAIN conns) \in Nat /\ Cardinality(DOMAIN conns') \in Nat
          /\ Cardinality(DOMAIN conns') <= Cardinality(DOMAIN conns)
      BY <2>2, <2>4, SlotsFinite, FS_Subset
    <3>2. ASSUME NEW jp
          PROVE  /\ Cardinality(From(conns, jp)) \in Nat
                 /\ Cardinality(From(conns', jp)) \in Nat
                 /\ Cardinality(From(conns', jp)) <= Cardinality(From(conns, jp))
      BY <2>2, <2>4, SlotsFinite, FS_Subset
    <3>3. maxConnections \in Nat /\ maxConnectionsPerIP \in Nat
      BY DEF Slots, SlotTypes
    <3>4. maxConnections > 0 => Cardinality(DOMAIN conns') <= maxConnections
      BY <3>1, <3>3 DEF Slots, Within
    <3>5. ASSUME NEW jp \in IPs, maxConnectionsPerIP > 0
          PROVE  Cardinality(From(conns', jp)) <= maxConnectionsPerIP
      <4>1. Cardinality(From(conns, jp)) <= maxConnectionsPerIP
        BY <3>5 DEF Slots, Within
      <4> QED BY <3>2, <3>3, <4>1
    <3> QED BY <1>1, <3>4, <3>5 DEF Within, From
  <2>7. NoStaleAdmission'
    BY <1>1, <2>4 DEF Slots, NoStaleAdmission, ConnTypes
  <2>8. Fits(conns, connectionsByIP)'
    BY <2>4 DEF Fits, From
  <2> QED BY <2>5, <2>6, <2>7, <2>8 DEF Slots
<1>3. CASE c \notin DOMAIN conns
  <2>1. UNCHANGED <<conns, connectionsByIP>>
    BY <1>3 DEF Release, slotVars
  <2>2. NoStaleAdmission'
    BY <1>1, <1>3, <2>1 DEF Slots, NoStaleAdmission, ConnTypes
  <2> QED
    BY <1>1, <2>1, <2>2
    DEF Slots, SlotTypes, IsConns, IsPartialFcn, Fits, From, Within
<1> QED BY <1>2, <1>3

\* Every step keeps the slots exact.
LEMMA StepSlots ==
  RunTypes /\ ConnTypes /\ Slots /\ [ListenerStep]_listenerVars => Slots'
<1> SUFFICES ASSUME RunTypes, ConnTypes, Slots, [ListenerStep]_listenerVars
             PROVE  Slots'
  OBVIOUS
<1>1. ASSUME UNCHANGED <<conns, connectionsByIP, maxConnections, maxConnectionsPerIP>>,
             NoStaleAdmission'
      PROVE  Slots'
  BY <1>1 DEF Slots, SlotTypes, IsConns, IsPartialFcn, Fits, From, Within
<1>2. ASSUME UNCHANGED <<conns, connectionsByIP, maxConnections, maxConnectionsPerIP>>,
             UNCHANGED ln,
             \A c \in Conns : stage[c] = "serving" =>
                               stage'[c] = "serving" /\ home'[c] = home[c]
      PROVE  Slots'
  <2>1. DOMAIN conns \subseteq Conns
    BY DEF Slots, SlotTypes, IsConns, IsPartialFcn
  <2>2. NoStaleAdmission'
    BY <1>2, <2>1 DEF Slots, NoStaleAdmission
  <2> QED BY <1>1, <1>2, <2>2
<1>3. CASE SetLimits
  <2>1. /\ ln = 0 /\ UNCHANGED <<conns, connectionsByIP, ln, stage, home>>
        /\ maxConnections' \in Nat /\ maxConnectionsPerIP' \in Nat
    BY <1>3, ListenerAssumption
    DEF SetLimits, SetMaxConnections, SetMaxConnectionsPerIP, Configurable,
        configRest, slotVars, runVars, connVars, Slots, SlotTypes
  <2>2. /\ Cardinality(DOMAIN conns) = 0
        /\ \A ip : Cardinality(From(conns, ip)) = 0
        /\ DOMAIN conns = {}
    BY <2>1, EmptyWhenStopped
  <2>3. Within'
    BY <2>1, <2>2 DEF Within, From
  <2> QED
    BY <2>1, <2>3
    DEF Slots, SlotTypes, IsConns, IsPartialFcn, Fits, From, NoStaleAdmission
<1>4. ASSUME NEW u \in Callers, NEW loop \in BOOLEAN, StartBinds(u, loop)
      PROVE  Slots'
  <2>1. ln = 0 /\ UNCHANGED <<conns, connectionsByIP, maxConnections, maxConnectionsPerIP>>
    BY <1>4 DEF StartBinds, slotVars, limitVars
  <2>2. DOMAIN conns' = {}
    BY <2>1, EmptyWhenStopped
  <2> QED BY <1>1, <2>1, <2>2 DEF NoStaleAdmission
<1>5. ASSUME NEW u \in Callers, StopDetach(u)
      PROVE  Slots'
  <2>1. /\ conns' = EmptyFcn /\ connectionsByIP' = EmptyFcn
        /\ UNCHANGED <<maxConnections, maxConnectionsPerIP>>
    BY <1>5 DEF StopDetach, SlotsAfterStop, limitVars
  <2>2. /\ DOMAIN conns' = {} /\ DOMAIN connectionsByIP' = {}
        /\ conns' = [d \in {} |-> conns'[d]]
        /\ connectionsByIP' = [d \in {} |-> connectionsByIP'[d]]
        /\ Fits(conns, connectionsByIP)'
    BY <2>1 DEF EmptyFcn, Fits
  <2>3. Cardinality(DOMAIN conns') = 0 /\ \A ip : Cardinality(From(conns', ip)) = 0
    <3>1. \A ip : From(conns', ip) = {}
      BY <2>2 DEF From
    <3> QED BY <2>2, <3>1, FS_EmptySet
  <2>4. Within'
    <3>1. maxConnections' \in Nat /\ maxConnectionsPerIP' \in Nat
      BY <2>1 DEF Slots, SlotTypes
    <3>2. /\ Cardinality(DOMAIN conns') <= maxConnections'
          /\ \A ip : Cardinality(From(conns', ip)) <= maxConnectionsPerIP'
      BY <2>3, <3>1
    <3> QED BY <3>2 DEF Within, From
  <2>5. SlotTypes'
    BY <2>1, <2>2 DEF Slots, SlotTypes, IsConns, IsPartialFcn
  <2> QED BY <2>2, <2>4, <2>5 DEF Slots, NoStaleAdmission
<1>6. ASSUME NEW u \in Callers, StopClose(u)
      PROVE  Slots'
  <2>1. /\ UNCHANGED <<conns, connectionsByIP, maxConnections, maxConnectionsPerIP, ln, home>>
        /\ stage' = [c \in Conns |-> IF c \in Backlog(myLn[u]) THEN "gone" ELSE stage[c]]
    BY <1>6 DEF StopClose, slotVars, limitVars
  <2>2. \A c \in Conns : stage[c] = "serving" => stage'[c] = "serving"
    BY <2>1 DEF Backlog
  <2> QED BY <1>2, <2>1, <2>2
<1>7. ASSUME NEW c \in Conns, NEW from, NEW to, from # "serving",
             Stage(c, from, to),
             home' = home \/ \E g : home' = [home EXCEPT ![c] = g],
             UNCHANGED <<conns, connectionsByIP, maxConnections, maxConnectionsPerIP, ln>>
      PROVE  Slots'
  BY <1>2, <1>7 DEF Stage, ConnTypes
<1>8. ASSUME NEW g \in Gens, NEW c \in Conns, Dial(c, g) \/ Accept(g, c) \/ Refuse(g, c)
      PROVE  Slots'
  BY <1>7, <1>8 DEF Dial, Accept, Refuse, acceptRest, slotVars, limitVars
<1>9. ASSUME NEW c \in Conns, NEW cs, HandlerDone(c, cs)
      PROVE  Slots'
  BY <1>7, <1>9 DEF HandlerDone, slotVars, limitVars, runVars
<1>10. CASE UNCHANGED <<conns, connectionsByIP, maxConnections, maxConnectionsPerIP,
                        ln, stage, home>>
  BY <1>2, <1>10
<1>11. ASSUME NEW g \in Gens, AcceptClosed(g) \/ BackoffEnds(g) \/ AcceptFails(g) \/ LoopEnds(g)
       PROVE  Slots'
  BY <1>10, <1>11
  DEF AcceptClosed, BackoffEnds, AcceptFails, LoopEnds, acceptRest, slotVars,
      limitVars, connVars
<1>12. ASSUME NEW u \in Callers, ShutdownReturns(u) \/ ShutdownExpires(u)
       PROVE  Slots'
  BY <1>10, <1>12
  DEF ShutdownReturns, ShutdownExpires, waitRest, runVars, slotVars, limitVars,
      connVars
<1>13. CASE SocketStep \/ UNCHANGED listenerVars
  BY <1>10, <1>13
  DEF SocketStep, listenerVars, runVars, slotVars, limitVars, connVars
<1> QED
  BY <1>3, <1>4, <1>5, <1>6, <1>8, <1>9, <1>11, <1>12, <1>13, AdmitSlots,
     ReleaseSlots
  DEF ListenerStep, AcceptStep

---------------------------------------------------------------------------
(* The wait group.                                                         *)

Running == {g \in Gens : acc[g] # "off"}

\* wg counts the accept loops, the second loops and the handlers.
Counted ==
  wg = Cardinality(Running) + Cardinality(loops) + Cardinality(Handlers)

\* The goroutines that wg counts are finitely many.
LEMMA CountedFinite ==
  ASSUME RunTypes
  PROVE  /\ IsFiniteSet(Running) /\ Cardinality(Running) \in Nat
         /\ IsFiniteSet(loops) /\ Cardinality(loops) \in Nat
         /\ IsFiniteSet(Handlers) /\ Cardinality(Handlers) \in Nat
<1>1. IsFiniteSet(Gens)
  BY ListenerAssumption, FS_Interval DEF Gens
<1>2. Running \subseteq Gens /\ loops \subseteq Gens /\ Handlers \subseteq Conns
  BY DEF Running, RunTypes, Handlers
<1> QED BY <1>1, <1>2, ListenerAssumption, FS_Subset, FS_CardinalityType

\* What a step adds to the counter is what it starts or ends.
LEMMA StepCounted ==
  RunTypes /\ Unused /\ ConnTypes /\ Counted /\ [ListenerStep]_listenerVars
    => Counted'
<1> SUFFICES ASSUME RunTypes, Unused, ConnTypes, Counted,
                    [ListenerStep]_listenerVars
             PROVE  Counted'
  OBVIOUS
<1> DEFINE r == Cardinality(Running)
           l == Cardinality(loops)
           h == Cardinality(Handlers)
<1>0. r \in Nat /\ l \in Nat /\ h \in Nat /\ wg = r + l + h
  BY CountedFinite DEF Counted
<1>1. ASSUME UNCHANGED wg, Running' = Running, loops' = loops, Handlers' = Handlers
      PROVE  Counted'
  BY <1>1 DEF Counted
<1>2. ASSUME NEW g \in Gens, acc[g] # "off", acc' = [acc EXCEPT ![g] = "off"],
             wg' = wg - 1, loops' = loops, stage' = stage
      PROVE  Counted'
  <2>1. Running' = Running \ {g} /\ g \in Running /\ Handlers' = Handlers
    BY <1>2 DEF Running, RunTypes, Handlers
  <2>2. Cardinality(Running') = r - 1
    BY <2>1, CountedFinite, OneLess
  <2>3. Cardinality(loops') = l /\ Cardinality(Handlers') = h
    BY <1>2, <2>1
  <2> HIDE DEF r, l, h
  <2> QED BY <1>0, <1>2, <2>2, <2>3 DEF Counted
<1>3. ASSUME NEW g \in Gens, NEW to, acc[g] # "off", to # "off",
             acc' = [acc EXCEPT ![g] = to]
      PROVE  Running' = Running
  BY <1>3 DEF Running, RunTypes
<1>4. ASSUME NEW c \in Conns, NEW from, NEW to, Stage(c, from, to),
             from \in {"serving", "released"} <=> to \in {"serving", "released"}
      PROVE  Handlers' = Handlers
  BY <1>4 DEF Handlers, Stage, ConnTypes
<1>5. ASSUME NEW u \in Callers, NEW loop \in BOOLEAN, StartBinds(u, loop)
      PROVE  Counted'
  <2> DEFINE g == starts + 1
  <2>1. /\ g \in Gens /\ acc' = [acc EXCEPT ![g] = "accept"] /\ stage' = stage
        /\ \/ loops' = loops \cup {g} /\ wg' = wg + 2
           \/ loops' = loops /\ wg' = wg + 1
    <3>1. starts < MaxStarts /\ starts \in 0..MaxStarts /\ MaxStarts \in Nat
      BY <1>5, ListenerAssumption DEF StartBinds, RunTypes
    <3> QED BY <1>5, <3>1 DEF StartBinds, Gens, connVars
  <2>2. acc[g] = "off" /\ g \notin loops
    <3>1. g > starts
      BY DEF RunTypes
    <3> QED BY <2>1, <3>1 DEF Unused
  <2> HIDE DEF g
  <2>3. Running' = Running \cup {g} /\ g \notin Running /\ Handlers' = Handlers
    BY <2>1, <2>2 DEF Running, RunTypes, Handlers
  <2>4. Cardinality(Running') = r + 1 /\ Cardinality(Handlers') = h
    BY <2>3, CountedFinite, OneMore
  <2>5. Cardinality(loops \cup {g}) = l + 1
    BY <2>2, CountedFinite, OneMore
  <2>6. \/ Cardinality(loops') = l + 1 /\ wg' = wg + 2
        \/ Cardinality(loops') = l /\ wg' = wg + 1
    BY <2>1, <2>5
  <2> HIDE DEF r, l, h
  <2> QED BY <1>0, <2>4, <2>6 DEF Counted
<1>6. ASSUME NEW g \in Gens, NEW c \in Conns, Admit(g, c)
      PROVE  Counted'
  <2>1. Running' = Running /\ loops' = loops /\ wg' = wg + 1
    BY <1>3, <1>6 DEF Admit, AcceptGoto, AddHandler, acceptRest
  <2>2. Handlers' = Handlers \cup {c} /\ c \notin Handlers
    BY <1>6 DEF Admit, Stage, Handlers, ConnTypes
  <2>3. Cardinality(Handlers') = h + 1
    BY <2>2, CountedFinite, OneMore
  <2>4. Cardinality(Running') = r /\ Cardinality(loops') = l
    BY <2>1
  <2> HIDE DEF r, l, h
  <2> QED BY <1>0, <2>1, <2>3, <2>4 DEF Counted
<1>7. ASSUME NEW g \in Gens, LoopEnds(g)
      PROVE  Counted'
  <2>1. /\ loops' = loops \ {g} /\ g \in loops /\ wg' = wg - 1
        /\ Running' = Running /\ Handlers' = Handlers
    BY <1>7 DEF LoopEnds, Running, Handlers, connVars
  <2>2. Cardinality(loops') = l - 1 /\ Cardinality(Running') = r /\ Cardinality(Handlers') = h
    BY <2>1, CountedFinite, OneLess
  <2> HIDE DEF r, l, h
  <2> QED BY <1>0, <2>1, <2>2 DEF Counted
<1>8. ASSUME NEW c \in Conns, NEW cs, HandlerDone(c, cs)
      PROVE  Counted'
  <2>1. Running' = Running /\ loops' = loops /\ wg' = wg - 1
    BY <1>8 DEF HandlerDone, runVars, Running
  <2>2. Handlers' = Handlers \ {c} /\ c \in Handlers
    BY <1>8 DEF HandlerDone, Stage, Handlers, ConnTypes
  <2>3. Cardinality(Handlers') = h - 1 /\ Cardinality(Running') = r /\ Cardinality(loops') = l
    BY <2>1, <2>2, CountedFinite, OneLess
  <2> HIDE DEF r, l, h
  <2> QED BY <1>0, <2>1, <2>3 DEF Counted
<1>9. ASSUME NEW u \in Callers, StopClose(u)
      PROVE  Counted'
  <2>1. /\ UNCHANGED <<acc, loops, wg>>
        /\ stage' = [c \in Conns |-> IF c \in Backlog(myLn[u]) THEN "gone" ELSE stage[c]]
    BY <1>9 DEF StopClose
  <2>2. Handlers' = Handlers /\ Running' = Running
    BY <2>1 DEF Handlers, Running, Backlog
  <2> QED BY <1>1, <2>1, <2>2
<1>10. ASSUME UNCHANGED <<acc, loops, wg, stage>>
       PROVE  Counted'
  BY <1>1, <1>10 DEF Running, Handlers
<1>11. ASSUME NEW g \in Gens, NEW c \in Conns, Accept(g, c) \/ Refuse(g, c)
       PROVE  Counted'
  BY <1>1, <1>3, <1>4, <1>11 DEF Accept, Refuse, AcceptGoto, acceptRest
<1>12. ASSUME NEW g \in Gens, AcceptClosed(g) \/ BackoffEnds(g) \/ AcceptFails(g)
       PROVE  Counted'
  <2>1. stage' = stage /\ loops' = loops
    BY <1>12 DEF AcceptClosed, BackoffEnds, AcceptFails, acceptRest, connVars
  <2>2. Handlers' = Handlers
    BY <2>1 DEF Handlers
  <2>3. \/ acc' = [acc EXCEPT ![g] = "off"] /\ wg' = wg - 1
        \/ wg' = wg /\ \E to \in {"accept", "backoff"} : acc' = [acc EXCEPT ![g] = to]
    BY <1>12 DEF AcceptClosed, BackoffEnds, AcceptFails, AcceptGoto
  <2>4. acc[g] # "off"
    BY <1>12 DEF AcceptClosed, BackoffEnds, AcceptFails, AcceptGoto
  <2> QED BY <1>1, <1>2, <1>3, <2>1, <2>2, <2>3, <2>4
<1>13. ASSUME NEW g \in Gens, NEW c \in Conns, Dial(c, g)
       PROVE  Counted'
  <2>1. Running' = Running /\ loops' = loops /\ wg' = wg /\ Handlers' = Handlers
    BY <1>4, <1>13 DEF Dial, acceptRest, Running
  <2> QED BY <1>1, <2>1
<1>14. ASSUME NEW c \in Conns, Release(c)
       PROVE  Counted'
  <2>1. Running' = Running /\ loops' = loops /\ wg' = wg /\ Handlers' = Handlers
    BY <1>4, <1>14 DEF Release, runVars, Running
  <2> QED BY <1>1, <2>1
<1>15. ASSUME NEW u \in Callers, StopDetach(u) \/ ShutdownReturns(u) \/ ShutdownExpires(u)
       PROVE  Counted'
  BY <1>10, <1>15
  DEF StopDetach, ShutdownReturns, ShutdownExpires, waitRest, runVars, connVars
<1>16. CASE SetLimits \/ SocketStep \/ UNCHANGED listenerVars
  BY <1>10, <1>16
  DEF SetLimits, SetMaxConnections, SetMaxConnectionsPerIP, configRest,
      SocketStep, listenerVars, runVars, connVars
<1> QED
  BY <1>5, <1>6, <1>7, <1>8, <1>9, <1>11, <1>12, <1>13, <1>14, <1>15, <1>16
  DEF ListenerStep, AcceptStep

---------------------------------------------------------------------------
(* The theorems.                                                           *)

\* The inductive invariant of the listener.
ListenerInv ==
  /\ RunTypes /\ Unused /\ ConnTypes /\ CallerTypes /\ SockTypes
  /\ Slots /\ Counted

\* The invariant implies the types and the exact slots.
LEMMA ListenerInvImplies ==
  ListenerInv => ListenerTypeOK /\ SlotsExact
<1> SUFFICES ASSUME ListenerInv PROVE ListenerTypeOK /\ SlotsExact
  OBVIOUS
<1>1. wg \in Nat
  BY CountedFinite DEF ListenerInv, Counted
<1>2. SlotsExact /\ SlotTypes
  BY SlotsAreExact DEF ListenerInv
<1> QED
  BY <1>1, <1>2
  DEF ListenerInv, ListenerTypeOK, RunTypes, ConnTypes, CallerTypes, SockTypes,
      SlotTypes, IsConns

\* A listener that has not been started satisfies it.
LEMMA ListenerInitInv == ListenerInit => ListenerInv
<1> SUFFICES ASSUME ListenerInit PROVE ListenerInv
  OBVIOUS
<1> USE ListenerAssumption
<1>1. RunTypes /\ Unused /\ ConnTypes /\ CallerTypes
  BY DEF ListenerInit, RunTypes, Unused, ConnTypes, CallerTypes, Gens
<1>2. SockTypes
  BY Zenon DEF ListenerInit, SockTypes
<1>3. Slots
  <2>1. conns = EmptyFcn /\ connectionsByIP = EmptyFcn /\ DOMAIN EmptyFcn = {}
    BY DEF ListenerInit, EmptyFcn
  <2>2. Cardinality(DOMAIN conns) = 0 /\ \A ip : Cardinality(From(conns, ip)) = 0
    <3>1. \A ip : From(conns, ip) = {}
      BY <2>1 DEF From
    <3> QED BY <2>1, <3>1, FS_EmptySet
  <2>3. EmptyFcn = [d \in {} |-> EmptyFcn[d]]
    BY DEF EmptyFcn
  <2>4. SlotTypes
    BY <2>1, <2>3 DEF ListenerInit, SlotTypes, IsConns, IsPartialFcn
  <2>5. Within /\ Fits(conns, connectionsByIP) /\ NoStaleAdmission
    BY <2>1, <2>2, <2>4 DEF Within, Fits, NoStaleAdmission, SlotTypes
  <2> QED BY <2>4, <2>5 DEF Slots
<1>4. Counted
  <2>1. Running = {} /\ loops = {} /\ Handlers = {} /\ wg = 0
    BY DEF ListenerInit, Running, Handlers
  <2> QED BY <2>1, FS_EmptySet DEF Counted
<1> QED BY <1>1, <1>2, <1>3, <1>4 DEF ListenerInv

\* Every step of a listener keeps it.
LEMMA ListenerStepInv == ListenerInv /\ [ListenerStep]_listenerVars => ListenerInv'
  BY StepRunTypes, StepConnTypes, StepCallerTypes, StepSockTypes, StepSlots,
     StepCounted
  DEF ListenerInv, Slots

\* A wait group at zero means that nothing is left to wait for.
LEMMA ZeroMeansDrained ==
  ListenerInv /\ wg = 0 =>
    Handlers = {} /\ \A g \in Gens : acc[g] = "off" /\ g \notin loops
<1> SUFFICES ASSUME ListenerInv, wg = 0
             PROVE  Handlers = {} /\ \A g \in Gens : acc[g] = "off" /\ g \notin loops
  OBVIOUS
<1>1. /\ Cardinality(Running) = 0 /\ Cardinality(loops) = 0
      /\ Cardinality(Handlers) = 0
  BY CountedFinite DEF ListenerInv, Counted
<1>2. Running = {} /\ loops = {} /\ Handlers = {}
  BY <1>1, CountedFinite, FS_EmptySet DEF ListenerInv
<1> QED BY <1>2 DEF Running

\* s.conns and its counters are exactly the connections being served and the
\* limits hold, for every number of connections, callers, restarts and
\* limits (tcps.go:207-225, 240-253, 295-303).
THEOREM ListenerSlotsExact == ListenerSpec => []SlotsExact
  BY ListenerInitInv, ListenerStepInv, ListenerInvImplies, PTL DEF ListenerSpec

\* A Shutdown that returns nil leaves no handler and no loop of any
\* generation: wg.Add and wg.Done match what they stand for along every path
\* (tcps.go:130-134, 226-236, 265-276, 306-311).
THEOREM ListenerShutdownDrains == ListenerSpec => ShutdownDrains
<1>1. ListenerInv /\ [ListenerStep]_listenerVars =>
        [\A u \in Callers :
           ShutdownReturns(u) =>
             /\ Handlers = {}
             /\ \A g \in Gens : acc[g] = "off" /\ g \notin loops]_listenerVars
  BY ZeroMeansDrained DEF ShutdownReturns
<1> QED
  BY <1>1, ListenerInitInv, ListenerStepInv, PTL
  DEF ListenerSpec, ShutdownDrains
============================================================================
