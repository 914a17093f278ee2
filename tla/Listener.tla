------------------------------ MODULE Listener ------------------------------
(***************************************************************************)
(* The listener that tcp.Server, NtripCasterServer and NtripCasterClient   *)
(* have in common: Start, acceptLoop with the connection limits, the slot  *)
(* a handler gives back, Stop and Shutdown.  The three are the same code,  *)
(* written down here from tcp/tcps.go; the modules that extend this one    *)
(* add the handlers and what else the steps do.                            *)
(*                                                                         *)
(* Each Start that binds begins a generation g: a listener, an accept loop *)
(* and possibly a second loop, which outlive Stop for a while and may      *)
(* overlap the next generation.  A connection is used once.  An action is  *)
(* one critical section of mu or one call on a socket, with the code up to *)
(* the next one; closing sockets is part of the step it follows.           *)
(*                                                                         *)
(* done of generation g is closed by the Stop that takes g out of ln, in   *)
(* the same critical section, so "done is closed" is ln # g.               *)
(***************************************************************************)
EXTENDS GoMaps, FiniteSets

CONSTANTS
  Conns,        \* connections that peers may open
  IPOf,         \* connection -> remote IP
  Callers,      \* goroutines that call Start, Stop and Shutdown
  MaxStarts,    \* bound: generations
  DefaultMax,   \* maxConnections of a new server
  Limits        \* values given to SetMaxConnections(PerIP)

IPs == {IPOf[c] : c \in Conns}
Gens == 1..MaxStarts

ASSUME ListenerAssumption ==
  /\ IsFiniteSet(Conns)
  /\ MaxStarts \in Nat
  /\ DefaultMax \in Nat /\ Limits \subseteq Nat

VARIABLES
  ln,                   \* the generation of s.ln, 0 for nil
  starts,               \* generations begun
  listening,            \* generations whose listener has not been closed
  acc,                  \* generation -> "off", "accept", "admit", "backoff"
  loops,                \* generations whose second loop runs
  conns,                \* s.conns, a partial function connection -> IP
  connectionsByIP,      \* s.connectionsByIP, IP -> count, partial
  maxConnections,
  maxConnectionsPerIP,
  wg,                   \* the counter of s.wg
  stage,                \* connection -> how far it has come
  home,                 \* connection -> generation of its listener, or 0
  sockOpen,             \* connection -> not closed by this side
  ctl,                  \* caller -> where its Stop or Shutdown is
  myLn, myConns         \* caller -> locals of Stop, reset after their last use

runVars == <<ln, starts, listening, acc, loops>>
slotVars == <<conns, connectionsByIP>>
limitVars == <<maxConnections, maxConnectionsPerIP>>
connVars == <<stage, home, sockOpen>>
localVars == <<myLn, myConns>>
listenerVars == <<runVars, slotVars, limitVars, wg, connVars, ctl, localVars>>

ListenerTypeOK ==
  /\ ln \in 0..MaxStarts /\ starts \in 0..MaxStarts
  /\ listening \subseteq Gens /\ loops \subseteq Gens
  /\ acc \in [Gens -> {"off", "accept", "admit", "backoff"}]
  /\ IsPartialFcn(conns, Conns, IPs)
  /\ IsPartialFcn(connectionsByIP, IPs, Nat)
  /\ maxConnections \in Nat /\ maxConnectionsPerIP \in Nat
  /\ wg \in Nat
  /\ stage \in [Conns -> {"none", "backlog", "accepted", "serving",
                          "released", "gone"}]
  /\ home \in [Conns -> 0..MaxStarts]
  /\ sockOpen \in [Conns -> BOOLEAN]
  /\ ctl \in [Callers -> {"idle", "close", "wait"}]
  /\ myLn \in [Callers -> 0..MaxStarts]
  /\ myConns \in [Callers -> SUBSET Conns]

ListenerInit ==
  /\ ln = 0 /\ starts = 0 /\ listening = {} /\ loops = {}
  /\ acc = [g \in Gens |-> "off"]
  /\ conns = EmptyFcn /\ connectionsByIP = EmptyFcn
  /\ maxConnections = DefaultMax /\ maxConnectionsPerIP = 0
  /\ wg = 0
  /\ stage = [c \in Conns |-> "none"]
  /\ home = [c \in Conns |-> 0]
  /\ sockOpen = [c \in Conns |-> TRUE]
  /\ ctl = [u \in Callers |-> "idle"]
  /\ myLn = [u \in Callers |-> 0]
  /\ myConns = [u \in Callers |-> {}]

---------------------------------------------------------------------------
(* Configuration.                                                          *)

configRest == <<runVars, slotVars, wg, connVars, ctl, localVars>>

\* The limits may only be changed while there is no listener.
Configurable == ln = 0

SetMaxConnections(limit) ==
  /\ Configurable
  /\ maxConnections' = limit
  /\ UNCHANGED <<configRest, maxConnectionsPerIP>>

SetMaxConnectionsPerIP(limit) ==
  /\ Configurable
  /\ maxConnectionsPerIP' = limit
  /\ UNCHANGED <<configRest, maxConnections>>

SetLimits ==
  \E l \in Limits : SetMaxConnections(l) \/ SetMaxConnectionsPerIP(l)

---------------------------------------------------------------------------
(* Start.                                                                  *)

\* listen succeeds; loop says whether there is a second goroutine.
\* A Start that finds a listener, or whose listen fails, changes nothing.
StartBinds(u, loop) ==
  /\ ctl[u] = "idle"
  /\ ln = 0
  /\ starts < MaxStarts
  /\ starts' = starts + 1
  /\ ln' = starts + 1
  /\ listening' = listening \cup {starts + 1}
  /\ acc' = [acc EXCEPT ![starts + 1] = "accept"]
  /\ loops' = IF loop THEN loops \cup {starts + 1} ELSE loops
  /\ wg' = wg + (IF loop THEN 2 ELSE 1)
  /\ UNCHANGED <<slotVars, limitVars, connVars, ctl, localVars>>

---------------------------------------------------------------------------
(* The network and acceptLoop.                                             *)

Stage(c, from, to) == stage[c] = from /\ stage' = [stage EXCEPT ![c] = to]

acceptRest == <<ln, starts, listening, loops, limitVars, ctl, localVars>>

\* A peer connects to an open listener.
Dial(c, g) ==
  /\ Stage(c, "none", "backlog")
  /\ g \in listening
  /\ home' = [home EXCEPT ![c] = g]
  /\ UNCHANGED <<acceptRest, acc, slotVars, wg, sockOpen>>

AcceptGoto(g, from, to) == acc[g] = from /\ acc' = [acc EXCEPT ![g] = to]

Accept(g, c) ==
  /\ AcceptGoto(g, "accept", "admit")
  /\ g \in listening /\ home[c] = g
  /\ Stage(c, "backlog", "accepted")
  /\ UNCHANGED <<acceptRest, slotVars, wg, home, sockOpen>>

\* ln.Accept returns net.ErrClosed.
AcceptClosed(g) ==
  /\ AcceptGoto(g, "accept", "off") /\ wg' = wg - 1
  /\ g \notin listening
  /\ UNCHANGED <<acceptRest, slotVars, connVars>>

\* ln.Accept returns any other error.
AcceptFails(g) ==
  /\ \/ ln # g /\ AcceptGoto(g, "accept", "off") /\ wg' = wg - 1
     \/ ln = g /\ AcceptGoto(g, "accept", "backoff") /\ UNCHANGED wg
  /\ UNCHANGED <<acceptRest, slotVars, connVars>>

\* The select that waits for the retry timer or for done.
BackoffEnds(g) ==
  /\ \/ AcceptGoto(g, "backoff", "accept") /\ UNCHANGED wg
     \/ ln # g /\ AcceptGoto(g, "backoff", "off") /\ wg' = wg - 1
  /\ UNCHANGED <<acceptRest, slotVars, connVars>>

CountOf(ip) == IF ip \in DOMAIN connectionsByIP THEN connectionsByIP[ip] ELSE 0

AtLimit(c) ==
  \/ maxConnections > 0 /\ Cardinality(DOMAIN conns) >= maxConnections
  \/ maxConnectionsPerIP > 0 /\ CountOf(IPOf[c]) >= maxConnectionsPerIP

\* The decision without a second look at s.ln.
RefusedAtLimitOnly(g, c) == AtLimit(c)

\* Stopped since Accept returned, or over a limit.
Refused(g, c) == ln # g \/ AtLimit(c)

Refuse(g, c) ==
  /\ AcceptGoto(g, "admit", "accept")
  /\ home[c] = g /\ Stage(c, "accepted", "gone")
  /\ Refused(g, c)
  /\ sockOpen' = [sockOpen EXCEPT ![c] = FALSE]
  /\ UNCHANGED <<acceptRest, slotVars, wg, home>>

\* wg.Add(1) left to the handler goroutine.
AddHandlerLate == UNCHANGED wg

\* wg.Add(1) for the handler, still under mu.
AddHandler == wg' = wg + 1

Admit(g, c) ==
  /\ AcceptGoto(g, "admit", "accept")
  /\ home[c] = g /\ Stage(c, "accepted", "serving")
  /\ ~Refused(g, c)
  /\ conns' = With(conns, c, IPOf[c])
  /\ connectionsByIP' = With(connectionsByIP, IPOf[c], CountOf(IPOf[c]) + 1)
  /\ AddHandler
  /\ UNCHANGED <<acceptRest, home, sockOpen>>

\* The steps of the accept loop that start no handler and meet no error.
AcceptStep(g) ==
  \/ \E c \in Conns : Accept(g, c) \/ Refuse(g, c)
  \/ AcceptClosed(g) \/ BackoffEnds(g)

\* The second loop of a generation ends when done is closed.
LoopEnds(g) ==
  /\ g \in loops /\ ln # g
  /\ loops' = loops \ {g}
  /\ wg' = wg - 1
  /\ UNCHANGED <<ln, starts, listening, acc, slotVars, limitVars, connVars,
                 ctl, localVars>>

---------------------------------------------------------------------------
(* The end of a handler.                                                   *)

\* Counting down without dropping the entry of the last connection.
CountedDownToZero(ip) == With(connectionsByIP, ip, CountOf(ip) - 1)

\* s.connectionsByIP after one connection less from ip.
CountedDown(ip) ==
  IF CountOf(ip) <= 1 THEN Without(connectionsByIP, ip)
  ELSE With(connectionsByIP, ip, CountOf(ip) - 1)

\* The deferred function gives the slot back, unless Stop already has.
Release(c) ==
  /\ Stage(c, "serving", "released")
  /\ IF c \in DOMAIN conns
     THEN /\ conns' = Without(conns, c)
          /\ connectionsByIP' = CountedDown(conns[c])
     ELSE UNCHANGED slotVars
  /\ UNCHANGED <<runVars, limitVars, wg, home, sockOpen, ctl, localVars>>

\* Close() forgotten.
CloseSocketsNot(cs) == UNCHANGED sockOpen

CloseSockets(cs) == sockOpen' = [c \in Conns |-> sockOpen[c] /\ c \notin cs]

\* The handler of c closes the connections cs, and wg.Done().
HandlerDone(c, cs) ==
  /\ Stage(c, "released", "gone")
  /\ CloseSockets(cs)
  /\ wg' = wg - 1
  /\ UNCHANGED <<runVars, slotVars, limitVars, home, ctl, localVars>>

---------------------------------------------------------------------------
(* Stop and Shutdown.                                                      *)

\* Caller u is at step from of its operation and goes on to step to.
Ctl(u, from, to) == ctl[u] = from /\ ctl' = [ctl EXCEPT ![u] = to]

\* A Stop that leaves the connections registered.
SlotsAfterStopKept == UNCHANGED slotVars

SlotsAfterStop == conns' = EmptyFcn /\ connectionsByIP' = EmptyFcn

\* Under mu: forget the listener, close done, take every connection.
StopDetach(u) ==
  /\ Ctl(u, "idle", "close")
  /\ ln' = 0 /\ myLn' = [myLn EXCEPT ![u] = ln]
  /\ SlotsAfterStop /\ myConns' = [myConns EXCEPT ![u] = DOMAIN conns]
  /\ UNCHANGED <<starts, listening, acc, loops, limitVars, wg, connVars>>

\* The connections nobody has accepted from the listener of generation g.
Backlog(g) == {c \in Conns : stage[c] = "backlog" /\ home[c] = g}

\* ln.Close(), by which connections in the backlog are reset, and conn.Close()
\* for the connections taken; then Stop returns and Shutdown goes on to wait.
StopClose(u) ==
  /\ Ctl(u, "close", "idle") \/ Ctl(u, "close", "wait")
  /\ listening' = listening \ {myLn[u]}
  /\ stage' = [c \in Conns |-> IF c \in Backlog(myLn[u]) THEN "gone"
                               ELSE stage[c]]
  /\ CloseSockets(myConns[u] \cup Backlog(myLn[u]))
  /\ myLn' = [myLn EXCEPT ![u] = 0]
  /\ myConns' = [myConns EXCEPT ![u] = {}]
  /\ UNCHANGED <<ln, starts, acc, loops, slotVars, limitVars, wg, home>>

waitRest == <<runVars, slotVars, limitVars, wg, connVars, localVars>>

\* waitGroupContext returns nil once the counter of wg is zero.
ShutdownReturns(u) ==
  /\ Ctl(u, "wait", "idle")
  /\ wg = 0
  /\ UNCHANGED waitRest

\* waitGroupContext returns the error of an expired context.
ShutdownExpires(u) ==
  /\ Ctl(u, "wait", "idle")
  /\ UNCHANGED waitRest

---------------------------------------------------------------------------
(* Properties.                                                             *)

OneCaller == \A u, v \in Callers : u = v

ConnsOf(ip) == {c \in DOMAIN conns : conns[c] = ip}

\* The per-IP counters are exactly the connections counted: an address
\* without connections has no counter, whatever the order in which handlers
\* give their slots back and Stop takes them away (tcps.go:224-225, 251-252,
\* 295-303, and the same code in the two sides of the caster).
CountersExact ==
  /\ DOMAIN connectionsByIP = {conns[c] : c \in DOMAIN conns}
  /\ \A ip \in DOMAIN connectionsByIP :
       connectionsByIP[ip] = Cardinality(ConnsOf(ip))

\* The limits hold at every moment, across restarts and changes of the limits
\* (tcps.go:57-85, 213-223).
LimitsHold ==
  /\ maxConnections > 0 => Cardinality(DOMAIN conns) <= maxConnections
  /\ maxConnectionsPerIP > 0 =>
       \A ip \in IPs : Cardinality(ConnsOf(ip)) <= maxConnectionsPerIP

\* A slot is only ever held by a connection that the running listener
\* accepted and whose handler has not given it back: an accept that races
\* Stop and a new Start is not counted against the new run (tcps.go:207-212).
NoStaleAdmission ==
  \A c \in DOMAIN conns : ln # 0 /\ home[c] = ln /\ stage[c] = "serving"

\* s.conns and its counters are exactly the connections being served, within
\* the limits.
SlotsExact == CountersExact /\ LimitsHold /\ NoStaleAdmission

Handlers == {c \in Conns : stage[c] \in {"serving", "released"}}

\* "Shutdown stops the listener and waits for accepted connections and the
\* accept loop to exit" (tcps.go:265-266): when it returns without an error,
\* no handler and no loop of any generation is left.
ShutdownDrains ==
  [][\A u \in Callers :
       ShutdownReturns(u) =>
         /\ Handlers = {}
         /\ \A g \in Gens : acc[g] = "off" /\ g \notin loops]_listenerVars

\* A Shutdown with a context that does not expire returns: every handler and
\* loop, an admission that races it included, is made to end
\* (tcps.go:207-212, 240-276).
ShutdownCompletes ==
  OneCaller => []<>(\A u \in Callers : ctl[u] # "wait")
============================================================================
