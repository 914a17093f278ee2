---------------------------- MODULE NtripCaster -----------------------------
(***************************************************************************)
(* The embedded caster of ntrip/ntrip.go: InitNtripCasterWithConfig makes  *)
(* a pair of a source side and a client side, starts both and publishes    *)
(* the pair in package variables; StopNtripCaster takes it back.  The      *)
(* application may call both from several goroutines, and may stop, start  *)
(* and link the sides it has been given by itself.                         *)
(*                                                                         *)
(* A side is reduced to whether it runs (ln # nil) and whether it holds    *)
(* its port: Stop forgets the listener in one critical section and closes  *)
(* it later (module Listener).  An action is one critical section of one   *)
(* of the mutexes, or one call that binds or frees a port.                 *)
(***************************************************************************)
EXTENDS Naturals

CONSTANTS
  Apps,       \* goroutines of the application
  Owners,     \* those of them that stop, start and link sides themselves
  MaxInits,   \* bound: pairs made by Init
  Configs     \* the ports of a valid config: side -> port

Pairs == 1..MaxInits
Sides == {"source", "client"}
Ports == UNION {{f[s] : s \in Sides} : f \in Configs}
Nobody == "nobody"

\* The source side or the client side of pair p.
Side(p, s) == <<p, s>>
AllSides == Pairs \X Sides
NoSide == <<0, "none">>

\* The step at which an Init starts a side.
Binding == [source |-> "bindSource", client |-> "bindClient"]

ASSUME CasterAssumption ==
  /\ MaxInits \in Nat
  /\ \A f \in Configs : DOMAIN f = Sides
  /\ Nobody \notin Apps /\ Owners \subseteq Apps

VARIABLES
  published,  \* ntripCasterServer and ntripCasterClient, set together, or 0
  initMu,     \* the holder of casterInitMu
  port,       \* side -> the port it is made for
  up,         \* side -> whether it runs, and who has started or stopped it
  bound,      \* sides whose listener is open
  forward,    \* pair -> ntripCasterClient of its source side, or 0
  back,       \* pair -> casterServer of its client side, or 0
  outcome,    \* pair -> what its Init has come to
  pc,         \* goroutine -> where its call is
  mine,       \* goroutine -> the pair its Init makes, 0 in StopNtripCaster
  old,        \* goroutine -> locals of stopNtripCaster
  closing,    \* goroutine -> the listener its Stop has still to close
  link        \* goroutine -> locals of SetNtripCasterClient

sideVars == <<port, up, bound, closing>>
linkVars == <<forward, back, link>>
callVars == <<published, initMu, outcome, mine, old>>
vars == <<sideVars, linkVars, callVars, pc>>

Runs(l) == up[l] \in {"init", "app"}

Steps == {"idle", "lock", "take", "source", "client", "stopped",
          "bindSource", "bindClient", "undo", "publish", "return", "clear", "set"}

TypeOK ==
  /\ published \in 0..MaxInits /\ initMu \in Apps \cup {Nobody}
  /\ port \in [AllSides -> Ports \cup {0}]
  /\ up \in [AllSides -> {"down", "stopped", "init", "app"}]
  /\ bound \subseteq AllSides /\ {l \in AllSides : Runs(l)} \subseteq bound
  /\ \A k, l \in bound : port[k] = port[l] => k = l
  /\ forward \in [Pairs -> 0..MaxInits] /\ back \in [Pairs -> 0..MaxInits]
  /\ outcome \in [Pairs -> {"none", "made", "failed", "ready"}]
  /\ pc \in [Apps -> Steps]
  /\ mine \in [Apps -> 0..MaxInits] /\ old \in [Apps -> 0..MaxInits]
  /\ closing \in [Apps -> AllSides \cup {NoSide}]
  /\ link \in [Apps -> [server : 0..MaxInits, previous : 0..MaxInits,
                        client : 0..MaxInits]]

NoLink == [server |-> 0, previous |-> 0, client |-> 0]

Init ==
  /\ published = 0 /\ initMu = Nobody
  /\ port = [l \in AllSides |-> 0]
  /\ up = [l \in AllSides |-> "down"] /\ bound = {}
  /\ forward = [p \in Pairs |-> 0] /\ back = [p \in Pairs |-> 0]
  /\ outcome = [p \in Pairs |-> "none"]
  /\ pc = [a \in Apps |-> "idle"]
  /\ mine = [a \in Apps |-> 0] /\ old = [a \in Apps |-> 0]
  /\ closing = [a \in Apps |-> NoSide]
  /\ link = [a \in Apps |-> NoLink]

\* Goroutine a is at step from, done with any Stop before it, and goes to to.
Goto(a, from, to) ==
  pc[a] = from /\ closing[a] = NoSide /\ pc' = [pc EXCEPT ![a] = to]

---------------------------------------------------------------------------
(* Start and Stop of a side.                                               *)

Detached(l, how) == IF Runs(l) THEN [up EXCEPT ![l] = how] ELSE up

\* Stop, under mu.  One that finds no listener has nothing to close.
StopSide(a, l, how) ==
  /\ closing[a] = NoSide
  /\ up' = Detached(l, how)
  /\ closing' = [closing EXCEPT ![a] = IF Runs(l) THEN l ELSE NoSide]
  /\ UNCHANGED <<port, bound>>

\* ln.Close(), before Stop returns.
CloseSide(a) ==
  /\ closing[a] # NoSide
  /\ bound' = bound \ {closing[a]}
  /\ closing' = [closing EXCEPT ![a] = NoSide]
  /\ UNCHANGED <<port, up, linkVars, callVars, pc>>

PortHeld(l) == \E k \in bound : port[k] = port[l]

\* Start finds its port free.
StartSide(l, who) ==
  /\ ~Runs(l) /\ ~PortHeld(l)
  /\ up' = [up EXCEPT ![l] = who]
  /\ bound' = bound \cup {l}
  /\ UNCHANGED <<port, closing>>

---------------------------------------------------------------------------
(* InitNtripCasterWithConfig and StopNtripCaster.                          *)

\* A config that is valid, and a new pair, which its Init links before
\* anybody else knows it.  An invalid config returns and changes nothing.
InitBegins(a, p, f) ==
  /\ Goto(a, "idle", "lock")
  /\ outcome[p] = "none" /\ \A q \in Pairs : outcome[q] = "none" => p <= q
  /\ outcome' = [outcome EXCEPT ![p] = "made"]
  /\ mine' = [mine EXCEPT ![a] = p]
  /\ port' = [l \in AllSides |-> IF l[1] = p THEN f[l[2]] ELSE port[l]]
  /\ forward' = [forward EXCEPT ![p] = p]
  /\ back' = [back EXCEPT ![p] = p]
  /\ UNCHANGED <<up, bound, closing, link, published, initMu, old>>

StopBegins(a) ==
  /\ Goto(a, "idle", "lock")
  /\ UNCHANGED <<sideVars, linkVars, callVars>>

\* Without casterInitMu.
InitMuFreeAlways == TRUE

InitMuFree == initMu = Nobody

Lock(a) ==
  /\ InitMuFree
  /\ Goto(a, "lock", "take")
  /\ initMu' = a
  /\ UNCHANGED <<sideVars, linkVars, published, outcome, mine, old>>

\* stopNtripCaster, under casterMu.
Take(a) ==
  /\ Goto(a, "take", IF published = 0 THEN "stopped" ELSE "source")
  /\ old' = [old EXCEPT ![a] = published]
  /\ published' = 0
  /\ UNCHANGED <<sideVars, linkVars, initMu, outcome, mine>>

\* The client side is left running.
StopOrderShort(s) == "stopped"

\* What follows the Stop of side s.
StopOrder(s) == IF s = "source" THEN "client" ELSE "stopped"

\* server.Stop(), then client.Stop()
StopOld(a, s) ==
  /\ Goto(a, s, StopOrder(s))
  /\ StopSide(a, Side(old[a], s), "down")
  /\ UNCHANGED <<linkVars, callVars>>

\* stopNtripCaster returns.
Stopped(a) ==
  /\ Goto(a, "stopped", IF mine[a] = 0 THEN "return" ELSE Binding["source"])
  /\ old' = [old EXCEPT ![a] = 0]
  /\ UNCHANGED <<sideVars, linkVars, published, initMu, outcome, mine>>

\* server.Start(), then client.Start()
InitStarts(a, s) ==
  /\ Goto(a, Binding[s], IF s = "source" THEN Binding["client"] ELSE "publish")
  /\ StartSide(Side(mine[a], s), "init")
  /\ UNCHANGED <<linkVars, callVars>>

\* An error of client.Start that is returned at once.
AfterFailedStartAtOnce(s) == "return"

AfterFailedStart(s) == IF s = "client" THEN "undo" ELSE "return"

\* One of them fails: the port is held, here or by another program.
InitStartFails(a, s) ==
  /\ Goto(a, Binding[s], AfterFailedStart(s))
  /\ outcome' = [outcome EXCEPT ![mine[a]] = "failed"]
  /\ UNCHANGED <<sideVars, linkVars, published, initMu, mine, old>>

\* server.Stop()
Undo(a) ==
  /\ Goto(a, "undo", "return")
  /\ StopSide(a, Side(mine[a], "source"), "down")
  /\ UNCHANGED <<linkVars, callVars>>

\* Under casterMu.
Publish(a) ==
  /\ Goto(a, "publish", "return")
  /\ published' = mine[a]
  /\ outcome' = [outcome EXCEPT ![mine[a]] = "ready"]
  /\ UNCHANGED <<sideVars, linkVars, initMu, mine, old>>

\* casterInitMu is not unlocked after an error.
UnlockedOnSuccess(a) ==
  IF mine[a] # 0 /\ outcome[mine[a]] = "failed" THEN a ELSE Nobody

\* The deferred casterInitMu.Unlock().
Unlocked(a) == Nobody

Return(a) ==
  /\ Goto(a, "return", "idle")
  /\ initMu' = Unlocked(a)
  /\ mine' = [mine EXCEPT ![a] = 0]
  /\ UNCHANGED <<sideVars, linkVars, published, outcome, old>>

Call(a) ==
  \/ Lock(a) \/ Take(a) \/ Stopped(a)
  \/ \E s \in Sides : StopOld(a, s) \/ InitStarts(a, s) \/ InitStartFails(a, s)
  \/ Undo(a) \/ Publish(a) \/ Return(a)

---------------------------------------------------------------------------
(* What the application does with the sides it has got, also from an Init  *)
(* that failed.                                                            *)

Given(p) ==
  outcome[p] = "ready" \/ (outcome[p] = "failed" /\ \A a \in Apps : mine[a] # p)

AppStop(a, l) ==
  /\ Given(l[1]) /\ pc[a] = "idle"
  /\ StopSide(a, l, "stopped")
  /\ UNCHANGED <<linkVars, callVars, pc>>

AppStart(a, l) ==
  /\ Given(l[1]) /\ pc[a] = "idle" /\ closing[a] = NoSide
  /\ StartSide(l, "app")
  /\ UNCHANGED <<linkVars, callVars, pc>>

\* SetNtripCasterClient of the source side of p, under its mu; 0 is nil.
LinkBegins(a, p, q) ==
  /\ Given(p) /\ (q # 0 => Given(q))
  /\ Goto(a, "idle", "clear")
  /\ forward' = [forward EXCEPT ![p] = q]
  /\ link' = [link EXCEPT ![a] =
                [server |-> p, previous |-> forward[p], client |-> q]]
  /\ UNCHANGED <<back, sideVars, callVars>>

\* The previous client is not told.
ClearedNot(k) == back

\* previous.clearCasterServer(s)
Cleared(k) ==
  IF k.previous # 0 /\ k.previous # k.client /\ back[k.previous] = k.server
  THEN [back EXCEPT ![k.previous] = 0] ELSE back

LinkClears(a) ==
  /\ Goto(a, "clear", "set")
  /\ back' = Cleared(link[a])
  /\ UNCHANGED <<forward, link, sideVars, callVars>>

\* client.setCasterServer(s)
LinkSets(a) ==
  /\ Goto(a, "set", "idle")
  /\ back' = IF link[a].client = 0 THEN back
             ELSE [back EXCEPT ![link[a].client] = link[a].server]
  /\ link' = [link EXCEPT ![a] = NoLink]
  /\ UNCHANGED <<forward, sideVars, callVars>>

---------------------------------------------------------------------------
OwnerBegins(a) ==
  \/ \E l \in AllSides : AppStop(a, l) \/ AppStart(a, l)
  \/ \E p \in Pairs, q \in 0..MaxInits : LinkBegins(a, p, q)

Next ==
  \/ \E a \in Owners : OwnerBegins(a)
  \/ \E a \in Apps :
       \/ \E p \in Pairs, f \in Configs : InitBegins(a, p, f)
       \/ StopBegins(a) \/ Call(a) \/ CloseSide(a)
       \/ LinkClears(a) \/ LinkSets(a)

Spec == Init /\ [][Next]_vars

\* A call that has begun goes on, and sync.Mutex lets no waiter starve.
\* Nothing makes the application begin one.
FairSpec ==
  Spec /\ \A a \in Apps :
            /\ SF_vars(Call(a))
            /\ WF_vars(CloseSide(a)) /\ WF_vars(LinkClears(a) \/ LinkSets(a))

---------------------------------------------------------------------------
(* Properties.                                                             *)

\* The application has started side l itself, or is about to close it.
HeldByApp(l) ==
  up[l] = "app" \/ \E a \in Apps : pc[a] = "idle" /\ closing[a] = l

\* "If either listener fails, any partially started listener is stopped
\* before the function returns" (ntrip.go:102-103): once an Init that failed
\* has returned, neither of its sides holds a port, unless the application
\* has started it since (ntrip.go:201-207).
FailedInitLeavesNothing ==
  \A l \in bound : outcome[l[1]] = "failed" /\ Given(l[1]) => HeldByApp(l)

\* Whatever Inits and StopNtripCasters run at the same time, no listener that
\* an Init has started is left running without being the published one, where
\* the next StopNtripCaster finds it; and the published pair runs on both
\* sides, unless the application has stopped one itself
\* (ntrip.go:197-212, 233-253).
OnlyPublishedRuns ==
  /\ initMu = Nobody => \A l \in AllSides : up[l] = "init" => l[1] = published
  /\ published # 0 => \A s \in Sides : up[Side(published, s)] # "down"

\* An Init that replaces a caster on the same ports finds these free: when it
\* comes to Start, a port can only be held by a side that the application has
\* started, or is still stopping, itself (ntrip.go:199, 247-252).
PredecessorIsGone ==
  \A a \in Apps : \A l \in bound :
    (\E s \in Sides : pc[a] = Binding[s]) => l[1] = mine[a] \/ HeldByApp(l)

Linking == \E a \in Apps : pc[a] \in {"clear", "set"}

\* A client side that names a source side, whose table it shows to
\* subscribers, is the one that this side sends its data to; with one
\* goroutine that links (ntrip_caster_server.go:164-176).
BackLinkTrue ==
  (\A a, b \in Owners : a = b) /\ ~Linking =>
    \A q \in Pairs : back[q] # 0 => forward[back[q]] = q

\* Every call of Init, StopNtripCaster and of an operation of a side returns,
\* and casterInitMu is free again (ntrip.go:197-198, 233-237).
CallsReturn == \A a \in Apps : []<>(pc[a] = "idle" /\ closing[a] = NoSide)
============================================================================
