------------------------- MODULE NtripCasterProofs --------------------------
(***************************************************************************)
(* The embedded caster for any number of goroutines, pairs and configs:    *)
(* what Init and StopNtripCaster leave running, and the links between the  *)
(* two sides.                                                              *)
(***************************************************************************)
EXTENDS NtripCaster, TLAPS

\* A side is a pair and a kind; NoSide is none.
LEMMA SideFacts ==
  /\ NoSide \notin AllSides /\ 0 \notin Pairs
  /\ \A p \in Pairs, s \in Sides :
       Side(p, s) \in AllSides /\ Side(p, s)[1] = p /\ Side(p, s)[2] = s
  /\ \A l \in AllSides : l[1] \in Pairs /\ l[2] \in Sides /\ l = Side(l[1], l[2])
  BY CasterAssumption DEF AllSides, NoSide, Side, Pairs, Sides

---------------------------------------------------------------------------
(* The inductive invariant.  TypeOK comes in four parts.                   *)

CallTypes ==
  /\ published \in 0..MaxInits /\ initMu \in Apps \cup {Nobody}
  /\ outcome \in [Pairs -> {"none", "made", "failed", "ready"}]
  /\ pc \in [Apps -> Steps]
  /\ mine \in [Apps -> 0..MaxInits] /\ old \in [Apps -> 0..MaxInits]

SideTypes ==
  /\ port \in [AllSides -> Ports \cup {0}]
  /\ up \in [AllSides -> {"down", "stopped", "init", "app"}]
  /\ bound \subseteq AllSides
  /\ closing \in [Apps -> AllSides \cup {NoSide}]

LinkTypes ==
  /\ forward \in [Pairs -> 0..MaxInits] /\ back \in [Pairs -> 0..MaxInits]
  /\ link \in [Apps -> [server : 0..MaxInits, previous : 0..MaxInits,
                        client : 0..MaxInits]]

OnePerPort ==
  /\ {l \in AllSides : Runs(l)} \subseteq bound
  /\ \A k, l \in bound : port[k] = port[l] => k = l

\* The steps under casterInitMu.
Locked == {"take", "source", "client", "stopped", "bindSource", "bindClient",
           "undo", "publish", "return"}

Mutex == \A a \in Apps : pc[a] \in Locked <=> initMu = a

\* A pair belongs to the Init that makes it, until it returns.
Calls ==
  \A a \in Apps :
    /\ mine[a] # 0 => pc[a] \in Locked \cup {"lock"}
    /\ pc[a] \in {"bindSource", "bindClient", "undo", "publish"} => mine[a] # 0
    /\ mine[a] # 0 /\ pc[a] \notin {"undo", "return"} => outcome[mine[a]] = "made"
    /\ pc[a] = "undo" => outcome[mine[a]] = "failed"
    /\ mine[a] # 0 /\ pc[a] = "return" => outcome[mine[a]] \in {"failed", "ready"}
    /\ \A b \in Apps : mine[a] # 0 /\ mine[a] = mine[b] => a = b

\* The pair that stopNtripCaster has taken is no longer published.
Taken ==
  /\ \A a \in Apps :
       /\ old[a] # 0 =>
            pc[a] \in {"source", "client", "stopped"} /\ outcome[old[a]] = "ready"
       /\ pc[a] \in {"source", "client"} => old[a] # 0
       /\ pc[a] \in Locked \ {"take", "return"} => published = 0
  /\ published # 0 => outcome[published] = "ready"

\* Nothing is known of a pair that has not been made.
Fresh ==
  \A l \in AllSides : outcome[l[1]] = "none" => up[l] = "down" /\ l \notin bound

\* A port is held by a side that runs, or by one whose Stop is under way.
Held ==
  /\ \A l \in bound : Runs(l) \/ \E a \in Apps : closing[a] = l
  /\ \A a \in Apps : closing[a] # NoSide =>
       /\ closing[a] \in bound /\ ~Runs(closing[a])
       /\ \A b \in Apps : closing[a] = closing[b] => a = b

\* A Stop is one of the application's, or part of a call.
Closing ==
  \A a \in Apps : closing[a] # NoSide =>
    \/ pc[a] = "idle"
    \/ pc[a] \in {"client", "stopped"} /\ closing[a][1] = old[a] /\ old[a] # 0
    \/ pc[a] = "return" /\ closing[a][1] = mine[a] /\ mine[a] # 0

\* The call at this step is responsible for side l.
Answers(a, l) ==
  \/ old[a] = l[1] /\ pc[a] = "source"
  \/ old[a] = l[1] /\ pc[a] = "client" /\ l[2] = "client"
  \/ mine[a] = l[1] /\ pc[a] \in {"bindClient", "undo"} /\ l[2] = "source"
  \/ mine[a] = l[1] /\ pc[a] = "publish"

\* A side that an Init has started is published, or in the hands of the call
\* that holds casterInitMu.
Started ==
  /\ \A l \in AllSides :
       up[l] = "init" => l[1] = published \/ \E a \in Apps : Answers(a, l)
  /\ \A a \in Apps :
       /\ pc[a] \in {"bindClient", "publish"} => up[Side(mine[a], "source")] = "init"
       /\ pc[a] = "publish" => up[Side(mine[a], "client")] = "init"
  /\ published # 0 => \A s \in Sides : up[Side(published, s)] # "down"

\* With one goroutine that links, the back links are true but for the one
\* that its SetNtripCasterClient is about to clear.
Linked ==
  (\A a, b \in Owners : a = b) =>
    /\ \A q \in Pairs : back[q] # 0 =>
         /\ outcome[back[q]] # "none"
         /\ \/ forward[back[q]] = q
            \/ \E a \in Apps : /\ pc[a] = "clear" /\ back[q] = link[a].server
                               /\ q = link[a].previous
    /\ \A a \in Apps : pc[a] \in {"clear", "set"} =>
         /\ a \in Owners /\ link[a].server # 0
         /\ outcome[link[a].server] # "none"
         /\ forward[link[a].server] = link[a].client

---------------------------------------------------------------------------
(* Types.                                                                  *)

\* What a step does to the call of goroutine a.
LEMMA StepCallTypes == CallTypes /\ [Next]_vars => CallTypes'
<1> SUFFICES ASSUME CallTypes, [Next]_vars PROVE CallTypes'
  OBVIOUS
<1> USE DEF Steps
<1>1. CASE UNCHANGED <<callVars, pc>>
  BY <1>1 DEF callVars, CallTypes
<1>2. ASSUME NEW a \in Apps, NEW from, NEW to \in Steps, Goto(a, from, to),
             UNCHANGED callVars
      PROVE  CallTypes'
  BY <1>2 DEF callVars, CallTypes, Goto
<1>3. ASSUME NEW a \in Apps, NEW p \in Pairs, NEW f, InitBegins(a, p, f)
      PROVE  CallTypes'
  BY <1>3 DEF InitBegins, Goto, CallTypes, Pairs
<1>4. ASSUME NEW a \in Apps, Lock(a)
      PROVE  CallTypes'
  BY <1>4 DEF Lock, Goto, CallTypes
<1>5. ASSUME NEW a \in Apps, Take(a)
      PROVE  CallTypes'
  BY <1>5, CasterAssumption DEF Take, Goto, CallTypes
<1>6. ASSUME NEW a \in Apps, Stopped(a)
      PROVE  CallTypes'
  BY <1>6, CasterAssumption DEF Stopped, Goto, CallTypes, Binding
<1>7. ASSUME NEW a \in Apps, NEW s \in Sides, InitStartFails(a, s)
      PROVE  CallTypes'
  BY <1>7 DEF InitStartFails, Goto, CallTypes, AfterFailedStart
<1>8. ASSUME NEW a \in Apps, Publish(a)
      PROVE  CallTypes'
  BY <1>8 DEF Publish, Goto, CallTypes
<1>9. ASSUME NEW a \in Apps, Return(a)
      PROVE  CallTypes'
  BY <1>9, CasterAssumption DEF Return, Goto, CallTypes, Unlocked
<1>10. ASSUME NEW a \in Apps, NEW s \in Sides, StopOld(a, s) \/ InitStarts(a, s)
       PROVE  CallTypes'
  BY <1>2, <1>10 DEF StopOld, InitStarts, StopOrder, Binding
<1>11. ASSUME NEW a \in Apps, Undo(a) \/ StopBegins(a) \/ LinkClears(a) \/ LinkSets(a)
       PROVE  CallTypes'
  BY <1>2, <1>11 DEF Undo, StopBegins, LinkClears, LinkSets
<1>12. ASSUME NEW a \in Apps, CloseSide(a)
       PROVE  CallTypes'
  BY <1>1, <1>12 DEF CloseSide
<1>13. ASSUME NEW a \in Owners, OwnerBegins(a)
       PROVE  CallTypes'
  <2>1. a \in Apps
    BY CasterAssumption
  <2> QED BY <1>1, <1>2, <1>13, <2>1 DEF OwnerBegins, AppStop, AppStart, LinkBegins
<1> QED
  BY <1>1, <1>3, <1>4, <1>5, <1>6, <1>7, <1>8, <1>9, <1>10, <1>11, <1>12, <1>13
  DEF Next, Call, vars

\* The sides are made by InitBegins, and stopped, closed and started one by
\* one.
LEMMA SideSteps ==
  ASSUME [Next]_vars
  PROVE  \/ UNCHANGED sideVars
         \/ \E a \in Apps, p \in Pairs, f \in Configs : InitBegins(a, p, f)
         \/ \E a \in Apps : CloseSide(a)
         \/ \E a \in Apps :
              \/ \E s \in Sides : StopOld(a, s) \/ InitStarts(a, s)
              \/ Undo(a)
         \/ \E a \in Owners, l \in AllSides : AppStop(a, l) \/ AppStart(a, l)
  BY DEF Next, vars, OwnerBegins, LinkBegins, StopBegins, Call, Lock, Take,
         Stopped, InitStartFails, Publish, Return, LinkClears, LinkSets

\* A call stops the side of a pair it has got.
LEMMA OwnSides ==
  ASSUME Calls, Taken, CallTypes, NEW a \in Apps, NEW s \in Sides
  PROVE  /\ StopOld(a, s) => old[a] \in Pairs /\ Side(old[a], s) \in AllSides
         /\ InitStarts(a, s) => mine[a] \in Pairs /\ Side(mine[a], s) \in AllSides
         /\ Undo(a) => mine[a] \in Pairs /\ Side(mine[a], "source") \in AllSides
<1>1. ASSUME StopOld(a, s) PROVE old[a] \in Pairs
  <2>1. old[a] # 0
    BY <1>1 DEF StopOld, Goto, Taken, Sides
  <2> QED BY <2>1, CasterAssumption DEF CallTypes, Pairs
<1>2. ASSUME InitStarts(a, s) \/ Undo(a) PROVE mine[a] \in Pairs
  <2>1. mine[a] # 0
    BY <1>2 DEF InitStarts, Undo, Goto, Calls, Binding, Sides
  <2> QED BY <2>1, CasterAssumption DEF CallTypes, Pairs
<1>3. "source" \in Sides
  BY DEF Sides
<1> QED BY <1>1, <1>2, <1>3, SideFacts

\* Starting, stopping and closing keep the sides' types.
LEMMA StepSideTypes ==
  CallTypes /\ Calls /\ Taken /\ SideTypes /\ [Next]_vars => SideTypes'
<1> SUFFICES ASSUME CallTypes, Calls, Taken, SideTypes, [Next]_vars PROVE SideTypes'
  OBVIOUS
<1>1. CASE UNCHANGED sideVars
  BY <1>1 DEF sideVars, SideTypes
<1>2. ASSUME NEW a \in Apps, NEW p \in Pairs, NEW f \in Configs, InitBegins(a, p, f)
      PROVE  SideTypes'
  <2>1. \A l \in AllSides : f[l[2]] \in Ports
    BY SideFacts DEF Ports
  <2>2. /\ port' = [l \in AllSides |-> IF l[1] = p THEN f[l[2]] ELSE port[l]]
        /\ UNCHANGED <<up, bound, closing>>
    BY <1>2 DEF InitBegins
  <2> QED BY <2>1, <2>2 DEF SideTypes
<1>3. ASSUME NEW a \in Apps, CloseSide(a)
      PROVE  SideTypes'
  BY <1>3 DEF CloseSide, SideTypes
<1>4. ASSUME NEW a \in Apps, NEW l \in AllSides, NEW how \in {"down", "stopped"},
             StopSide(a, l, how)
      PROVE  SideTypes'
  BY <1>4 DEF StopSide, Detached, SideTypes
<1>5. ASSUME NEW l \in AllSides, NEW who \in {"init", "app"}, StartSide(l, who)
      PROVE  SideTypes'
  BY <1>5 DEF StartSide, SideTypes
<1>6. ASSUME NEW a \in Apps, NEW s \in Sides, StopOld(a, s) \/ InitStarts(a, s) \/ Undo(a)
      PROVE  SideTypes'
  BY <1>4, <1>5, <1>6, OwnSides DEF StopOld, InitStarts, Undo
<1>7. ASSUME NEW a \in Owners, NEW l \in AllSides, AppStop(a, l) \/ AppStart(a, l)
      PROVE  SideTypes'
  BY <1>4, <1>5, <1>7, CasterAssumption DEF AppStop, AppStart
<1>8. "source" \in Sides
  BY DEF Sides
<1> QED BY <1>1, <1>2, <1>3, <1>6, <1>7, <1>8, SideSteps

\* Linking keeps the links' types.
LEMMA StepLinkTypes == LinkTypes /\ [Next]_vars => LinkTypes'
<1> SUFFICES ASSUME LinkTypes, [Next]_vars PROVE LinkTypes'
  OBVIOUS
<1> USE CasterAssumption
<1>0. \A p \in Pairs : p \in 0..MaxInits
  BY DEF Pairs
<1>1. CASE UNCHANGED linkVars
  BY <1>1 DEF linkVars, LinkTypes
<1>2. ASSUME NEW a \in Apps, NEW p \in Pairs, NEW f, InitBegins(a, p, f)
      PROVE  LinkTypes'
  <2>1. /\ forward' = [forward EXCEPT ![p] = p] /\ back' = [back EXCEPT ![p] = p]
        /\ link' = link
    BY <1>2 DEF InitBegins
  <2> QED BY <1>0, <2>1 DEF LinkTypes
<1>3. ASSUME NEW a \in Apps, NEW p \in Pairs, NEW q \in 0..MaxInits, LinkBegins(a, p, q)
      PROVE  LinkTypes'
  <2>1. /\ forward' = [forward EXCEPT ![p] = q] /\ back' = back
        /\ link' = [link EXCEPT ![a] =
                      [server |-> p, previous |-> forward[p], client |-> q]]
    BY <1>3 DEF LinkBegins
  <2> QED BY <1>0, <2>1 DEF LinkTypes
<1>4. ASSUME NEW a \in Apps, LinkClears(a)
      PROVE  LinkTypes'
  <2>1. UNCHANGED <<forward, link>> /\ (back' = back \/ back' = [back EXCEPT ![link[a].previous] = 0])
    BY <1>4 DEF LinkClears, Cleared
  <2> QED BY <2>1 DEF LinkTypes
<1>5. ASSUME NEW a \in Apps, LinkSets(a)
      PROVE  LinkTypes'
  <2>1. /\ forward' = forward /\ link' = [link EXCEPT ![a] = NoLink]
        /\ \/ back' = back
           \/ back' = [back EXCEPT ![link[a].client] = link[a].server]
    BY <1>5 DEF LinkSets
  <2>2. NoLink \in [server : 0..MaxInits, previous : 0..MaxInits, client : 0..MaxInits]
    BY DEF NoLink
  <2>3. link[a].server \in 0..MaxInits
    BY DEF LinkTypes
  <2> QED BY <2>1, <2>2, <2>3 DEF LinkTypes
<1>6. ASSUME NEW a \in Owners, OwnerBegins(a)
      PROVE  LinkTypes'
  BY <1>1, <1>3, <1>6 DEF OwnerBegins, AppStop, AppStart
<1>7. ASSUME NEW a \in Apps, Call(a) \/ StopBegins(a) \/ CloseSide(a)
      PROVE  UNCHANGED linkVars
  BY <1>7
  DEF Call, Lock, Take, Stopped, StopOld, InitStarts, InitStartFails, Undo,
      Publish, Return, StopBegins, CloseSide
<1> QED BY <1>1, <1>2, <1>4, <1>5, <1>6, <1>7 DEF Next, vars

---------------------------------------------------------------------------
(* The calls.                                                              *)

\* A step that moves goroutine a and leaves the rest of its call alone.
Moves(a, from, to) ==
  /\ pc[a] = from /\ pc' = [pc EXCEPT ![a] = to]
  /\ UNCHANGED callVars

\* What each step does to the calls.
LEMMA CallSteps ==
  ASSUME [Next]_vars
  PROVE  \/ UNCHANGED <<callVars, pc>>
         \/ \E a \in Apps, p \in Pairs, f \in Configs : InitBegins(a, p, f)
         \/ \E a \in Apps :
              \/ Lock(a) \/ Take(a) \/ Stopped(a) \/ Publish(a) \/ Return(a)
              \/ \E s \in Sides : InitStartFails(a, s)
              \/ Moves(a, "idle", "lock") \/ Moves(a, "idle", "clear")
              \/ Moves(a, "clear", "set") \/ Moves(a, "set", "idle")
              \/ Moves(a, "source", "client") \/ Moves(a, "client", "stopped")
              \/ Moves(a, "bindSource", "bindClient")
              \/ Moves(a, "bindClient", "publish") \/ Moves(a, "undo", "return")
<1>1. ASSUME NEW a \in Owners, OwnerBegins(a)
      PROVE  UNCHANGED <<callVars, pc>> \/ Moves(a, "idle", "clear")
  BY <1>1 DEF OwnerBegins, AppStop, AppStart, LinkBegins, Goto, Moves
<1>2. ASSUME NEW a \in Apps, StopBegins(a) \/ LinkClears(a) \/ LinkSets(a) \/ Undo(a)
      PROVE  \/ Moves(a, "idle", "lock") \/ Moves(a, "clear", "set")
             \/ Moves(a, "set", "idle") \/ Moves(a, "undo", "return")
  BY <1>2 DEF StopBegins, LinkClears, LinkSets, Undo, Goto, Moves
<1>3. ASSUME NEW a \in Apps, NEW s \in Sides, StopOld(a, s) \/ InitStarts(a, s)
      PROVE  \/ Moves(a, "source", "client") \/ Moves(a, "client", "stopped")
             \/ Moves(a, "bindSource", "bindClient")
             \/ Moves(a, "bindClient", "publish")
  BY <1>3 DEF StopOld, InitStarts, StopOrder, Binding, Sides, Goto, Moves
<1>4. ASSUME NEW a \in Apps, CloseSide(a)
      PROVE  UNCHANGED <<callVars, pc>>
  BY <1>4 DEF CloseSide
<1> QED
  BY <1>1, <1>2, <1>3, <1>4, CasterAssumption DEF Next, Call, vars

\* A Start that fails ends the call, of the second side by way of undo.
LEMMA FailedStart ==
  ASSUME NEW a \in Apps, NEW s \in Sides, InitStartFails(a, s)
  PROVE  /\ UNCHANGED <<sideVars, linkVars, published, initMu, mine, old>>
         /\ outcome' = [outcome EXCEPT ![mine[a]] = "failed"]
         /\ closing[a] = NoSide
         /\ \/ pc[a] = "bindSource" /\ pc' = [pc EXCEPT ![a] = "return"]
            \/ pc[a] = "bindClient" /\ pc' = [pc EXCEPT ![a] = "undo"]
<1>1. /\ UNCHANGED <<sideVars, linkVars, published, initMu, mine, old>>
      /\ outcome' = [outcome EXCEPT ![mine[a]] = "failed"]
      /\ closing[a] = NoSide /\ pc[a] = Binding[s]
      /\ pc' = [pc EXCEPT ![a] = AfterFailedStart(s)]
  BY DEF InitStartFails, Goto
<1>2. /\ s = "source" => Binding[s] = "bindSource" /\ AfterFailedStart(s) = "return"
      /\ s = "client" => Binding[s] = "bindClient" /\ AfterFailedStart(s) = "undo"
  BY DEF Binding, AfterFailedStart
<1> HIDE DEF Binding, AfterFailedStart
<1> QED BY <1>1, <1>2 DEF Sides

\* casterInitMu is held by the call that is between Lock and Return.
LEMMA StepMutex == CallTypes /\ Mutex /\ [Next]_vars => Mutex'
<1> SUFFICES ASSUME CallTypes, Mutex, [Next]_vars PROVE Mutex'
  OBVIOUS
<1> USE DEF Locked
<1>1. CASE UNCHANGED <<callVars, pc>>
  BY <1>1 DEF callVars, Mutex
<1>2. ASSUME NEW a \in Apps, NEW to, initMu' = initMu, pc' = [pc EXCEPT ![a] = to],
             pc[a] \in Locked <=> to \in Locked
      PROVE  Mutex'
  BY <1>2 DEF CallTypes, Mutex
<1>3. ASSUME NEW a \in Apps, Lock(a)
      PROVE  Mutex'
  BY <1>3, CasterAssumption DEF Lock, InitMuFree, Goto, CallTypes, Mutex
<1>4. ASSUME NEW a \in Apps, Return(a)
      PROVE  Mutex'
  BY <1>4, CasterAssumption DEF Return, Unlocked, Goto, CallTypes, Mutex
<1>5. ASSUME NEW a \in Apps, Take(a) \/ Stopped(a) \/ Publish(a)
      PROVE  Mutex'
  BY <1>2, <1>5 DEF Take, Stopped, Publish, Goto, Binding
<1>6. ASSUME NEW a \in Apps, NEW s \in Sides, InitStartFails(a, s)
      PROVE  Mutex'
  BY <1>2, <1>6, FailedStart
<1>7. ASSUME NEW a \in Apps, NEW p \in Pairs, NEW f, InitBegins(a, p, f)
      PROVE  Mutex'
  BY <1>2, <1>7 DEF InitBegins, Goto
<1>8. ASSUME NEW a \in Apps, NEW from, NEW to, Moves(a, from, to),
             from \in Locked <=> to \in Locked
      PROVE  Mutex'
  BY <1>2, <1>8 DEF Moves, callVars
<1> QED
  BY <1>1, <1>3, <1>4, <1>5, <1>6, <1>7, <1>8, CallSteps

\* A pair stays with its Init.
LEMMA StepCalls == CallTypes /\ Mutex /\ Calls /\ [Next]_vars => Calls'
<1> SUFFICES ASSUME CallTypes, Mutex, Calls, [Next]_vars PROVE Calls'
  OBVIOUS
<1>0. 0 \notin Pairs /\ \A a \in Apps : mine[a] # 0 => mine[a] \in Pairs
  BY CasterAssumption DEF CallTypes, Pairs
<1>1. CASE UNCHANGED <<callVars, pc>>
  BY <1>1 DEF callVars, Calls
<1>2. ASSUME NEW a \in Apps, NEW to, pc' = [pc EXCEPT ![a] = to],
             UNCHANGED <<mine, outcome>>,
             mine[a] # 0 => to \in Locked \cup {"lock"},
             to \in {"bindSource", "bindClient", "publish"} =>
               mine[a] # 0 /\ outcome[mine[a]] = "made",
             mine[a] # 0 /\ to \notin {"undo", "return"} => outcome[mine[a]] = "made",
             to = "undo" => mine[a] # 0 /\ outcome[mine[a]] = "failed",
             mine[a] # 0 /\ to = "return" => outcome[mine[a]] \in {"failed", "ready"}
      PROVE  Calls'
  BY <1>2 DEF CallTypes, Calls
<1>3. ASSUME NEW a \in Apps, NEW p \in Pairs, NEW f, InitBegins(a, p, f)
      PROVE  Calls'
  <2>1. /\ pc[a] = "idle" /\ pc' = [pc EXCEPT ![a] = "lock"] /\ outcome[p] = "none"
        /\ outcome' = [outcome EXCEPT ![p] = "made"] /\ mine' = [mine EXCEPT ![a] = p]
    BY <1>3 DEF InitBegins, Goto
  <2>2. \A b \in Apps : mine[b] # p
    BY <1>0, <2>1 DEF Calls
  <2>3. ASSUME NEW b \in Apps, b # a
        PROVE  /\ pc'[b] = pc[b] /\ mine'[b] = mine[b]
               /\ mine[b] # 0 => outcome'[mine[b]] = outcome[mine[b]]
    BY <1>0, <2>1, <2>2, <2>3 DEF CallTypes
  <2>4. pc'[a] = "lock" /\ mine'[a] = p /\ outcome'[p] = "made"
    BY <2>1 DEF CallTypes
  <2> QED BY <1>0, <2>2, <2>3, <2>4 DEF Calls
<1>4. ASSUME NEW a \in Apps, NEW o \in {"failed", "ready"}, mine[a] # 0,
             outcome' = [outcome EXCEPT ![mine[a]] = o], mine' = mine,
             pc' = [pc EXCEPT ![a] = "return"] \/ (o = "failed" /\ pc' = [pc EXCEPT ![a] = "undo"])
      PROVE  Calls'
  <2>1. ASSUME NEW b \in Apps, b # a
        PROVE  /\ pc'[b] = pc[b] /\ mine'[b] = mine[b]
               /\ mine[b] # 0 => outcome'[mine[b]] = outcome[mine[b]]
    BY <1>0, <1>4, <2>1 DEF CallTypes, Calls
  <2>2. /\ pc'[a] = "return" \/ (o = "failed" /\ pc'[a] = "undo")
        /\ outcome'[mine[a]] = o
    BY <1>0, <1>4 DEF CallTypes
  <2> QED BY <1>4, <2>1, <2>2 DEF Calls, Locked
<1>5. ASSUME NEW a \in Apps, Return(a)
      PROVE  Calls'
  BY <1>5 DEF Return, Goto, CallTypes, Calls, Locked
<1>6. ASSUME NEW a \in Apps, Lock(a) \/ Take(a) \/ Stopped(a)
      PROVE  Calls'
  <2>1. CASE Lock(a)
    BY <1>2, <2>1 DEF Lock, Goto, Calls, Locked
  <2>2. CASE Take(a)
    BY <1>2, <2>2 DEF Take, Goto, Calls, Locked
  <2>3. CASE Stopped(a)
    BY <1>2, <2>3 DEF Stopped, Goto, Calls, Locked, Binding
  <2> QED BY <1>6, <2>1, <2>2, <2>3
<1>7. ASSUME NEW a \in Apps, Publish(a)
      PROVE  Calls'
  BY <1>4, <1>7 DEF Publish, Goto, Calls
<1>8. ASSUME NEW a \in Apps, NEW s \in Sides, InitStartFails(a, s)
      PROVE  Calls'
  <2>1. mine[a] # 0
    BY <1>8, FailedStart DEF Calls
  <2> QED BY <1>4, <1>8, <2>1, FailedStart
<1>9. ASSUME NEW a \in Apps,
             \/ Moves(a, "idle", "lock") \/ Moves(a, "idle", "clear")
             \/ Moves(a, "clear", "set") \/ Moves(a, "set", "idle")
             \/ Moves(a, "source", "client") \/ Moves(a, "client", "stopped")
             \/ Moves(a, "bindSource", "bindClient")
             \/ Moves(a, "bindClient", "publish") \/ Moves(a, "undo", "return")
      PROVE  Calls'
  <2>1. /\ UNCHANGED <<mine, outcome>>
        /\ \E to : /\ pc' = [pc EXCEPT ![a] = to]
                  /\ \/ pc[a] \in {"idle", "clear", "set"} /\ to \in {"lock", "clear", "set", "idle"}
                     \/ pc[a] \in {"source", "client"} /\ to \in {"client", "stopped"}
                     \/ /\ pc[a] \in {"bindSource", "bindClient"}
                        /\ to \in {"bindClient", "publish"}
                     \/ pc[a] = "undo" /\ to = "return"
    BY <1>9 DEF Moves, callVars
  <2> QED BY <1>2, <2>1 DEF Calls, Locked
<1> QED
  BY <1>1, <1>3, <1>5, <1>6, <1>7, <1>8, <1>9, CallSteps

\* Of the calls, only the one that holds casterInitMu touches what is
\* published.
LEMMA StepTaken == CallTypes /\ Mutex /\ Calls /\ Taken /\ [Next]_vars => Taken'
<1> SUFFICES ASSUME CallTypes, Mutex, Calls, Taken, [Next]_vars PROVE Taken'
  OBVIOUS
<1> USE DEF Locked
<1>0. /\ 0 \notin Pairs /\ \A a \in Apps : mine[a] # 0 => mine[a] \in Pairs
      /\ \A a \in Apps : old[a] # 0 => old[a] \in Pairs
      /\ published # 0 => published \in Pairs
  BY CasterAssumption DEF CallTypes, Pairs
<1>1. CASE UNCHANGED <<callVars, pc>>
  BY <1>1 DEF callVars, Taken
<1>2. ASSUME NEW a \in Apps, NEW to, pc' = [pc EXCEPT ![a] = to],
             UNCHANGED <<old, published>>,
             \A p \in Pairs : outcome[p] = "ready" => outcome'[p] = "ready",
             old[a] # 0 => to \in {"source", "client", "stopped"},
             to \in {"source", "client"} => old[a] # 0,
             to \in Locked \ {"take", "return"} => published = 0
      PROVE  Taken'
  BY <1>0, <1>2 DEF CallTypes, Taken
<1>3. ASSUME NEW a \in Apps, NEW p \in Pairs, NEW f, InitBegins(a, p, f)
      PROVE  Taken'
  BY <1>2, <1>3 DEF InitBegins, Goto, Taken, CallTypes
<1>4. ASSUME NEW a \in Apps, Take(a)
      PROVE  Taken'
  <2>1. /\ pc[a] = "take" /\ published' = 0 /\ outcome' = outcome
        /\ old' = [old EXCEPT ![a] = published]
        /\ pc' = [pc EXCEPT ![a] = IF published = 0 THEN "stopped" ELSE "source"]
    BY <1>4 DEF Take, Goto
  <2> QED BY <1>0, <2>1 DEF Taken, CallTypes
<1>5. ASSUME NEW a \in Apps, Stopped(a)
      PROVE  Taken'
  <2>1. /\ pc[a] = "stopped" /\ UNCHANGED <<published, outcome>>
        /\ old' = [old EXCEPT ![a] = 0]
        /\ pc' = [pc EXCEPT ![a] = "return"] \/ pc' = [pc EXCEPT ![a] = "bindSource"]
    BY <1>5 DEF Stopped, Goto, Binding
  <2> QED BY <1>0, <2>1 DEF Taken, CallTypes
<1>6. ASSUME NEW a \in Apps, Publish(a)
      PROVE  Taken'
  <2>1. /\ pc[a] = "publish" /\ published' = mine[a] /\ old' = old
        /\ outcome' = [outcome EXCEPT ![mine[a]] = "ready"]
        /\ pc' = [pc EXCEPT ![a] = "return"]
    BY <1>6 DEF Publish, Goto
  <2>2. mine[a] \in Pairs /\ old[a] = 0
    BY <1>0, <2>1 DEF Calls, Taken
  <2>3. \A b \in Apps : b # a => pc[b] \notin Locked
    BY <2>1 DEF Mutex
  <2>4. \A b \in Apps : old'[b] = 0
    BY <2>1, <2>2, <2>3 DEF Taken
  <2>5. \A b \in Apps : pc'[b] \notin Locked \ {"take", "return"}
    BY <2>1, <2>3 DEF CallTypes
  <2>6. outcome'[mine[a]] = "ready"
    BY <2>1, <2>2 DEF CallTypes
  <2> QED BY <2>1, <2>4, <2>5, <2>6 DEF Taken
<1>7. ASSUME NEW a \in Apps, NEW s \in Sides, InitStartFails(a, s)
      PROVE  Taken'
  <2>1. /\ pc[a] \in {"bindSource", "bindClient"} /\ UNCHANGED <<published, old>>
        /\ outcome' = [outcome EXCEPT ![mine[a]] = "failed"]
        /\ \E to \in {"undo", "return"} : pc' = [pc EXCEPT ![a] = to]
    BY <1>7, FailedStart
  <2>2. mine[a] \in Pairs /\ outcome[mine[a]] = "made" /\ published = 0 /\ old[a] = 0
    BY <1>0, <2>1 DEF Calls, Taken
  <2>3. \A p \in Pairs : outcome[p] = "ready" => outcome'[p] = "ready"
    BY <2>1, <2>2 DEF CallTypes
  <2> QED BY <1>2, <2>1, <2>2, <2>3
<1>8. ASSUME NEW a \in Apps, Lock(a) \/ Return(a)
      PROVE  Taken'
  BY <1>2, <1>8 DEF Lock, Return, Goto, Taken
<1>9. ASSUME NEW a \in Apps,
             \/ Moves(a, "idle", "lock") \/ Moves(a, "idle", "clear")
             \/ Moves(a, "clear", "set") \/ Moves(a, "set", "idle")
             \/ Moves(a, "source", "client") \/ Moves(a, "client", "stopped")
             \/ Moves(a, "bindSource", "bindClient")
             \/ Moves(a, "bindClient", "publish") \/ Moves(a, "undo", "return")
      PROVE  Taken'
  <2>1. /\ UNCHANGED <<old, published, outcome>>
        /\ \E to : /\ pc' = [pc EXCEPT ![a] = to]
                  /\ \/ pc[a] \in {"idle", "clear", "set"} /\ to \in {"lock", "clear", "set", "idle"}
                     \/ pc[a] \in {"source", "client"} /\ to \in {"client", "stopped"}
                     \/ /\ pc[a] \in {"bindSource", "bindClient"}
                        /\ to \in {"bindClient", "publish"}
                     \/ pc[a] = "undo" /\ to = "return"
    BY <1>9 DEF Moves, callVars
  <2> QED BY <1>2, <2>1 DEF Taken
<1> QED
  BY <1>1, <1>3, <1>4, <1>5, <1>6, <1>7, <1>8, <1>9, CallSteps

---------------------------------------------------------------------------
(* The sides.                                                              *)

\* The types and the calls, as far as the sides depend on them.
CallInv ==
  CallTypes /\ SideTypes /\ LinkTypes /\ Mutex /\ Calls /\ Taken

\* Every step keeps the calls in order.
LEMMA StepCallInv == CallInv /\ [Next]_vars => CallInv'
  BY StepCallTypes, StepSideTypes, StepLinkTypes, StepMutex, StepCalls, StepTaken
  DEF CallInv

\* An outcome is final; a pair that has been made stays made.
LEMMA OutcomeStays ==
  ASSUME CallInv, [Next]_vars, NEW p \in Pairs
  PROVE  /\ outcome'[p] = "none" => outcome[p] = "none"
         /\ outcome[p] = "ready" => outcome'[p] = "ready"
<1>1. CASE outcome' = outcome
  BY <1>1
<1>2. ASSUME NEW a \in Apps, NEW q \in Pairs, NEW f, InitBegins(a, q, f)
      PROVE  outcome[q] = "none" /\ outcome' = [outcome EXCEPT ![q] = "made"]
  BY <1>2 DEF InitBegins
<1>3. ASSUME NEW a \in Apps, Publish(a)
      PROVE  outcome' = [outcome EXCEPT ![mine[a]] = "ready"]
  BY <1>3 DEF Publish
<1>4. ASSUME NEW a \in Apps, NEW s \in Sides, InitStartFails(a, s)
      PROVE  /\ outcome' = [outcome EXCEPT ![mine[a]] = "failed"]
             /\ outcome[mine[a]] = "made"
  BY <1>4, FailedStart DEF CallInv, Calls
<1>5. ASSUME NEW a \in Apps, Publish(a) \/ \E s \in Sides : InitStartFails(a, s)
      PROVE  /\ outcome'[p] = "none" => outcome[p] = "none"
             /\ outcome[p] = "ready" => outcome'[p] = "ready"
  BY <1>3, <1>4, <1>5 DEF CallInv, CallTypes
<1>6. ASSUME NEW a \in Apps, NEW q \in Pairs, NEW f \in Configs, InitBegins(a, q, f)
      PROVE  /\ outcome'[p] = "none" => outcome[p] = "none"
             /\ outcome[p] = "ready" => outcome'[p] = "ready"
  BY <1>2, <1>6 DEF CallInv, CallTypes
<1>7. ASSUME NEW a \in Apps, Lock(a) \/ Take(a) \/ Stopped(a) \/ Return(a)
      PROVE  outcome' = outcome
  BY <1>7 DEF Lock, Take, Stopped, Return
<1>8. UNCHANGED callVars => outcome' = outcome
  BY DEF callVars
<1>9. ASSUME NEW a \in Apps, NEW x, NEW y, Moves(a, x, y)
      PROVE  outcome' = outcome
  BY <1>8, <1>9 DEF Moves
<1> QED BY <1>1, <1>5, <1>6, <1>7, <1>8, <1>9, CallSteps

\* The ways in which the sides change.
LEMMA SideEffects ==
  ASSUME CallInv, [Next]_vars
  PROVE  \/ UNCHANGED sideVars
         \/ \E a \in Apps, p \in Pairs, f \in Configs : InitBegins(a, p, f)
         \/ \E a \in Apps : CloseSide(a)
         \/ \E a \in Apps, l \in AllSides, how \in {"down", "stopped"} :
              StopSide(a, l, how) /\ outcome[l[1]] # "none"
         \/ \E l \in AllSides, who \in {"init", "app"} :
              StartSide(l, who) /\ outcome[l[1]] # "none"
<1> USE DEF CallInv
<1>1. ASSUME NEW a \in Apps, NEW s \in Sides, StopOld(a, s)
      PROVE  /\ Side(old[a], s) \in AllSides /\ Side(old[a], s)[1] = old[a]
             /\ StopSide(a, Side(old[a], s), "down") /\ outcome[old[a]] # "none"
  <2>1. old[a] # 0 /\ old[a] \in Pairs /\ Side(old[a], s) \in AllSides
    BY <1>1, OwnSides, SideFacts
  <2> QED BY <1>1, <2>1, SideFacts DEF StopOld, Taken
<1>2. ASSUME NEW a \in Apps, NEW s \in Sides, InitStarts(a, s)
      PROVE  /\ Side(mine[a], s) \in AllSides /\ Side(mine[a], s)[1] = mine[a]
             /\ StartSide(Side(mine[a], s), "init") /\ outcome[mine[a]] # "none"
  <2>1. mine[a] # 0 /\ mine[a] \in Pairs /\ Side(mine[a], s) \in AllSides
    BY <1>2, OwnSides, SideFacts
  <2>2. outcome[mine[a]] # "none"
    BY <2>1 DEF Calls
  <2> QED BY <1>2, <2>1, <2>2, SideFacts DEF InitStarts
<1>3. ASSUME NEW a \in Apps, Undo(a)
      PROVE  LET l == Side(mine[a], "source")
             IN  l \in AllSides /\ StopSide(a, l, "down") /\ outcome[l[1]] # "none"
  <2>0. "source" \in Sides
    BY DEF Sides
  <2>1. mine[a] # 0 /\ mine[a] \in Pairs /\ Side(mine[a], "source") \in AllSides
    BY <1>3, <2>0, OwnSides, SideFacts
  <2>2. outcome[mine[a]] # "none"
    BY <2>1 DEF Calls
  <2> QED BY <1>3, <2>0, <2>1, <2>2, SideFacts DEF Undo
<1>4. ASSUME NEW a \in Owners, NEW l \in AllSides, AppStop(a, l) \/ AppStart(a, l)
      PROVE  /\ StopSide(a, l, "stopped") \/ StartSide(l, "app")
             /\ outcome[l[1]] # "none" /\ a \in Apps
  BY <1>4, CasterAssumption DEF AppStop, AppStart, Given
<1> HIDE DEF CallInv
<1> QED BY <1>1, <1>2, <1>3, <1>4, SideSteps

\* Only a pair that has been made is started.
LEMMA StepFresh == CallInv /\ Fresh /\ [Next]_vars => Fresh'
<1> SUFFICES ASSUME CallInv, Fresh, [Next]_vars,
                    NEW l \in AllSides, outcome'[l[1]] = "none"
             PROVE  up'[l] = "down" /\ l \notin bound'
  BY DEF Fresh
<1>1. l[1] \in Pairs
  BY SideFacts
<1>2. outcome[l[1]] = "none" /\ up[l] = "down" /\ l \notin bound
  BY <1>1, OutcomeStays DEF Fresh
<1>3. ASSUME NEW a \in Apps, NEW k \in AllSides, NEW how, StopSide(a, k, how)
      PROVE  up'[l] = "down" /\ l \notin bound'
  BY <1>2, <1>3 DEF StopSide, Detached, Runs, CallInv, SideTypes
<1>4. ASSUME NEW k \in AllSides, NEW who, StartSide(k, who), outcome[k[1]] # "none"
      PROVE  up'[l] = "down" /\ l \notin bound'
  BY <1>2, <1>4 DEF StartSide, CallInv, SideTypes
<1>5. ASSUME NEW a \in Apps, CloseSide(a) \/ \E p \in Pairs, f \in Configs : InitBegins(a, p, f)
      PROVE  up'[l] = "down" /\ l \notin bound'
  BY <1>2, <1>5 DEF CloseSide, InitBegins
<1>6. CASE UNCHANGED sideVars
  BY <1>2, <1>6 DEF sideVars
<1> QED BY <1>3, <1>4, <1>5, <1>6, SideEffects

\* A port has one holder, and a side that is being stopped still holds its
\* own until ln.Close().
LEMMA StepHeld ==
  CallInv /\ Fresh /\ OnePerPort /\ Held /\ [Next]_vars => OnePerPort' /\ Held'
<1> SUFFICES ASSUME CallInv, Fresh, OnePerPort, Held, [Next]_vars
             PROVE  OnePerPort' /\ Held'
  OBVIOUS
<1>0. SideTypes /\ NoSide \notin AllSides
  BY SideFacts DEF CallInv
<1>1. CASE UNCHANGED sideVars
  BY <1>1 DEF sideVars, OnePerPort, Held, Runs
<1>2. ASSUME NEW a \in Apps, NEW p \in Pairs, NEW f \in Configs, InitBegins(a, p, f)
      PROVE  OnePerPort' /\ Held'
  <2>1. UNCHANGED <<up, bound, closing>> /\ outcome[p] = "none"
    BY <1>2 DEF InitBegins
  <2>2. \A l \in bound : l \in AllSides /\ l[1] # p
    BY <1>0, <2>1 DEF Fresh, SideTypes
  <2>3. \A l \in bound : port'[l] = port[l]
    BY <1>2, <2>2 DEF InitBegins
  <2> QED BY <2>1, <2>3 DEF OnePerPort, Held, Runs
<1>3. ASSUME NEW a \in Apps, CloseSide(a)
      PROVE  OnePerPort' /\ Held'
  <2>1. /\ closing[a] # NoSide /\ UNCHANGED <<port, up>>
        /\ bound' = bound \ {closing[a]}
        /\ closing' = [closing EXCEPT ![a] = NoSide]
    BY <1>3 DEF CloseSide
  <2>2. OnePerPort'
    BY <2>1 DEF OnePerPort, Held, Runs
  <2>3. ASSUME NEW l \in bound'
        PROVE  Runs(l)' \/ \E b \in Apps : closing'[b] = l
    BY <1>0, <2>1 DEF Held, Runs, SideTypes
  <2>4. ASSUME NEW b \in Apps, closing'[b] # NoSide
        PROVE  /\ closing'[b] = closing[b] /\ closing[b] \in bound' /\ ~Runs(closing[b])
               /\ \A d \in Apps : closing'[b] = closing'[d] => b = d
    BY <1>0, <2>1, <2>4 DEF Held, SideTypes
  <2> QED BY <2>1, <2>2, <2>3, <2>4 DEF Held, Runs
<1>4. ASSUME NEW a \in Apps, NEW l \in AllSides, NEW how \in {"down", "stopped"},
             StopSide(a, l, how)
      PROVE  OnePerPort' /\ Held'
  <2>1. CASE Runs(l)
    <3>1. /\ closing[a] = NoSide /\ UNCHANGED <<port, bound>>
          /\ up' = [up EXCEPT ![l] = how] /\ closing' = [closing EXCEPT ![a] = l]
      BY <1>4, <2>1 DEF StopSide, Detached
    <3>2. l \in bound
      BY <2>1 DEF OnePerPort
    <3>3. \A b \in Apps : closing[b] # l
      BY <1>0, <2>1 DEF Held
    <3>4. \A k \in AllSides : up'[k] \in {"init", "app"} <=> Runs(k) /\ k # l
      BY <1>0, <3>1 DEF Runs, SideTypes
    <3>5. OnePerPort'
      BY <3>1, <3>4 DEF OnePerPort, Runs
    <3>6. ASSUME NEW k \in bound
          PROVE  up'[k] \in {"init", "app"} \/ \E b \in Apps : closing'[b] = k
      <4>1. k \in AllSides
        BY <1>0 DEF SideTypes
      <4>2. CASE k = l
        BY <1>0, <3>1, <4>2 DEF SideTypes
      <4>3. CASE k # l
        <5>1. Runs(k) \/ \E b \in Apps : closing[b] = k
          BY DEF Held
        <5>2. ASSUME NEW b \in Apps, closing[b] = k PROVE closing'[b] = k
          BY <1>0, <3>1, <4>1, <5>2 DEF SideTypes
        <5> QED BY <3>4, <4>1, <4>3, <5>1, <5>2
      <4> QED BY <4>2, <4>3
    <3>7. ASSUME NEW b \in Apps, closing'[b] # NoSide
          PROVE  /\ closing'[b] \in bound /\ up'[closing'[b]] \notin {"init", "app"}
                 /\ \A d \in Apps : closing'[b] = closing'[d] => b = d
      <4>1. CASE b = a
        BY <1>0, <3>1, <3>2, <3>3, <3>4, <4>1 DEF SideTypes
      <4>2. CASE b # a
        BY <1>0, <3>1, <3>3, <3>4, <3>7, <4>2 DEF Held, SideTypes
      <4> QED BY <4>1, <4>2
    <3> QED BY <3>1, <3>5, <3>6, <3>7 DEF Held, Runs
  <2>2. CASE ~Runs(l)
    <3>1. /\ closing[a] = NoSide /\ UNCHANGED <<port, bound, up>>
          /\ closing' = [closing EXCEPT ![a] = NoSide]
      BY <1>4, <2>2 DEF StopSide, Detached
    <3>2. closing' = closing
      BY <1>0, <3>1 DEF SideTypes
    <3> QED BY <1>1, <3>1, <3>2 DEF sideVars
  <2> QED BY <2>1, <2>2
<1>5. ASSUME NEW l \in AllSides, NEW who \in {"init", "app"}, StartSide(l, who)
      PROVE  OnePerPort' /\ Held'
  <2>1. /\ UNCHANGED <<port, closing>> /\ bound' = bound \cup {l}
        /\ up' = [up EXCEPT ![l] = who]
        /\ \A k \in bound : port[k] # port[l]
    BY <1>5 DEF StartSide, PortHeld
  <2>2. \A k \in AllSides : up'[k] \in {"init", "app"} <=> Runs(k) \/ k = l
    BY <1>0, <2>1 DEF Runs, SideTypes
  <2>3. OnePerPort'
    BY <2>1, <2>2 DEF OnePerPort, Runs
  <2>4. \A b \in Apps : closing[b] # NoSide => closing[b] \in AllSides /\ closing[b] # l
    BY <1>0, <2>1 DEF Held, SideTypes
  <2>5. \A k \in bound' : k \in AllSides
    BY <1>0, <2>1 DEF SideTypes
  <2> QED BY <2>1, <2>2, <2>3, <2>4, <2>5 DEF Held, Runs
<1> QED BY <1>1, <1>2, <1>3, <1>4, <1>5, SideEffects

---------------------------------------------------------------------------
(* The calls that stop and start sides.                                    *)

\* The steps of goroutine a.
Step(a) ==
  \/ \E p \in Pairs, f \in Configs : InitBegins(a, p, f)
  \/ StopBegins(a) \/ Call(a) \/ CloseSide(a)
  \/ LinkClears(a) \/ LinkSets(a)
  \/ a \in Owners /\ OwnerBegins(a)

\* Every step is one goroutine's.
LEMMA StepsOfOne == [Next]_vars => UNCHANGED vars \/ \E a \in Apps : Step(a)
  BY CasterAssumption DEF Next, Step

\* It leaves the locals of the others alone.
LEMMA OthersStay ==
  ASSUME CallInv, NEW a \in Apps, Step(a), NEW b \in Apps, b # a
  PROVE  /\ pc'[b] = pc[b] /\ mine'[b] = mine[b] /\ old'[b] = old[b]
         /\ closing'[b] = closing[b] /\ link'[b] = link[b]
<1> USE DEF CallInv, CallTypes, SideTypes, LinkTypes, callVars, sideVars, linkVars, Goto
<1>1. CASE \/ \E p \in Pairs, f \in Configs : InitBegins(a, p, f)
           \/ StopBegins(a) \/ CloseSide(a)
  BY <1>1 DEF InitBegins, StopBegins, CloseSide
<1>2. CASE Lock(a) \/ Take(a) \/ Stopped(a) \/ Publish(a) \/ Return(a)
  BY <1>2 DEF Lock, Take, Stopped, Publish, Return
<1>3. ASSUME NEW s \in Sides, StopOld(a, s)
      PROVE  /\ pc'[b] = pc[b] /\ mine'[b] = mine[b] /\ old'[b] = old[b]
             /\ closing'[b] = closing[b] /\ link'[b] = link[b]
  BY <1>3 DEF StopOld, StopSide
<1>4. ASSUME NEW s \in Sides, InitStarts(a, s) \/ InitStartFails(a, s)
      PROVE  /\ pc'[b] = pc[b] /\ mine'[b] = mine[b] /\ old'[b] = old[b]
             /\ closing'[b] = closing[b] /\ link'[b] = link[b]
  BY <1>4 DEF InitStarts, StartSide, InitStartFails
<1>5. CASE Undo(a)
  BY <1>5 DEF Undo, StopSide
<1>6. CASE LinkClears(a) \/ LinkSets(a)
  BY <1>6 DEF LinkClears, LinkSets
<1>7. CASE OwnerBegins(a)
  BY <1>7 DEF OwnerBegins, AppStop, AppStart, LinkBegins, StopSide, StartSide
<1> QED BY <1>1, <1>2, <1>3, <1>4, <1>5, <1>6, <1>7 DEF Step, Call

\* A goroutine with a listener to close does nothing else.
LEMMA BusyCloses ==
  ASSUME CallInv, NEW a \in Apps, Step(a), closing[a] # NoSide
  PROVE  CloseSide(a)
  BY DEF Step, InitBegins, StopBegins, Call, Lock, Take, Stopped, StopOld, InitStarts,
         InitStartFails, Undo, Publish, Return, LinkClears, LinkSets, Goto,
         OwnerBegins, AppStop, AppStart, LinkBegins, StopSide

\* A call whose Stop is under way has still to close what it has stopped.
LEMMA StepClosing == CallInv /\ Closing /\ [Next]_vars => Closing'
<1> SUFFICES ASSUME CallInv, Closing, [Next]_vars PROVE Closing'
  OBVIOUS
<1>1. CASE UNCHANGED vars
  BY <1>1 DEF vars, sideVars, callVars, Closing
<1>2. ASSUME NEW a \in Apps, Step(a), NEW b \in Apps, b # a, closing'[b] # NoSide
      PROVE  \/ pc'[b] = "idle"
             \/ pc'[b] \in {"client", "stopped"} /\ closing'[b][1] = old'[b] /\ old'[b] # 0
             \/ pc'[b] = "return" /\ closing'[b][1] = mine'[b] /\ mine'[b] # 0
  BY <1>2, OthersStay DEF Closing
<1>3. ASSUME NEW a \in Apps, Step(a), closing'[a] # NoSide
      PROVE  \/ pc'[a] = "idle"
             \/ pc'[a] \in {"client", "stopped"} /\ closing'[a][1] = old'[a] /\ old'[a] # 0
             \/ pc'[a] = "return" /\ closing'[a][1] = mine'[a] /\ mine'[a] # 0
  <2>0. closing \in [Apps -> AllSides \cup {NoSide}] /\ pc \in [Apps -> Steps]
    BY DEF CallInv, SideTypes, CallTypes
  <2>1. closing[a] = NoSide
    BY <1>3, <2>0, BusyCloses DEF CloseSide
  <2>2. ASSUME NEW s \in Sides, StopOld(a, s)
        PROVE  /\ pc'[a] \in {"client", "stopped"} /\ old'[a] = old[a] /\ old[a] # 0
               /\ closing'[a][1] = old[a]
    <3>1. /\ pc' = [pc EXCEPT ![a] = StopOrder(s)] /\ old' = old
          /\ \/ closing' = [closing EXCEPT ![a] = Side(old[a], s)]
             \/ closing' = [closing EXCEPT ![a] = NoSide]
      BY <2>2 DEF StopOld, Goto, StopSide, callVars
    <3>2. old[a] \in Pairs /\ old[a] # 0
      BY <2>2, OwnSides, SideFacts DEF CallInv
    <3>3. StopOrder(s) \in {"client", "stopped"}
      BY DEF StopOrder
    <3>4. closing'[a] = Side(old[a], s)
      BY <1>3, <2>0, <3>1
    <3> QED BY <2>0, <3>1, <3>2, <3>3, <3>4, SideFacts
  <2>3. ASSUME Undo(a)
        PROVE  /\ pc'[a] = "return" /\ mine'[a] = mine[a] /\ mine[a] # 0
               /\ closing'[a][1] = mine[a]
    <3>0. "source" \in Sides
      BY DEF Sides
    <3>1. /\ pc' = [pc EXCEPT ![a] = "return"] /\ mine' = mine
          /\ \/ closing' = [closing EXCEPT ![a] = Side(mine[a], "source")]
             \/ closing' = [closing EXCEPT ![a] = NoSide]
      BY <2>3 DEF Undo, Goto, StopSide, callVars
    <3>2. mine[a] \in Pairs /\ mine[a] # 0
      BY <2>3, <3>0, OwnSides, SideFacts DEF CallInv
    <3>3. closing'[a] = Side(mine[a], "source")
      BY <1>3, <2>0, <3>1
    <3> QED BY <2>0, <3>0, <3>1, <3>2, <3>3, SideFacts
  <2>4. ASSUME NEW l \in AllSides, AppStop(a, l)
        PROVE  pc'[a] = "idle"
    BY <2>4 DEF AppStop
  <2>5. \/ closing' = closing \/ CloseSide(a) \/ Undo(a)
        \/ \E s \in Sides : StopOld(a, s)
        \/ \E l \in AllSides : AppStop(a, l)
    BY <1>3
    DEF Step, InitBegins, StopBegins, Call, Lock, Take, Stopped, InitStarts,
        InitStartFails, Publish, Return, LinkClears, LinkSets,
        OwnerBegins, AppStart, LinkBegins, StartSide, sideVars
  <2>6. ~CloseSide(a)
    BY <2>1 DEF CloseSide
  <2> QED BY <1>3, <2>1, <2>2, <2>3, <2>4, <2>5, <2>6
<1> QED BY <1>1, <1>2, <1>3, StepsOfOne DEF Closing

\* What a step of a does to the sides, in terms of whether they run.
LEMMA UpSteps ==
  ASSUME CallInv, NEW a \in Apps, Step(a)
  PROVE  \/ up' = up
         \/ \E s \in Sides :
              /\ StopOld(a, s) /\ old[a] \in Pairs
              /\ up' = up \/ up' = [up EXCEPT ![Side(old[a], s)] = "down"]
              /\ up'[Side(old[a], s)] # "init"
         \/ \E s \in Sides :
              /\ InitStarts(a, s) /\ mine[a] \in Pairs
              /\ up' = [up EXCEPT ![Side(mine[a], s)] = "init"]
         \/ /\ Undo(a) /\ mine[a] \in Pairs
            /\ up' = up \/ up' = [up EXCEPT ![Side(mine[a], "source")] = "down"]
            /\ up'[Side(mine[a], "source")] # "init"
         \/ \E l \in AllSides, how \in {"stopped", "app"} :
              Given(l[1]) /\ pc' = pc /\ UNCHANGED callVars /\ up' = [up EXCEPT ![l] = how]
<1>0. up \in [AllSides -> {"down", "stopped", "init", "app"}]
  BY DEF CallInv, SideTypes
<1>1. \/ up' = up
      \/ \E s \in Sides : StopOld(a, s) \/ InitStarts(a, s)
      \/ Undo(a)
      \/ \E l \in AllSides : AppStop(a, l) \/ AppStart(a, l)
  BY DEF Step, InitBegins, StopBegins, Call, Lock, Take, Stopped, InitStartFails,
         Publish, Return, CloseSide, LinkClears, LinkSets, OwnerBegins, LinkBegins, sideVars
<1>2. ASSUME NEW l \in AllSides, NEW how \in {"down", "stopped"}, StopSide(a, l, how)
      PROVE  /\ up' = up \/ up' = [up EXCEPT ![l] = how]
             /\ up'[l] # "init"
  BY <1>0, <1>2 DEF StopSide, Detached, Runs
<1>3. ASSUME NEW s \in Sides, StopOld(a, s)
      PROVE  /\ old[a] \in Pairs
             /\ up' = up \/ up' = [up EXCEPT ![Side(old[a], s)] = "down"]
             /\ up'[Side(old[a], s)] # "init"
  <2>1. old[a] \in Pairs /\ Side(old[a], s) \in AllSides
    BY <1>3, OwnSides DEF CallInv
  <2> QED BY <1>2, <1>3, <2>1 DEF StopOld
<1>4. ASSUME Undo(a)
      PROVE  /\ mine[a] \in Pairs
             /\ up' = up \/ up' = [up EXCEPT ![Side(mine[a], "source")] = "down"]
             /\ up'[Side(mine[a], "source")] # "init"
  <2>0. "source" \in Sides
    BY DEF Sides
  <2>1. mine[a] \in Pairs /\ Side(mine[a], "source") \in AllSides
    BY <1>4, <2>0, OwnSides DEF CallInv
  <2> QED BY <1>2, <1>4, <2>1 DEF Undo
<1>5. ASSUME NEW s \in Sides, InitStarts(a, s)
      PROVE  mine[a] \in Pairs /\ up' = [up EXCEPT ![Side(mine[a], s)] = "init"]
  <2>1. mine[a] \in Pairs
    BY <1>5, OwnSides DEF CallInv
  <2> QED BY <1>5, <2>1 DEF InitStarts, StartSide
<1>6. ASSUME NEW l \in AllSides, AppStop(a, l)
      PROVE  /\ Given(l[1]) /\ pc' = pc /\ UNCHANGED callVars
             /\ up' = up \/ up' = [up EXCEPT ![l] = "stopped"]
  BY <1>2, <1>6 DEF AppStop
<1>7. ASSUME NEW l \in AllSides, AppStart(a, l)
      PROVE  /\ Given(l[1]) /\ pc' = pc /\ UNCHANGED callVars
             /\ up' = [up EXCEPT ![l] = "app"]
  BY <1>7 DEF AppStart, StartSide
<1> QED BY <1>1, <1>3, <1>4, <1>5, <1>6, <1>7

\* What an Init has started stays up while it goes on.
LEMMA StepOwnUp ==
  ASSUME CallInv, Started, NEW a \in Apps, Step(a), NEW b \in Apps
  PROVE  /\ pc'[b] \in {"bindClient", "publish"} => up'[Side(mine'[b], "source")] = "init"
         /\ pc'[b] = "publish" => up'[Side(mine'[b], "client")] = "init"
<1>0. /\ up \in [AllSides -> {"down", "stopped", "init", "app"}]
      /\ pc \in [Apps -> Steps] /\ "source" \in Sides /\ "client" \in Sides
      /\ mine \in [Apps -> 0..MaxInits] /\ "source" # "client"
  BY DEF CallInv, SideTypes, CallTypes, Sides
<1>1. CASE b # a
  <2> SUFFICES ASSUME pc[b] \in {"bindClient", "publish"}
               PROVE  \A s \in Sides : up'[Side(mine[b], s)] = up[Side(mine[b], s)]
    BY <1>0, <1>1, OthersStay DEF Started
  <2>1. mine[b] # 0 /\ outcome[mine[b]] = "made" /\ mine[b] \in Pairs
    BY <1>0, CasterAssumption DEF CallInv, Calls, Pairs
  <2>2. pc[a] \notin Locked
    BY <1>1 DEF CallInv, Mutex, Locked
  <2>3. ~Undo(a) /\ \A s \in Sides : ~StopOld(a, s) /\ ~InitStarts(a, s)
    BY <2>2 DEF Undo, StopOld, InitStarts, Goto, Locked, Binding, Sides
  <2>4. ~Given(mine[b])
    BY <2>1 DEF Given
  <2>5. CASE up' = up
    BY <2>5
  <2>6. ASSUME NEW l \in AllSides, NEW how, Given(l[1]), up' = [up EXCEPT ![l] = how]
        PROVE  \A s \in Sides : up'[Side(mine[b], s)] = up[Side(mine[b], s)]
    <3>1. \A s \in Sides : Side(mine[b], s) \in AllSides /\ Side(mine[b], s) # l
      BY <2>1, <2>4, <2>6, SideFacts
    <3> QED BY <1>0, <2>6, <3>1
  <2> QED BY <2>3, <2>5, <2>6, UpSteps
<1>2. CASE b = a
  <2>1. ASSUME pc'[a] \in {"bindClient", "publish"}
        PROVE  \/ \E s \in Sides : InitStarts(a, s)
               \/ /\ pc'[a] = pc[a] /\ mine'[a] = mine[a]
                  /\ \/ up' = up
                     \/ \E l \in AllSides, how \in {"stopped", "app"} :
                          Given(l[1]) /\ up' = [up EXCEPT ![l] = how]
    <3>1. CASE \E p \in Pairs, f \in Configs : InitBegins(a, p, f)
      BY <1>0, <2>1, <3>1 DEF InitBegins, Goto
    <3>2. CASE Lock(a) \/ Take(a) \/ Stopped(a) \/ Publish(a) \/ Return(a)
      BY <1>0, <2>1, <3>2 DEF Lock, Take, Stopped, Publish, Return, Goto, Binding
    <3>3. CASE StopBegins(a) \/ LinkClears(a) \/ LinkSets(a) \/ Undo(a)
      BY <1>0, <2>1, <3>3 DEF StopBegins, LinkClears, LinkSets, Undo, Goto
    <3>4. ASSUME NEW s \in Sides, StopOld(a, s) \/ InitStartFails(a, s)
          PROVE  pc'[a] \notin {"bindClient", "publish"}
      BY <1>0, <3>4 DEF StopOld, InitStartFails, Goto, StopOrder, AfterFailedStart, Sides
    <3>5. CASE CloseSide(a)
      BY <3>5 DEF CloseSide, callVars
    <3>6. ASSUME NEW p, NEW q, LinkBegins(a, p, q)
          PROVE  pc'[a] \notin {"bindClient", "publish"}
      BY <1>0, <3>6 DEF LinkBegins, Goto
    <3>7. ASSUME NEW l \in AllSides, AppStop(a, l) \/ AppStart(a, l)
          PROVE  /\ pc'[a] = pc[a] /\ mine'[a] = mine[a] /\ Given(l[1])
                 /\ \/ up' = up
                    \/ \E how \in {"stopped", "app"} : up' = [up EXCEPT ![l] = how]
      BY <3>7 DEF AppStop, AppStart, StopSide, StartSide, Detached, callVars
    <3> QED BY <2>1, <3>1, <3>2, <3>3, <3>4, <3>5, <3>6, <3>7 DEF Step, Call, OwnerBegins
  <2>2. ASSUME NEW s \in Sides, InitStarts(a, s)
        PROVE  /\ up'[Side(mine'[a], "source")] = "init"
               /\ pc'[a] = "publish" => up'[Side(mine'[a], "client")] = "init"
    <3>1. /\ up' = [up EXCEPT ![Side(mine[a], s)] = "init"] /\ mine[a] \in Pairs
          /\ mine' = mine
      BY <2>2, OwnSides DEF CallInv, InitStarts, StartSide, callVars
    <3>2. \/ s = "source" /\ pc'[a] = "bindClient"
          \/ s = "client" /\ pc[a] = "bindClient" /\ pc'[a] = "publish"
      BY <1>0, <2>2 DEF InitStarts, Goto, Binding, Sides
    <3>3. /\ Side(mine[a], "source") \in AllSides /\ Side(mine[a], "client") \in AllSides
          /\ Side(mine[a], "source") # Side(mine[a], "client")
      BY <1>0, <3>1, SideFacts
    <3>4. pc[a] = "bindClient" => up[Side(mine[a], "source")] = "init"
      BY DEF Started
    <3> QED BY <1>0, <3>1, <3>2, <3>3, <3>4
  <2>3. ASSUME pc[a] \in {"bindClient", "publish"}, NEW l \in AllSides, Given(l[1]),
               NEW how, up' = [up EXCEPT ![l] = how], NEW s \in Sides
        PROVE  up'[Side(mine[a], s)] = up[Side(mine[a], s)]
    <3>1. mine[a] # 0 /\ outcome[mine[a]] = "made" /\ mine[a] \in Pairs
      BY <1>0, <2>3, CasterAssumption DEF CallInv, Calls, Pairs
    <3>2. ~Given(mine[a])
      BY <3>1 DEF Given
    <3>3. Side(mine[a], s) \in AllSides /\ Side(mine[a], s) # l
      BY <2>3, <3>1, <3>2, SideFacts
    <3> QED BY <1>0, <2>3, <3>3
  <2> QED BY <1>0, <1>2, <2>1, <2>2, <2>3 DEF Started
<1> QED BY <1>1, <1>2

\* Nobody but the application stops a side of the published pair.
LEMMA StepPublishedUp ==
  ASSUME CallInv, Started, NEW a \in Apps, Step(a), published' # 0, NEW s \in Sides
  PROVE  up'[Side(published', s)] # "down"
<1>0. /\ up \in [AllSides -> {"down", "stopped", "init", "app"}]
      /\ published \in 0..MaxInits
  BY DEF CallInv, SideTypes, CallTypes
<1>1. \/ published' = published /\ published # 0
      \/ Publish(a)
  BY DEF Step, InitBegins, StopBegins, Call, Lock, Take, Stopped, StopOld, InitStarts,
         InitStartFails, Undo, Return, CloseSide, LinkClears, LinkSets,
         OwnerBegins, AppStop, AppStart, LinkBegins, callVars
<1>2. CASE Publish(a)
  <2>1. pc[a] = "publish" /\ published' = mine[a] /\ up' = up
    BY <1>2 DEF Publish, Goto, sideVars
  <2>2. up[Side(mine[a], "source")] = "init" /\ up[Side(mine[a], "client")] = "init"
    BY <2>1 DEF Started
  <2> QED BY <2>1, <2>2 DEF Sides
<1>3. CASE published' = published /\ published # 0
  <2>1. pc[a] \notin {"source", "client", "undo"}
    BY <1>3 DEF CallInv, Taken, Locked
  <2>2. ~Undo(a) /\ \A k \in Sides : ~StopOld(a, k)
    BY <2>1 DEF Undo, StopOld, Goto, Sides
  <2>3. published \in Pairs
    BY <1>0, <1>3, CasterAssumption DEF Pairs
  <2>4. Side(published, s) \in AllSides
    BY <2>3, SideFacts
  <2>5. up[Side(published, s)] # "down"
    BY <1>3 DEF Started
  <2>6. \/ up' = up
        \/ \E l \in AllSides, how \in {"init", "stopped", "app"} : up' = [up EXCEPT ![l] = how]
    BY <2>2, UpSteps, SideFacts
  <2> QED BY <1>0, <1>3, <2>4, <2>5, <2>6
<1> QED BY <1>1, <1>2, <1>3

\* A side that an Init has started passes from that Init to the published
\* pair, and from there to the call that stops it.
LEMMA StepAnswered ==
  ASSUME CallInv, Started, NEW a \in Apps, Step(a), NEW l \in AllSides, up'[l] = "init"
  PROVE  l[1] = published' \/ \E b \in Apps : Answers(b, l)'
<1>0. /\ up \in [AllSides -> {"down", "stopped", "init", "app"}]
      /\ pc \in [Apps -> Steps] /\ old \in [Apps -> 0..MaxInits]
      /\ mine \in [Apps -> 0..MaxInits]
      /\ l[1] \in Pairs /\ l[2] \in Sides /\ l = Side(l[1], l[2]) /\ l[1] # 0
  BY SideFacts DEF CallInv, SideTypes, CallTypes
<1>1. CASE up[l] # "init"
  <2>1. PICK s \in Sides : InitStarts(a, s) /\ mine[a] \in Pairs
                            /\ up' = [up EXCEPT ![Side(mine[a], s)] = "init"]
    BY <1>0, <1>1, UpSteps
  <2>2. l = Side(mine[a], s)
    BY <1>0, <1>1, <2>1
  <2>3. l[1] = mine[a] /\ l[2] = s
    BY <2>1, <2>2, SideFacts
  <2>4. mine' = mine /\ pc'[a] = IF s = "source" THEN "bindClient" ELSE "publish"
    BY <1>0, <2>1 DEF InitStarts, Goto, callVars, Binding
  <2>5. Answers(a, l)'
    BY <2>3, <2>4 DEF Answers
  <2> QED BY <2>5
<1>2. CASE up[l] = "init" /\ l[1] = published
  <2>1. \/ published' = published \/ Take(a) \/ Publish(a)
    BY DEF Step, InitBegins, StopBegins, Call, Lock, Stopped, StopOld, InitStarts,
           InitStartFails, Undo, Return, CloseSide, LinkClears, LinkSets,
           OwnerBegins, AppStop, AppStart, LinkBegins, callVars
  <2>2. ~Publish(a)
    BY <1>0, <1>2 DEF Publish, Goto, CallInv, Taken, Locked
  <2>3. ASSUME Take(a)
        PROVE  Answers(a, l)'
    <3>1. old'[a] = published /\ pc'[a] = "source"
      BY <1>0, <1>2, <2>3 DEF Take, Goto
    <3> QED BY <1>2, <3>1 DEF Answers
  <2> QED BY <1>2, <2>1, <2>2, <2>3
<1>3. ASSUME NEW b \in Apps, b # a, Answers(b, l)
      PROVE  Answers(b, l)'
  BY <1>3, OthersStay DEF Answers
<1>4. CASE up[l] = "init" /\ Answers(a, l)
  <2>1. /\ pc[a] \in {"source", "client", "bindClient", "undo", "publish"}
        /\ pc[a] \in {"source", "client"} => old[a] = l[1]
        /\ pc[a] = "client" => l[2] = "client"
        /\ pc[a] \in {"bindClient", "undo"} => l[2] = "source"
        /\ pc[a] \in {"bindClient", "undo", "publish"} => mine[a] = l[1]
    BY <1>4 DEF Answers
  <2>2. \/ UNCHANGED <<pc, mine, old>>
        \/ \E s \in Sides : StopOld(a, s) \/ InitStarts(a, s) \/ InitStartFails(a, s)
        \/ Undo(a) \/ Publish(a)
    BY <2>1
    DEF Step, InitBegins, StopBegins, Call, Lock, Take, Stopped, Return, CloseSide,
        LinkClears, LinkSets, OwnerBegins, AppStop, AppStart, LinkBegins, Goto, callVars
  <2>3. CASE UNCHANGED <<pc, mine, old>>
    <3>1. Answers(a, l)'
      BY <1>4, <2>3 DEF Answers
    <3> QED BY <3>1
  <2>4. ASSUME NEW s \in Sides, StopOld(a, s)
        PROVE  Answers(a, l)'
    <3>1. /\ pc[a] = s /\ pc'[a] = StopOrder(s) /\ old' = old
          /\ StopSide(a, Side(old[a], s), "down")
      BY <1>0, <2>4 DEF StopOld, Goto, callVars
    <3>2. old[a] = l[1]
      BY <2>1, <3>1 DEF Sides
    <3>3. l[2] # s
      <4>1. SUFFICES ASSUME l = Side(old[a], s) PROVE FALSE
        BY <1>0, <3>2
      <4>2. up'[l] # "init"
        BY <1>0, <3>1, <4>1 DEF StopSide, Detached, Runs
      <4> QED BY <4>2
    <3>4. s = "source" /\ l[2] = "client" /\ pc'[a] = "client"
      BY <1>0, <2>1, <3>1, <3>3 DEF Sides, StopOrder
    <3> QED BY <3>1, <3>2, <3>4 DEF Answers
  <2>5. ASSUME NEW s \in Sides, InitStarts(a, s) \/ InitStartFails(a, s)
        PROVE  Answers(a, l)'
    <3>1. /\ pc[a] = Binding[s] /\ mine' = mine
          /\ pc'[a] \in {IF s = "source" THEN Binding["client"] ELSE "publish",
                          AfterFailedStart(s)}
      BY <1>0, <2>5 DEF InitStarts, InitStartFails, Goto, callVars
    <3>2. pc[a] = "bindClient" /\ s = "client"
      BY <2>1, <3>1 DEF Binding, Sides
    <3>3. pc'[a] \in {"publish", "undo"}
      BY <3>1, <3>2 DEF AfterFailedStart
    <3> QED BY <2>1, <3>1, <3>2, <3>3 DEF Answers
  <2>6. ~Undo(a)
    <3>1. SUFFICES ASSUME Undo(a) PROVE FALSE
      OBVIOUS
    <3>2. pc[a] = "undo" /\ StopSide(a, Side(mine[a], "source"), "down")
      BY <3>1 DEF Undo, Goto
    <3>3. l = Side(mine[a], "source")
      BY <1>0, <2>1, <3>2
    <3>4. up'[l] # "init"
      BY <1>0, <3>2, <3>3 DEF StopSide, Detached, Runs
    <3> QED BY <3>4
  <2>7. ASSUME Publish(a)
        PROVE  l[1] = published'
    BY <2>1, <2>7 DEF Publish, Goto
  <2> QED BY <2>2, <2>3, <2>4, <2>5, <2>6, <2>7
<1> QED BY <1>1, <1>2, <1>3, <1>4 DEF Started

\* So whatever an Init has started has somebody to stop it.
LEMMA StepStarted == CallInv /\ Started /\ [Next]_vars => Started'
<1> SUFFICES ASSUME CallInv, Started, [Next]_vars PROVE Started'
  OBVIOUS
<1>1. CASE UNCHANGED vars
  BY <1>1 DEF vars, sideVars, callVars, Started, Answers
<1>2. ASSUME NEW a \in Apps, Step(a)
      PROVE  Started'
  <2>1. \A l \in AllSides :
          up'[l] = "init" => l[1] = published' \/ \E b \in Apps : Answers(b, l)'
    BY <1>2, StepAnswered
  <2>2. \A b \in Apps :
          /\ pc'[b] \in {"bindClient", "publish"} => up'[Side(mine'[b], "source")] = "init"
          /\ pc'[b] = "publish" => up'[Side(mine'[b], "client")] = "init"
    BY <1>2, StepOwnUp
  <2>3. published' # 0 => \A s \in Sides : up'[Side(published', s)] # "down"
    BY <1>2, StepPublishedUp
  <2> QED BY <2>1, <2>2, <2>3 DEF Started, Side
<1> QED BY <1>1, <1>2, StepsOfOne

---------------------------------------------------------------------------
(* The links.                                                              *)

\* The steps that touch the links.
LEMMA LinkSteps ==
  ASSUME NEW a \in Apps, Step(a)
  PROVE  \/ \E p \in Pairs, f \in Configs : InitBegins(a, p, f)
         \/ a \in Owners /\ \E p \in Pairs, q \in 0..MaxInits : LinkBegins(a, p, q)
         \/ LinkClears(a) \/ LinkSets(a)
         \/ UNCHANGED linkVars
  BY DEF Step, StopBegins, Call, Lock, Take, Stopped, StopOld, InitStarts, InitStartFails,
         Undo, Publish, Return, CloseSide, OwnerBegins, AppStop, AppStart

\* A goroutine comes to clear and to set only by linking.
LEMMA LinkCalls ==
  ASSUME CallInv, NEW a \in Apps, Step(a)
  PROVE  /\ pc'[a] = "clear" =>
              \/ pc[a] = "clear" /\ UNCHANGED linkVars
              \/ a \in Owners /\ \E p \in Pairs, q \in 0..MaxInits : LinkBegins(a, p, q)
         /\ pc'[a] = "set" => \/ pc[a] = "set" /\ UNCHANGED linkVars
                              \/ LinkClears(a)
         /\ pc[a] = "clear" => \/ pc'[a] = "clear" /\ UNCHANGED linkVars
                               \/ LinkClears(a)
         /\ pc[a] = "set" => \/ pc'[a] = "set" /\ UNCHANGED linkVars
                             \/ LinkSets(a)
<1>0. pc \in [Apps -> Steps]
  BY DEF CallInv, CallTypes
<1>1. CASE Call(a)
  <2>1. ASSUME NEW s \in Sides, StopOld(a, s) \/ InitStarts(a, s) \/ InitStartFails(a, s)
        PROVE  pc[a] \notin {"clear", "set"} /\ pc'[a] \notin {"clear", "set"}
    BY <1>0, <2>1
    DEF StopOld, InitStarts, InitStartFails, Goto, StopOrder, Binding, AfterFailedStart, Sides
  <2>2. ASSUME Lock(a) \/ Take(a) \/ Stopped(a) \/ Undo(a) \/ Publish(a) \/ Return(a)
        PROVE  pc[a] \notin {"clear", "set"} /\ pc'[a] \notin {"clear", "set"}
    BY <1>0, <2>2 DEF Lock, Take, Stopped, Undo, Publish, Return, Goto, Binding
  <2> QED BY <1>1, <2>1, <2>2 DEF Call
<1>2. CASE StopBegins(a) \/ \E p \in Pairs, f \in Configs : InitBegins(a, p, f)
  <2>1. pc[a] = "idle" /\ pc'[a] = "lock"
    BY <1>0, <1>2 DEF StopBegins, InitBegins, Goto
  <2> QED BY <2>1
<1>3. CASE \/ CloseSide(a)
           \/ \E l \in AllSides : AppStop(a, l) \/ AppStart(a, l)
  <2>1. pc' = pc /\ UNCHANGED linkVars
    BY <1>3 DEF CloseSide, AppStop, AppStart
  <2> QED BY <2>1
<1>4. CASE LinkClears(a)
  <2>1. pc[a] = "clear" /\ pc'[a] = "set"
    BY <1>0, <1>4 DEF LinkClears, Goto
  <2> QED BY <1>4, <2>1
<1>5. CASE LinkSets(a)
  <2>1. pc[a] = "set" /\ pc'[a] = "idle"
    BY <1>0, <1>5 DEF LinkSets, Goto
  <2> QED BY <1>5, <2>1
<1>6. ASSUME NEW p \in Pairs, NEW q \in 0..MaxInits, LinkBegins(a, p, q)
      PROVE  pc[a] = "idle" /\ pc'[a] = "clear"
  BY <1>0, <1>6 DEF LinkBegins, Goto
<1> QED BY <1>1, <1>2, <1>3, <1>4, <1>5, <1>6 DEF Step, OwnerBegins

\* One goroutine links at a time; the link it makes is its own.
LEMMA StepLinking ==
  ASSUME CallInv, Linked, \A x, y \in Owners : x = y,
         NEW a \in Apps, Step(a), [Next]_vars, NEW b \in Apps, pc'[b] \in {"clear", "set"}
  PROVE  /\ b \in Owners /\ link'[b].server # 0
         /\ outcome'[link'[b].server] # "none"
         /\ forward'[link'[b].server] = link'[b].client
<1>0. LinkTypes /\ 0 \notin Pairs /\ \A n \in 0..MaxInits : n # 0 => n \in Pairs
  BY SideFacts, CasterAssumption DEF CallInv, Pairs
<1>1. ASSUME pc[b] \in {"clear", "set"}, link'[b] = link[b],
             \/ forward' = forward
             \/ \E p \in Pairs, f \in Configs : InitBegins(a, p, f)
      PROVE  /\ b \in Owners /\ link'[b].server # 0
             /\ outcome'[link'[b].server] # "none"
             /\ forward'[link'[b].server] = link'[b].client
  <2>1. /\ b \in Owners /\ link[b].server # 0 /\ link[b].server \in Pairs
        /\ outcome[link[b].server] # "none" /\ forward[link[b].server] = link[b].client
    BY <1>0, <1>1 DEF Linked, LinkTypes
  <2>2. outcome'[link[b].server] # "none"
    BY <2>1, OutcomeStays
  <2>3. forward'[link[b].server] = forward[link[b].server]
    BY <1>0, <1>1, <2>1 DEF InitBegins, LinkTypes
  <2> QED BY <1>1, <2>1, <2>2, <2>3
<1>2. CASE b # a
  <2>1. pc[b] \in {"clear", "set"} /\ link'[b] = link[b] /\ b \in Owners
    BY <1>2, OthersStay DEF Linked
  <2>2. \/ forward' = forward
        \/ \E p \in Pairs, f \in Configs : InitBegins(a, p, f)
    BY <1>2, <2>1, LinkSteps DEF LinkClears, LinkSets, linkVars
  <2> QED BY <1>1, <2>1, <2>2
<1>3. ASSUME b = a, a \in Owners, NEW p \in Pairs, NEW q \in 0..MaxInits, LinkBegins(a, p, q)
      PROVE  /\ b \in Owners /\ link'[b].server # 0
             /\ outcome'[link'[b].server] # "none"
             /\ forward'[link'[b].server] = link'[b].client
  <2>1. /\ forward' = [forward EXCEPT ![p] = q]
        /\ link'[b] = [server |-> p, previous |-> forward[p], client |-> q]
        /\ outcome[p] # "none"
    BY <1>0, <1>3 DEF LinkBegins, Given, LinkTypes
  <2>2. outcome'[p] # "none"
    BY <2>1, OutcomeStays
  <2>3. link'[b].server = p /\ link'[b].client = q
    BY <2>1
  <2> QED BY <1>0, <1>3, <2>1, <2>2, <2>3 DEF LinkTypes
<1>4. CASE b = a /\ LinkClears(a)
  <2>1. pc[b] = "clear" /\ link' = link /\ forward' = forward
    BY <1>4 DEF LinkClears, Goto
  <2> QED BY <1>1, <2>1
<1>5. CASE b = a /\ pc[b] \in {"clear", "set"} /\ UNCHANGED linkVars
  BY <1>1, <1>5 DEF linkVars
<1> QED BY <1>2, <1>3, <1>4, <1>5, LinkCalls

\* The back link of q is true, or about to be cleared.
BackOf(q) ==
  \/ forward[back[q]] = q
  \/ \E a \in Apps : pc[a] = "clear" /\ back[q] = link[a].server /\ q = link[a].previous

\* A back link that is written is true, and the one that a new link makes
\* false is the one its goroutine clears next.
LEMMA StepBack ==
  ASSUME CallInv, Linked, \A x, y \in Owners : x = y,
         NEW a \in Apps, Step(a), [Next]_vars, NEW q \in Pairs, back'[q] # 0
  PROVE  outcome'[back'[q]] # "none" /\ BackOf(q)'
<1>0. /\ LinkTypes /\ 0 \notin Pairs /\ \A n \in 0..MaxInits : n # 0 => n \in Pairs
      /\ outcome \in [Pairs -> {"none", "made", "failed", "ready"}]
  BY SideFacts, CasterAssumption DEF CallInv, CallTypes, Pairs
<1>1. ASSUME back[q] # 0
      PROVE  /\ back[q] \in Pairs /\ outcome[back[q]] # "none"
             /\ outcome'[back[q]] # "none" /\ BackOf(q)
  <2>1. back[q] \in Pairs /\ outcome[back[q]] # "none" /\ BackOf(q)
    BY <1>0, <1>1 DEF LinkTypes, Linked, BackOf
  <2> QED BY <2>1, OutcomeStays
<1>2. \A b \in Apps : pc[b] \in {"clear", "set"} => b \in Owners
  BY DEF Linked
<1>3. ASSUME UNCHANGED linkVars
      PROVE  outcome'[back'[q]] # "none" /\ BackOf(q)'
  <2>1. back'[q] = back[q] /\ forward' = forward /\ link' = link
    BY <1>3 DEF linkVars
  <2>2. \A b \in Apps : pc[b] = "clear" /\ b # a => pc'[b] = "clear"
    BY OthersStay
  <2>3. pc[a] = "clear" => pc'[a] = "clear" \/ LinkClears(a)
    BY LinkCalls
  <2>4. CASE LinkClears(a)
    <3>1. pc[a] = "clear" /\ back' = Cleared(link[a])
      BY <2>4 DEF LinkClears, Goto
    <3>2. forward[link[a].server] = link[a].client
      BY <3>1 DEF Linked
    <3>3. ASSUME back[q] = link[a].server, q = link[a].previous
          PROVE  forward[back[q]] = q
      BY <1>0, <2>1, <3>1, <3>2, <3>3 DEF Cleared, LinkTypes
    <3>4. forward[back[q]] = q
      BY <1>1, <1>2, <2>1, <2>4, <3>1, <3>3 DEF BackOf
    <3> QED BY <1>1, <2>1, <3>4 DEF BackOf
  <2>5. CASE ~LinkClears(a)
    <3>1. \A b \in Apps : pc[b] = "clear" => pc'[b] = "clear"
      BY <2>2, <2>3, <2>5
    <3>2. BackOf(q)'
      BY <1>1, <2>1, <3>1 DEF BackOf
    <3> QED BY <1>1, <2>1, <3>2
  <2> QED BY <2>4, <2>5
<1>4. ASSUME NEW p \in Pairs, NEW f \in Configs, InitBegins(a, p, f)
      PROVE  outcome'[back'[q]] # "none" /\ BackOf(q)'
  <2>1. /\ outcome[p] = "none" /\ outcome' = [outcome EXCEPT ![p] = "made"]
        /\ forward' = [forward EXCEPT ![p] = p] /\ back' = [back EXCEPT ![p] = p]
        /\ link' = link /\ pc[a] = "idle"
    BY <1>4 DEF InitBegins, Goto
  <2>2. CASE q = p
    BY <1>0, <2>1, <2>2 DEF BackOf, LinkTypes
  <2>3. CASE q # p
    <3>1. back'[q] = back[q]
      BY <1>0, <2>1, <2>3 DEF LinkTypes
    <3>2. forward'[back[q]] = forward[back[q]]
      BY <1>0, <1>1, <2>1, <3>1 DEF LinkTypes
    <3>3. \A b \in Apps : pc[b] = "clear" => pc'[b] = "clear" /\ link'[b] = link[b]
      BY <2>1, OthersStay
    <3>4. BackOf(q)'
      BY <1>1, <3>1, <3>2, <3>3 DEF BackOf
    <3> QED BY <1>1, <3>1, <3>4
  <2> QED BY <2>2, <2>3
<1>5. ASSUME a \in Owners, NEW p \in Pairs, NEW r \in 0..MaxInits, LinkBegins(a, p, r)
      PROVE  outcome'[back'[q]] # "none" /\ BackOf(q)'
  <2>0. pc \in [Apps -> Steps]
    BY DEF CallInv, CallTypes
  <2>1. /\ forward' = [forward EXCEPT ![p] = r] /\ back' = back /\ pc[a] = "idle"
        /\ link'[a] = [server |-> p, previous |-> forward[p], client |-> r]
        /\ pc'[a] = "clear"
    BY <1>0, <1>5, <2>0 DEF LinkBegins, Goto, LinkTypes
  <2>2. link'[a].server = p /\ link'[a].previous = forward[p]
    BY <2>1
  <2>3. \A b \in Apps : pc[b] # "clear"
    BY <1>2, <1>5, <2>1
  <2>4. forward[back[q]] = q /\ back[q] \in Pairs
    BY <1>1, <2>1, <2>3 DEF BackOf
  <2>5. BackOf(q)'
    <3>1. CASE back[q] = p
      BY <2>1, <2>2, <2>4, <3>1 DEF BackOf
    <3>2. CASE back[q] # p
      BY <1>0, <2>1, <2>4, <3>2 DEF BackOf, LinkTypes
    <3> QED BY <3>1, <3>2
  <2> QED BY <1>1, <2>1, <2>5
<1>6. CASE LinkClears(a)
  <2>1. /\ pc[a] = "clear" /\ back' = Cleared(link[a]) /\ forward' = forward
    BY <1>6 DEF LinkClears, Goto
  <2>2. forward[link[a].server] = link[a].client
    BY <2>1 DEF Linked
  <2>3. back'[q] = back[q]
    BY <1>0, <2>1 DEF Cleared, LinkTypes
  <2>4. ASSUME back[q] = link[a].server, q = link[a].previous
        PROVE  forward[back[q]] = q
    BY <1>0, <2>1, <2>2, <2>3, <2>4 DEF Cleared, LinkTypes
  <2>5. forward[back[q]] = q
    BY <1>1, <1>2, <2>1, <2>3, <2>4 DEF BackOf
  <2> QED BY <1>1, <2>1, <2>3, <2>5 DEF BackOf
<1>7. CASE LinkSets(a)
  <2>1. /\ pc[a] = "set" /\ forward' = forward
        /\ back' = IF link[a].client = 0 THEN back
                   ELSE [back EXCEPT ![link[a].client] = link[a].server]
    BY <1>7 DEF LinkSets, Goto
  <2>2. /\ forward[link[a].server] = link[a].client /\ link[a].server # 0
        /\ outcome[link[a].server] # "none" /\ link[a].server \in Pairs
    BY <1>0, <2>1 DEF Linked, LinkTypes
  <2>3. outcome'[link[a].server] # "none"
    BY <2>2, OutcomeStays
  <2>4. CASE q = link[a].client
    <3>1. back'[q] = link[a].server
      BY <1>0, <2>1, <2>4 DEF LinkTypes
    <3> QED BY <2>1, <2>2, <2>3, <2>4, <3>1 DEF BackOf
  <2>5. CASE q # link[a].client
    <3>1. back'[q] = back[q]
      BY <1>0, <2>1, <2>5 DEF LinkTypes
    <3>2. \A b \in Apps : pc[b] # "clear"
      BY <1>2, <2>1
    <3> QED BY <1>1, <2>1, <3>1, <3>2 DEF BackOf
  <2> QED BY <2>4, <2>5
<1> QED BY <1>3, <1>4, <1>5, <1>6, <1>7, LinkSteps

\* The back links stay true.
LEMMA StepLinked == CallInv /\ Linked /\ [Next]_vars => Linked'
<1> SUFFICES ASSUME CallInv, Linked, [Next]_vars, \A x, y \in Owners : x = y
             PROVE  Linked'
  BY DEF Linked
<1>1. CASE UNCHANGED vars
  BY <1>1 DEF vars, linkVars, callVars, Linked
<1>2. ASSUME NEW a \in Apps, Step(a)
      PROVE  Linked'
  <2>1. \A q \in Pairs : back'[q] # 0 => outcome'[back'[q]] # "none" /\ BackOf(q)'
    BY <1>2, StepBack
  <2>2. \A b \in Apps : pc'[b] \in {"clear", "set"} =>
          /\ b \in Owners /\ link'[b].server # 0
          /\ outcome'[link'[b].server] # "none"
          /\ forward'[link'[b].server] = link'[b].client
    BY <1>2, StepLinking
  <2> QED BY <2>1, <2>2 DEF Linked, BackOf
<1> QED BY <1>1, <1>2, StepsOfOne

---------------------------------------------------------------------------
(* The theorems.                                                           *)

CasterInv ==
  CallInv /\ Fresh /\ OnePerPort /\ Held /\ Closing /\ Started /\ Linked

\* Nothing has been made, and nobody calls.
LEMMA InitInv == Init => CasterInv
<1> SUFFICES ASSUME Init PROVE CasterInv
  OBVIOUS
<1> USE CasterAssumption
<1>0. 0 \in 0..MaxInits /\ \A p \in Pairs : p # 0
  BY DEF Pairs
<1>1. CallTypes
  BY <1>0 DEF Init, CallTypes, Steps
<1>2. SideTypes
  BY DEF Init, SideTypes
<1>3. LinkTypes
  BY <1>0 DEF Init, LinkTypes, NoLink
<1>4. Mutex /\ Calls /\ Taken /\ Closing
  BY DEF Init, Mutex, Locked, Calls, Taken, Closing
<1>5. Fresh /\ OnePerPort /\ Held
  BY DEF Init, Fresh, OnePerPort, Held, Runs
<1>6. Started /\ Linked
  BY DEF Init, Started, Linked
<1> QED BY <1>1, <1>2, <1>3, <1>4, <1>5, <1>6 DEF CasterInv, CallInv

\* The invariant is inductive.
LEMMA StepInv == CasterInv /\ [Next]_vars => CasterInv'
  BY StepCallInv, StepFresh, StepHeld, StepClosing, StepStarted, StepLinked DEF CasterInv

\* It holds throughout.
LEMMA AlwaysInv == Spec => []CasterInv
  BY InitInv, StepInv, PTL DEF Spec

\* Every variable keeps its type; a side that runs holds its port, and no
\* port has two holders (ntrip.go:186-253).
THEOREM CasterTypes == Spec => []TypeOK
<1>1. CasterInv => TypeOK
  BY DEF CasterInv, CallInv, CallTypes, SideTypes, LinkTypes, OnePerPort, TypeOK
<1> QED BY <1>1, AlwaysInv, PTL

\* However many goroutines call Init and StopNtripCaster, a listener that an
\* Init has started is the published one whenever casterInitMu is free, and
\* the published pair is only ever stopped by the application
\* (ntrip.go:197-212, 233-253).
THEOREM CasterOnlyPublishedRuns == Spec => []OnlyPublishedRuns
<1>1. ASSUME CasterInv PROVE OnlyPublishedRuns
  <2>1. ASSUME initMu = Nobody, NEW l \in AllSides, up[l] = "init"
        PROVE  l[1] = published
    <3>1. ASSUME NEW a \in Apps, Answers(a, l) PROVE FALSE
      <4>1. pc[a] \in Locked
        BY <3>1 DEF Answers, Locked
      <4> QED BY <1>1, <2>1, <4>1, CasterAssumption DEF CasterInv, CallInv, Mutex
    <3> QED BY <1>1, <2>1, <3>1 DEF CasterInv, Started
  <2>2. published # 0 => \A s \in Sides : up[Side(published, s)] # "down"
    BY <1>1 DEF CasterInv, Started
  <2> QED BY <2>1, <2>2 DEF OnlyPublishedRuns
<1> QED BY <1>1, AlwaysInv, PTL

\* An Init that fails leaves no port behind, for any number of Inits and any
\* config (ntrip.go:102-103, 201-207).
THEOREM CasterFailedInit == Spec => []FailedInitLeavesNothing
<1>1. ASSUME CasterInv PROVE FailedInitLeavesNothing
  <2> SUFFICES ASSUME NEW l \in bound, outcome[l[1]] = "failed", Given(l[1])
               PROVE  HeldByApp(l)
    BY DEF FailedInitLeavesNothing
  <2>0. l \in AllSides /\ l[1] \in Pairs /\ l[1] # 0 /\ l # NoSide
    BY <1>1, SideFacts DEF CasterInv, CallInv, SideTypes
  <2>1. \A a \in Apps : mine[a] # l[1]
    BY DEF Given
  <2>2. l[1] # published /\ \A a \in Apps : old[a] # l[1]
    BY <1>1, <2>0 DEF CasterInv, CallInv, Taken
  <2>3. up[l] # "init"
    BY <1>1, <2>0, <2>1, <2>2 DEF CasterInv, Started, Answers
  <2>4. CASE Runs(l)
    BY <2>3, <2>4 DEF Runs, HeldByApp
  <2>5. ASSUME NEW a \in Apps, closing[a] = l PROVE HeldByApp(l)
    BY <1>1, <2>0, <2>1, <2>2, <2>5 DEF CasterInv, Closing, HeldByApp
  <2> QED BY <1>1, <2>4, <2>5 DEF CasterInv, Held
<1> QED BY <1>1, AlwaysInv, PTL

\* When an Init comes to Start, stopNtripCaster has freed every port of its
\* predecessor (ntrip.go:199, 247-252).
THEOREM CasterPredecessorIsGone == Spec => []PredecessorIsGone
<1>1. ASSUME CasterInv PROVE PredecessorIsGone
  <2> SUFFICES ASSUME NEW a \in Apps, NEW l \in bound, NEW s \in Sides, pc[a] = Binding[s]
               PROVE  l[1] = mine[a] \/ HeldByApp(l)
    BY DEF PredecessorIsGone
  <2>0. l \in AllSides /\ l[1] \in Pairs /\ l[1] # 0 /\ l # NoSide
    BY <1>1, SideFacts DEF CasterInv, CallInv, SideTypes
  <2>1. pc[a] \in {"bindSource", "bindClient"}
    BY DEF Binding, Sides
  <2>2. published = 0
    BY <1>1, <2>1 DEF CasterInv, CallInv, Taken, Locked
  <2>3. \A b \in Apps : pc[b] \in Locked => b = a
    BY <1>1, <2>1 DEF CasterInv, CallInv, Mutex, Locked
  <2>4. ASSUME NEW b \in Apps, Answers(b, l) PROVE l[1] = mine[a]
    <3>1. pc[b] \in Locked
      BY <2>4 DEF Answers, Locked
    <3>2. b = a
      BY <2>3, <3>1
    <3> QED BY <2>1, <2>4, <3>2 DEF Answers
  <2>5. CASE Runs(l)
    BY <1>1, <2>0, <2>2, <2>4, <2>5 DEF Runs, HeldByApp, CasterInv, Started
  <2>6. ASSUME NEW b \in Apps, closing[b] = l PROVE HeldByApp(l)
    <3>1. pc[b] # "idle" => pc[b] \in {"client", "stopped", "return"}
      BY <1>1, <2>0, <2>6 DEF CasterInv, Closing
    <3>2. pc[b] = "idle"
      BY <2>1, <2>3, <3>1 DEF Locked
    <3> QED BY <2>6, <3>2 DEF HeldByApp
  <2> QED BY <1>1, <2>5, <2>6 DEF CasterInv, Held
<1> QED BY <1>1, AlwaysInv, PTL

\* With one goroutine that links, a client side never shows the table of a
\* source side that sends its data elsewhere
\* (ntrip_caster_server.go:164-176).
THEOREM CasterBackLinkTrue == Spec => []BackLinkTrue
<1>1. CasterInv => BackLinkTrue
  BY DEF CasterInv, Linked, BackLinkTrue, Linking
<1> QED BY <1>1, AlwaysInv, PTL

============================================================================
