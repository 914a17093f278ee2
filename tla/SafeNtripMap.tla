---------------------------- MODULE SafeNtripMap ----------------------------
(***************************************************************************)
(* SafeNtripMap of ntrip/ntrip_map.go under concurrent callers.            *)
(*                                                                         *)
(* Each mutating method is one critical section and so one action.         *)
(* CloseAll and ForEachByMount are not: they collect beans while holding   *)
(* the mutex and work through the collected beans after releasing it, and  *)
(* other callers run in between.                                           *)
(***************************************************************************)
EXTENDS NtripMapOps

CONSTANT Callers \* goroutines that call CloseAll or ForEachByMount

VARIABLES
  sourceMap, \* whose map it is: TRUE for the caster's source side, which
             \* makes entries by SetIfMountAbsent only; it never changes
  ntripMap,  \* the value of the map
  closed,    \* the beans on which Close has run
  closing,   \* caller -> beans that its CloseAll still has to close
  visiting   \* caller -> beans that its ForEachByMount still has to visit

vars == <<sourceMap, ntripMap, closed, closing, visiting>>

TypeOK ==
  /\ sourceMap \in BOOLEAN
  /\ IsMap(ntripMap)
  /\ closed \subseteq Beans
  /\ closing \in [Callers -> SUBSET Beans]
  /\ visiting \in [Callers -> SUBSET Beans]

Init ==
  /\ sourceMap \in BOOLEAN
  /\ ntripMap = NewSafeNtripMap
  /\ closed = {}
  /\ closing = [c \in Callers |-> {}]
  /\ visiting = [c \in Callers |-> {}]

Idle(c) == closing[c] = {} /\ visiting[c] = {}

---------------------------------------------------------------------------
DoSet(k, val) ==
  /\ ~sourceMap
  /\ ntripMap' = Set(ntripMap, k, val)
  /\ UNCHANGED <<sourceMap, closed, closing, visiting>>

DoSetIfMountAbsent(k, b) ==
  /\ ntripMap' = SetIfMountAbsent(ntripMap, k, b)
  /\ UNCHANGED <<sourceMap, closed, closing, visiting>>

DoDelete(k) ==
  /\ ntripMap' = Delete(ntripMap, k)
  /\ UNCHANGED <<sourceMap, closed, closing, visiting>>

\* CloseAll, first half: under the mutex, take every bean and empty both
\* halves of the map.  This form forgets the index.
ClearKeepsIndex(c) ==
  /\ Idle(c)
  /\ closing' = [closing EXCEPT ![c] = BeansIn(ntripMap)]
  /\ ntripMap' = [ntripMap EXCEPT !.data = EmptyFcn]
  /\ UNCHANGED <<sourceMap, closed, visiting>>

CloseAllClear(c) ==
  /\ Idle(c)
  /\ closing' = [closing EXCEPT ![c] = BeansIn(ntripMap)]
  /\ ntripMap' = NewSafeNtripMap
  /\ UNCHANGED <<sourceMap, closed, visiting>>

\* CloseAll, second half: without the mutex, close the collected beans.
CloseAllClose(c, b) ==
  /\ b \in closing[c]
  /\ closed' = closed \cup {b}
  /\ closing' = [closing EXCEPT ![c] = @ \ {b}]
  /\ UNCHANGED <<sourceMap, ntripMap, visiting>>

ForEachByMount(c, mount) ==
  /\ Idle(c)
  /\ visiting' = [visiting EXCEPT ![c] = GetByMount(ntripMap, mount)]
  /\ UNCHANGED <<sourceMap, ntripMap, closed, closing>>

ForEachVisit(c, b) ==
  /\ b \in visiting[c]
  /\ visiting' = [visiting EXCEPT ![c] = @ \ {b}]
  /\ UNCHANGED <<sourceMap, ntripMap, closed, closing>>

CallerStep(c) == \E b \in Beans : CloseAllClose(c, b) \/ ForEachVisit(c, b)

Next ==
  \/ \E k \in Keys, val \in Beans \cup {NoBean} : DoSet(k, val)
  \/ \E k \in Keys, b \in Beans : DoSetIfMountAbsent(k, b)
  \/ \E k \in Keys : DoDelete(k)
  \/ \E c \in Callers : CloseAllClear(c)
  \/ \E c \in Callers, mt \in Mounts : ForEachByMount(c, mt)
  \/ \E c \in Callers : CallerStep(c)

Spec == Init /\ [][Next]_vars

---------------------------------------------------------------------------
\* The two halves of the map always agree, whatever the interleaving of the
\* methods (ntrip_map.go:208-275, 350-362).
IndexAgrees == IndexConsistent(ntripMap)

\* "It atomically enforces the single-source-per-mount invariant"
\* (ntrip_map.go:226-227): as long as entries are made by SetIfMountAbsent,
\* no mount point ever has two.
SingleSourcePerMount == sourceMap => SingleHolder(ntripMap)

\* The map implements a plain table with derived listing and fan-out: what
\* GetMountList, HasMount, GetByMount and the broadcast read from byMount is
\* what the entries in data imply.
Registry == INSTANCE MountRegistry WITH
  owner <- ntripMap.data,
  listed <- GetMountList(ntripMap),
  members <- [mt \in Mounts |-> GetByMount(ntripMap, mt)]

ImplementsRegistry == Registry!Spec
============================================================================
