---------------------------- MODULE NtripMapOps ----------------------------
(***************************************************************************)
(* The SafeNtripMap of ntrip/ntrip_map.go as a value and the effect of     *)
(* each of its critical sections on that value.                            *)
(*                                                                         *)
(* A map is a record                                                       *)
(*    data     the entries, a partial function  key -> bean                *)
(*    byMount  the index,   mount -> (key -> bean), also partial           *)
(* Absence of a key from a Go map is absence from the domain.  Every       *)
(* method runs under the map's mutex, so one operator is one atomic step   *)
(* of whoever calls it.  A bean is a record with at least the field mount  *)
(* (NtripChannelBean.mount never changes after construction).              *)
(***************************************************************************)
EXTENDS GoMaps

CONSTANTS
  Keys,     \* remote addresses, the keys of the map
  Mounts,   \* mount points
  Beans,    \* the channel beans that can be stored
  NoBean    \* Go's nil *NtripChannelBean

\* A bean names its mount point, and nil is not a bean.
ASSUME BeansAssumption ==
  /\ \A b \in Beans : b.mount \in Mounts
  /\ NoBean \notin Beans

---------------------------------------------------------------------------
\* m is a value of the type SafeNtripMap.
IsMap(m) ==
  /\ m = [data |-> m.data, byMount |-> m.byMount]
  /\ IsPartialFcn(m.data, Keys, Beans)
  /\ DOMAIN m.byMount \subseteq Mounts
  /\ m.byMount = [mt \in DOMAIN m.byMount |-> m.byMount[mt]]
  /\ \A mt \in DOMAIN m.byMount : IsPartialFcn(m.byMount[mt], Keys, Beans)

NewSafeNtripMap == [data |-> EmptyFcn, byMount |-> EmptyFcn]

---------------------------------------------------------------------------
(* Critical sections that change the map.                                  *)

DeleteMountIndex(byMount, key, mount) ==
  IF mount \notin DOMAIN byMount THEN byMount
  ELSE LET inner == Without(byMount[mount], key)
       IN  IF DOMAIN inner = {} THEN Without(byMount, mount)
           ELSE With(byMount, mount, inner)

\* The index once the entry that key has now, if any, is taken out of it.
IndexWithout(m, key) ==
  IF key \in DOMAIN m.data
  THEN DeleteMountIndex(m.byMount, key, m.data[key].mount)
  ELSE m.byMount

\* The keys indexed under mount.  Reading a missing Go map entry yields an
\* empty map.
IndexedKeys(byMount, mount) ==
  IF mount \in DOMAIN byMount THEN DOMAIN byMount[mount] ELSE {}

\* A Set that leaves the replaced bean in the index of its old mount.
SetForgetsOldIndex(m, key, val) ==
  IF val = NoBean
  THEN [data |-> Without(m.data, key), byMount |-> m.byMount]
  ELSE [data |-> With(m.data, key, val),
        byMount |->
          With(m.byMount, val.mount,
               With(IF val.mount \in DOMAIN m.byMount
                    THEN m.byMount[val.mount] ELSE EmptyFcn, key, val))]

Set(m, key, val) ==
  LET index == IndexWithout(m, key)
  IN  IF val = NoBean
      THEN [data |-> Without(m.data, key), byMount |-> index]
      ELSE [data |-> With(m.data, key, val),
            byMount |->
              With(index, val.mount,
                   With(IF val.mount \in DOMAIN index
                        THEN index[val.mount] ELSE EmptyFcn, key, val))]

\* A guard that only refuses the very same connection.
MountAbsentForKey(m, key, val) ==
  key \notin IndexedKeys(m.byMount, val.mount)

\* The condition under which SetIfMountAbsent stores val and returns true.
MountAbsent(m, key, val) == IndexedKeys(m.byMount, val.mount) = {}

\* The map after SetIfMountAbsent; unchanged when it returns false.
SetIfMountAbsent(m, key, val) ==
  IF ~MountAbsent(m, key, val) THEN m
  ELSE [data |-> With(m.data, key, val),
        byMount |-> With(IndexWithout(m, key), val.mount,
                         [k \in {key} |-> val])]

\* The map after Delete, and the bean that Delete returns.
Delete(m, key) ==
  [data |-> Without(m.data, key), byMount |-> IndexWithout(m, key)]

Deleted(m, key) == IF key \in DOMAIN m.data THEN m.data[key] ELSE NoBean

---------------------------------------------------------------------------
(* Critical sections that only read.                                       *)

BeansIn(m) == {m.data[k] : k \in DOMAIN m.data}

GetByMount(m, mount) ==
  {m.byMount[mount][k] : k \in IndexedKeys(m.byMount, mount)}

\* GetMountList without the sorting.
GetMountList(m) == DOMAIN m.byMount

---------------------------------------------------------------------------
(***************************************************************************)
(* The index agrees with the entries: each entry is indexed exactly once,  *)
(* under its own mount, with the same bean; the index holds nothing else   *)
(* and no empty inner map.  Delete, CloseAll, the sourcetable and the      *)
(* fan-out read different halves of the structure and rely on this.        *)
(***************************************************************************)
IndexConsistent(m) ==
  /\ \A k \in DOMAIN m.data :
       /\ m.data[k].mount \in DOMAIN m.byMount
       /\ k \in DOMAIN m.byMount[m.data[k].mount]
  /\ \A mt \in DOMAIN m.byMount :
       /\ DOMAIN m.byMount[mt] # {}
       /\ \A k \in DOMAIN m.byMount[mt] :
            /\ k \in DOMAIN m.data
            /\ m.data[k] = m.byMount[mt][k]
            /\ m.data[k].mount = mt

\* No mount point has two entries.
SingleHolder(m) ==
  \A j, k \in DOMAIN m.data : m.data[j].mount = m.data[k].mount => j = k
============================================================================
