--------------------------- MODULE MountRegistry ---------------------------
(***************************************************************************)
(* What a SafeNtripMap promises: one table from remote address to bean,    *)
(* in which the mount points listed and the members of each mount point    *)
(* are always those of the table.  There is no index to keep in step.      *)
(***************************************************************************)
EXTENDS Integers

CONSTANTS Keys, Mounts, Beans

VARIABLES
  owner,    \* partial function: key -> bean
  listed,   \* the mount points shown to subscribers
  members   \* mount -> the beans a payload for that mount is sent to

vars == <<owner, listed, members>>

Owned(own) == {own[k] : k \in DOMAIN own}

\* What the table says the listing and the fan-out must be.
View ==
  /\ listed = {b.mount : b \in Owned(owner)}
  /\ members = [mt \in Mounts |-> {b \in Owned(owner) : b.mount = mt}]

Init == owner = [k \in {} |-> k] /\ View

Put(k, b) ==
  owner' = [j \in DOMAIN owner \cup {k} |-> IF j = k THEN b ELSE owner[j]]

Register(k, b) == Put(k, b) /\ View'

\* A mount point that is free, whoever asks, may be claimed.
Claim(k, b) ==
  /\ \A c \in Owned(owner) : c.mount # b.mount
  /\ Put(k, b)
  /\ View'

Unregister(k) ==
  /\ owner' = [j \in DOMAIN owner \ {k} |-> owner[j]]
  /\ View'

Clear == owner' = [k \in {} |-> k] /\ View'

Next ==
  \/ \E k \in Keys, b \in Beans : Register(k, b) \/ Claim(k, b)
  \/ \E k \in Keys : Unregister(k)
  \/ Clear

Spec == Init /\ [][Next]_vars
============================================================================
