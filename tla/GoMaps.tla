------------------------------- MODULE GoMaps -------------------------------
(***************************************************************************)
(* Go maps as partial functions: absence of a key is absence from the      *)
(* domain.                                                                 *)
(***************************************************************************)
EXTENDS Integers

EmptyFcn == [x \in {} |-> x]

\* m[k] = v
With(f, k, v) == [j \in DOMAIN f \cup {k} |-> IF j = k THEN v ELSE f[j]]

\* delete(m, k)
Without(f, k) == [j \in DOMAIN f \ {k} |-> f[j]]

\* f is a Go map from D to R.
IsPartialFcn(f, D, R) == DOMAIN f \subseteq D /\ f \in [DOMAIN f -> R]
============================================================================
