-------------------------- MODULE MCCasterServer ---------------------------
EXTENDS CasterServer, TLC

CONSTANTS c1, c2, c3, k1, k2, k3, ip1, ip2, m1, m2

\* Each connection has an address of its own; c1 and c2 share an IP and ask
\* for the same mount point.
MCKeyOf == [c \in Conns |-> CASE c = c1 -> k1 [] c = c2 -> k2 [] OTHER -> k3]
MCIPOf == [c \in Conns |-> IF c = c3 THEN ip2 ELSE ip1]
MCMountOf == [c \in Conns |-> IF c = c3 THEN m2 ELSE m1]
MCBeans == {Bean(c) : c \in Conns}

\* c1 with its address and c2 with its own run the same code.
SourceSymmetry ==
  {p \in Permutations({c1, c2, k1, k2}) :
     {p[c1], p[c2]} = {c1, c2} /\ (p[c1] = c1 <=> p[k1] = k1)}

\* c2 connects from the address that c1 used.
MCReusedKeyOf == [c \in Conns |-> IF c = c3 THEN k3 ELSE k1]
============================================================================
