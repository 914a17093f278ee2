-------------------------- MODULE MCCasterClient ---------------------------
EXTENDS CasterClient

CONSTANTS c1, c2, k1, k2, ip1, m1

\* Two subscribers of one mount point from one IP.
MCKeyOf == [c \in Conns |-> IF c = c1 THEN k1 ELSE k2]
MCIPOf == [c \in Conns |-> ip1]
MCMountOf == [c \in Conns |-> m1]
MCBeans == {Bean(c) : c \in Conns}
============================================================================
