------------------------------- MODULE MCTcp --------------------------------
EXTENDS Tcp

\* Both connections come from the same IP.
MCIPOf == [c \in Conns |-> "ip1"]
============================================================================
