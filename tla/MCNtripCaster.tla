--------------------------- MODULE MCNtripCaster ----------------------------
EXTENDS NtripCaster

\* Every Init asks for the same two ports.
MCConfigs == {[source |-> 1, client |-> 2]}
============================================================================
