-------------------------- MODULE MCSafeNtripMap ---------------------------
EXTENDS SafeNtripMap

CONSTANTS k1, k2, m1, m2

\* Two beans per mount point, so that a key can be re-registered under the
\* same mount and under another one.
MCBeans == [id : {1, 2}, mount : {m1, m2}]

============================================================================
