---------------------------- MODULE MCMirrorGC ----------------------------
\* TLC instances of MirrorGC.
EXTENDS MirrorGC
CONSTANTS m1, m2

\* m2 stays, m1 comes and goes.
MCOne == {{m1, m2}, {m2}}
\* The same, and a configuration without repositories.
MCSome == MCOne \cup {{}}
=============================================================================
