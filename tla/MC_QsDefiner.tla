---------------------------- MODULE MC_QsDefiner ----------------------------
EXTENDS QsDefiner

CONSTANTS u1, u2, u3, u4

\* Every acyclic iface.base over U.
MCBases == {b \in [U -> U \cup {NoBase}] : Acyclic(b)}

\* Every iface.base over U, cycles included: xpidl resolves a base by name
\* and does not reject a cycle.
MCAllBases == [U -> U \cup {NoBase}]

\* No interface has a base.
MCNoBases == {[u \in U |-> NoBase]}
=============================================================================
