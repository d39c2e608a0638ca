----------------------------- MODULE MCSyncCore -----------------------------
\* TLC instances of SyncCore.
EXTENDS SyncCore, TLC
CONSTANTS o1, o2, u1, u2, p1

Reaches(o, u) == [origin |-> o, replica |-> u, tokenOK |-> TRUE]
BadToken(o, u) == [origin |-> o, replica |-> u, tokenOK |-> FALSE]
MCServedBy == [o \in Origins |-> p1]
MCSymmetry == Permutations(Repos)

\* Two repositories of one origin and replica, listed or not.
MCListings == [Repos -> {Reaches(o1, u1), None}]

\* One repository whose replica changes or becomes invalid, whose token turns bad, or
\* that is not listed.
MCReplicas == [Repos -> {Reaches(o1, u1), Reaches(o1, u2), Reaches(o1, None),
                         BadToken(o1, u1), None}]

\* The same, and moved to another origin.
MCOrigins == MCReplicas \cup [Repos -> {Reaches(o2, u1)}]

MCNoRuns == {None}
MCOldRuns == {None} \cup {[origin |-> o1, replica |-> u] : u \in {u1, u2}}
=============================================================================
