---------------------------- MODULE MCScheduler ----------------------------
\* TLC instances of Scheduler.
EXTENDS Scheduler, TLC
CONSTANTS k1, k2, b1, b2

MCBindOf == [k \in Keys |-> IF k = k1 THEN b1 ELSE b2]
MCSymmetry == Permutations(Repos)

\* Every repository stays configured, all on one credential.
MCAlways == {[r \in Repos |-> k1]}
\* Listed or not, on either credential.
MCRebind == [Repos -> {k1, k2, None}]

\* The origin refuses and accepts any credential; or only comes to refuse the first.
MCAnyVerdict == [b \in Binds |-> BOOLEAN]
MCRefusesOne == [b \in Binds |-> IF b = b1 THEN {FALSE} ELSE {}]

\* What decides the future, when a resume spreads nothing (Jitter = 0), and all that
\* PassHasGate and BackoffKept read: neither wasSuspended nor who logged in last.
MCView ==
  <<clientVars, entries, gateVars, pollVars, recVars, runVars, accepts, holdOff, overwritten>>
=============================================================================
