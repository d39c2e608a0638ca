------------------------------ MODULE MCSyncRun ------------------------------
\* TLC instance of SyncRun: refs/heads/a and its neighbour refs/heads/a/x, a branch b and
\* a longer one, c, and a branch named refs/heads/b, which makes b ambiguous and is too
\* long for a batch.
EXTENDS SyncRun

MCOrder == <<"a", "a/x", "b", "c", "refs/heads/b">>
MCUnder == {<<"a", "a/x">>}
MCShadowing == {<<"b", "refs/heads/b">>}
MCLength == [r \in Refs |-> CASE r = "c" -> 2 [] r = "a/x" -> 4 [] r = "refs/heads/b" -> 5 [] OTHER -> 1]

Table(a, x, b, c, s) ==
  [r \in Refs |-> CASE r = "a" -> a [] r = "a/x" -> x [] r = "b" -> b [] r = "c" -> c
                    [] OTHER -> s]
MCTables == {Empty, Table(1, None, 1, 1, None), Table(None, 1, 2, 2, 1)}
=============================================================================
