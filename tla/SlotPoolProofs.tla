--------------------------- MODULE SlotPoolProofs ---------------------------
(***************************************************************************)
(* Proofs, for any finite set of callers and any limits, of what SlotPool  *)
(* states: the counter is exact, no waiter sleeps below the limit, waiters *)
(* are served in arrival order and nothing is granted over the limit.      *)
(***************************************************************************)
EXTENDS SlotPool, FiniteSetTheorems, TLAPS

(***************************************************************************)
(* What grantLocked does, whoever calls it: n of the waiters, the oldest   *)
(* ones, leave the queue.                                                  *)
(***************************************************************************)

\* The loop serves at most the whole queue, stops at the limit, and leaves a
\* waiter behind only when the pool is full.
LEMMA GrantsBounds ==
  ASSUME NEW h \in Nat, NEW l \in Nat, waiters \in Seq(Callers)
  PROVE  /\ Grants(h, l) \in 0..Len(waiters)
         /\ Grants(h, l) > 0 => h + Grants(h, l) <= l
         /\ Grants(h, l) < Len(waiters) => h + Grants(h, l) >= l
  BY DEF Grants, Lesser

\* The first n elements of a queue without duplicates are n different callers.
LEMMA PrefixCardinality ==
  ASSUME NEW n \in Nat, waiters \in Seq(Callers), n <= Len(waiters),
         \A i, j \in 1..Len(waiters) : waiters[i] = waiters[j] => i = j
  PROVE  LET G == {waiters[i] : i \in 1..n}
         IN  IsFiniteSet(G) /\ Cardinality(G) = n /\ G \subseteq Callers
<1> DEFINE G == {waiters[i] : i \in 1..n}
           f == [i \in 1..n |-> waiters[i]]
<1>1. f \in Bijection(1..n, G)
  BY DEF Bijection, Injection, Surjection, IsInjective
<1>2. ExistsBijection(1..n, G)
  BY <1>1 DEF ExistsBijection
<1>3. IsFiniteSet(1..n) /\ Cardinality(1..n) = n
  BY FS_Interval
<1>4. IsFiniteSet(G) /\ Cardinality(G) = n
  <2> HIDE DEF G
  <2> QED BY <1>2, <1>3, FS_Bijection
<1> QED
  BY <1>4

\* Adding n waiters to the B who own the h slots counts h + n owners.
LEMMA OwnersAfterGrant ==
  ASSUME NEW h \in Nat, NEW n \in Nat, NEW B \in SUBSET Callers,
         waiters \in Seq(Callers), n <= Len(waiters), h = Cardinality(B),
         \A i, j \in 1..Len(waiters) : waiters[i] = waiters[j] => i = j,
         \A i \in 1..Len(waiters) : waiters[i] \notin B
  PROVE  h + n = Cardinality(B \cup {waiters[i] : i \in 1..n})
<1> DEFINE G == {waiters[i] : i \in 1..n}
<1>1. IsFiniteSet(G) /\ Cardinality(G) = n
  BY PrefixCardinality
<1>2. IsFiniteSet(B)
  BY CallersFinite, FS_Subset
<1>3. B \cap G = {}
  OBVIOUS
<1> HIDE DEF G
<1>4. Cardinality(B \cap G) = 0
  BY <1>3, FS_EmptySet
<1>5. Cardinality(B \cup G) = Cardinality(B) + Cardinality(G) - Cardinality(B \cap G)
  BY <1>1, <1>2, FS_Union
<1> QED
  BY <1>1, <1>4, <1>5 DEF G

\* The whole effect of grantLocked on the queue and the grants: B are the owners
\* left when it is called with h slots held, g the granted among them.
GrantEffect(B, h, l, g) ==
  /\ held' \in Nat /\ waiters' \in Seq(Callers) /\ granted' \in SUBSET Callers
  /\ held' = Cardinality(B \cup granted')
  /\ waiters' # <<>> => held' >= l
  /\ held' > h => held' <= l
  /\ \A i, j \in 1..Len(waiters') : waiters'[i] = waiters'[j] => i = j
  /\ \A i \in 1..Len(waiters') :
        /\ waiters'[i] \notin granted'
        /\ \E k \in 1..Len(waiters) : waiters'[i] = waiters[k]
  /\ \A k \in 1..Len(waiters) :
        \/ waiters[k] \in granted'
        \/ \E i \in 1..Len(waiters') : waiters'[i] = waiters[k]
  /\ \A c \in granted' : c \in g \/ \E k \in 1..Len(waiters) : c = waiters[k]
  /\ g \subseteq granted'
  /\ \A p \in 1..Len(waiters) :
        waiters[p] \in granted' => \A i \in 1..p : waiters[i] \in granted'

\* grantLocked, run over the owners B who hold the h slots, has that effect: the counter
\* stays exact, the served waiters leave the queue from its front, nobody is stalled.
LEMMA GrantLockedKeeps ==
  ASSUME NEW h \in Nat, NEW l \in Nat \ {0}, NEW g \in SUBSET Callers,
         NEW B \in SUBSET Callers, g \subseteq B, h = Cardinality(B),
         waiters \in Seq(Callers),
         \A i, j \in 1..Len(waiters) : waiters[i] = waiters[j] => i = j,
         \A i \in 1..Len(waiters) : waiters[i] \notin B,
         GrantLocked(h, l, g)
  PROVE  GrantEffect(B, h, l, g)
<1> DEFINE n == Grants(h, l)
           G == {waiters[i] : i \in 1..n}
<1>1. /\ n \in Nat /\ n <= Len(waiters)
      /\ n > 0 => h + n <= l
      /\ n < Len(waiters) => h + n >= l
  BY GrantsBounds
<1>2. held' = h + n /\ granted' = g \cup G
      /\ waiters' = SubSeq(waiters, n + 1, Len(waiters))
  BY DEF GrantLocked
<1> HIDE DEF n
<1>3. /\ waiters' \in Seq(Callers) /\ Len(waiters') = Len(waiters) - n
      /\ \A i \in 1..Len(waiters') : waiters'[i] = waiters[i + n]
  BY <1>1, <1>2
<1>4. h + n = Cardinality(B \cup G)
  BY <1>1, OwnersAfterGrant
<1>5. B \cup granted' = B \cup G
  BY <1>2
<1>6. waiters' # <<>> => held' >= l
  BY <1>1, <1>2, <1>3
<1>7. held' \in Nat /\ (held' > h => held' <= l)
  BY <1>1, <1>2
<1>8. \A i, j \in 1..Len(waiters') : waiters'[i] = waiters'[j] => i = j
  <2> SUFFICES ASSUME NEW i \in 1..Len(waiters'), NEW j \in 1..Len(waiters'),
                      waiters[i + n] = waiters[j + n]
               PROVE  i = j
    BY <1>3
  <2> QED BY <1>1, <1>3
<1>9. \A i \in 1..Len(waiters') : /\ waiters'[i] \notin granted'
                                  /\ \E k \in 1..Len(waiters) : waiters'[i] = waiters[k]
  <2> SUFFICES ASSUME NEW i \in 1..Len(waiters')
               PROVE  /\ waiters[i + n] \notin granted'
                      /\ i + n \in 1..Len(waiters)
    BY <1>3
  <2>1. i + n \in 1..Len(waiters)
    BY <1>1, <1>3
  <2>2. waiters[i + n] \notin G
    BY <1>1, <1>3, <2>1
  <2> QED BY <1>2, <2>1, <2>2
<1>10. \A k \in 1..Len(waiters) : \/ waiters[k] \in granted'
                                  \/ \E i \in 1..Len(waiters') : waiters'[i] = waiters[k]
  <2> SUFFICES ASSUME NEW k \in 1..Len(waiters)
               PROVE  \/ waiters[k] \in granted'
                      \/ \E i \in 1..Len(waiters') : waiters'[i] = waiters[k]
    OBVIOUS
  <2>1. CASE k \in 1..n
    BY <1>2, <2>1
  <2>2. CASE k \notin 1..n
    <3>1. k - n \in 1..Len(waiters') /\ (k - n) + n = k
      BY <1>1, <1>3, <2>2
    <3> QED BY <1>3, <3>1
  <2> QED BY <2>1, <2>2
<1>11. \A c \in G : c \in Callers /\ \E k \in 1..Len(waiters) : c = waiters[k]
  BY <1>1
<1>12. /\ granted' \in SUBSET Callers
       /\ \A c \in granted' : c \in g \/ \E k \in 1..Len(waiters) : c = waiters[k]
       /\ g \subseteq granted'
  BY <1>2, <1>11
<1>13. held' = Cardinality(B \cup granted')
  BY <1>2, <1>4, <1>5
<1>14. \A p \in 1..Len(waiters) :
          waiters[p] \in granted' => \A i \in 1..p : waiters[i] \in granted'
  <2> SUFFICES ASSUME NEW p \in 1..Len(waiters), waiters[p] \in G, NEW i \in 1..p
               PROVE  waiters[i] \in G
    BY <1>2
  <2> PICK q \in 1..n : waiters[p] = waiters[q]
    OBVIOUS
  <2>1. p = q
    BY <1>1
  <2> QED BY <1>1, <2>1
<1> QED
  BY <1>3, <1>6, <1>7, <1>8, <1>9, <1>10, <1>12, <1>13, <1>14 DEF GrantEffect

-----------------------------------------------------------------------------
(***************************************************************************)
(* The invariant.  HeldIsOwned and NoStalledWaiter are not inductive on    *)
(* their own: that a granted slot is counted once needs QueueOK (a waiter  *)
(* is queued or granted, never both).                                      *)
(***************************************************************************)

\* The action ArrivalOrder is about.
ServedInOrder ==
  \A c \in Owners' \ Owners : \A i \in 1..Len(waiters) :
     (\A j \in 1..i : waiters[j] # c) =>
         waiters[i] \notin {waiters'[k] : k \in 1..Len(waiters')}

\* The slots in use are finitely many: their owners can be counted.
LEMMA OwnersFinite == TypeOK => Owners \in SUBSET Callers /\ IsFiniteSet(Owners)
  BY CallersFinite, FS_Subset DEF TypeOK, Owners

\* Nobody queued owns a slot yet, as GrantLockedKeeps assumes of the state before.
LEMMA OwnersOutsideQueue ==
  IInv => \A i \in 1..Len(waiters) : waiters[i] \notin Owners
  BY DEF IInv, TypeOK, QueueOK, Owners

\* newSlotPool: the empty pool satisfies the invariant.
LEMMA InitIInv == Init => IInv
<1> SUFFICES ASSUME Init PROVE IInv
  OBVIOUS
<1>1. TypeOK
  <2> PICK l \in Limits : limit = AtLeastOne(l)
    BY DEF Init
  <2> l \in Nat
    BY LimitsAssumption
  <2>1. limit \in Nat \ {0}
    BY DEF AtLeastOne
  <2>2. waiters \in Seq(Callers) /\ granted \in SUBSET Callers /\ held \in Nat
    BY DEF Init
  <2>3. at \in [Callers -> {"out", "waiting", "leaving", "holding"}] /\ ctxDone \in BOOLEAN
    BY DEF Init
  <2> QED BY <2>1, <2>2, <2>3 DEF TypeOK
<1>2. QueueOK
  BY DEF Init, QueueOK
<1>3. Owners = {}
  BY DEF Init, Owners
<1>4. HeldIsOwned
  BY <1>3, FS_EmptySet DEF Init, HeldIsOwned
<1> QED
  BY <1>1, <1>2, <1>4 DEF Init, NoStalledWaiter, IInv

\* Any operation that takes the slots of Owners \ B away (they are out of the pool
\* afterwards) and then runs grantLocked keeps the invariant: release and the granted
\* half of abandon take one, resize none.
LEMMA AfterGrant ==
  ASSUME IInv, NEW B \in SUBSET Owners, NEW h \in Nat, NEW l \in Nat \ {0},
         NEW g, g = granted \cap B, h = Cardinality(B),
         GrantLocked(h, l, g), limit' = l, ctxDone' = ctxDone,
         at' = [x \in Callers |-> IF x \in Owners \ B THEN "out" ELSE at[x]]
  PROVE  /\ IInv' /\ (held' > h => held' <= limit')
         /\ ServedInOrder
<1>1. /\ B \in SUBSET Callers /\ g \in SUBSET Callers /\ g \subseteq B
      /\ \A i \in 1..Len(waiters) : waiters[i] \notin B
      /\ waiters \in Seq(Callers)
      /\ \A i, j \in 1..Len(waiters) : waiters[i] = waiters[j] => i = j
  BY OwnersFinite, OwnersOutsideQueue DEF IInv, TypeOK, QueueOK
<1>2. GrantEffect(B, h, l, g)
  BY <1>1, GrantLockedKeeps
<1> USE <1>2 DEF GrantEffect
<1>3. TypeOK'
  BY <1>2 DEF IInv, TypeOK
<1>4. /\ \A i \in 1..Len(waiters) : /\ waiters[i] \notin Owners /\ waiters[i] \in Callers
                                    /\ at[waiters[i]] \in {"waiting", "leaving"}
      /\ \A x \in granted : at[x] \in {"waiting", "leaving"}
      /\ \A x \in Callers : at[x] \in {"waiting", "leaving"} =>
            x \in granted \/ \E i \in 1..Len(waiters) : waiters[i] = x
  BY OwnersOutsideQueue DEF IInv, TypeOK, QueueOK
<1>5. QueueOK'
  <2>1. \A x \in granted' : at'[x] \in {"waiting", "leaving"}
    BY <1>2, <1>4
  <2>2. \A i \in 1..Len(waiters') : at'[waiters'[i]] \in {"waiting", "leaving"}
    BY <1>2, <1>4
  <2>3. ASSUME NEW x \in Callers, at'[x] \in {"waiting", "leaving"}
        PROVE  x \in granted' \/ \E i \in 1..Len(waiters') : waiters'[i] = x
    <3>1. at[x] \in {"waiting", "leaving"} /\ x \notin Owners \ B
      BY <2>3
    <3>2. x \in g \/ \E i \in 1..Len(waiters) : waiters[i] = x
      BY <1>4, <3>1 DEF Owners
    <3> QED BY <1>2, <3>2
  <2> QED BY <1>2, <2>1, <2>2, <2>3 DEF QueueOK
<1>6. Owners' = B \cup granted'
  BY <1>2, <1>4 DEF Owners, IInv, TypeOK
<1>7. ServedInOrder
  <2> SUFFICES ASSUME NEW c \in Owners', c \notin Owners, NEW i \in 1..Len(waiters),
                      \A j \in 1..i : waiters[j] # c
               PROVE  waiters[i] \notin {waiters'[k] : k \in 1..Len(waiters')}
    BY DEF ServedInOrder
  <2>1. c \in granted' /\ c \notin g
    BY <1>6 DEF Owners
  <2> PICK p \in 1..Len(waiters) : c = waiters[p]
    BY <2>1
  <2>2. p \notin 1..i
    OBVIOUS
  <2>3. Len(waiters) \in Nat
    BY <1>1
  <2>4. i \in 1..p
    BY <2>2, <2>3
  <2>5. waiters[i] \in granted'
    BY <2>1, <2>4
  <2>6. \A k \in 1..Len(waiters') : waiters'[k] \notin granted'
    OBVIOUS
  <2> HIDE <1>2 DEF GrantEffect
  <2> QED BY ONLY <2>5, <2>6
<1> QED
  BY <1>2, <1>3, <1>5, <1>6, <1>7 DEF IInv, HeldIsOwned, NoStalledWaiter

\* Giving up one owned slot: the premise of AfterGrant about the count.
LEMMA OneOwnerLess ==
  ASSUME IInv, NEW c \in Owners
  PROVE  /\ held - 1 \in Nat
         /\ held - 1 = Cardinality(Owners \ {c})
         /\ Owners \ (Owners \ {c}) = {c}
<1>1. Cardinality(Owners \ {c}) = Cardinality(Owners) - 1 /\ IsFiniteSet(Owners \ {c})
  BY OwnersFinite, FS_RemoveElement DEF IInv
<1>2. Cardinality(Owners \ {c}) \in Nat
  BY <1>1, FS_CardinalityType
<1> QED
  BY <1>1, <1>2 DEF IInv, HeldIsOwned, TypeOK

StepOK == IInv' /\ (held' > held => held' <= limit') /\ ServedInOrder

\* One step of the pool, action by action: the invariant, and what the step may do.
LEMMA NextStep ==
  IInv /\ [Next]_vars => IInv' /\ (held' > held => held' <= limit') /\ ServedInOrder
<1> SUFFICES ASSUME IInv, [Next]_vars PROVE StepOK
  BY DEF StepOK
<1>t. TypeOK /\ QueueOK /\ HeldIsOwned /\ NoStalledWaiter
  BY DEF IInv
<1>1. ASSUME NEW c \in Callers, AcquireNow(c) PROVE StepOK
  <2>1. TypeOK' /\ QueueOK' /\ NoStalledWaiter'
    BY <1>t, <1>1 DEF AcquireNow, TypeOK, QueueOK, NoStalledWaiter
  <2>2. Owners' = Owners \cup {c} /\ c \notin Owners
    BY <1>t, <1>1 DEF AcquireNow, Owners, TypeOK, QueueOK
  <2>3. Cardinality(Owners') = Cardinality(Owners) + 1
    BY <1>t, <2>2, OwnersFinite, FS_AddElement
  <2>4. IInv'
    BY <1>t, <1>1, <2>1, <2>3 DEF AcquireNow, IInv, HeldIsOwned
  <2> QED BY <1>t, <1>1, <2>4 DEF AcquireNow, TypeOK, StepOK, ServedInOrder
<1>2. ASSUME NEW c \in Callers, Enqueue(c) PROVE StepOK
  <2>1. TypeOK'
    BY <1>t, <1>2 DEF Enqueue, TypeOK
  <2>2. /\ Len(waiters') = Len(waiters) + 1 /\ waiters'[Len(waiters) + 1] = c
        /\ \A i \in 1..Len(waiters) : waiters'[i] = waiters[i] /\ waiters[i] \in Callers
    BY <1>t, <1>2 DEF Enqueue, TypeOK
  <2>3. \A i \in 1..Len(waiters) : waiters[i] # c
    BY <1>t, <1>2 DEF Enqueue, TypeOK, QueueOK
  <2>4. QueueOK'
    <3>1. \A i \in 1..Len(waiters') : i = Len(waiters) + 1 \/ i \in 1..Len(waiters)
      BY <1>t, <2>2 DEF TypeOK
    <3>2. \A i, j \in 1..Len(waiters') : waiters'[i] = waiters'[j] => i = j
      BY <1>t, <2>2, <2>3, <3>1 DEF QueueOK
    <3>3. \A x \in Callers : at'[x] = IF x = c THEN "waiting" ELSE at[x]
      BY <1>t, <1>2 DEF Enqueue, TypeOK
    <3>4. \A i \in 1..Len(waiters') : at'[waiters'[i]] \in {"waiting", "leaving"}
                                      /\ waiters'[i] \notin granted'
      BY <1>t, <1>2, <2>2, <3>1, <3>3 DEF QueueOK, Enqueue
    <3>5. \A x \in Callers : at'[x] \in {"waiting", "leaving"} =>
              x \in granted' \/ \E i \in 1..Len(waiters') : waiters'[i] = x
      <4> SUFFICES ASSUME NEW x \in Callers, at'[x] \in {"waiting", "leaving"}, x # c
                   PROVE  x \in granted' \/ \E i \in 1..Len(waiters') : waiters'[i] = x
        BY <1>t, <2>2 DEF TypeOK
      <4>1. x \in granted \/ \E i \in 1..Len(waiters) : waiters[i] = x
        BY <1>t, <3>3 DEF QueueOK
      <4>2. ASSUME NEW i \in 1..Len(waiters), waiters[i] = x
            PROVE  i \in 1..Len(waiters') /\ waiters'[i] = x
        BY <1>t, <2>2, <4>2 DEF TypeOK
      <4> QED BY <1>2, <4>1, <4>2 DEF Enqueue
    <3> QED BY <1>t, <1>2, <3>2, <3>3, <3>4, <3>5 DEF QueueOK, Enqueue, TypeOK
  <2>5. Owners' = Owners
    BY <1>t, <1>2 DEF Enqueue, Owners, TypeOK
  <2>6. NoStalledWaiter' /\ HeldIsOwned'
    BY <1>t, <1>2, <2>5 DEF Enqueue, NoStalledWaiter, HeldIsOwned, TypeOK
  <2>9. IInv'
    BY <2>1, <2>4, <2>6 DEF IInv
  <2> QED BY <1>t, <1>2, <2>9, <2>5 DEF Enqueue, TypeOK, StepOK, ServedInOrder
<1>3. ASSUME NEW c \in Callers, Wake(c) PROVE StepOK
  <2>1. TypeOK' /\ NoStalledWaiter'
    BY <1>t, <1>3 DEF Wake, TypeOK, NoStalledWaiter
  <2>2. QueueOK'
    BY <1>t, <1>3 DEF Wake, QueueOK, TypeOK
  <2>3. Owners' = Owners
    BY <1>t, <1>3 DEF Wake, Owners, TypeOK
  <2>9. IInv'
    BY <1>t, <1>3, <2>1, <2>2, <2>3 DEF Wake, HeldIsOwned, IInv
  <2> QED BY <1>t, <1>3, <2>9, <2>3 DEF Wake, TypeOK, StepOK, ServedInOrder
<1>4. ASSUME NEW c \in Callers, GiveUp(c) PROVE StepOK
  <2>1. TypeOK' /\ NoStalledWaiter'
    BY <1>t, <1>4 DEF GiveUp, TypeOK, NoStalledWaiter
  <2>2. QueueOK'
    BY <1>t, <1>4 DEF GiveUp, QueueOK, TypeOK
  <2>3. Owners' = Owners
    BY <1>t, <1>4 DEF GiveUp, Owners, TypeOK
  <2>9. IInv'
    BY <1>t, <1>4, <2>1, <2>2, <2>3 DEF GiveUp, HeldIsOwned, IInv
  <2> QED BY <1>t, <1>4, <2>9, <2>3 DEF GiveUp, TypeOK, StepOK, ServedInOrder
<1>5. ASSUME NEW c \in Callers, Abandon(c), c \in granted PROVE StepOK
  <2> DEFINE B == Owners \ {c}
             h == held - 1
             g == granted \ {c}
  <2>1. c \in Owners
    BY <1>5 DEF Owners
  <2>2. h \in Nat /\ h = Cardinality(B) /\ Owners \ B = {c} /\ B \in SUBSET Owners
    BY <2>1, OneOwnerLess
  <2>3. /\ g = granted \cap B /\ GrantLocked(h, limit, g)
        /\ limit' = limit /\ limit \in Nat \ {0} /\ ctxDone' = ctxDone
    BY <1>t, <1>5 DEF Abandon, TypeOK, Owners
  <2>4. at' = [x \in Callers |-> IF x \in Owners \ B THEN "out" ELSE at[x]]
    BY <1>t, <1>5, <2>2 DEF Abandon, TypeOK
  <2> HIDE DEF B, g
  <2>6. IInv' /\ (held' > h => held' <= limit') /\ ServedInOrder
    <3> HIDE DEF h
    <3> QED BY <2>2, <2>3, <2>4, AfterGrant
  <2>7. held' \in Nat /\ held \in Nat
    BY <1>t, <2>6 DEF IInv, TypeOK
  <2>8. held' > held => held' > h
    BY <2>7
  <2> QED BY <2>6, <2>8 DEF StepOK
<1>6. ASSUME NEW c \in Callers, Abandon(c), c \notin granted PROVE StepOK
  <2> PICK k \in 1..Len(waiters) : waiters[k] = c /\ waiters' = RemoveElem(k)
    BY <1>6 DEF Abandon
  <2>0. /\ Len(waiters) \in Nat /\ Len(waiters) - 1 \in Nat
        /\ \A i \in 1..Len(waiters) : waiters[i] \in Callers
    BY <1>t DEF TypeOK
  <2>1. /\ waiters' \in Seq(Callers) /\ Len(waiters') = Len(waiters) - 1
        /\ \A i \in 1..Len(waiters') :
              waiters'[i] = IF i < k THEN waiters[i] ELSE waiters[i + 1]
    <3>1. waiters' = [i \in 1..(Len(waiters) - 1) |->
                        IF i < k THEN waiters[i] ELSE waiters[i + 1]]
      BY DEF RemoveElem
    <3>2. \A i \in 1..(Len(waiters) - 1) :
              (IF i < k THEN waiters[i] ELSE waiters[i + 1]) \in Callers
      BY <2>0
    <3> QED BY <2>0, <3>1, <3>2
  <2>2. UNCHANGED <<limit, held, granted, ctxDone>> /\ at' = [at EXCEPT ![c] = "out"]
        /\ at[c] = "leaving"
    BY <1>6 DEF Abandon
  <2>3. TypeOK'
    BY <1>t, <2>1, <2>2 DEF TypeOK
  <2>4. QueueOK'
    <3>1. \A i \in 1..Len(waiters') : \E m \in 1..Len(waiters) :
              m = (IF i < k THEN i ELSE i + 1) /\ waiters'[i] = waiters[m] /\ m # k
      BY <2>0, <2>1
    <3>2. \A i, j \in 1..Len(waiters') : waiters'[i] = waiters'[j] => i = j
      <4> SUFFICES ASSUME NEW i \in 1..Len(waiters'), NEW j \in 1..Len(waiters'),
                          waiters'[i] = waiters'[j]
                   PROVE  i = j
        OBVIOUS
      <4>1. (IF i < k THEN i ELSE i + 1) = (IF j < k THEN j ELSE j + 1)
        BY <1>t, <3>1 DEF QueueOK
      <4> QED BY <2>0, <2>1, <4>1
    <3>3. \A x \in Callers : at'[x] = IF x = c THEN "out" ELSE at[x]
      BY <1>t, <2>2 DEF TypeOK
    <3>4. \A i \in 1..Len(waiters') : /\ at'[waiters'[i]] \in {"waiting", "leaving"}
                                      /\ waiters'[i] \notin granted'
      BY <1>t, <2>0, <2>2, <3>1, <3>3 DEF QueueOK
    <3>5. ASSUME NEW x \in Callers, at'[x] \in {"waiting", "leaving"}
          PROVE  x \in granted' \/ \E i \in 1..Len(waiters') : waiters'[i] = x
      <4>1. x # c /\ at[x] \in {"waiting", "leaving"}
        BY <3>3, <3>5
      <4>2. CASE x \in granted
        BY <2>2, <4>2
      <4>3. ASSUME NEW m \in 1..Len(waiters), waiters[m] = x
            PROVE  \E i \in 1..Len(waiters') : waiters'[i] = x
        <5>1. m # k
          BY <4>1, <4>3
        <5>2. CASE m < k
          BY <2>0, <2>1, <4>3, <5>2
        <5>3. CASE m > k
          <6>1. m - 1 \in 1..Len(waiters') /\ ~(m - 1 < k) /\ (m - 1) + 1 = m
            BY <2>0, <2>1, <5>3
          <6> QED BY <2>1, <4>3, <6>1
        <5> QED BY <5>1, <5>2, <5>3
      <4> QED BY <1>t, <4>1, <4>2, <4>3 DEF QueueOK
    <3>6. \A x \in granted' : at'[x] \in {"waiting", "leaving"}
      BY <1>t, <1>6, <2>2, <3>3 DEF QueueOK, TypeOK
    <3> QED BY <3>2, <3>4, <3>5, <3>6 DEF QueueOK
  <2>5. Owners' = Owners
    BY <1>t, <2>2 DEF Owners, TypeOK
  <2>6. waiters' # <<>> => waiters # <<>>
    BY <2>0
  <2>7. IInv'
    BY <1>t, <2>2, <2>3, <2>4, <2>5, <2>6 DEF IInv, HeldIsOwned, NoStalledWaiter
  <2> QED BY <1>t, <2>2, <2>5, <2>7 DEF TypeOK, StepOK, ServedInOrder
<1>7. ASSUME NEW c \in Callers, Release(c) PROVE StepOK
  <2> DEFINE B == Owners \ {c}
             h == held - 1
  <2>1. c \in Owners /\ c \notin granted
    BY <1>t, <1>7 DEF Release, Owners, QueueOK
  <2>2. h \in Nat /\ h = Cardinality(B) /\ Owners \ B = {c} /\ B \in SUBSET Owners
    BY <2>1, OneOwnerLess
  <2>3. /\ granted = granted \cap B /\ GrantLocked(h, limit, granted)
        /\ limit' = limit /\ limit \in Nat \ {0} /\ ctxDone' = ctxDone
    BY <1>t, <1>7, <2>1 DEF Release, TypeOK, Owners
  <2>4. at' = [x \in Callers |-> IF x \in Owners \ B THEN "out" ELSE at[x]]
    BY <1>t, <1>7, <2>2 DEF Release, TypeOK
  <2> HIDE DEF B
  <2>6. IInv' /\ (held' > h => held' <= limit') /\ ServedInOrder
    <3> HIDE DEF h
    <3> QED BY <2>2, <2>3, <2>4, AfterGrant
  <2>7. held' \in Nat /\ held \in Nat
    BY <1>t, <2>6 DEF IInv, TypeOK
  <2>8. held' > held => held' > h
    BY <2>7
  <2> QED BY <2>6, <2>8 DEF StepOK
<1>8. ASSUME NEW l \in Limits, Resize(l) PROVE StepOK
  <2>1. AtLeastOne(l) \in Nat \ {0}
    BY LimitsAssumption DEF AtLeastOne
  <2>2. /\ granted = granted \cap Owners /\ Owners \ Owners = {}
        /\ GrantLocked(held, AtLeastOne(l), granted)
        /\ limit' = AtLeastOne(l) /\ ctxDone' = ctxDone /\ at' = at
        /\ held \in Nat /\ held = Cardinality(Owners)
    BY <1>t, <1>8 DEF Resize, TypeOK, Owners, HeldIsOwned
  <2>3. at' = [x \in Callers |-> IF x \in Owners \ Owners THEN "out" ELSE at[x]]
    BY <1>t, <2>2 DEF TypeOK
  <2> QED BY <2>1, <2>2, <2>3, AfterGrant DEF StepOK
<1>9. CASE EndContext \/ UNCHANGED vars
  <2>1. UNCHANGED <<limit, held, waiters, granted, at>> /\ ctxDone' \in BOOLEAN
    BY <1>t, <1>9 DEF EndContext, vars, TypeOK
  <2>2. TypeOK'
    BY <1>t, <2>1 DEF TypeOK
  <2>3. QueueOK' /\ NoStalledWaiter' /\ HeldIsOwned'
    BY <1>t, <2>1 DEF QueueOK, NoStalledWaiter, HeldIsOwned, Owners
  <2>4. IInv' /\ Owners' = Owners
    BY <2>1, <2>2, <2>3 DEF IInv, Owners
  <2> QED BY <1>t, <2>1, <2>4 DEF TypeOK, StepOK, ServedInOrder
<1> QED
  BY <1>1, <1>2, <1>3, <1>4, <1>5, <1>6, <1>7, <1>8, <1>9 DEF Next, CallerStep

-----------------------------------------------------------------------------
\* The slot accounting of slots.go, for any number of goroutines and any sequence
\* of resizes: types, one place per waiter, an exact counter, no stalled waiter.
THEOREM PoolInvariant == Spec => [](TypeOK /\ QueueOK /\ HeldIsOwned /\ NoStalledWaiter)
<1>1. IInv /\ [Next]_vars => IInv'
  BY NextStep
<1>2. Spec => []IInv
  BY <1>1, InitIInv, PTL DEF Spec
<1> QED
  BY <1>2, PTL DEF IInv

\* release, resize and abandon count right: the counter is the number of slots somebody
\* owns, whichever arm its select takes when a grant and the end of the context race.
THEOREM SlotsCounted == Spec => []HeldIsOwned
<1>1. IInv /\ [Next]_vars => IInv'
  BY NextStep
<1>2. IInv => HeldIsOwned
  BY DEF IInv
<1> QED
  BY <1>1, <1>2, InitIInv, PTL DEF Spec

\* No operation hands out a slot above the limit in force: shrinking holds new
\* starts back until enough slots are returned.
THEOREM PoolWithinLimit == Spec => NoGrantOverLimit
<1>1. IInv /\ [Next]_vars => IInv'
  BY NextStep
<1>2. IInv /\ [Next]_vars => [held' > held => held' <= limit']_vars
  BY NextStep
<1> QED
  BY <1>1, <1>2, InitIInv, PTL DEF Spec, NoGrantOverLimit

\* Slots are handed out in arrival order, newcomers included.
THEOREM PoolArrivalOrder == Spec => ArrivalOrder
<1>1. IInv /\ [Next]_vars => IInv'
  BY NextStep
<1>2. IInv /\ [Next]_vars => [ServedInOrder]_vars
  BY NextStep
<1>3. Spec => [][ServedInOrder]_vars
  BY <1>1, <1>2, InitIInv, PTL DEF Spec
<1> QED
  BY <1>3 DEF ServedInOrder, ArrivalOrder
=============================================================================
