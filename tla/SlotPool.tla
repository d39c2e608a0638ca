------------------------------ MODULE SlotPool ------------------------------
(***************************************************************************)
(* The resizable counting semaphore of internal/gitsync/slots.go, which    *)
(* bounds how many repositories sync at once.  Each operation holds the    *)
(* pool's mutex for its whole body, so each is one step; what interleaves  *)
(* is the wait between them: a waiter may be granted a slot at the moment  *)
(* its context ends, and may pick either arm of its select.                *)
(***************************************************************************)
EXTENDS Naturals, Sequences, FiniteSets

CONSTANTS Callers,    \* goroutines that call acquire and release
          Limits      \* values newSlotPool and resize are called with

ASSUME CallersFinite == IsFiniteSet(Callers)
ASSUME LimitsAssumption == Limits \subseteq Nat /\ Limits # {}

VARIABLES limit,      \* slotPool.limit
          held,       \* slotPool.held
          waiters,    \* slotPool.waiters, oldest first
          granted,    \* waiters whose ready channel is closed, not yet observed
          at,         \* where each caller is: see TypeOK
          ctxDone     \* the callers' (process-lifetime) context has ended

vars == <<limit, held, waiters, granted, at, ctxDone>>

AtLeastOne(l) == IF l < 1 THEN 1 ELSE l
Lesser(a, b) == IF a < b THEN a ELSE b

\* Who is charged for a slot: the callers that hold one and those granted one.
Owners == {c \in Callers : at[c] = "holding"} \cup granted

TypeOK ==
  /\ limit \in Nat \ {0}
  /\ held \in Nat
  /\ waiters \in Seq(Callers)
  /\ granted \in SUBSET Callers
  /\ at \in [Callers -> {"out", "waiting", "leaving", "holding"}]
  /\ ctxDone \in BOOLEAN

Init ==
  /\ \E l \in Limits : limit = AtLeastOne(l)
  /\ held = 0
  /\ waiters = <<>>
  /\ granted = {}
  /\ at = [c \in Callers |-> "out"]
  /\ ctxDone = FALSE

(***************************************************************************)
(* grantLocked, run with h slots held under limit l and g the waiters      *)
(* granted so far: while there is room the oldest waiter leaves the queue  *)
(* with a slot.                                                            *)
(***************************************************************************)
\* (mutant) one waiter is served however many slots came free
GrantsOne(h, l) == IF h < l THEN Lesser(1, Len(waiters)) ELSE 0

\* how many waiters the loop serves
Grants(h, l) == IF h < l THEN Lesser(l - h, Len(waiters)) ELSE 0

\* (mutant) room is tested with <= : one slot too many is handed out
GrantLockedOver(h, l, g) ==
  LET n == IF h <= l THEN Lesser((l + 1) - h, Len(waiters)) ELSE 0
  IN  /\ held' = h + n
      /\ waiters' = SubSeq(waiters, n + 1, Len(waiters))
      /\ granted' = g \cup {waiters[i] : i \in 1..n}

\* (mutant) the newest waiter is served first
GrantLockedLIFO(h, l, g) ==
  LET n == Grants(h, l)
      k == Len(waiters) - n
  IN  /\ held' = h + n
      /\ waiters' = SubSeq(waiters, 1, k)
      /\ granted' = g \cup {waiters[i] : i \in (k + 1)..Len(waiters)}

GrantLocked(h, l, g) ==
  LET n == Grants(h, l)
  IN  /\ held' = h + n
      /\ waiters' = SubSeq(waiters, n + 1, Len(waiters))
      /\ granted' = g \cup {waiters[i] : i \in 1..n}

-----------------------------------------------------------------------------
\* acquire, fast path: nobody waits and there is room.
AcquireNow(c) ==
  /\ at[c] = "out"
  /\ waiters = <<>> /\ held < limit
  /\ held' = held + 1
  /\ at' = [at EXCEPT ![c] = "holding"]
  /\ UNCHANGED <<limit, waiters, granted, ctxDone>>

\* acquire, slow path: join the queue and wait.
Enqueue(c) ==
  /\ at[c] = "out"
  /\ ~(waiters = <<>> /\ held < limit)
  /\ waiters' = Append(waiters, c)
  /\ at' = [at EXCEPT ![c] = "waiting"]
  /\ UNCHANGED <<limit, held, granted, ctxDone>>

\* The select sees ready closed: acquire returns true.
Wake(c) ==
  /\ at[c] = "waiting" /\ c \in granted
  /\ granted' = granted \ {c}
  /\ at' = [at EXCEPT ![c] = "holding"]
  /\ UNCHANGED <<limit, held, waiters, ctxDone>>

\* The select sees ctx.Done: acquire is about to call abandon.
GiveUp(c) ==
  /\ at[c] = "waiting" /\ ctxDone
  /\ at' = [at EXCEPT ![c] = "leaving"]
  /\ UNCHANGED <<limit, held, waiters, granted, ctxDone>>

\* list.Remove: the queue without its k-th element.
RemoveElem(k) ==
  [i \in 1..(Len(waiters) - 1) |-> IF i < k THEN waiters[i] ELSE waiters[i + 1]]

\* (mutant) abandon forgets that a slot may have been granted meanwhile
AbandonDropsGrant(c) ==
  /\ at[c] = "leaving"
  /\ at' = [at EXCEPT ![c] = "out"]
  /\ \/ /\ c \in granted
        /\ granted' = granted \ {c}
        /\ UNCHANGED waiters
     \/ \E k \in 1..Len(waiters) :
           waiters[k] = c /\ waiters' = RemoveElem(k) /\ UNCHANGED granted
  /\ UNCHANGED <<limit, held, ctxDone>>

\* abandon: hand a slot granted meanwhile back as release does, else leave the queue.
Abandon(c) ==
  /\ at[c] = "leaving"
  /\ at' = [at EXCEPT ![c] = "out"]
  /\ \/ /\ c \in granted
        /\ GrantLocked(held - 1, limit, granted \ {c})
     \/ /\ c \notin granted
        /\ \E k \in 1..Len(waiters) : waiters[k] = c /\ waiters' = RemoveElem(k)
        /\ UNCHANGED <<held, granted>>
  /\ UNCHANGED <<limit, ctxDone>>

\* (mutant) release does not serve the waiters
ReleaseSilently(c) ==
  /\ at[c] = "holding"
  /\ at' = [at EXCEPT ![c] = "out"]
  /\ held' = held - 1
  /\ UNCHANGED <<limit, waiters, granted, ctxDone>>

Release(c) ==
  /\ at[c] = "holding"
  /\ at' = [at EXCEPT ![c] = "out"]
  /\ GrantLocked(held - 1, limit, granted)
  /\ UNCHANGED <<limit, ctxDone>>

Resize(l) ==
  /\ limit' = AtLeastOne(l)
  /\ GrantLocked(held, AtLeastOne(l), granted)
  /\ UNCHANGED <<at, ctxDone>>

\* The process-lifetime context is cancelled; it never comes back.
EndContext ==
  /\ ctxDone' = TRUE
  /\ UNCHANGED <<limit, held, waiters, granted, at>>

CallerStep(c) ==
  \/ AcquireNow(c) \/ Enqueue(c) \/ Wake(c) \/ GiveUp(c) \/ Abandon(c) \/ Release(c)

Next ==
  \/ \E c \in Callers : CallerStep(c)
  \/ \E l \in Limits : Resize(l)
  \/ EndContext

Spec == Init /\ [][Next]_vars

(***************************************************************************)
(* A caller that waits keeps polling its select, and a sync that holds a   *)
(* slot ends (runOnce defers release on every path); calling acquire at    *)
(* all, resizing and shutting down are up to the environment.              *)
(***************************************************************************)
Fairness ==
  \A c \in Callers : /\ WF_vars(Wake(c)) /\ WF_vars(GiveUp(c))
                     /\ WF_vars(Abandon(c)) /\ WF_vars(Release(c))

FairSpec == Spec /\ Fairness

-----------------------------------------------------------------------------
(***************************************************************************)
(* Properties                                                              *)
(***************************************************************************)

\* The held counter is exactly the slots somebody owns, through every race of a
\* grant with a cancelled wait: abandon neither leaks a slot nor returns it twice.
HeldIsOwned == held = Cardinality(Owners)

\* The comment in acquire: "a waiter only exists while the pool is full" - no
\* release, resize or abandon leaves a waiter asleep below the limit.
NoStalledWaiter == waiters # <<>> => held >= limit

\* Every wait is accounted for exactly once: the queue holds nobody twice, and a
\* caller inside acquire is queued or granted, never both (so abandon, which looks
\* at granted alone, always finds the element it removes) and never neither.
QueueOK ==
  /\ \A i, j \in 1..Len(waiters) : waiters[i] = waiters[j] => i = j
  /\ \A i \in 1..Len(waiters) :
        at[waiters[i]] \in {"waiting", "leaving"} /\ waiters[i] \notin granted
  /\ \A c \in Callers :
        at[c] \in {"waiting", "leaving"} =>
            c \in granted \/ \E i \in 1..Len(waiters) : waiters[i] = c
  /\ \A c \in granted : at[c] \in {"waiting", "leaving"}

\* The inductive invariant behind the theorems of SlotPoolProofs.
IInv == TypeOK /\ QueueOK /\ HeldIsOwned /\ NoStalledWaiter

\* Waiters are served in arrival order: whoever gets a slot in a step, nobody who
\* was queued before them is still queued afterwards.
ArrivalOrder ==
  [][\A c \in Owners' \ Owners : \A i \in 1..Len(waiters) :
        (\A j \in 1..i : waiters[j] # c) =>
            waiters[i] \notin {waiters'[k] : k \in 1..Len(waiters')}]_vars

\* Shrinking never revokes a slot, it only stops handing out new ones: the number
\* held grows only while it stays within the limit in force.
NoGrantOverLimit == [][held' > held => held' <= limit']_vars

\* A caller that waits gets its slot or, if the context ended, leaves: no waiter is
\* starved by shrinking, abandoning or newcomers.
EveryWaitEnds == \A c \in Callers : at[c] = "waiting" ~> at[c] # "waiting"
=============================================================================
