------------------------------ MODULE SyncRun ------------------------------
(***************************************************************************)
(* The attempts of one repository and the record that is kept of them: an  *)
(* attempt that ends is recorded (finishSync), and the record outlives the *)
(* process only through the run-state file.                                *)
(***************************************************************************)
EXTENDS SyncAttempt, RunState

vars == <<attemptVars, runVars>>

Init == AttemptInit /\ RunInit

\* A sync starts while the process is not stopping, once the goroutine of the one before
\* has saved.
Begin == ~stopping /\ at["sync"] = "idle" /\ Start /\ UNCHANGED runVars

\* finishSync: an attempt that was cancelled is not recorded.  (Whether the result still is
\* the repository's is SyncCore's matter.)
FinishSync ==
  /\ pc = "done" /\ UNCHANGED <<ends, counts, current>>
  /\ Over /\ clean' = TRUE
  /\ \/ res.state = "pending" /\ UNCHANGED runVars
     \/ res.state # "pending" /\ RecordAttempt(attempt, res.state = "ok")

\* Wait returns from the drain when no sync is in flight.
Stop == pc = "idle" /\ StopRunSaves /\ UNCHANGED attemptVars

\* Wait has returned and the process exits; a timer's save may be cut off.
Exit ==
  /\ stopping /\ at["wait"] = "idle" /\ Restart /\ file' = file
  /\ UNCHANGED attemptVars

Crash == CrashAttempt /\ Restart

\* A fault of the run-state file, which is no fault of an attempt.
Trouble ==
  /\ faults < MaxFaults /\ faults' = faults + 1
  /\ Damage \/ (\E s \in Savers : SaveFails(s))
  /\ UNCHANGED <<ends, pc, cancelled, expired, plan, batches, next, res, attempt, edits, history>>

Next ==
  \/ Begin \/ FinishSync \/ Stop \/ Exit \/ Crash \/ Trouble
  \/ AttemptSteps /\ UNCHANGED runVars
  \/ RunSteps /\ UNCHANGED attemptVars

Spec == Init /\ [][Next]_vars

-----------------------------------------------------------------------------
\* pushbatch.go: "a push that is cut into batches must not prune per batch", "a batch that
\* fails ... such a run deletes nothing" and "Never prune the replica from a mirror with
\* nothing to send".  Until an attempt's final push runs every ref the replica had is still
\* there, and when it does run, the mirror is what the origin advertised to this very
\* attempt, is not empty, and every ref that could go in a batch has reached the replica.
DeletesComeLast ==
  /\ pc = "pushing" /\ Final =>
       /\ mirror = fetched /\ Held(mirror) # {}
       /\ \A i \in 1..Len(batches) : \A r \in Range(batches[i]) : replica[r] = mirror[r]
  /\ (pc \in {"start", "fetch", "init", "first", "refs", "size", "count", "plan", "push"}
        \/ (pc = "pushing" /\ ~Final)) => Held(before) \subseteq Held(replica)

\* What a batch costs, and whether it is within the two bounds.
Sizes(b) ==
  LET size[n \in 0..Len(b)] == IF n = 0 THEN 0 ELSE size[n - 1] + Cost(b[n]) IN size
Size(b) == Sizes(b)[Len(b)]
Fits(b) == Len(b) <= BatchRefs /\ (Size(b) <= MaxArgBytes \/ Len(b) = 1)

\* Every batch holds something and fits, and could not have taken the next ref.
Filled(bs) ==
  /\ \A i \in 1..Len(bs) : bs[i] # <<>> /\ Fits(bs[i])
  /\ \A i \in 1..(Len(bs) - 1) : ~Fits(Append(bs[i], bs[i + 1][1]))

\* The refs come in the order of their names, from batch to batch and within one.
Before(r, s) == \E m, n \in 1..Len(Order) : m < n /\ Order[m] = r /\ Order[n] = s
Sorted(bs) ==
  \A i, j \in 1..Len(bs) : \A k \in 1..Len(bs[i]), l \in 1..Len(bs[j]) :
    i < j \/ (i = j /\ k < l) => Before(bs[i][k], bs[j][l])

\* What git could not take by name next to what the replica holds.
Unbatchable(u) ==
  \/ Length[u] > MaxRefLen
  \/ \E d \in Held(before) \ Held(mirror) : ~Legal([Empty EXCEPT ![u] = 1, ![d] = 1])
  \/ \E s \in Held(before) \cup Held(mirror) : <<u, s>> \in Shadowing

\* pushbatch.go: the batches hold "only the creates and updates, in batches of at most
\* push_batch_refs", in the order of the plan and within the argument limit; a batch ends
\* only where its bounds make it, and a ref is left to the final push only when git could
\* not take it by name next to what the replica holds or when its name is too long.
BatchesAreSound ==
  LET all == UNION {Range(batches[i]) : i \in 1..Len(batches)}
  IN  batches # <<>> =>
        /\ Filled(batches) /\ Sorted(batches) /\ all \subseteq plan.upserts
        /\ \A u \in plan.upserts \ all : Unbatchable(u)

\* syncRepo: whatever the refs of the two ends, an attempt that meets no fault of a network,
\* a disk, a token or the context ends well, unless the origin is empty; then the replica is
\* as it was.  No batch asks of git what it must refuse.
CleanRunSucceeds ==
  pc = "done" /\ clean =>
    IF Held(fetched) = {} THEN replica = before /\ res.state = "error"
    ELSE replica = fetched /\ res = OK

\* last_success_at, in memory and in the file, is the end of an attempt (which its number stands
\* for) that left the replica with exactly the branches and tags the origin advertised to it.
RecordIsTrue ==
  \A r \in {runs, Load(file), Load(durable)} : r.success # 0 => r.success \in current

\* What the daemon promises of a repository (module Replication), from outside: a replica
\* that only ever moves towards what the origin advertised to the attempt under way (sync.go),
\* a success recorded only when it has arrived (finishSync), and runStateStore's "an older
\* snapshot can never be written after a newer one", whichever goroutine flushes last.
Promise == INSTANCE Replication WITH advertised <- fetched, memory <- runs
KeepsPromise == Promise!Spec
=============================================================================
