--------------------------- MODULE SyncRunProofs ---------------------------
(***************************************************************************)
(* What is recorded of the attempts is true, reaches the file, and never   *)
(* goes back: theorems about SyncRun for any refs, tables, batches and     *)
(* timers, and any number of attempts and faults.                          *)
(***************************************************************************)
EXTENDS SyncRun, WellFoundedInduction, TLAPS

-----------------------------------------------------------------------------
(***************************************************************************)
(* The file.                                                               *)
(***************************************************************************)
\* Until Wait stops the saves its goroutine has nothing to do.
WaitIdle == ~stopping => at["wait"] = "idle"

\* writeMu is held by one goroutine.
OneWriter == \A s, t \in Savers : Writing(s) /\ Writing(t) => s = t

\* A change is marked, about to be, or has a goroutine that will write or mark it.
Unsaved == dirty \/ at["sync"] = "mark" \/ \E s \in Savers : at[s] \in {"lock", "failed"}

\* A snapshot that is overtaken while it is written will be followed by another.
Overtaken == \A s \in Savers : at[s] = "write" /\ snapshot[s] # runs => Unsaved

\* Memory is not behind the file, nor a snapshot that is being written.
Ages ==
  /\ attempt \in Nat /\ runs.tried <= attempt
  /\ file # Damaged => file.tried <= runs.tried
  /\ durable # Damaged => durable.tried <= attempt
  /\ \A s \in Savers : Writing(s) => snapshot[s].tried <= runs.tried
  /\ \A s \in Savers : at[s] = "write" => file = Damaged \/ file.tried <= snapshot[s].tried

RunInv == RunTypeOK /\ WaitIdle /\ OneWriter /\ Overtaken /\ Ages /\ NothingForgotten

\* The file and the memory start alike and no goroutine saves.
LEMMA RunInitInv == Init => RunInv
<1> SUFFICES ASSUME Init PROVE RunInv
  OBVIOUS
<1> USE DEF Init, RunInit, NoRun, Records
<1>1. RunTypeOK
  BY DEF RunTypeOK
<1>2. WaitIdle /\ OneWriter /\ Overtaken
  BY DEF WaitIdle, OneWriter, Overtaken, Savers, Writing
<1>3. Ages
  BY DEF Ages, AttemptInit, Savers, Writing
<1>4. NothingForgotten
  BY DEF NothingForgotten
<1>5. QED
  BY <1>1, <1>2, <1>3, <1>4 DEF RunInv

\* finishSync records an attempt in memory: memory moves ahead of the file, and the
\* goroutine that did it is about to mark the change.
LEMMA RecordInv ==
  ASSUME RunInv, NEW ok \in BOOLEAN, RecordAttempt(attempt, ok), attempt' = attempt
  PROVE  RunInv'
<1> USE DEF RunInv, RecordAttempt
<1>1. RunTypeOK'
  BY DEF RunTypeOK, Records, Savers, Ages
<1>2. WaitIdle'
  BY DEF WaitIdle, RunTypeOK, Savers
<1>3. OneWriter'
  BY DEF OneWriter, RunTypeOK, Savers, Writing, Locked
<1>4. Overtaken'
  BY DEF Overtaken, Unsaved, RunTypeOK, Savers, Locked, Writing
<1>5. Ages'
  BY DEF Ages, OneWriter, RunTypeOK, Records, Savers, Writing
<1>6. NothingForgotten'
  BY DEF NothingForgotten, Overtaken, Unsaved, WaitIdle, RunTypeOK, Savers
<1>7. QED
  BY <1>1, <1>2, <1>3, <1>4, <1>5, <1>6

\* markRunsDirty turns the change into a mark that a flush or the timer will take.
LEMMA MarkInv ==
  ASSUME RunInv, MarkRunsDirty, attempt' = attempt
  PROVE  RunInv'
<1> USE DEF RunInv, MarkRunsDirty
<1>1. RunTypeOK'
  BY DEF RunTypeOK, Records, Savers, NoRun
<1>2. WaitIdle'
  BY DEF WaitIdle, RunTypeOK, Savers
<1>3. OneWriter'
  BY DEF OneWriter, RunTypeOK, Savers, Writing, Locked
<1>4. Overtaken'
  BY DEF Overtaken, Unsaved, RunTypeOK, Savers, Locked, Writing
<1>5. Ages'
  BY DEF Ages, OneWriter, RunTypeOK, Records, Savers, Writing
<1>6. NothingForgotten'
  BY DEF NothingForgotten, Overtaken, Unsaved, WaitIdle, RunTypeOK, Savers
<1>7. QED
  BY <1>1, <1>2, <1>3, <1>4, <1>5, <1>6

\* trailingSave takes the timer's place in flushRuns.
LEMMA TrailingInv ==
  ASSUME RunInv, NEW t \in Timers, TrailingSave(t), attempt' = attempt
  PROVE  RunInv'
<1> USE DEF RunInv, TrailingSave
<1>1. RunTypeOK'
  BY DEF RunTypeOK, Records, Savers, NoRun
<1>2. WaitIdle'
  BY TimersAssumption DEF WaitIdle, RunTypeOK, Savers
<1>3. OneWriter'
  BY DEF OneWriter, RunTypeOK, Savers, Writing, Locked
<1>4. Overtaken'
  BY DEF Overtaken, Unsaved, RunTypeOK, Savers, Locked, Writing
<1>5. Ages'
  BY DEF Ages, OneWriter, RunTypeOK, Records, Savers, Writing
<1>6. NothingForgotten'
  BY DEF NothingForgotten, Overtaken, Unsaved, WaitIdle, RunTypeOK, Savers
<1>7. QED
  BY <1>1, <1>2, <1>3, <1>4, <1>5, <1>6

\* The end of the interval changes nothing that is saved.
LEMMA WindowInv ==
  ASSUME RunInv, WindowEnds, attempt' = attempt
  PROVE  RunInv'
<1> USE DEF RunInv, WindowEnds
<1>1. RunTypeOK'
  BY DEF RunTypeOK, Records, Savers, NoRun
<1>2. WaitIdle'
  BY DEF WaitIdle, RunTypeOK, Savers
<1>3. OneWriter'
  BY DEF OneWriter, RunTypeOK, Savers, Writing, Locked
<1>4. Overtaken'
  BY DEF Overtaken, Unsaved, RunTypeOK, Savers, Locked, Writing
<1>5. Ages'
  BY DEF Ages, OneWriter, RunTypeOK, Records, Savers, Writing
<1>6. NothingForgotten'
  BY DEF NothingForgotten, Overtaken, Unsaved, WaitIdle, RunTypeOK, Savers
<1>7. QED
  BY <1>1, <1>2, <1>3, <1>4, <1>5, <1>6

\* flushRuns takes the mark away only when it goes on to write what was marked.
LEMMA FlushInv ==
  ASSUME RunInv, NEW s \in Savers, FlushRuns(s), attempt' = attempt
  PROVE  RunInv'
<1> USE DEF RunInv, FlushRuns
<1>1. RunTypeOK'
  BY DEF RunTypeOK, Records, Savers, NoRun
<1>2. WaitIdle'
  BY DEF WaitIdle, RunTypeOK, Savers
<1>3. OneWriter'
  BY DEF OneWriter, RunTypeOK, Savers, Writing, Locked
<1>4. Overtaken'
  BY DEF Overtaken, Unsaved, RunTypeOK, Savers, Locked, Writing
<1>5. Ages'
  BY DEF Ages, OneWriter, RunTypeOK, Records, Savers, Writing
<1>6. NothingForgotten'
  BY DEF NothingForgotten, Overtaken, Unsaved, WaitIdle, RunTypeOK, Savers
<1>7. QED
  BY <1>1, <1>2, <1>3, <1>4, <1>5, <1>6

\* save reads memory once writeMu is held: the snapshot is the newest there is.
LEMMA SnapshotInv ==
  ASSUME RunInv, NEW s \in Savers, TakeSnapshot(s), attempt' = attempt
  PROVE  RunInv'
<1> USE DEF RunInv, TakeSnapshot
<1>1. RunTypeOK'
  BY DEF RunTypeOK, Records, Savers, NoRun
<1>2. WaitIdle'
  BY DEF WaitIdle, RunTypeOK, Savers
<1>3. OneWriter'
  BY DEF OneWriter, RunTypeOK, Savers, Writing, Locked
<1>4. Overtaken'
  BY DEF Overtaken, Unsaved, RunTypeOK, Savers, Locked, Writing
<1>5. Ages'
  BY DEF Ages, OneWriter, RunTypeOK, Records, Savers, Writing
<1>6. NothingForgotten'
  BY DEF NothingForgotten, Overtaken, Unsaved, WaitIdle, RunTypeOK, Savers
<1>7. QED
  BY <1>1, <1>2, <1>3, <1>4, <1>5, <1>6

\* save puts its snapshot in the file's place: what it misses is marked or being marked.
LEMMA RenameInv ==
  ASSUME RunInv, NEW s \in Savers, Rename(s), attempt' = attempt
  PROVE  RunInv'
<1> USE DEF RunInv, Rename
<1>1. RunTypeOK'
  BY DEF RunTypeOK, Records, Savers, NoRun
<1>2. WaitIdle'
  BY DEF WaitIdle, RunTypeOK, Savers
<1>3. OneWriter'
  BY DEF OneWriter, RunTypeOK, Savers, Writing, Locked
<1>4. Overtaken'
  BY DEF Overtaken, Unsaved, RunTypeOK, Savers, Locked, Writing
<1>5. Ages'
  BY DEF Ages, OneWriter, RunTypeOK, Records, Savers, Writing
<1>6. NothingForgotten'
  BY DEF NothingForgotten, Overtaken, Unsaved, WaitIdle, RunTypeOK, Savers
<1>7. QED
  BY <1>1, <1>2, <1>3, <1>4, <1>5, <1>6

\* save syncs the directory and lets writeMu go.
LEMMA SyncDirInv ==
  ASSUME RunInv, NEW s \in Savers, SyncDir(s), attempt' = attempt
  PROVE  RunInv'
<1> USE DEF RunInv, SyncDir
<1>1. RunTypeOK'
  BY DEF RunTypeOK, Records, Savers, NoRun
<1>2. WaitIdle'
  BY DEF WaitIdle, RunTypeOK, Savers
<1>3. OneWriter'
  BY DEF OneWriter, RunTypeOK, Savers, Writing, Locked
<1>4. Overtaken'
  BY DEF Overtaken, Unsaved, RunTypeOK, Savers, Locked, Writing
<1>5. Ages'
  BY DEF Ages, OneWriter, RunTypeOK, Records, Savers, Writing
<1>6. NothingForgotten'
  BY DEF NothingForgotten, Overtaken, Unsaved, WaitIdle, RunTypeOK, Savers
<1>7. QED
  BY <1>1, <1>2, <1>3, <1>4, <1>5, <1>6

\* A save that fails leaves its goroutine bound to mark the change again.
LEMMA FailInv ==
  ASSUME RunInv, NEW s \in Savers, SaveFails(s), attempt' = attempt
  PROVE  RunInv'
<1> USE DEF RunInv, SaveFails
<1>1. RunTypeOK'
  BY DEF RunTypeOK, Records, Savers, NoRun
<1>2. WaitIdle'
  BY DEF WaitIdle, RunTypeOK, Savers, Writing
<1>3. OneWriter'
  BY DEF OneWriter, RunTypeOK, Savers, Writing, Locked
<1>4. Overtaken'
  BY DEF Overtaken, Unsaved, RunTypeOK, Savers, Locked, Writing
<1>5. Ages'
  BY DEF Ages, OneWriter, RunTypeOK, Records, Savers, Writing
<1>6. NothingForgotten'
  BY DEF NothingForgotten, Overtaken, Unsaved, WaitIdle, RunTypeOK, Savers, Writing
<1>7. QED
  BY <1>1, <1>2, <1>3, <1>4, <1>5, <1>6

\* flushRuns marks the change again after a failed save.
LEMMA AgainInv ==
  ASSUME RunInv, NEW s \in Savers, MarkAgain(s), attempt' = attempt
  PROVE  RunInv'
<1> USE DEF RunInv, MarkAgain
<1>1. RunTypeOK'
  BY DEF RunTypeOK, Records, Savers, NoRun
<1>2. WaitIdle'
  BY DEF WaitIdle, RunTypeOK, Savers
<1>3. OneWriter'
  BY DEF OneWriter, RunTypeOK, Savers, Writing, Locked
<1>4. Overtaken'
  BY DEF Overtaken, Unsaved, RunTypeOK, Savers, Locked, Writing
<1>5. Ages'
  BY DEF Ages, OneWriter, RunTypeOK, Records, Savers, Writing
<1>6. NothingForgotten'
  BY DEF NothingForgotten, Overtaken, Unsaved, WaitIdle, RunTypeOK, Savers
<1>7. QED
  BY <1>1, <1>2, <1>3, <1>4, <1>5, <1>6

\* stopRunSaves takes the timer away and flushes in its stead.
LEMMA StopInv ==
  ASSUME RunInv, StopRunSaves, attempt' = attempt
  PROVE  RunInv'
<1> USE DEF RunInv, StopRunSaves
<1>1. RunTypeOK'
  BY DEF RunTypeOK, Records, Savers, NoRun
<1>2. WaitIdle'
  BY DEF WaitIdle, RunTypeOK, Savers
<1>3. OneWriter'
  BY DEF OneWriter, RunTypeOK, Savers, Writing, Locked
<1>4. Overtaken'
  BY DEF Overtaken, WaitIdle, Unsaved, RunTypeOK, Savers, Locked, Writing
<1>5. Ages'
  BY DEF Ages, OneWriter, RunTypeOK, Records, Savers, Writing
<1>6. NothingForgotten'
  BY DEF NothingForgotten, Overtaken, Unsaved, WaitIdle, RunTypeOK, Savers
<1>7. QED
  BY <1>1, <1>2, <1>3, <1>4, <1>5, <1>6

\* load makes memory what the file is, or empty when it does not trust the file.
LEMMA RestartInv ==
  ASSUME RunInv, Restart, attempt' = attempt
  PROVE  RunInv'
<1> USE DEF RunInv, Restart, Load, NoRun
<1>1. RunTypeOK'
  BY DEF RunTypeOK, Records, Savers, NoRun
<1>2. WaitIdle'
  BY DEF WaitIdle, RunTypeOK, Savers
<1>3. OneWriter'
  BY DEF OneWriter, RunTypeOK, Savers, Writing, Locked
<1>4. Overtaken'
  BY DEF Overtaken, Unsaved, RunTypeOK, Savers, Locked, Writing
<1>5. Ages'
  BY DEF Ages, OneWriter, RunTypeOK, Records, Savers, Writing
<1>6. NothingForgotten'
  BY DEF NothingForgotten, Overtaken, Unsaved, WaitIdle, RunTypeOK, Savers
<1>7. QED
  BY <1>1, <1>2, <1>3, <1>4, <1>5, <1>6

\* A damaged file owes nothing to memory until a restart or a save.
LEMMA DamageInv ==
  ASSUME RunInv, Damage, attempt' = attempt
  PROVE  RunInv'
<1> USE DEF RunInv, Damage
<1>1. RunTypeOK'
  BY DEF RunTypeOK, Records, Savers, NoRun
<1>2. WaitIdle'
  BY DEF WaitIdle, RunTypeOK, Savers
<1>3. OneWriter'
  BY DEF OneWriter, RunTypeOK, Savers, Writing, Locked
<1>4. Overtaken'
  BY DEF Overtaken, Unsaved, RunTypeOK, Savers, Locked, Writing
<1>5. Ages'
  BY DEF Ages, OneWriter, RunTypeOK, Records, Savers, Writing
<1>6. NothingForgotten'
  BY DEF NothingForgotten, Overtaken, Unsaved, WaitIdle, RunTypeOK, Savers
<1>7. QED
  BY <1>1, <1>2, <1>3, <1>4, <1>5, <1>6

\* An attempt's own steps, and the start of a later attempt, do not touch the records.
LEMMA QuietInv ==
  ASSUME RunInv, UNCHANGED runVars, attempt' \in Nat, attempt' >= attempt
  PROVE  RunInv'
<1> USE DEF RunInv, runVars
<1>1. RunTypeOK' /\ WaitIdle' /\ OneWriter' /\ Overtaken' /\ NothingForgotten'
  BY DEF RunTypeOK, WaitIdle, OneWriter, Overtaken, NothingForgotten, Unsaved, Writing
<1>2. Ages'
  BY DEF Ages, RunTypeOK, Records, Writing
<1>3. QED
  BY <1>1, <1>2

\* The saving goroutines, whichever of them moves.
LEMMA RunStepsInv ==
  ASSUME RunInv, RunSteps, attempt' = attempt
  PROVE  RunInv'
<1>1. CASE MarkRunsDirty
  BY <1>1, MarkInv
<1>2. CASE WindowEnds
  BY <1>2, WindowInv
<1>3. ASSUME NEW t \in Timers, TrailingSave(t) PROVE RunInv'
  BY <1>3, TrailingInv
<1>4. ASSUME NEW s \in Savers, FlushRuns(s) PROVE RunInv'
  BY <1>4, FlushInv
<1>5. ASSUME NEW s \in Savers, TakeSnapshot(s) PROVE RunInv'
  BY <1>5, SnapshotInv
<1>6. ASSUME NEW s \in Savers, Rename(s) PROVE RunInv'
  BY <1>6, RenameInv
<1>7. ASSUME NEW s \in Savers, SyncDir(s) PROVE RunInv'
  BY <1>7, SyncDirInv
<1>8. ASSUME NEW s \in Savers, MarkAgain(s) PROVE RunInv'
  BY <1>8, AgainInv
<1>9. QED
  BY <1>1, <1>2, <1>3, <1>4, <1>5, <1>6, <1>7, <1>8 DEF RunSteps

\* No step of an attempt changes which attempt it is.
LEMMA AttemptKept == AttemptSteps => attempt' = attempt
BY DEF AttemptSteps, Prepare, Fetch, InitMirror, FirstFetch, CheckRefs, CheckSize, CountRefs,
       PlanPush, BeginPush, EndPush, Report, Cancel, Expire, OriginChanges

\* Every step of the system keeps the invariant of the records and the file.
LEMMA RunNextInv == RunInv /\ [Next]_vars => RunInv'
<1> SUFFICES ASSUME RunInv, [Next]_vars PROVE RunInv'
  OBVIOUS
<1>1. attempt \in Nat
  BY DEF RunInv, Ages
<1>2. CASE Begin
  BY <1>1, <1>2, QuietInv DEF Begin, Start
<1>3. CASE FinishSync
  <2>1. attempt' = attempt
    BY <1>3 DEF FinishSync, counts
  <2>2. CASE UNCHANGED runVars
    BY <1>1, <2>1, <2>2, QuietInv
  <2>3. CASE RecordAttempt(attempt, res.state = "ok")
    <3>1. (res.state = "ok") \in BOOLEAN
      OBVIOUS
    <3>2. QED
      BY <2>1, <2>3, <3>1, RecordInv
  <2>4. QED
    BY <1>3, <2>2, <2>3 DEF FinishSync
<1>4. CASE Stop
  BY <1>4, StopInv DEF Stop, attemptVars, counts
<1>5. CASE Exit
  BY <1>5, RestartInv DEF Exit, attemptVars, counts
<1>6. CASE Crash
  BY <1>6, RestartInv DEF Crash, CrashAttempt
<1>7. CASE Trouble
  BY <1>7, DamageInv, FailInv DEF Trouble
<1>8. CASE AttemptSteps /\ UNCHANGED runVars
  BY <1>1, <1>8, AttemptKept, QuietInv
<1>9. CASE RunSteps /\ UNCHANGED attemptVars
  BY <1>9, RunStepsInv DEF attemptVars, counts
<1>10. CASE UNCHANGED vars
  BY <1>1, <1>10, QuietInv DEF vars, attemptVars, counts
<1>11. QED
  BY <1>2, <1>3, <1>4, <1>5, <1>6, <1>7, <1>8, <1>9, <1>10 DEF Next

\* The invariant of the records and the file holds in every behaviour.
LEMMA RunAlways == Spec => []RunInv
BY RunInitInv, RunNextInv, PTL DEF Spec

\* The records, the file and the saving goroutines keep their types (runstate.go).
THEOREM RunTypes == Spec => []RunTypeOK
<1>1. RunInv => RunTypeOK
  BY DEF RunInv
<1>2. QED
  BY <1>1, RunAlways, PTL

\* flushRuns, markRunsDirty: however many timers flush together and whatever fails, a record
\* the file lacks is marked, being written, or about to be marked, and a mark that no failed
\* write left behind has a flush or the timer coming.
THEOREM RecordsAreSaved == Spec => []NothingForgotten
<1>1. RunInv => NothingForgotten
  BY DEF RunInv
<1>2. QED
  BY <1>1, RunAlways, PTL

-----------------------------------------------------------------------------
(***************************************************************************)
(* What the records say is true.                                           *)
(***************************************************************************)
\* From its fetch to its last push an attempt works from a mirror that is what the origin
\* advertised to it; an attempt that has pushed everything, or ended well, is current.
AttemptInv ==
  /\ origin \in [Refs -> Values \cup {None}]
  /\ pc \in {"refs", "size", "count", "plan", "push", "pushing"} =>
       mirror = fetched /\ fetched \in [Refs -> Values \cup {None}]
  /\ pc = "report" \/ (pc = "done" /\ res.state = "ok") => attempt \in current

\* A success in the records of memory or the file, or of a snapshot on its way there.
Backed(r) == r.success # 0 => r.success \in current
RecordsInv ==
  /\ Backed(runs) /\ (file # Damaged => Backed(file)) /\ (durable # Damaged => Backed(durable))
  /\ \A s \in Savers : Backed(snapshot[s])

\* A git of the origin side that fails never ends an attempt well.
LEMMA OriginFailedEnds == OriginFailed => pc' = "done" /\ res'.state # "ok"
BY DEF OriginFailed, End, Pending, Error

\* Neither does a push that fails.
LEMMA PushFailedEnds == ASSUME NEW f PROVE PushFailed(f) => pc' = "done" /\ res'.state # "ok"
BY DEF PushFailed, End, Pending, Error

\* The final push asks for the whole mirror: after it the replica is the mirror.
LEMMA FinalTarget ==
  ASSUME Final, mirror \in [Refs -> Values \cup {None}] PROVE Target = mirror
BY DEF Target, Asked

\* A push that has ended makes its attempt current when it was the final one.
LEMMA EndPushGood == AttemptInv /\ EndPush => AttemptInv' /\ current \subseteq current'
<1> SUFFICES ASSUME AttemptInv, EndPush PROVE AttemptInv' /\ current \subseteq current'
  OBVIOUS
<1>1. mirror = fetched /\ fetched \in [Refs -> Values \cup {None}]
  BY DEF AttemptInv, EndPush
<1>2. UNCHANGED <<origin, mirror, fetched, attempt>>
  BY DEF EndPush
<1>3. current \subseteq current'
  BY DEF EndPush
<1>4. CASE pc' = "push"
  BY <1>1, <1>2, <1>3, <1>4 DEF AttemptInv
<1>5. CASE pc' = "report" /\ attempt \in current'
  BY <1>2, <1>3, <1>5 DEF AttemptInv
<1>6. CASE pc' = "done" /\ res'.state # "ok"
  BY <1>2, <1>3, <1>6 DEF AttemptInv
<1>7. pc' = "push" \/ (pc' = "report" /\ attempt \in current') \/ (pc' = "done" /\ res'.state # "ok")
  BY <1>1, FinalTarget, PushFailedEnds DEF EndPush, GoTo
<1>8. QED
  BY <1>4, <1>5, <1>6, <1>7

\* Every step of an attempt keeps what is known of the mirror, and no current attempt
\* stops being one.
LEMMA AttemptStepsGood ==
  AttemptInv /\ AttemptSteps => AttemptInv' /\ current \subseteq current'
<1> SUFFICES ASSUME AttemptInv, AttemptSteps PROVE AttemptInv' /\ current \subseteq current'
  OBVIOUS
<1> USE DEF AttemptInv
<1>1. CASE Prepare
  BY <1>1 DEF Prepare, ends, End, GoTo, Pending, Error
<1>2. CASE Fetch
  BY <1>2, OriginFailedEnds DEF Fetch, GoTo
<1>3. CASE InitMirror
  BY <1>3, OriginFailedEnds DEF InitMirror, GoTo
<1>4. CASE FirstFetch
  BY <1>4, OriginFailedEnds DEF FirstFetch, GoTo
<1>5. CASE CheckRefs
  BY <1>5, OriginFailedEnds DEF CheckRefs, ends, GoTo, End, Error
<1>6. CASE CheckSize
  BY <1>6 DEF CheckSize, ends, GoTo, End, Pending, Error
<1>7. CASE CountRefs
  BY <1>7 DEF CountRefs, ends, GoTo
<1>8. CASE PlanPush
  BY <1>8, PushFailedEnds DEF PlanPush, ends, GoTo, End, Pending, Error
<1>9. CASE BeginPush
  BY <1>9 DEF BeginPush, ends, GoTo, End, Pending, Error
<1>10. CASE EndPush
  BY <1>10, EndPushGood
<1>11. CASE Report
  BY <1>11 DEF Report, ends, End
<1>12. CASE Cancel
  BY <1>12 DEF Cancel, ends
<1>13. CASE Expire
  BY <1>13 DEF Expire, ends
<1>14. CASE OriginChanges
  BY <1>14, AttemptAssumption DEF OriginChanges, history
<1>15. QED
  BY <1>1, <1>2, <1>3, <1>4, <1>5, <1>6, <1>7, <1>8, <1>9, <1>10, <1>11, <1>12, <1>13, <1>14
     DEF AttemptSteps

\* Every step of the system keeps what is known of the attempt.
LEMMA AttemptNextInv == AttemptInv /\ [Next]_vars => AttemptInv' /\ current \subseteq current'
<1> SUFFICES ASSUME AttemptInv, [Next]_vars PROVE AttemptInv' /\ current \subseteq current'
  OBVIOUS
<1>1. CASE Begin
  BY <1>1 DEF Begin, Start, AttemptInv, ends, history
<1>2. CASE FinishSync
  BY <1>2 DEF FinishSync, Over, AttemptInv, ends, counts
<1>3. CASE Crash
  BY <1>3 DEF Crash, CrashAttempt, Over, AttemptInv
<1>4. CASE Trouble
  BY <1>4 DEF Trouble, AttemptInv, ends, history
<1>5. CASE AttemptSteps
  BY <1>5, AttemptStepsGood
<1>6. CASE UNCHANGED attemptVars
  BY <1>6 DEF attemptVars, AttemptInv, ends, counts, history
<1>7. QED
  BY <1>1, <1>2, <1>3, <1>4, <1>5, <1>6 DEF Next, vars, Stop, Exit

\* Memory, snapshots and the file only ever hold what an attempt put there.
LEMMA RecordNextInv ==
  ASSUME RunTypeOK, AttemptInv, RecordsInv, [Next]_vars
  PROVE  RecordsInv'
<1>1. current \subseteq current'
  BY AttemptNextInv
<1> USE DEF RecordsInv, Backed, RunTypeOK
<1>2. CASE UNCHANGED runVars
  BY <1>1, <1>2 DEF runVars
<1>3. CASE FinishSync
  <2>1. CASE RecordAttempt(attempt, res.state = "ok")
    BY <1>1, <1>3, <2>1 DEF RecordAttempt, FinishSync, AttemptInv
  <2>2. QED
    BY <1>2, <1>3, <2>1 DEF FinishSync
<1>4. CASE Restart
  BY <1>1, <1>4 DEF Restart, Load, NoRun
<1>5. CASE RunSteps \/ Damage \/ StopRunSaves \/ \E s \in Savers : SaveFails(s)
  BY <1>1, <1>5 DEF RunSteps, MarkRunsDirty, WindowEnds, TrailingSave, FlushRuns, TakeSnapshot,
     Rename, SyncDir, MarkAgain, Damage, StopRunSaves, SaveFails, NoRun
<1>6. QED
  BY <1>2, <1>3, <1>4, <1>5 DEF Next, vars, Begin, Stop, Exit, Crash, Trouble

\* runState: last_success_at, in memory and in the file, is always the start of an attempt
\* that left the replica with exactly what the origin advertised to it, across any number
\* of attempts, failed writes, damaged files and crashes.
THEOREM SuccessIsTrue == Spec => []RecordIsTrue
<1>1. Init => AttemptInv /\ RecordsInv
  BY AttemptAssumption DEF Init, AttemptInit, RunInit, AttemptInv, RecordsInv, Backed, NoRun
<1>2. RunInv /\ AttemptInv /\ RecordsInv /\ [Next]_vars => AttemptInv' /\ RecordsInv'
  BY AttemptNextInv, RecordNextInv DEF RunInv
<1>3. RecordsInv => RecordIsTrue
  BY DEF RecordsInv, Backed, RecordIsTrue, Load, NoRun
<1>4. QED
  BY <1>1, <1>2, <1>3, RunAlways, PTL DEF Spec

-----------------------------------------------------------------------------
(***************************************************************************)
(* How partitionBatches cuts any refs into batches.  Its loop and the size *)
(* of a batch are recursive functions; what is said of them is proved by   *)
(* induction over the natural numbers.                                     *)
(***************************************************************************)
\* Induction over the natural numbers, for a set of them.
LEMMA SetInduction ==
  ASSUME NEW T, 0 \in T, \A n \in Nat : n \in T => n + 1 \in T
  PROVE  Nat \subseteq T
<1>1. SUFFICES ASSUME Nat \ T # {} PROVE FALSE
  OBVIOUS
<1>2. PICK x \in Nat \ T : \A y \in Nat \ T : ~(<<y, x>> \in OpToRel(<, Nat))
  BY <1>1, NatLessThanWellFounded, WFMin, Zenon
<1>3. x # 0
  OBVIOUS
<1>4. x - 1 \in Nat \ T
  BY <1>3
<1>5. <<x - 1, x>> \in OpToRel(<, Nat)
  BY <1>4 DEF OpToRel
<1>6. QED
  BY <1>2, <1>4, <1>5, Zenon

\* Where the loop of partitionBatches starts, and one turn of it.
NoCut == [out |-> <<>>, cur |-> <<>>, size |-> 0]
CutStep(refs, acc, n) == IF Order[n] \in refs THEN Cut(acc, Order[n]) ELSE acc

\* The loop is what its recursive definition says: a function of that kind exists, by
\* induction over the names.
LEMMA CutsDef ==
  ASSUME NEW refs
  PROVE  Cuts(refs) = [n \in 0..Len(Order) |->
           IF n = 0 THEN NoCut ELSE CutStep(refs, Cuts(refs)[n - 1], n)]
<1> DEFINE Rec(g, k) == g = [n \in 0..k |-> IF n = 0 THEN NoCut ELSE CutStep(refs, g[n - 1], n)]
           T == {k \in Nat : \E g : Rec(g, k)}
<1>1. 0 \in T
  <2>1. Rec([n \in 0..0 |-> NoCut], 0)
    OBVIOUS
  <2>2. QED
    BY <2>1
<1>2. ASSUME NEW k \in Nat, k \in T PROVE k + 1 \in T
  <2>1. PICK g : Rec(g, k)
    BY <1>2
  <2> DEFINE h == [n \in 0..(k + 1) |-> IF n <= k THEN g[n] ELSE CutStep(refs, g[k], n)]
  <2>2. Rec(h, k + 1)
    <3>1. \A n \in 0..k : h[n] = g[n]
      OBVIOUS
    <3>2. ASSUME NEW n \in 0..(k + 1)
          PROVE  h[n] = IF n = 0 THEN NoCut ELSE CutStep(refs, h[n - 1], n)
      <4>1. CASE n = 0
        BY <2>1, <4>1
      <4>2. CASE n \in 1..k
        <5>1. h[n] = g[n] /\ h[n - 1] = g[n - 1]
          BY <4>2
        <5>2. g[n] = CutStep(refs, g[n - 1], n)
          BY <2>1, <4>2
        <5>3. QED
          BY <4>2, <5>1, <5>2
      <4>3. CASE n = k + 1
        <5>1. h[n] = CutStep(refs, g[k], n) /\ h[n - 1] = g[k]
          BY <4>3
        <5>2. QED
          BY <4>3, <5>1
      <4>4. QED
        BY <4>1, <4>2, <4>3
    <3> HIDE DEF h
    <3>3. h = [n \in 0..(k + 1) |-> h[n]]
      BY DEF h
    <3>4. QED
      BY <3>2, <3>3
  <2>3. \E f : Rec(f, k + 1)
    <3> HIDE DEF h, Rec
    <3>1. QED
      BY <2>2, Zenon
  <2>4. QED
    BY <2>3
<1>3. Len(Order) \in Nat
  BY AttemptAssumption
<1>4. Len(Order) \in T
  <2> HIDE DEF T
  <2>1. QED
    BY <1>1, <1>2, <1>3, SetInduction
<1>5. \E g : Rec(g, Len(Order))
  BY <1>4
<1>6. Cuts(refs) = CHOOSE g : Rec(g, Len(Order))
  BY Zenon DEF Cuts, NoCut, CutStep
<1>7. Rec(Cuts(refs), Len(Order))
  <2> HIDE DEF Rec
  <2>1. QED
    BY <1>5, <1>6, Zenon
<1>8. QED
  BY <1>7

\* The sizes of the beginnings of a batch are what their definition says.
LEMMA SizesDef ==
  ASSUME NEW b \in Seq(Refs)
  PROVE  Sizes(b) = [n \in 0..Len(b) |-> IF n = 0 THEN 0 ELSE Sizes(b)[n - 1] + Cost(b[n])]
<1> DEFINE Rec(g, k) == g = [n \in 0..k |-> IF n = 0 THEN 0 ELSE g[n - 1] + Cost(b[n])]
           T == {k \in Nat : \E g : Rec(g, k)}
<1>1. 0 \in T
  <2>1. Rec([n \in 0..0 |-> 0], 0)
    OBVIOUS
  <2>2. QED
    BY <2>1
<1>2. ASSUME NEW k \in Nat, k \in T PROVE k + 1 \in T
  <2>1. PICK g : Rec(g, k)
    BY <1>2
  <2> DEFINE h == [n \in 0..(k + 1) |-> IF n <= k THEN g[n] ELSE g[k] + Cost(b[n])]
  <2>2. Rec(h, k + 1)
    <3>1. ASSUME NEW n \in 0..(k + 1)
          PROVE  h[n] = IF n = 0 THEN 0 ELSE h[n - 1] + Cost(b[n])
      <4>1. CASE n = 0
        BY <2>1, <4>1
      <4>2. CASE n \in 1..k
        <5>1. h[n] = g[n] /\ h[n - 1] = g[n - 1]
          BY <4>2
        <5>2. g[n] = g[n - 1] + Cost(b[n])
          BY <2>1, <4>2
        <5>3. QED
          BY <4>2, <5>1, <5>2
      <4>3. CASE n = k + 1
        <5>1. h[n] = g[k] + Cost(b[n]) /\ h[n - 1] = g[k]
          BY <4>3
        <5>2. QED
          BY <4>3, <5>1
      <4>4. QED
        BY <4>1, <4>2, <4>3
    <3>2. h = [n \in 0..(k + 1) |-> h[n]]
      OBVIOUS
    <3> HIDE DEF h
    <3>3. QED
      BY <3>1, <3>2
  <2>3. \E f : Rec(f, k + 1)
    <3> HIDE DEF h, Rec
    <3>1. QED
      BY <2>2, Zenon
  <2>4. QED
    <3> HIDE DEF Rec
    <3>1. QED
      BY <2>3
<1>3. Len(b) \in Nat
  OBVIOUS
<1>4. Len(b) \in T
  <2> HIDE DEF T
  <2>1. QED
    BY <1>1, <1>2, <1>3, SetInduction
<1>5. \E g : Rec(g, Len(b))
  BY <1>4
<1>6. Sizes(b) = CHOOSE g : Rec(g, Len(b))
  BY Zenon DEF Sizes
<1>7. Rec(Sizes(b), Len(b))
  <2> HIDE DEF Rec
  <2>1. QED
    BY <1>5, <1>6, Zenon
<1>8. QED
  BY <1>7

\* What a ref costs.
LEMMA CostNat == ASSUME NEW r \in Refs PROVE Cost(r) \in Nat /\ Cost(r) > 0
BY AttemptAssumption DEF Cost

\* A batch has a size, and a ref that is appended adds its cost.
LEMMA SizeAppend ==
  ASSUME NEW b \in Seq(Refs), NEW r \in Refs
  PROVE  Size(b) \in Nat /\ Size(Append(b, r)) = Size(b) + Cost(r)
<1> DEFINE c == Append(b, r)
           T == {k \in Nat : k <= Len(b) => Sizes(b)[k] \in Nat /\ Sizes(c)[k] = Sizes(b)[k]}
<1>1. c \in Seq(Refs) /\ Len(c) = Len(b) + 1 /\ c[Len(b) + 1] = r
      /\ \A n \in 1..Len(b) : c[n] = b[n]
  OBVIOUS
<1>2. \A n \in 0..Len(b) : Sizes(b)[n] = IF n = 0 THEN 0 ELSE Sizes(b)[n - 1] + Cost(b[n])
  BY SizesDef
<1>3. \A n \in 0..(Len(b) + 1) : Sizes(c)[n] = IF n = 0 THEN 0 ELSE Sizes(c)[n - 1] + Cost(c[n])
  <2> HIDE DEF c
  <2>1. QED
    BY <1>1, SizesDef
<1> HIDE DEF c
<1>4. 0 \in T
  BY <1>2, <1>3
<1>5. ASSUME NEW k \in Nat, k \in T PROVE k + 1 \in T
  <2>1. SUFFICES ASSUME k + 1 <= Len(b)
                 PROVE  Sizes(b)[k + 1] \in Nat /\ Sizes(c)[k + 1] = Sizes(b)[k + 1]
    OBVIOUS
  <2>2. Sizes(b)[k] \in Nat /\ Sizes(c)[k] = Sizes(b)[k]
    BY <1>5, <2>1
  <2>3. Sizes(b)[k + 1] = Sizes(b)[k] + Cost(b[k + 1])
    BY <1>2, <2>1
  <2>4. Sizes(c)[k + 1] = Sizes(c)[k] + Cost(b[k + 1])
    BY <1>1, <1>3, <2>1
  <2>5. Cost(b[k + 1]) \in Nat
    BY <2>1, CostNat
  <2>6. QED
    BY <2>2, <2>3, <2>4, <2>5
<1>6. Len(b) \in T
  <2> HIDE DEF T
  <2>1. QED
    BY <1>4, <1>5, SetInduction
<1>7. Sizes(b)[Len(b)] \in Nat /\ Sizes(c)[Len(b)] = Sizes(b)[Len(b)]
  BY <1>6
<1>8. Sizes(c)[Len(c)] = Sizes(c)[Len(b)] + Cost(r)
  BY <1>1, <1>3
<1>9. QED
  BY <1>7, <1>8 DEF Size, c

\* An empty batch costs nothing.
LEMMA SizeNone == Size(<<>>) = 0
<1>1. \A b \in Seq(Refs) : Sizes(b)[0] = 0
  BY SizesDef
<1> DEFINE e == <<>>
<1>2. e \in Seq(Refs) /\ Len(e) = 0
  OBVIOUS
<1> HIDE DEF e
<1>3. Size(e) = 0
  BY <1>1, <1>2 DEF Size
<1>4. QED
  BY <1>3 DEF e

\* A batch of one ref costs what the ref costs.
LEMMA SizeOne == ASSUME NEW r \in Refs PROVE Size(<<r>>) = Cost(r)
<1> DEFINE e == <<>>
<1>1. e \in Seq(Refs) /\ Append(e, r) = <<r>> /\ Size(e) = 0
  BY SizeNone
<1> HIDE DEF e
<1>2. Size(Append(e, r)) = Size(e) + Cost(r)
  BY <1>1, SizeAppend
<1>3. QED
  BY <1>1, <1>2, CostNat

\* What partitionBatches has made of the first n names.
Good(bs, refs, n) ==
  /\ bs \in Seq(Seq(refs)) /\ Filled(bs) /\ Sorted(bs)
  /\ \A i \in 1..Len(bs) : \A k \in 1..Len(bs[i]) : \E m \in 1..n : bs[i][k] = Order[m]
  /\ \A m \in 1..n : Order[m] \in refs =>
       \E i \in 1..Len(bs) : \E k \in 1..Len(bs[i]) : bs[i][k] = Order[m]

\* A name that is not to be pushed changes nothing.
LEMMA GoodSkips ==
  ASSUME NEW refs, NEW bs, NEW n \in 1..Len(Order), Good(bs, refs, n - 1), Order[n] \notin refs
  PROVE  Good(bs, refs, n)
<1>1. n - 1 \in Nat /\ 1..(n - 1) \subseteq 1..n /\ \A m \in 1..n : m \in 1..(n - 1) \/ m = n
  BY AttemptAssumption
<1>2. bs \in Seq(Seq(refs)) /\ Filled(bs) /\ Sorted(bs)
  BY DEF Good
<1>3. \A i \in 1..Len(bs) : \A k \in 1..Len(bs[i]) : \E m \in 1..n : bs[i][k] = Order[m]
  <2>1. ASSUME NEW i \in 1..Len(bs), NEW k \in 1..Len(bs[i])
        PROVE  \E m \in 1..n : bs[i][k] = Order[m]
    <3>1. PICK m \in 1..(n - 1) : bs[i][k] = Order[m]
      BY <2>1, Zenon DEF Good
    <3>2. QED
      BY <1>1, <3>1, Zenon
  <2>2. QED
    BY <2>1, Zenon
<1>4. ASSUME NEW m \in 1..n, Order[m] \in refs
      PROVE  \E i \in 1..Len(bs) : \E k \in 1..Len(bs[i]) : bs[i][k] = Order[m]
  <2>1. m \in 1..(n - 1)
    BY <1>1, <1>4, Zenon
  <2>2. QED
    BY <1>4, <2>1, Zenon DEF Good
<1>5. QED
  BY <1>2, <1>3, <1>4, Zenon DEF Good

\* A name that starts a batch.
LEMMA GoodStarts ==
  ASSUME NEW refs \in SUBSET Refs, NEW bs, NEW n \in 1..Len(Order), Good(bs, refs, n - 1),
         Order[n] \in refs, BatchRefs > 0,
         bs # <<>> => ~Fits(Append(bs[Len(bs)], Order[n]))
  PROVE  Good(Append(bs, <<Order[n]>>), refs, n)
<1> DEFINE r == Order[n]
           cs == Append(bs, <<r>>)
<1>1. Len(Order) \in Nat /\ n \in Nat /\ BatchRefs \in Nat
  BY AttemptAssumption
<1>2. bs \in Seq(Seq(refs)) /\ <<r>> \in Seq(refs) /\ Len(<<r>>) = 1 /\ <<r>>[1] = r
  BY DEF Good
<1>3. cs \in Seq(Seq(refs)) /\ Len(bs) \in Nat /\ Len(cs) = Len(bs) + 1 /\ cs[Len(bs) + 1] = <<r>>
      /\ \A i \in 1..Len(bs) : cs[i] = bs[i] /\ bs[i] \in Seq(refs)
  BY <1>2
<1> HIDE DEF cs
<1>4. Filled(cs)
  <2>1. <<r>> # <<>> /\ Fits(<<r>>)
    BY <1>1 DEF Fits
  <2>2. \A i \in 1..Len(cs) : cs[i] # <<>> /\ Fits(cs[i])
    <3>1. \A i \in 1..Len(bs) : bs[i] # <<>> /\ Fits(bs[i])
      BY DEF Good, Filled
    <3>2. ASSUME NEW i \in 1..Len(cs) PROVE i \in 1..Len(bs) \/ i = Len(bs) + 1
      BY <1>3
    <3>3. QED
      BY <1>3, <2>1, <3>1, <3>2, Zenon
  <2>3. ASSUME NEW i \in 1..(Len(cs) - 1) PROVE ~Fits(Append(cs[i], cs[i + 1][1]))
    <3>1. CASE i = Len(bs)
      <4>1. bs # <<>>
        BY <1>2, <3>1, <1>3
      <4>2. cs[i] = bs[Len(bs)] /\ cs[i + 1][1] = r
        BY <1>2, <1>3, <3>1
      <4>3. QED
        BY <4>1, <4>2
    <3>2. CASE i \in 1..(Len(bs) - 1)
      <4>1. ~Fits(Append(bs[i], bs[i + 1][1]))
        BY <3>2 DEF Good, Filled
      <4>2. cs[i] = bs[i] /\ cs[i + 1] = bs[i + 1]
        BY <1>3, <3>2
      <4>3. QED
        BY <4>1, <4>2
    <3>3. QED
      BY <1>3, <3>1, <3>2
  <2>4. QED
    BY <2>2, <2>3 DEF Filled
<1>5. Sorted(cs)
  <2>1. SUFFICES ASSUME NEW i \in 1..Len(cs), NEW j \in 1..Len(cs),
                        NEW k \in 1..Len(cs[i]), NEW l \in 1..Len(cs[j]),
                        i < j \/ (i = j /\ k < l)
                 PROVE  Before(cs[i][k], cs[j][l])
    BY DEF Sorted
  <2>2. CASE j \in 1..Len(bs)
    <3>1. i \in 1..Len(bs) /\ cs[i] = bs[i] /\ cs[j] = bs[j]
      <4>1. i \in Nat /\ i >= 1 /\ i <= Len(bs)
        BY <1>3, <2>1, <2>2
      <4>2. i \in 1..Len(bs)
        BY <1>3, <4>1
      <4>3. QED
        BY <1>3, <2>2, <4>2, Zenon
    <3>2. Sorted(bs) /\ k \in 1..Len(bs[i]) /\ l \in 1..Len(bs[j])
      BY <3>1 DEF Good
    <3>3. Before(bs[i][k], bs[j][l])
      BY <2>1, <2>2, <3>1, <3>2, Zenon DEF Sorted
    <3>4. QED
      BY <3>1, <3>3
  <2>3. CASE j = Len(bs) + 1
    <3>1. l = 1 /\ cs[j][l] = r
      <4>1. cs[j] = <<r>>
        BY <1>3, <2>3
      <4>2. QED
        BY <1>2, <4>1
    <3>2. i \in 1..Len(bs) /\ cs[i] = bs[i]
      BY <1>2, <1>3, <2>1, <2>3, <3>1
    <3>3. PICK m \in 1..(n - 1) : bs[i][k] = Order[m]
      BY <3>2 DEF Good
    <3>4. m \in 1..Len(Order) /\ m < n /\ Order[m] = cs[i][k] /\ Order[n] = cs[j][l]
      BY <1>1, <3>1, <3>2, <3>3
    <3>5. QED
      BY <3>4 DEF Before
  <2>4. QED
    BY <1>3, <2>2, <2>3
<1>6. ASSUME NEW i \in 1..Len(cs), NEW k \in 1..Len(cs[i]) PROVE \E m \in 1..n : cs[i][k] = Order[m]
  <2>1. CASE i \in 1..Len(bs)
    <3>1. cs[i] = bs[i]
      BY <1>3, <2>1
    <3>2. PICK m \in 1..(n - 1) : bs[i][k] = Order[m]
      BY <2>1, <3>1 DEF Good
    <3>3. QED
      BY <1>1, <3>1, <3>2
  <2>2. CASE i = Len(bs) + 1
    <3>1. cs[i] = <<r>>
      BY <1>3, <2>2
    <3>2. k = 1 /\ cs[i][k] = Order[n]
      BY <1>2, <3>1
    <3>3. n \in 1..n
      BY <1>1
    <3>4. QED
      BY <3>2, <3>3
  <2>3. QED
    BY <1>3, <2>1, <2>2
<1>7. ASSUME NEW m \in 1..n, Order[m] \in refs
      PROVE  \E i \in 1..Len(cs) : \E k \in 1..Len(cs[i]) : cs[i][k] = Order[m]
  <2>1. CASE m = n
    <3>1. Len(bs) + 1 \in 1..Len(cs) /\ 1 \in 1..Len(cs[Len(bs) + 1])
          /\ cs[Len(bs) + 1][1] = Order[m]
      BY <1>2, <1>3, <2>1
    <3>2. QED
      BY <3>1
  <2>2. CASE m \in 1..(n - 1)
    <3>1. PICK i \in 1..Len(bs) : \E k \in 1..Len(bs[i]) : bs[i][k] = Order[m]
      BY <1>7, <2>2 DEF Good
    <3>2. i \in 1..Len(cs) /\ cs[i] = bs[i]
      BY <1>3, <3>1
    <3>3. QED
      BY <3>1, <3>2
  <2>3. m = n \/ m \in 1..(n - 1)
    BY <1>1
  <2>4. QED
    BY <2>1, <2>2, <2>3
<1>8. QED
  BY <1>3, <1>4, <1>5, <1>6, <1>7 DEF Good, cs

\* A name that joins the last batch.
LEMMA GoodGrows ==
  ASSUME NEW refs \in SUBSET Refs, NEW out \in Seq(Seq(refs)), NEW cur \in Seq(refs),
         cur # <<>>, NEW n \in 1..Len(Order), Good(Append(out, cur), refs, n - 1),
         Order[n] \in refs, Fits(Append(cur, Order[n]))
  PROVE  Good(Append(out, Append(cur, Order[n])), refs, n)
<1> DEFINE r == Order[n]
           bs == Append(out, cur)
           new == Append(cur, r)
           cs == Append(out, new)
           z == Len(out) + 1
<1>1. Len(Order) \in Nat /\ n \in Nat /\ Len(out) \in Nat /\ Len(cur) \in Nat /\ Len(cur) > 0
  BY AttemptAssumption
<1>2. new \in Seq(refs) /\ new # <<>> /\ Len(new) = Len(cur) + 1 /\ new[Len(cur) + 1] = r
      /\ \A k \in 1..Len(cur) : new[k] = cur[k]
  OBVIOUS
<1>3. bs \in Seq(Seq(refs)) /\ Len(bs) = z /\ bs[z] = cur /\ \A i \in 1..Len(out) : bs[i] = out[i]
  OBVIOUS
<1>4. cs \in Seq(Seq(refs)) /\ Len(cs) = z /\ cs[z] = new /\ \A i \in 1..Len(out) : cs[i] = out[i]
  BY <1>2
<1>5. \A i \in 1..z : i \in 1..Len(out) \/ i = z
  BY <1>1
<1>6. Good(bs, refs, n - 1) /\ Fits(new)
  OBVIOUS
<1>7. z \in Nat /\ z \in 1..z /\ 1..Len(out) \subseteq 1..z /\ 1..(n - 1) \subseteq 1..n
      /\ 1..n \subseteq 1..Len(Order) /\ 1 \in 1..Len(cur)
  BY <1>1
<1> HIDE DEF cs, bs, new, z
<1>8. Filled(cs)
  <2>1. \A i \in 1..Len(cs) : cs[i] # <<>> /\ Fits(cs[i])
    <3>1. \A i \in 1..Len(bs) : bs[i] # <<>> /\ Fits(bs[i])
      BY <1>6, Zenon DEF Good, Filled
    <3>2. ASSUME NEW i \in 1..Len(out) PROVE cs[i] # <<>> /\ Fits(cs[i])
      <4>1. i \in 1..Len(bs) /\ cs[i] = bs[i]
        BY <1>3, <1>4, <1>7
      <4>2. QED
        BY <3>1, <4>1, Zenon
    <3>3. cs[z] # <<>> /\ Fits(cs[z])
      BY <1>2, <1>4, <1>6, Zenon
    <3>4. QED
      BY <1>4, <1>5, <3>2, <3>3, Zenon
  <2>2. ASSUME NEW i \in 1..(Len(cs) - 1) PROVE ~Fits(Append(cs[i], cs[i + 1][1]))
    <3>1. ~Fits(Append(bs[i], bs[i + 1][1])) /\ i \in 1..Len(out) /\ i + 1 \in 1..z
      BY <1>1, <1>3, <1>4, <1>6 DEF Good, Filled, z
    <3>2. cs[i] = bs[i]
      BY <1>3, <1>4, <3>1
    <3>3. cs[i + 1][1] = bs[i + 1][1]
      BY <1>2, <1>3, <1>4, <1>5, <1>7, <3>1, Zenon
    <3>4. QED
      BY <3>1, <3>2, <3>3
  <2>3. QED
    BY <2>1, <2>2 DEF Filled
<1>9. ASSUME NEW i \in 1..z, NEW k \in 1..Len(cs[i])
      PROVE  \/ k \in 1..Len(bs[i]) /\ cs[i][k] = bs[i][k]
             \/ i = z /\ k = Len(cur) + 1 /\ cs[i][k] = r
  <2>1. CASE i \in 1..Len(out)
    BY <1>3, <1>4, <2>1
  <2>2. CASE i = z
    <3>1. k \in 1..(Len(cur) + 1)
      BY <1>2, <1>4, <2>2
    <3>2. k \in 1..Len(cur) \/ k = Len(cur) + 1
      BY <1>1, <3>1
    <3>3. QED
      BY <1>2, <1>3, <1>4, <2>2, <3>2
  <2>3. QED
    BY <1>5, <2>1, <2>2
<1>10. ASSUME NEW i \in 1..z, NEW k \in 1..Len(bs[i])
       PROVE  k \in 1..Len(cs[i]) /\ cs[i][k] = bs[i][k]
  <2>1. CASE i \in 1..Len(out)
    BY <1>3, <1>4, <2>1
  <2>2. CASE i = z
    <3>1. k \in 1..Len(cur) /\ Len(cs[i]) = Len(cur) + 1
      BY <1>2, <1>3, <1>4, <2>2
    <3>2. QED
      BY <1>1, <1>2, <1>3, <1>4, <2>2, <3>1
  <2>3. QED
    BY <1>5, <2>1, <2>2
<1>11. \A i \in 1..z : \A k \in 1..Len(bs[i]) : \E m \in 1..(n - 1) : bs[i][k] = Order[m]
  BY <1>3, <1>6 DEF Good
<1>12. Sorted(cs)
  <2>1. SUFFICES ASSUME NEW i \in 1..z, NEW j \in 1..z,
                        NEW k \in 1..Len(cs[i]), NEW l \in 1..Len(cs[j]),
                        i < j \/ (i = j /\ k < l)
                 PROVE  Before(cs[i][k], cs[j][l])
    BY <1>4 DEF Sorted
  <2>2. CASE l \in 1..Len(bs[j]) /\ cs[j][l] = bs[j][l]
    <3>1. k \in 1..Len(bs[i]) /\ cs[i][k] = bs[i][k]
      <4>1. CASE i = z /\ k = Len(cur) + 1
        <5>1. j = z /\ l > Len(cur) + 1
          BY <1>1, <2>1, <4>1 DEF z
        <5>2. l \in 1..Len(cur)
          BY <1>3, <2>2, <5>1
        <5>3. QED
          BY <1>1, <5>1, <5>2
      <4>2. QED
        BY <1>9, <4>1
    <3>2. Before(bs[i][k], bs[j][l])
      BY <1>3, <1>6, <2>1, <2>2, <3>1 DEF Good, Sorted
    <3>3. QED
      BY <2>2, <3>1, <3>2
  <2>3. CASE j = z /\ l = Len(cur) + 1 /\ cs[j][l] = r
    <3>1. k \in 1..Len(bs[i]) /\ cs[i][k] = bs[i][k]
      <4>1. CASE i = z /\ k = Len(cur) + 1
        BY <1>1, <1>7, <2>1, <2>3, <4>1
      <4>2. QED
        BY <1>9, <4>1
    <3>2. PICK m \in 1..(n - 1) : bs[i][k] = Order[m]
      BY <1>11, <3>1
    <3>3. m \in 1..Len(Order) /\ m < n
      BY <1>1, <3>2
    <3>4. QED
      BY <2>3, <3>1, <3>2, <3>3 DEF Before
  <2>4. QED
    BY <1>9, <2>2, <2>3
<1>13. ASSUME NEW i \in 1..Len(cs), NEW k \in 1..Len(cs[i])
       PROVE  \E m \in 1..n : cs[i][k] = Order[m]
  <2>1. n \in 1..n
    BY <1>1
  <2>2. CASE k \in 1..Len(bs[i]) /\ cs[i][k] = bs[i][k]
    <3>1. PICK m \in 1..(n - 1) : bs[i][k] = Order[m]
      BY <1>4, <1>11, <2>2
    <3>2. QED
      BY <1>7, <2>2, <3>1
  <2>3. QED
    BY <1>4, <1>9, <2>1, <2>2
<1>14. ASSUME NEW m \in 1..n, Order[m] \in refs
       PROVE  \E i \in 1..Len(cs) : \E k \in 1..Len(cs[i]) : cs[i][k] = Order[m]
  <2>1. CASE m = n
    <3>1. Len(cur) + 1 \in 1..Len(cs[z]) /\ cs[z][Len(cur) + 1] = Order[m]
      BY <1>1, <1>2, <1>4, <2>1
    <3>2. QED
      BY <1>4, <1>7, <3>1, Zenon
  <2>2. CASE m \in 1..(n - 1)
    <3>1. PICK i \in 1..z : \E k \in 1..Len(bs[i]) : bs[i][k] = Order[m]
      BY <1>3, <1>6, <1>14, <2>2 DEF Good
    <3>2. PICK k \in 1..Len(bs[i]) : bs[i][k] = Order[m]
      BY <3>1
    <3>3. k \in 1..Len(cs[i]) /\ cs[i][k] = Order[m]
      BY <1>10, <3>1, <3>2
    <3>4. QED
      BY <1>4, <3>1, <3>3
  <2>3. m = n \/ m \in 1..(n - 1)
    BY <1>1
  <2>4. QED
    BY <2>1, <2>2, <2>3
<1>15. Good(cs, refs, n)
  BY <1>4, <1>8, <1>12, <1>13, <1>14 DEF Good
<1>16. QED
  BY <1>15 DEF cs, new

\* The batches there would be if the loop ended now, and what is known of them.
Closed(acc) == IF acc.cur = <<>> THEN acc.out ELSE Append(acc.out, acc.cur)
Accs(refs) == [out : Seq(Seq(refs)), cur : Seq(refs), size : Nat]
CutInv(acc, refs, n) ==
  /\ acc \in Accs(refs) /\ acc.size = Size(acc.cur) /\ (acc.cur = <<>> => acc.out = <<>>)
  /\ Good(Closed(acc), refs, n)

\* A sequence over some refs is one over more of them.
LEMMA SeqMono == ASSUME NEW A, NEW B, A \subseteq B PROVE Seq(A) \subseteq Seq(B)
OBVIOUS

\* What append makes of a slice.
LEMMA Appended ==
  ASSUME NEW S, NEW s \in Seq(S), NEW e \in S
  PROVE  Append(s, e) \in Seq(S) /\ Append(s, e) # <<>> /\ Len(Append(s, e)) = Len(s) + 1
<1>1. Append(s, e) \in Seq(S) /\ Len(Append(s, e)) = Len(s) + 1 /\ Len(s) \in Nat
  OBVIOUS
<1>2. Len(<<>>) = 0
  OBVIOUS
<1>3. Append(s, e) = <<>> => Len(s) + 1 = 0
  BY <1>1, <1>2, Zenon
<1>4. QED
  BY <1>1, <1>3

\* One turn of the loop of partitionBatches.
LEMMA CutGood ==
  ASSUME NEW refs \in SUBSET Refs, NEW n \in 1..Len(Order), NEW acc, CutInv(acc, refs, n - 1),
         Order[n] \in refs, BatchRefs > 0
  PROVE  CutInv(Cut(acc, Order[n]), refs, n)
<1> DEFINE r == Order[n]
<1>1. acc \in Accs(refs) /\ acc.out \in Seq(Seq(refs)) /\ acc.cur \in Seq(refs) /\ acc.size \in Nat
      /\ acc.size = Size(acc.cur)
  BY DEF CutInv, Accs
<1>2. r \in refs /\ r \in Refs /\ acc.cur \in Seq(Refs)
  BY <1>1, SeqMono
<1>3. Cost(r) \in Nat /\ BatchRefs \in Nat /\ MaxArgBytes \in Nat
  BY <1>2, CostNat, AttemptAssumption
<1>4. Good(Closed(acc), refs, n - 1)
  BY DEF CutInv
<1> DEFINE New == [out |-> Append(acc.out, acc.cur), cur |-> <<r>>, size |-> Cost(r)]
           Grown == [out |-> acc.out, cur |-> Append(acc.cur, r), size |-> acc.size + Cost(r)]
<1>5. CASE acc.cur # <<>> /\ (Len(acc.cur) >= BatchRefs \/ acc.size + Cost(r) > MaxArgBytes)
  <2>1. Cut(acc, r) = New
    BY <1>5 DEF Cut
  <2>2. Closed(acc) = Append(acc.out, acc.cur) /\ Closed(New) = Append(Closed(acc), <<r>>)
    BY <1>5 DEF Closed
  <2>3. Closed(acc)[Len(Closed(acc))] = acc.cur
    BY <1>1, <2>2
  <2>4. ~Fits(Append(acc.cur, r))
    <3>1. Len(Append(acc.cur, r)) = Len(acc.cur) + 1 /\ Len(acc.cur) \in Nat /\ Len(acc.cur) > 0
      BY <1>1, <1>5
    <3>2. Size(Append(acc.cur, r)) = acc.size + Cost(r)
      BY <1>1, <1>2, SizeAppend
    <3>3. QED
      BY <1>1, <1>3, <1>5, <3>1, <3>2 DEF Fits
  <2>5. Good(Append(Closed(acc), <<r>>), refs, n)
    BY <1>2, <1>4, <2>3, <2>4, GoodStarts
  <2>6. New \in Accs(refs) /\ New.size = Size(New.cur) /\ New.cur # <<>>
    BY <1>1, <1>2, <1>3, SizeOne DEF Accs
  <2>7. QED
    BY <2>1, <2>2, <2>5, <2>6 DEF CutInv
<1>6. CASE acc.cur # <<>> /\ ~(Len(acc.cur) >= BatchRefs \/ acc.size + Cost(r) > MaxArgBytes)
  <2>1. Cut(acc, r) = Grown
    BY <1>6 DEF Cut
  <2>2. Grown \in Accs(refs) /\ Grown.out = acc.out /\ Grown.cur = Append(acc.cur, r)
        /\ Grown.cur # <<>> /\ Grown.size = acc.size + Cost(r)
    <3>1. Append(acc.cur, r) \in Seq(refs) /\ Append(acc.cur, r) # <<>>
      BY <1>1, <1>2, Appended
    <3>2. acc.size + Cost(r) \in Nat
      BY <1>1, <1>3
    <3>3. QED
      BY <1>1, <3>1, <3>2 DEF Accs
  <2>3. Size(Grown.cur) = Grown.size
    BY <1>1, <1>2, <2>2, SizeAppend
  <2>4. Fits(Append(acc.cur, r))
    BY <1>1, <1>3, <1>6, <2>2, <2>3 DEF Fits
  <2>5. Good(Append(acc.out, Append(acc.cur, r)), refs, n)
    BY <1>1, <1>2, <1>4, <1>6, <2>4, GoodGrows DEF Closed
  <2>6. QED
    BY <2>1, <2>2, <2>3, <2>5 DEF CutInv, Closed
<1>7. CASE acc.cur = <<>>
  <2>1. Cut(acc, r) = Grown
    BY <1>7 DEF Cut
  <2>2. Grown \in Accs(refs) /\ Grown.out = acc.out /\ Grown.cur = Append(acc.cur, r)
        /\ Grown.cur # <<>> /\ Grown.size = acc.size + Cost(r)
    <3>1. Append(acc.cur, r) \in Seq(refs) /\ Append(acc.cur, r) # <<>>
      BY <1>1, <1>2, Appended
    <3>2. acc.size + Cost(r) \in Nat
      BY <1>1, <1>3
    <3>3. QED
      BY <1>1, <3>1, <3>2 DEF Accs
  <2>3. Size(Grown.cur) = Grown.size
    BY <1>1, <1>2, <2>2, SizeAppend
  <2>4. Closed(acc) = <<>> /\ acc.out = <<>> /\ Closed(Grown) = Append(Closed(acc), <<r>>)
    BY <1>7, <2>2 DEF Closed, CutInv
  <2>5. Good(Append(Closed(acc), <<r>>), refs, n)
    BY <1>2, <1>4, <2>4, GoodStarts
  <2>6. QED
    BY <2>1, <2>2, <2>3, <2>4, <2>5 DEF CutInv
<1>8. QED
  BY <1>5, <1>6, <1>7

\* partitionBatches, for any refs: its batches are full, within the bounds, in order, and
\* hold the refs it was given and no other.
LEMMA PartitionGood ==
  ASSUME NEW refs \in SUBSET Refs, BatchRefs > 0
  PROVE  Good(Partition(refs), refs, Len(Order))
<1> DEFINE c == Cuts(refs)
           T == {n \in Nat : n <= Len(Order) => CutInv(c[n], refs, n)}
<1>1. Len(Order) \in Nat
  BY AttemptAssumption
<1>2. \A n \in 0..Len(Order) : c[n] = IF n = 0 THEN NoCut ELSE CutStep(refs, c[n - 1], n)
  BY CutsDef
<1> HIDE DEF c
<1>3. 0 \in T
  <2>1. c[0] = NoCut
    BY <1>1, <1>2
  <2>2. NoCut \in Accs(refs) /\ NoCut.cur = <<>> /\ NoCut.out = <<>> /\ NoCut.size = 0
    BY DEF NoCut, Accs
  <2>3. Size(NoCut.cur) = 0
    BY <2>2, SizeNone
  <2>4. Good(<<>>, refs, 0)
    BY DEF Good, Filled, Sorted
  <2>5. QED
    BY <2>1, <2>2, <2>3, <2>4 DEF CutInv, Closed
<1>4. ASSUME NEW n \in Nat, n \in T PROVE n + 1 \in T
  <2>1. SUFFICES ASSUME n + 1 <= Len(Order) PROVE CutInv(c[n + 1], refs, n + 1)
    OBVIOUS
  <2>2. CutInv(c[n], refs, n) /\ n + 1 \in 1..Len(Order) /\ (n + 1) - 1 = n
    BY <1>1, <1>4, <2>1
  <2>3. c[n + 1] = CutStep(refs, c[n], n + 1)
    BY <1>1, <1>2, <2>2
  <2>4. CASE Order[n + 1] \in refs
    BY <2>2, <2>3, <2>4, CutGood DEF CutStep
  <2>5. CASE Order[n + 1] \notin refs
    <3>1. c[n + 1] = c[n]
      BY <2>3, <2>5 DEF CutStep
    <3>2. Good(Closed(c[n]), refs, n + 1)
      BY <2>2, <2>5, GoodSkips DEF CutInv
    <3>3. QED
      BY <2>2, <3>1, <3>2 DEF CutInv
  <2>6. QED
    BY <2>4, <2>5
<1>5. Len(Order) \in T
  <2> HIDE DEF T
  <2>1. QED
    BY <1>1, <1>3, <1>4, SetInduction
<1>6. CutInv(c[Len(Order)], refs, Len(Order))
  BY <1>1, <1>5
<1>7. Partition(refs) = Closed(c[Len(Order)])
  BY DEF Partition, Closed, c
<1>8. QED
  BY <1>6, <1>7 DEF CutInv

-----------------------------------------------------------------------------
(***************************************************************************)
(* What the pushes of an attempt do to the replica.                        *)
(***************************************************************************)
\* A ref that git takes by name next to what the replica and the mirror hold.
Batchable(r) ==
  /\ mirror[r] # None
  /\ ~Conflict(r, Held(before) \ Held(mirror),
               {p[2] : p \in Shadowing} \cap (Held(before) \cup Held(mirror)))

\* An attempt that has not begun to push.
Early == {"idle", "start", "fetch", "init", "first", "refs", "size", "count", "plan"}
\* Until its pushes an attempt leaves the replica alone; it pushes a mirror that is not empty
\* and is what the origin advertised to it.
EndsInv ==
  /\ origin \in Tables /\ replica \in [Refs -> Values \cup {None}]
  /\ pc \in {"refs", "size", "count", "plan", "push", "pushing"} =>
       mirror = fetched /\ fetched \in Tables
  /\ pc \in {"size", "count", "plan", "push", "pushing", "report"} => Held(fetched) # {}
  /\ pc \in Early => replica = before /\ batches = <<>> /\ next = 1
  /\ pc = "report" => replica = fetched
  /\ pc = "plan" => BatchRefs > 0
\* No ref of the replica is gone, none is there that neither end had, the batches hold only
\* refs git can take, and those of the batches that were pushed have arrived.
BatchInv ==
  /\ batches \in Seq(Seq(Refs)) /\ next \in 1..(Len(batches) + 1)
  /\ pc \in {"push", "pushing"} =>
       /\ Held(before) \subseteq Held(replica)
       /\ Held(replica) \subseteq Held(before) \cup Held(mirror)
       /\ \A i \in 1..Len(batches) : \A r \in Range(batches[i]) :
            Batchable(r) /\ (i < next => replica[r] = mirror[r])
\* Cancelling and expiry are faults of the attempt they happen to.
CleanInv == clean => ~cancelled /\ ~expired
PushInv == EndsInv /\ BatchInv /\ CleanInv /\ CleanRunSucceeds /\ BatchesAreSound

\* An attempt that a git of the origin side ends is not a clean one.
LEMMA OriginFailedUnclean ==
  CleanInv /\ OriginFailed => pc' = "done" /\ ~clean'
BY DEF CleanInv, OriginFailed, NoFault, Fault, End

\* planPush: the batches it is cut into hold what git can take, and nothing else is left out.
LEMMA PlanGood ==
  ASSUME EndsInv, pc = "plan",
         NEW p, p = [upserts |-> Upserts, deletes |-> Deletes, shadows |-> Shadows],
         plan' = p, batches' = Partition(Free(p)), UNCHANGED <<ends, before>>
  PROVE  /\ batches' \in Seq(Seq(Refs))
         /\ \A i \in 1..Len(batches') : \A r \in Range(batches'[i]) : Batchable(r)'
         /\ BatchesAreSound'
<1> DEFINE free == Free(p)
           bs == batches'
<1>1. replica = before /\ BatchRefs > 0 /\ mirror' = mirror /\ before' = before
  BY DEF EndsInv, Early, ends
<1>2. p.upserts = Upserts /\ p.deletes = Held(before) \ Held(mirror)
      /\ p.shadows = {q[2] : q \in Shadowing} \cap (Held(before) \cup Held(mirror))
  BY <1>1 DEF Deletes, Shadows
<1>3. free \in SUBSET Refs /\ free \subseteq p.upserts
      /\ \A r \in free : mirror[r] # None /\ ~Conflict(r, p.deletes, p.shadows)
  BY <1>2 DEF Free, Upserts
<1> HIDE DEF free
<1>4. Good(bs, free, Len(Order))
  BY <1>1, <1>3, PartitionGood DEF free
<1>5. bs \in Seq(Seq(free)) /\ bs \in Seq(Seq(Refs))
  BY <1>3, <1>4, SeqMono DEF Good
<1>6. ASSUME NEW i \in 1..Len(bs) PROVE Range(bs[i]) \subseteq free
  BY <1>5 DEF Range
<1>7. \A i \in 1..Len(bs) : \A r \in Range(bs[i]) : Batchable(r)'
  BY <1>1, <1>2, <1>3, <1>6 DEF Batchable, Conflict, Held
<1>8. \A u \in free : \E i \in 1..Len(bs) : u \in Range(bs[i])
  <2>1. SUFFICES ASSUME NEW u \in free PROVE \E i \in 1..Len(bs) : u \in Range(bs[i])
    OBVIOUS
  <2>2. PICK m \in 1..Len(Order) : Order[m] = u
    BY <1>3, AttemptAssumption DEF Refs, Range
  <2>3. PICK i \in 1..Len(bs) : \E k \in 1..Len(bs[i]) : bs[i][k] = u
    BY <1>4, <2>2 DEF Good
  <2>4. PICK k \in 1..Len(bs[i]) : bs[i][k] = u
    BY <2>3
  <2>5. bs[i] \in Seq(free)
    BY <1>5
  <2>6. QED
    BY <2>4, <2>5 DEF Range
<1>9. BatchesAreSound'
  <2> DEFINE all == UNION {Range(bs[i]) : i \in 1..Len(bs)}
  <2>1. all = free
    BY <1>6, <1>8
  <2>2. ASSUME NEW u \in p.upserts \ free PROVE Unbatchable(u)'
    <3>1. Conflict(u, p.deletes, p.shadows) /\ u \in Refs
      BY <1>2, <2>2 DEF Free, free, Upserts
    <3>2. CASE Length[u] > MaxRefLen
      BY <3>2 DEF Unbatchable
    <3>3. ASSUME NEW d \in p.deletes, <<u, d>> \in Under \/ <<d, u>> \in Under
          PROVE  Unbatchable(u)'
      <4>1. d \in Refs /\ d \in Held(before) \ Held(mirror)
        BY <1>2, <3>3 DEF Held
      <4> DEFINE t == [Empty EXCEPT ![u] = 1, ![d] = 1]
      <4>2. 1 # None
        BY AttemptAssumption DEF Values
      <4>3. u \in Held(t) /\ d \in Held(t)
        BY <3>1, <4>1, <4>2 DEF Held, Empty
      <4>4. ~Legal(t)
        <5> HIDE DEF t
        <5>1. CASE <<u, d>> \in Under
          BY <4>3, <5>1 DEF Legal
        <5>2. CASE <<d, u>> \in Under
          BY <4>3, <5>2 DEF Legal
        <5>3. QED
          BY <3>3, <5>1, <5>2
      <4>5. d \in (Held(before) \ Held(mirror))'
        BY <1>1, <4>1 DEF Held
      <4>6. QED
        BY <4>4, <4>5 DEF Unbatchable
    <3>4. ASSUME NEW s \in p.shadows, <<u, s>> \in Shadowing PROVE Unbatchable(u)'
      <4>1. s \in (Held(before) \cup Held(mirror))'
        BY <1>1, <1>2, <3>4 DEF Held
      <4>2. QED
        BY <3>4, <4>1 DEF Unbatchable
    <3>5. QED
      BY <3>1, <3>2, <3>3, <3>4 DEF Conflict
  <2>3. Filled(bs) /\ Sorted(bs)
    BY <1>4 DEF Good
  <2>4. all \subseteq plan'.upserts /\ \A u \in plan'.upserts \ all : Unbatchable(u)'
    BY <1>3, <2>1, <2>2
  <2>5. QED
    BY <2>3, <2>4 DEF BatchesAreSound
<1>10. QED
  BY <1>5, <1>7, <1>9

\* The batches of a plan stay sound while plan and mirror stay.
LEMMA SoundKept ==
  ASSUME BatchesAreSound, UNCHANGED <<batches, plan, before, mirror>>
  PROVE  BatchesAreSound'
BY DEF BatchesAreSound, Unbatchable, Held

\* An attempt without batches has none that are not sound.
LEMMA NoBatchesSound == batches' = <<>> => BatchesAreSound'
BY DEF BatchesAreSound

\* The steps that lead to the first push.
LEMMA EarlyPush ==
  ASSUME PushInv,
         Prepare \/ Fetch \/ InitMirror \/ FirstFetch \/ CheckRefs \/ CheckSize
  PROVE  PushInv'
<1>1. EndsInv /\ BatchInv /\ CleanInv
  BY DEF PushInv
<1>2. pc \in Early /\ replica = before /\ batches = <<>> /\ next = 1
      /\ UNCHANGED <<origin, replica, before, batches, next, cancelled, expired>>
  BY <1>1 DEF Prepare, Fetch, InitMirror, FirstFetch, CheckRefs, CheckSize, EndsInv, Early, ends
<1>3. (clean' => clean) /\ CleanInv'
  BY <1>1, <1>2 DEF Prepare, Fetch, InitMirror, FirstFetch, CheckRefs, CheckSize, CleanInv,
     NoFault, Fault, OriginFailed
<1>4. BatchesAreSound'
  BY <1>2, NoBatchesSound
<1>5. pc' \notin {"push", "pushing", "report", "plan"}
  BY DEF Prepare, Fetch, InitMirror, FirstFetch, CheckRefs, CheckSize, End, GoTo, OriginFailed
<1>6. BatchInv'
  BY <1>1, <1>2, <1>5 DEF BatchInv
<1>7. EndsInv'
  <2>1. CASE Prepare
    BY <1>1, <1>2, <2>1 DEF Prepare, EndsInv, Early, End, GoTo
  <2>2. CASE Fetch
    BY <1>1, <1>2, <2>2, OriginFailedUnclean DEF Fetch, EndsInv, Early, GoTo
  <2>3. CASE InitMirror
    BY <1>1, <1>2, <2>3, OriginFailedUnclean DEF InitMirror, EndsInv, Early, GoTo
  <2>4. CASE FirstFetch
    BY <1>1, <1>2, <2>4, OriginFailedUnclean DEF FirstFetch, EndsInv, Early, GoTo
  <2>5. CASE CheckRefs
    BY <1>1, <1>2, <2>5, OriginFailedUnclean DEF CheckRefs, EndsInv, Early, GoTo, End, ends, Held
  <2>6. CASE CheckSize
    BY <1>1, <1>2, <2>6 DEF CheckSize, EndsInv, Early, GoTo, End, ends, Held
  <2>7. QED
    BY <2>1, <2>2, <2>3, <2>4, <2>5, <2>6
<1>8. CleanRunSucceeds'
  <2>1. CASE Prepare
    BY <1>1, <2>1 DEF Prepare, CleanRunSucceeds, CleanInv, NoFault, Fault, GoTo
  <2>2. CASE Fetch
    BY <1>1, <2>2, OriginFailedUnclean DEF Fetch, CleanRunSucceeds, GoTo
  <2>3. CASE InitMirror
    BY <1>1, <2>3, OriginFailedUnclean DEF InitMirror, CleanRunSucceeds, GoTo
  <2>4. CASE FirstFetch
    BY <1>1, <2>4, OriginFailedUnclean DEF FirstFetch, CleanRunSucceeds, GoTo
  <2>5. CASE CheckRefs
    <3>1. mirror = fetched
      BY <1>1, <2>5 DEF EndsInv, CheckRefs
    <3>2. CASE Held(mirror) = {} /\ End(Error("unclassified"))
      BY <1>2, <2>5, <3>1, <3>2 DEF CheckRefs, CleanRunSucceeds, End, Error, ends, Held
    <3>3. QED
      BY <1>1, <2>5, <3>2, OriginFailedUnclean DEF CheckRefs, CleanRunSucceeds, GoTo
  <2>6. CASE CheckSize
    BY <1>1, <2>6 DEF CheckSize, CleanRunSucceeds, CleanInv, NoFault, Fault, GoTo
  <2>7. QED
    BY <2>1, <2>2, <2>3, <2>4, <2>5, <2>6
<1>9. QED
  BY <1>3, <1>4, <1>6, <1>7, <1>8 DEF PushInv

\* mirrorMayExceedBatch: one push of everything, or a plan.
LEMMA CountPush == PushInv /\ CountRefs => PushInv'
<1> SUFFICES ASSUME PushInv, CountRefs PROVE PushInv'
  OBVIOUS
<1>1. EndsInv /\ BatchInv /\ CleanInv /\ BatchesAreSound
  BY DEF PushInv
<1>2. pc = "count" /\ replica = before /\ batches = <<>> /\ next = 1
      /\ UNCHANGED <<origin, replica, mirror, fetched, before, batches, plan, next, cancelled,
                     expired>>
  BY <1>1 DEF CountRefs, EndsInv, Early, ends
<1>3. CleanInv'
  <2>1. clean' = clean \/ clean' = FALSE
    BY DEF CountRefs, NoFault, Fault
  <2>2. QED
    BY <1>1, <1>2, <2>1 DEF CleanInv
<1>4. BatchesAreSound'
  BY <1>2, NoBatchesSound
<1>5. pc' = "push" \/ (pc' = "plan" /\ BatchRefs > 0)
  BY DEF CountRefs, GoTo
<1>6. EndsInv'
  BY <1>1, <1>2, <1>5 DEF EndsInv, Early, Held
<1>7. BatchInv'
  BY <1>1, <1>2, <1>5 DEF BatchInv, Held
<1>8. CleanRunSucceeds'
  BY <1>5 DEF CleanRunSucceeds
<1>9. QED
  BY <1>3, <1>4, <1>6, <1>7, <1>8 DEF PushInv

\* planPush and the batches made of its plan.
LEMMA PlanPushInv == PushInv /\ PlanPush => PushInv'
<1> SUFFICES ASSUME PushInv, PlanPush PROVE PushInv'
  OBVIOUS
<1> DEFINE p == [upserts |-> Upserts, deletes |-> Deletes, shadows |-> Shadows]
<1>1. EndsInv /\ BatchInv /\ CleanInv /\ BatchesAreSound
  BY DEF PushInv
<1>2. pc = "plan" /\ replica = before /\ batches = <<>> /\ next = 1
      /\ UNCHANGED <<origin, replica, mirror, fetched, before, next, cancelled, expired>>
  BY <1>1 DEF PlanPush, EndsInv, Early, ends
<1>3. CleanInv'
  <2>1. clean' = clean \/ clean' = FALSE
    BY DEF PlanPush, NoFault, Fault
  <2>2. QED
    BY <1>1, <1>2, <2>1 DEF CleanInv
<1>4. CASE pc' = "push" /\ plan' = p
           /\ batches' = IF Cardinality(p.upserts) > BatchRefs THEN Partition(Free(p)) ELSE <<>>
  <2>1. batches' \in Seq(Seq(Refs)) /\ BatchesAreSound'
        /\ \A i \in 1..Len(batches') : \A r \in Range(batches'[i]) : Batchable(r)'
    <3>1. CASE batches' = <<>>
      BY <3>1, NoBatchesSound
    <3>2. CASE batches' = Partition(Free(p))
      <4>1. UNCHANGED <<ends, before>>
        BY DEF PlanPush
      <4> HIDE DEF p
      <4>2. p = [upserts |-> Upserts, deletes |-> Deletes, shadows |-> Shadows]
        BY DEF p
      <4>3. QED
        BY <1>1, <1>2, <1>4, <3>2, <4>1, <4>2, PlanGood
    <3>3. QED
      BY <1>4, <3>1, <3>2
  <2>2. BatchInv'
    <3>1. Held(before)' \subseteq Held(replica)'
          /\ Held(replica)' \subseteq (Held(before) \cup Held(mirror))'
      BY <1>2 DEF Held
    <3>2. next' = 1 /\ next' \in 1..(Len(batches') + 1) /\ \A i \in 1..Len(batches') : ~(i < next')
      BY <1>2, <2>1
    <3>3. QED
      BY <2>1, <3>1, <3>2 DEF BatchInv
  <2>3. EndsInv'
    BY <1>1, <1>2, <1>4 DEF EndsInv, Early, Held
  <2>4. CleanRunSucceeds'
    BY <1>4 DEF CleanRunSucceeds
  <2>5. QED
    BY <1>3, <2>1, <2>2, <2>3, <2>4 DEF PushInv
<1>5. CASE pc' = "done" /\ ~clean' /\ batches' = batches
  <2>1. BatchInv' /\ EndsInv' /\ CleanRunSucceeds'
    BY <1>1, <1>2, <1>5 DEF BatchInv, EndsInv, CleanRunSucceeds, Early, Held
  <2>2. QED
    BY <1>2, <1>3, <1>5, <2>1, NoBatchesSound DEF PushInv
<1>6. QED
  BY <1>1, <1>4, <1>5 DEF PlanPush, CleanInv, NoFault, Fault, GoTo, End, PushFailed

\* A push begins.
LEMMA BeginPushInv == PushInv /\ BeginPush => PushInv'
<1> SUFFICES ASSUME PushInv, BeginPush PROVE PushInv'
  OBVIOUS
<1>1. EndsInv /\ BatchInv /\ CleanInv /\ BatchesAreSound
  BY DEF PushInv
<1>2. pc = "push"
      /\ UNCHANGED <<origin, replica, mirror, fetched, before, batches, plan, next, cancelled,
                     expired, clean>>
  BY DEF BeginPush, ends, NoFault
<1>3. pc' = "pushing" \/ (pc' = "done" /\ ~clean')
  BY <1>1, <1>2 DEF BeginPush, CleanInv, End, GoTo
<1>4. EndsInv' /\ CleanInv' /\ CleanRunSucceeds'
  BY <1>1, <1>2, <1>3 DEF EndsInv, CleanInv, CleanRunSucceeds, Early, Held
<1>5. BatchInv'
  BY <1>1, <1>2, <1>3 DEF BatchInv, Held, Batchable
<1>6. QED
  BY <1>1, <1>2, <1>4, <1>5, SoundKept DEF PushInv

\* git never has to refuse a batch, nor finds a name of one ambiguous.
LEMMA BatchesAccepted ==
  ASSUME EndsInv, BatchInv, pc = "pushing" PROVE Refused = {} /\ ~Ambiguous
<1>1. CASE Final
  BY <1>1 DEF Refused, Ambiguous
<1>2. CASE ~Final
  <2>1. next \in 1..Len(batches)
    BY <1>2 DEF BatchInv, Final
  <2>2. \A u \in Batch : u \in Refs /\ Batchable(u)
    BY <2>1 DEF BatchInv, Batch, Range
  <2>3. Held(replica) \subseteq Held(before) \cup Held(mirror) /\ Legal(mirror)
    BY AttemptAssumption DEF BatchInv, EndsInv
  <2>4. ASSUME NEW u \in Batch, NEW r \in Held(replica), <<u, r>> \in Under \/ <<r, u>> \in Under
        PROVE  FALSE
    <3>1. u \in Held(mirror)
      BY <2>2 DEF Batchable, Held
    <3>2. CASE r \in Held(mirror)
      <4>1. CASE <<u, r>> \in Under
        BY <2>3, <3>1, <3>2, <4>1 DEF Legal
      <4>2. CASE <<r, u>> \in Under
        BY <2>3, <3>1, <3>2, <4>2 DEF Legal
      <4>3. QED
        BY <2>4, <4>1, <4>2
    <3>3. CASE r \in Held(before) \ Held(mirror)
      BY <2>2, <2>4, <3>3 DEF Batchable, Conflict
    <3>4. QED
      BY <2>3, <3>2, <3>3
  <2>5. ASSUME NEW u \in Batch, NEW s \in Held(replica) \cup Held(mirror), <<u, s>> \in Shadowing
        PROVE  FALSE
    <3>1. s \in Held(before) \cup Held(mirror)
      BY <2>3
    <3>2. s \in {p[2] : p \in Shadowing}
      <4>1. <<u, s>>[2] = s
        OBVIOUS
      <4>2. QED
        BY <2>5, <4>1
    <3>3. QED
      BY <2>2, <2>5, <3>1, <3>2 DEF Batchable, Conflict
  <2>6. QED
    BY <2>4, <2>5 DEF Refused, Ambiguous
<1>3. QED
  BY <1>1, <1>2

\* A push ends: a batch adds its refs to the replica, the final push makes it the mirror, and
\* one that fails ends an attempt that is not clean.
LEMMA EndPushInv == PushInv /\ EndPush => PushInv'
<1> SUFFICES ASSUME PushInv, EndPush PROVE PushInv'
  OBVIOUS
<1>1. EndsInv /\ BatchInv /\ CleanInv /\ BatchesAreSound
  BY DEF PushInv
<1>2. pc = "pushing"
      /\ UNCHANGED <<origin, mirror, fetched, before, batches, plan, cancelled, expired>>
  BY DEF EndPush
<1>3. Refused = {} /\ ~Ambiguous
  BY <1>1, <1>2, BatchesAccepted
<1>4. mirror = fetched /\ fetched \in [Refs -> Values \cup {None}] /\ Held(fetched) # {}
      /\ replica \in [Refs -> Values \cup {None}] /\ origin \in Tables /\ fetched \in Tables
  BY <1>1, <1>2, AttemptAssumption DEF EndsInv
<1>5. CleanInv'
  <2>1. clean' = clean \/ clean' = FALSE
    BY DEF EndPush, NoFault, Fault
  <2>2. QED
    BY <1>1, <1>2, <2>1 DEF CleanInv
<1>6. BatchesAreSound'
  BY <1>1, <1>2, SoundKept
<1>7. CASE replica' = Target /\ ~Final /\ pc' = "push" /\ next' = next + 1
  <2>1. next \in 1..Len(batches) /\ batches \in Seq(Seq(Refs)) /\ next' \in 1..(Len(batches) + 1)
    BY <1>1, <1>7 DEF BatchInv, Final
  <2>2. \A r \in Refs : replica'[r] = IF r \in Batch THEN mirror[r] ELSE replica[r]
    BY <1>7 DEF Target, Asked
  <2>3. \A u \in Batch : u \in Refs /\ mirror[u] # None
    <3>1. \A u \in Batch : u \in Refs /\ Batchable(u)
      BY <1>1, <1>2, <2>1 DEF BatchInv, Batch, Range
    <3>2. QED
      BY <3>1 DEF Batchable
  <2>4. replica' \in [Refs -> Values \cup {None}]
    BY <1>4, <1>7 DEF Target
  <2>5. Held(before) \subseteq Held(replica)
        /\ Held(replica) \subseteq Held(before) \cup Held(mirror)
    BY <1>1, <1>2 DEF BatchInv
  <2>6. Held(before)' \subseteq Held(replica)'
        /\ Held(replica)' \subseteq (Held(before) \cup Held(mirror))'
    BY <1>2, <2>2, <2>3, <2>5 DEF Held
  <2>7. ASSUME NEW i \in 1..Len(batches'), NEW r \in Range(batches'[i])
        PROVE  Batchable(r)' /\ (i < next' => replica'[r] = mirror'[r])
    <3>1. Batchable(r) /\ (i < next => replica[r] = mirror[r]) /\ r \in Refs
      BY <1>1, <1>2, <2>7 DEF BatchInv, Range
    <3>2. Batchable(r)'
      BY <1>2, <3>1 DEF Batchable, Held, Conflict
    <3>3. i < next' => i < next \/ r \in Batch
      BY <1>2, <1>7, <2>1 DEF Batch
    <3>4. QED
      BY <1>2, <2>2, <3>1, <3>2, <3>3
  <2>8. BatchInv'
    BY <1>2, <1>7, <2>1, <2>6, <2>7 DEF BatchInv
  <2>9. EndsInv' /\ CleanRunSucceeds'
    BY <1>2, <1>4, <1>7, <2>4 DEF EndsInv, CleanRunSucceeds, Early, Held
  <2>10. QED
    BY <1>5, <1>6, <2>8, <2>9 DEF PushInv
<1>8. CASE replica' = Target /\ Final /\ pc' = "report" /\ next' = next
  <2>1. replica' = fetched
    BY <1>4, <1>8, FinalTarget
  <2>2. EndsInv' /\ BatchInv' /\ CleanRunSucceeds'
    BY <1>1, <1>2, <1>4, <1>8, <2>1 DEF EndsInv, BatchInv, CleanRunSucceeds, Early, Held
  <2>3. QED
    BY <1>5, <1>6, <2>2 DEF PushInv
<1>9. CASE replica' \in PartlyPushed /\ clean' = FALSE /\ pc' = "done" /\ next' = next
  <2>1. EndsInv' /\ BatchInv' /\ CleanRunSucceeds'
    BY <1>1, <1>2, <1>4, <1>9 DEF EndsInv, BatchInv, CleanRunSucceeds, Early, PartlyPushed
  <2>2. QED
    BY <1>5, <1>6, <2>1 DEF PushInv
<1>10. QED
  BY <1>3, <1>7, <1>8, <1>9 DEF EndPush, GoTo, PushFailed, End, Fault

\* An attempt that has pushed everything ends well.
LEMMA ReportInv == PushInv /\ Report => PushInv'
<1> SUFFICES ASSUME PushInv, Report PROVE PushInv'
  OBVIOUS
<1>1. EndsInv /\ BatchInv /\ CleanInv /\ BatchesAreSound
  BY DEF PushInv
<1>2. pc = "report" /\ pc' = "done" /\ res' = OK
      /\ UNCHANGED <<origin, replica, mirror, fetched, before, batches, plan, next, cancelled,
                     expired, clean>>
  BY DEF Report, ends, NoFault, End
<1>3. EndsInv' /\ BatchInv' /\ CleanInv'
  BY <1>1, <1>2 DEF EndsInv, BatchInv, CleanInv, Early
<1>4. CleanRunSucceeds'
  BY <1>1, <1>2 DEF EndsInv, CleanRunSucceeds, Held
<1>5. QED
  BY <1>1, <1>2, <1>3, <1>4, SoundKept DEF PushInv

\* What happens around an attempt makes it unclean or is not its concern.
LEMMA AroundInv == PushInv /\ (Cancel \/ Expire \/ OriginChanges) => PushInv'
<1> SUFFICES ASSUME PushInv, Cancel \/ Expire \/ OriginChanges PROVE PushInv'
  OBVIOUS
<1>1. EndsInv /\ BatchInv /\ CleanInv /\ BatchesAreSound /\ CleanRunSucceeds
  BY DEF PushInv
<1>2. UNCHANGED <<replica, mirror, fetched, before, batches, plan, next, pc, res>>
  BY DEF Cancel, Expire, OriginChanges, ends, history
<1>3. origin' \in Tables
  BY <1>1 DEF Cancel, Expire, OriginChanges, ends, EndsInv
<1>4. (clean' = FALSE) \/ UNCHANGED <<clean, cancelled, expired>>
  BY DEF Cancel, Expire, OriginChanges, Fault, history
<1>5. CleanInv' /\ CleanRunSucceeds'
  BY <1>1, <1>2, <1>4 DEF CleanInv, CleanRunSucceeds, Held
<1>6. EndsInv'
  BY <1>1, <1>2, <1>3 DEF EndsInv, Held
<1>7. BatchInv'
  BY <1>1, <1>2 DEF BatchInv, Held, Batchable
<1>8. QED
  BY <1>1, <1>2, <1>5, <1>6, <1>7, SoundKept DEF PushInv

\* An attempt is over, or its process is.
LEMMA OverInv ==
  ASSUME PushInv, Over, origin' = origin, replica' \in [Refs -> Values \cup {None}]
  PROVE  PushInv'
<1>1. batches' = <<>> /\ next' = 1 /\ pc' = "idle" /\ before' = replica' /\ ~cancelled' /\ ~expired'
  BY DEF Over
<1>2. EndsInv' /\ CleanInv' /\ CleanRunSucceeds'
  BY <1>1 DEF PushInv, EndsInv, CleanInv, CleanRunSucceeds
<1>3. BatchInv'
  BY <1>1 DEF BatchInv
<1>4. QED
  BY <1>1, <1>2, <1>3, NoBatchesSound DEF PushInv

\* Steps that leave the attempt alone.
LEMMA PushKept ==
  ASSUME PushInv,
         UNCHANGED <<ends, cancelled, expired, plan, batches, next, res, history>>,
         pc' = pc \/ (pc = "idle" /\ pc' = "start")
  PROVE  PushInv'
<1>1. EndsInv /\ BatchInv /\ CleanInv /\ BatchesAreSound /\ CleanRunSucceeds
  BY DEF PushInv
<1>2. UNCHANGED <<origin, replica, mirror, fetched, before, batches, plan, next, cancelled,
                  expired, clean, res>>
  BY DEF ends, history
<1>3. EndsInv'
  BY <1>1, <1>2 DEF EndsInv, Early, Held
<1>4. BatchInv'
  BY <1>1, <1>2 DEF BatchInv, Held, Batchable
<1>5. CleanInv' /\ CleanRunSucceeds'
  BY <1>1, <1>2 DEF CleanInv, CleanRunSucceeds, Held
<1>6. QED
  BY <1>1, <1>2, <1>3, <1>4, <1>5, SoundKept DEF PushInv

\* Every step of the system keeps what is known of the pushes.
LEMMA PushNextInv == PushInv /\ [Next]_vars => PushInv'
<1> SUFFICES ASSUME PushInv, [Next]_vars PROVE PushInv'
  OBVIOUS
<1>1. replica \in [Refs -> Values \cup {None}]
  BY DEF PushInv, EndsInv
<1>2. CASE Begin
  BY <1>2, PushKept DEF Begin, Start
<1>3. CASE FinishSync
  BY <1>1, <1>3, OverInv DEF FinishSync, ends
<1>4. CASE Crash
  BY <1>1, <1>4, OverInv DEF Crash, CrashAttempt, PartlyPushed
<1>5. CASE Trouble
  BY <1>5, PushKept DEF Trouble
<1>6. CASE AttemptSteps
  BY <1>6, EarlyPush, CountPush, PlanPushInv, BeginPushInv, EndPushInv, ReportInv, AroundInv
     DEF AttemptSteps
<1>7. CASE UNCHANGED attemptVars
  BY <1>7, PushKept DEF attemptVars
<1>8. QED
  BY <1>2, <1>3, <1>4, <1>5, <1>6, <1>7 DEF Next, vars, Stop, Exit

\* No attempt is under way at first.
LEMMA PushInit == Init => PushInv
<1> SUFFICES ASSUME Init PROVE PushInv
  OBVIOUS
<1>1. batches = <<>> /\ next = 1 /\ pc = "idle" /\ before = replica /\ ~cancelled /\ ~expired
      /\ origin \in Tables /\ replica \in [Refs -> Values \cup {None}]
  BY AttemptAssumption DEF Init, AttemptInit
<1>2. EndsInv /\ BatchInv /\ CleanInv /\ CleanRunSucceeds /\ BatchesAreSound
  BY <1>1 DEF EndsInv, BatchInv, CleanInv, CleanRunSucceeds, BatchesAreSound
<1>3. QED
  BY <1>2 DEF PushInv

\* pushStage: until the final push every ref of the replica is still there, and the final push
\* starts only when every batch is on the replica, from a mirror that is not empty and is
\* what the origin advertised to this attempt: whatever fails, is cancelled or is killed.
THEOREM DeletesAreLast == Spec => []DeletesComeLast
<1>1. PushInv => DeletesComeLast
  <2> SUFFICES ASSUME PushInv PROVE DeletesComeLast
    OBVIOUS
  <2>1. EndsInv /\ BatchInv
    BY DEF PushInv
  <2>2. ASSUME pc = "pushing", Final
        PROVE  /\ mirror = fetched /\ Held(mirror) # {}
               /\ \A i \in 1..Len(batches) : \A r \in Range(batches[i]) : replica[r] = mirror[r]
    <3>1. \A i \in 1..Len(batches) : i < next
      BY <2>1, <2>2 DEF BatchInv, Final
    <3>2. QED
      BY <2>1, <2>2, <3>1 DEF EndsInv, BatchInv
  <2>3. ASSUME pc \in Early \/ pc \in {"push", "pushing"} PROVE Held(before) \subseteq Held(replica)
    BY <2>1, <2>3 DEF EndsInv, BatchInv
  <2>4. QED
    BY <2>2, <2>3 DEF DeletesComeLast, Early
<1>2. QED
  BY <1>1, PushInit, PushNextInv, PTL DEF Spec

\* planPush, splitConflicts, partitionBatches: for any refs, order, lengths and bounds the
\* batches are full, within the bounds, in order, and leave out only what git could not take.
THEOREM BatchesSound == Spec => []BatchesAreSound
<1>1. PushInv => BatchesAreSound
  BY DEF PushInv
<1>2. QED
  BY <1>1, PushInit, PushNextInv, PTL DEF Spec

\* syncRepo: an attempt that meets no fault leaves the replica as the origin was, in however
\* many batches, or refuses an empty origin and leaves the replica alone.
THEOREM CleanRunsSucceed == Spec => []CleanRunSucceeds
<1>1. PushInv => CleanRunSucceeds
  BY DEF PushInv
<1>2. QED
  BY <1>1, PushInit, PushNextInv, PTL DEF Spec

-----------------------------------------------------------------------------
(***************************************************************************)
(* SyncRun implements Replication.                                         *)
(***************************************************************************)
\* Where an attempt is says whether it has seen the origin, that it is not recorded yet, and,
\* when it has ended well, that the replica is what it saw.
StageInv ==
  /\ pc \in {"idle", "start", "fetch", "init", "first"} => fetched = None
  /\ stopping => pc = "idle"
  /\ pc # "idle" => runs.tried < attempt
  /\ pc = "done" /\ res.state = "ok" => replica = fetched

\* The last success is no later than the last attempt, and goes no further back on its way
\* from memory through a snapshot to the file than Ages lets the last attempt go.
SuccessAges ==
  /\ runs.success <= runs.tried
  /\ file # Damaged => file.success <= file.tried /\ file.success <= runs.success
  /\ durable # Damaged => durable.success <= durable.tried
  /\ \A s \in Savers : Writing(s) => /\ snapshot[s].success <= snapshot[s].tried
                                     /\ snapshot[s].success <= runs.success
  /\ \A s \in Savers : at[s] = "write" => file = Damaged \/ file.success <= snapshot[s].success

\* Everything the refinement rests on.
PromiseInv == RunInv /\ AttemptInv /\ PushInv /\ StageInv /\ SuccessAges

\* The steps of an attempt: each ends it, goes on to a later place, or stays where it is.
LEMMA StageSteps ==
  ASSUME StageInv, EndsInv, AttemptSteps, UNCHANGED runVars
  PROVE  StageInv'
<1>1. attempt' = attempt /\ stopping' = stopping /\ runs' = runs
  BY AttemptKept DEF runVars
<1>2. CASE Prepare
  BY <1>1, <1>2 DEF Prepare, StageInv, ends, End, GoTo, Pending, Error
<1>3. CASE Fetch
  BY <1>1, <1>3, OriginFailedEnds DEF Fetch, StageInv, GoTo
<1>4. CASE InitMirror
  BY <1>1, <1>4, OriginFailedEnds DEF InitMirror, StageInv, GoTo
<1>5. CASE FirstFetch
  BY <1>1, <1>5, OriginFailedEnds DEF FirstFetch, StageInv, GoTo
<1>6. CASE CheckRefs
  BY <1>1, <1>6, OriginFailedEnds DEF CheckRefs, StageInv, ends, GoTo, End, Error
<1>7. CASE CheckSize
  BY <1>1, <1>7 DEF CheckSize, StageInv, ends, GoTo, End, Pending, Error
<1>8. CASE CountRefs
  BY <1>1, <1>8 DEF CountRefs, StageInv, ends, GoTo
<1>9. CASE PlanPush
  BY <1>1, <1>9, PushFailedEnds DEF PlanPush, StageInv, ends, GoTo, End, Pending, Error
<1>10. CASE BeginPush
  BY <1>1, <1>10 DEF BeginPush, StageInv, ends, GoTo, End, Pending, Error
<1>11. CASE EndPush
  BY <1>1, <1>11, PushFailedEnds DEF EndPush, StageInv, GoTo
<1>12. CASE Report
  BY <1>1, <1>12 DEF Report, StageInv, EndsInv, ends, End
<1>13. CASE Cancel \/ Expire \/ OriginChanges
  BY <1>1, <1>13 DEF Cancel, Expire, OriginChanges, StageInv, ends, history
<1>14. QED
  BY <1>2, <1>3, <1>4, <1>5, <1>6, <1>7, <1>8, <1>9, <1>10, <1>11, <1>12, <1>13 DEF AttemptSteps

\* The steps of the goroutines that save leave memory alone.
LEMMA SavingKeepsMemory ==
  RunSteps \/ Damage \/ (\E s \in Savers : SaveFails(s)) => UNCHANGED <<runs, stopping>>
BY DEF RunSteps, MarkRunsDirty, WindowEnds, TrailingSave, FlushRuns, TakeSnapshot, Rename,
       SyncDir, MarkAgain, Damage, SaveFails

\* Every step of the system keeps what is known of the stages.
LEMMA StageNext ==
  ASSUME RunInv, PushInv, StageInv, [Next]_vars
  PROVE  StageInv'
<1>1. attempt \in Nat /\ runs.tried \in Nat /\ runs.tried <= attempt /\ EndsInv
  BY DEF RunInv, Ages, RunTypeOK, Records, PushInv
<1>2. CASE Begin
  BY <1>1, <1>2 DEF Begin, Start, StageInv, runVars, ends, history
<1>3. CASE FinishSync
  <2>1. pc' = "idle" /\ fetched' = None /\ stopping' = stopping /\ attempt' = attempt
    BY <1>3 DEF FinishSync, Over, counts, RecordAttempt, runVars
  <2>2. QED
    BY <2>1 DEF StageInv
<1>4. CASE Stop
  BY <1>4 DEF Stop, StopRunSaves, StageInv, attemptVars, ends, counts, history
<1>5. CASE Exit
  <2>1. pc = "idle" /\ UNCHANGED <<pc, fetched>>
    BY <1>5 DEF Exit, StageInv, attemptVars, history
  <2>2. QED
    BY <2>1 DEF StageInv
<1>6. CASE Crash
  <2>1. pc' = "idle" /\ fetched' = None
    BY <1>6 DEF Crash, CrashAttempt, Over
  <2>2. QED
    BY <2>1 DEF StageInv
<1>7. CASE Trouble
  <2>1. UNCHANGED <<pc, fetched, replica, res, attempt, runs, stopping>>
    BY <1>7, SavingKeepsMemory DEF Trouble, ends, history
  <2>2. QED
    BY <2>1 DEF StageInv
<1>8. CASE AttemptSteps /\ UNCHANGED runVars
  BY <1>1, <1>8, StageSteps
<1>9. CASE RunSteps /\ UNCHANGED attemptVars
  <2>1. UNCHANGED <<pc, fetched, replica, res, attempt, runs, stopping>>
    BY <1>9, SavingKeepsMemory DEF attemptVars, ends, counts, history
  <2>2. QED
    BY <2>1 DEF StageInv
<1>10. CASE UNCHANGED vars
  <2>1. UNCHANGED <<pc, fetched, replica, res, attempt, runs, stopping>>
    BY <1>10 DEF vars, runVars, attemptVars, ends, counts, history
  <2>2. QED
    BY <2>1 DEF StageInv
<1>11. QED
  BY <1>2, <1>3, <1>4, <1>5, <1>6, <1>7, <1>8, <1>9, <1>10 DEF Next

\* Recording an attempt makes it the last success or leaves that as it was.
LEMMA SuccessRecorded ==
  ASSUME RunInv, SuccessAges, NEW ok \in BOOLEAN, RecordAttempt(attempt, ok)
  PROVE  SuccessAges'
<1>1. /\ runs.success \in Nat /\ runs.tried \in Nat /\ attempt \in Nat
      /\ runs.success <= runs.tried /\ runs.tried <= attempt
      /\ file # Damaged => file.success \in Nat
      /\ \A s \in Savers : snapshot[s].success \in Nat
  BY DEF RunInv, RunTypeOK, Records, Ages, SuccessAges
<1>2. /\ UNCHANGED <<file, durable, snapshot>>
      /\ runs'.tried = attempt /\ runs'.success \in Nat
      /\ runs'.success >= runs.success /\ runs'.success <= attempt
  BY <1>1 DEF RecordAttempt
<1>3. \A s \in Savers : /\ Writing(s)' => Writing(s)
                        /\ at'[s] = "write" => at[s] = "write"
  BY DEF RecordAttempt, RunInv, RunTypeOK, Writing, Savers
<1>4. QED
  BY <1>1, <1>2, <1>3 DEF SuccessAges

\* No step of the goroutines that save turns the last success back.
LEMMA SuccessSaved ==
  ASSUME RunInv, SuccessAges, RunSteps \/ Damage \/ StopRunSaves \/ \E s \in Savers : SaveFails(s)
  PROVE  SuccessAges'
<1> USE DEF SuccessAges, Writing
<1>1. RunTypeOK /\ OneWriter /\ runs' = runs
  BY SavingKeepsMemory DEF RunInv, StopRunSaves
<1>2. ASSUME NEW s \in Savers, TakeSnapshot(s) PROVE SuccessAges'
  BY <1>1, <1>2 DEF TakeSnapshot, RunTypeOK, Records
<1>3. ASSUME NEW s \in Savers, Rename(s) PROVE SuccessAges'
  <2>1. file' = snapshot[s] /\ UNCHANGED <<durable, snapshot>> /\ Writing(s)
    BY <1>3 DEF Rename
  <2>2. \A t \in Savers : at'[t] # "write" /\ (Writing(t)' => Writing(t))
    BY <1>1, <1>3 DEF Rename, RunTypeOK, OneWriter
  <2>3. QED
    BY <1>1, <2>1, <2>2
<1>4. ASSUME NEW s \in Savers, SyncDir(s) \/ SaveFails(s) PROVE SuccessAges'
  <2>1. /\ durable' \in {durable, file} /\ file' = file
        /\ \A t \in Savers : Writing(t)' => Writing(t) /\ at'[t] = at[t] /\ snapshot'[t] = snapshot[t]
    BY <1>1, <1>4 DEF SyncDir, SaveFails, RunTypeOK
  <2>2. QED
    BY <1>1, <2>1
<1>5. CASE UNCHANGED <<file, durable, snapshot>>
           /\ \A t \in Savers : Writing(t)' => Writing(t) /\ at'[t] = at[t]
  BY <1>1, <1>5
<1>6. ASSUME MarkRunsDirty \/ WindowEnds \/ StopRunSaves
             \/ (\E t \in Timers : TrailingSave(t))
             \/ (\E s \in Savers : FlushRuns(s) \/ MarkAgain(s))
      PROVE  SuccessAges'
  BY <1>1, <1>5, <1>6 DEF MarkRunsDirty, WindowEnds, StopRunSaves, TrailingSave, FlushRuns, MarkAgain,
     RunTypeOK, Savers
<1>7. CASE Damage
  BY <1>1, <1>7 DEF Damage
<1>8. QED
  BY <1>2, <1>3, <1>4, <1>6, <1>7 DEF RunSteps

\* Nor does a restart: memory is what the file was.
LEMMA SuccessLoaded == ASSUME RunInv, SuccessAges, Restart PROVE SuccessAges'
<1>1. \A s \in Savers : at'[s] = "idle"
  BY DEF Restart
<1>2. /\ durable' = durable /\ file' \in {file, durable}
      /\ runs' = IF file' = Damaged THEN [tried |-> 0, success |-> 0] ELSE file'
  BY DEF Restart, Load, NoRun
<1>3. /\ file # Damaged => file.success \in Nat /\ file.tried \in Nat
      /\ durable # Damaged => durable.success \in Nat /\ durable.tried \in Nat
  BY DEF RunInv, RunTypeOK, Records
<1>4. QED
  BY <1>1, <1>2, <1>3 DEF SuccessAges, Writing

\* Every step of the system keeps the order of the successes.
LEMMA SuccessNext ==
  ASSUME RunInv, SuccessAges, [Next]_vars
  PROVE  SuccessAges'
<1>1. CASE UNCHANGED runVars
  BY <1>1 DEF runVars, SuccessAges, Writing
<1>2. CASE FinishSync
  <2>1. CASE RecordAttempt(attempt, res.state = "ok")
    <3>1. (res.state = "ok") \in BOOLEAN
      OBVIOUS
    <3>2. QED
      BY <2>1, <3>1, SuccessRecorded
  <2>2. QED
    BY <1>1, <1>2, <2>1 DEF FinishSync
<1>3. CASE Restart
  BY <1>3, SuccessLoaded
<1>4. CASE RunSteps \/ Damage \/ StopRunSaves \/ \E s \in Savers : SaveFails(s)
  BY <1>4, SuccessSaved
<1>5. QED
  BY <1>1, <1>2, <1>3, <1>4 DEF Next, vars, Begin, Stop, Exit, Crash, Trouble

\* The invariant of the refinement holds at first.
LEMMA PromiseInit == Init => PromiseInv
<1> SUFFICES ASSUME Init PROVE PromiseInv
  OBVIOUS
<1>1. RunInv /\ PushInv
  BY RunInitInv, PushInit
<1>2. AttemptInv
  BY AttemptAssumption DEF Init, AttemptInit, AttemptInv
<1>3. StageInv
  BY DEF Init, AttemptInit, RunInit, StageInv
<1>4. SuccessAges
  BY DEF Init, RunInit, NoRun, SuccessAges, Writing
<1>5. QED
  BY <1>1, <1>2, <1>3, <1>4 DEF PromiseInv

\* Every step keeps it.
LEMMA PromiseNext == PromiseInv /\ [Next]_vars => PromiseInv'
BY RunNextInv, AttemptNextInv, PushNextInv, StageNext, SuccessNext DEF PromiseInv


\* A push that ends, fails or is killed moves the replica towards what was advertised.
LEMMA PushesCloser ==
  ASSUME PromiseInv, pc = "pushing", NEW t,
         \A r \in Refs : t[r] \in {replica[r], Target[r]}, replica' = t
  PROVE  Promise!Closer
<1>1. mirror = fetched /\ fetched \in [Refs -> Values \cup {None}] /\ Held(fetched) # {}
  BY DEF PromiseInv, AttemptInv, PushInv, EndsInv
<1>2. fetched # None /\ \E r \in Refs : fetched[r] # None
  BY <1>1, TableAssumption DEF Held
<1>3. \A r \in Refs : Target[r] \in {replica[r], fetched[r]}
  BY <1>1 DEF Target
<1>4. \A r \in Refs : replica'[r] \in {replica[r], fetched[r]}
  BY <1>3
<1>5. QED
  BY <1>2, <1>4 DEF Promise!Closer

\* The fetch that succeeds is the moment the origin is seen; a push moves the replica; the
\* other steps of an attempt do not show.
LEMMA AttemptImplements ==
  ASSUME PromiseInv, AttemptSteps, UNCHANGED runVars
  PROVE  [Promise!Next]_(Promise!vars)
<1> USE DEF Promise!vars, Promise!recordVars
<1>1. attempt' = attempt /\ UNCHANGED <<runs, file, durable>>
  BY AttemptKept DEF runVars
<1>2. CASE Prepare \/ CheckRefs \/ CheckSize \/ CountRefs \/ PlanPush \/ BeginPush \/ Report
           \/ InitMirror \/ Cancel \/ Expire
  <2>1. UNCHANGED <<origin, replica, fetched>>
    BY <1>2 DEF Prepare, CheckRefs, CheckSize, CountRefs, PlanPush, BeginPush, Report, InitMirror,
       Cancel, Expire, ends
  <2>2. QED
    BY <1>1, <2>1
<1>3. CASE Fetch \/ FirstFetch
  <2>1. UNCHANGED <<origin, replica>> /\ fetched = None /\ fetched' \in {fetched, origin}
    BY <1>3 DEF Fetch, FirstFetch, PromiseInv, StageInv
  <2>2. QED
    BY <1>1, <2>1 DEF Promise!Next, Promise!Advertise
<1>4. CASE EndPush
  <2>1. UNCHANGED <<origin, fetched>> /\ pc = "pushing"
    BY <1>4 DEF EndPush
  <2>2. replica' = replica \/ \A r \in Refs : replica'[r] \in {replica[r], Target[r]}
    BY <1>4 DEF EndPush, PartlyPushed, Target
  <2>3. replica' = replica \/ Promise!Closer
    BY <2>1, <2>2, PushesCloser
  <2>4. QED
    BY <1>1, <2>1, <2>3 DEF Promise!Next, Promise!Push
<1>5. CASE OriginChanges
  BY <1>1, <1>5 DEF OriginChanges, history, Promise!Next, Promise!OriginMoves
<1>6. QED
  BY <1>2, <1>3, <1>4, <1>5 DEF AttemptSteps

\* finishSync ends the attempt, with a record or without.
LEMMA FinishImplements ==
  ASSUME PromiseInv, FinishSync
  PROVE  Promise!Next
<1>1. UNCHANGED <<origin, replica, attempt>> /\ fetched' = None /\ pc = "done"
  BY DEF FinishSync, Over, ends, counts
<1>2. CASE UNCHANGED runVars
  BY <1>1, <1>2 DEF runVars, Promise!Next, Promise!GiveUp, Promise!recordVars
<1>3. CASE RecordAttempt(attempt, res.state = "ok")
  <2>1. runs'.tried = attempt /\ runs.tried < attempt /\ UNCHANGED <<file, durable>>
    BY <1>1, <1>3 DEF RecordAttempt, PromiseInv, StageInv
  <2>2. CASE res.state = "ok"
    <3>1. replica = fetched /\ fetched # None
      BY <1>1, <2>2, TableAssumption DEF PromiseInv, StageInv, PushInv, EndsInv
    <3>2. runs'.success = attempt
      BY <1>3, <2>2 DEF RecordAttempt
    <3>3. QED
      BY <1>1, <2>1, <3>1, <3>2 DEF Promise!Next, Promise!Record
  <2>3. CASE res.state # "ok"
    <3>1. runs'.success = runs.success
      BY <1>3, <2>3 DEF RecordAttempt
    <3>2. QED
      BY <1>1, <2>1, <3>1 DEF Promise!Next, Promise!Record
  <2>4. QED
    BY <2>2, <2>3
<1>4. QED
  BY <1>2, <1>3 DEF FinishSync

\* Of what the saving goroutines do only the rename and the directory sync show.
LEMMA SavingImplements ==
  ASSUME PromiseInv, RunSteps \/ Damage \/ StopRunSaves \/ (\E s \in Savers : SaveFails(s)),
         UNCHANGED <<origin, replica, fetched, attempt>>
  PROVE  [Promise!Next]_(Promise!vars)
<1> USE DEF Promise!vars
<1>1. runs' = runs
  BY SavingKeepsMemory DEF StopRunSaves
<1>2. ASSUME NEW s \in Savers, Rename(s) PROVE Promise!Next
  <2>1. file' = snapshot[s] /\ durable' = durable /\ at[s] = "write" /\ snapshot[s] \in Records
    BY <1>2 DEF Rename, PromiseInv, RunInv, RunTypeOK
  <2>2. file' # Damaged
    BY <2>1, DamagedAssumption
  <2>3. runs.tried >= snapshot[s].tried /\ runs.success >= snapshot[s].success
    <3>1. runs.tried \in Nat /\ runs.success \in Nat
      BY DEF PromiseInv, RunInv, RunTypeOK, Records
    <3>2. snapshot[s].tried <= runs.tried /\ snapshot[s].success <= runs.success
      BY <2>1 DEF PromiseInv, RunInv, Ages, SuccessAges, Writing
    <3>3. QED
      BY <2>1, <3>1, <3>2 DEF Records
  <2>4. file # Damaged => snapshot[s].tried >= file.tried /\ snapshot[s].success >= file.success
    <3>1. file # Damaged => file.tried \in Nat /\ file.success \in Nat
      BY DEF PromiseInv, RunInv, RunTypeOK, Records
    <3>2. file # Damaged => file.tried <= snapshot[s].tried /\ file.success <= snapshot[s].success
      BY <2>1 DEF PromiseInv, RunInv, Ages, SuccessAges
    <3>3. QED
      BY <2>1, <3>1, <3>2 DEF Records
  <2>5. QED
    BY <1>1, <2>1, <2>2, <2>3, <2>4 DEF Promise!Next, Promise!Save, Promise!Follows
<1>3. ASSUME NEW s \in Savers, SyncDir(s) PROVE Promise!Next
  BY <1>1, <1>3 DEF SyncDir, Promise!Next, Promise!Secure
<1>4. CASE Damage
  BY <1>1, <1>4 DEF Damage, Promise!Next, Promise!Damage
<1>5. CASE UNCHANGED <<file, durable>>
  BY <1>1, <1>5
<1>6. QED
  BY <1>2, <1>3, <1>4, <1>5 DEF RunSteps, MarkRunsDirty, WindowEnds, TrailingSave, FlushRuns,
     TakeSnapshot, MarkAgain, StopRunSaves, SaveFails

\* A process that exits or dies, perhaps in a push, is the abstract restart.
LEMMA RestartImplements ==
  ASSUME PromiseInv, Exit \/ Crash
  PROVE  Promise!Next
<1>1. /\ durable' = durable /\ file' \in {file, durable}
      /\ runs' = IF file' = Damaged THEN NoRun ELSE file'
  BY DEF Exit, Crash, Restart, Load
<1>2. UNCHANGED <<origin, attempt>> /\ fetched' = None
  BY DEF Exit, Crash, CrashAttempt, Over, attemptVars, ends, counts, history, PromiseInv, StageInv
<1>3. Promise!Closer \/ replica' = replica
  <2>1. CASE Exit
    BY <2>1 DEF Exit, attemptVars, ends
  <2>2. CASE Crash
    <3>1. CASE pc = "pushing"
      <4>1. \A r \in Refs : replica'[r] \in {replica[r], Target[r]}
        BY <2>2, <3>1 DEF Crash, CrashAttempt, PartlyPushed
      <4>2. QED
        BY <3>1, <4>1, PushesCloser
    <3>2. CASE pc # "pushing"
      BY <2>2, <3>2 DEF Crash, CrashAttempt
    <3>3. QED
      BY <3>1, <3>2
  <2>3. QED
    BY <2>1, <2>2
<1>4. QED
  BY <1>1, <1>2, <1>3 DEF Promise!Next, Promise!Restart

\* syncRepo, finishSync, runStateStore: for any refs, batches, timers and faults, what can be
\* seen of a repository from outside is what Replication allows: its replica only moves
\* towards what the origin advertised to the attempt under way, a success is recorded only
\* when the replica is exactly that, each attempt at most once, and the file follows memory
\* without going back.
THEOREM PromiseKept == Spec => KeepsPromise
<1>1. Init => Promise!Init
  BY DEF Init, AttemptInit, RunInit, Promise!Init
<1>2. PromiseInv /\ [Next]_vars => [Promise!Next]_(Promise!vars)
  <2> SUFFICES ASSUME PromiseInv, [Next]_vars PROVE [Promise!Next]_(Promise!vars)
    OBVIOUS
  <2>1. CASE Begin
    BY <2>1 DEF Begin, Start, PromiseInv, StageInv, runVars, ends, history, Promise!Next,
       Promise!Begin, Promise!recordVars
  <2>2. CASE FinishSync
    BY <2>2, FinishImplements
  <2>3. CASE Stop
    BY <2>3, SavingImplements DEF Stop, attemptVars, ends, counts, history
  <2>4. CASE Exit \/ Crash
    BY <2>4, RestartImplements
  <2>5. CASE Trouble
    BY <2>5, SavingImplements DEF Trouble, ends, history
  <2>6. CASE AttemptSteps /\ UNCHANGED runVars
    BY <2>6, AttemptImplements
  <2>7. CASE RunSteps /\ UNCHANGED attemptVars
    BY <2>7, SavingImplements DEF attemptVars, ends, counts, history
  <2>8. CASE UNCHANGED vars
    BY <2>8 DEF vars, attemptVars, runVars, ends, counts, history, Promise!vars
  <2>9. QED
    BY <2>1, <2>2, <2>3, <2>4, <2>5, <2>6, <2>7, <2>8 DEF Next
<1>3. QED
  BY <1>1, <1>2, PromiseInit, PromiseNext, PTL DEF Spec, KeepsPromise, Promise!Spec
=============================================================================
