------------------------------ MODULE RunState ------------------------------
(***************************************************************************)
(* The run-state file (runstate.go and the saving side of client.go): the  *)
(* records of the finished attempts are kept in memory and written to a    *)
(* file at once or, within runSaveEvery of the last write, by a trailing   *)
(* timer.  Several goroutines may flush at a time: the one that finished a *)
(* sync, the timers, and Wait at shutdown.  A write can fail at any step,  *)
(* the process can die at any time, and the file can be damaged.           *)
(***************************************************************************)
EXTENDS Naturals, FiniteSets

CONSTANTS Timers,    \* the trailing saves that may be under way together
          Damaged    \* a file load does not trust: damaged, of another version, ...

VARIABLES
  runs,        \* c.runs: the number of the last attempt and of the last success, 0 if none
  dirty,       \* runsDirty
  scheduled,   \* saveScheduled
  recent,      \* less than runSaveEvery has passed since lastRunSave
  at,          \* where each goroutine that saves is
  snapshot,    \* what a goroutine in save is writing
  file,        \* the state file
  durable,     \* what the last directory sync made survive a power failure
  stopping,    \* Wait has been called and the syncs have ended
  retry        \* history: a failed write has marked the records and no flush came since

runVars == <<runs, dirty, scheduled, recent, at, snapshot, file, durable, stopping, retry>>

Savers == {"sync", "wait"} \cup Timers

ASSUME TimersAssumption == {"sync", "wait"} \cap Timers = {}

NoRun == [tried |-> 0, success |-> 0]
Records == [tried : Nat, success : Nat]

ASSUME DamagedAssumption == Damaged \notin Records

RunInit ==
  /\ runs = NoRun /\ dirty = FALSE /\ scheduled = FALSE /\ recent = FALSE
  /\ at = [s \in Savers |-> "idle"] /\ snapshot = [s \in Savers |-> NoRun]
  /\ file = NoRun /\ durable = NoRun /\ stopping = FALSE /\ retry = FALSE

\* The goroutine that holds runStateStore.writeMu.
Writing(s) == at[s] \in {"write", "renamed"}
Locked == \E s \in Savers : Writing(s)

\* recordAttempt, as finishSync calls it under c.mu: the start of attempt n always replaces
\* the previous one's, the last success becomes its end only on a success.  The caller goes on to
\* markRunsDirty without c.mu.
RecordAttempt(n, ok) ==
  /\ at["sync"] = "idle" /\ ~stopping
  /\ runs' = [tried |-> n, success |-> IF ok THEN n ELSE runs.success]
  /\ at' = [at EXCEPT !["sync"] = "mark"]
  /\ UNCHANGED <<dirty, scheduled, recent, snapshot, file, durable, stopping, retry>>

\* markRunsDirty: the first change after a quiet period is flushed by its own goroutine, a
\* later one by the trailing timer.
MarkRunsDirty ==
  /\ at["sync"] = "mark" /\ dirty' = TRUE
  /\ \/ ~recent /\ ~scheduled /\ recent' = TRUE /\ at' = [at EXCEPT !["sync"] = "flush"]
        /\ UNCHANGED scheduled
     \/ (recent \/ scheduled) /\ scheduled' = TRUE /\ at' = [at EXCEPT !["sync"] = "idle"]
        /\ UNCHANGED recent
  /\ UNCHANGED <<runs, snapshot, file, durable, stopping, retry>>

\* trailingSave: the timer has fired.
TrailingSave(t) ==
  /\ t \in Timers /\ at[t] = "idle" /\ scheduled /\ scheduled' = FALSE /\ recent' = TRUE
  /\ at' = [at EXCEPT ![t] = "flush"]
  /\ UNCHANGED <<runs, dirty, snapshot, file, durable, stopping, retry>>

\* runSaveEvery has passed.
WindowEnds ==
  /\ recent /\ recent' = FALSE
  /\ UNCHANGED <<runs, dirty, scheduled, at, snapshot, file, durable, stopping, retry>>

\* flushRuns, under saveMu: nothing to do, or the mark is taken away before the write.
FlushRuns(s) ==
  /\ at[s] = "flush" /\ dirty' = FALSE /\ retry' = FALSE
  /\ at' = [at EXCEPT ![s] = IF dirty THEN "lock" ELSE "idle"]
  /\ UNCHANGED <<runs, scheduled, recent, snapshot, file, durable, stopping>>

\* (mutant) the snapshot is taken before writeMu is held
TakeSnapshotEarly(s) ==
  /\ at[s] = "lock"
  /\ at' = [at EXCEPT ![s] = "write"] /\ snapshot' = [snapshot EXCEPT ![s] = runs]
  /\ UNCHANGED <<runs, dirty, scheduled, recent, file, durable, stopping, retry>>

\* save: the snapshot is taken once writeMu is held.
TakeSnapshot(s) ==
  /\ at[s] = "lock" /\ ~Locked
  /\ at' = [at EXCEPT ![s] = "write"] /\ snapshot' = [snapshot EXCEPT ![s] = runs]
  /\ UNCHANGED <<runs, dirty, scheduled, recent, file, durable, stopping, retry>>

\* save: the temporary file is written, synced and renamed over the state file.
Rename(s) ==
  /\ at[s] = "write" /\ file' = snapshot[s] /\ at' = [at EXCEPT ![s] = "renamed"]
  /\ UNCHANGED <<runs, dirty, scheduled, recent, snapshot, durable, stopping, retry>>

\* save: the directory is synced, and writeMu is given back.
SyncDir(s) ==
  /\ at[s] = "renamed" /\ durable' = file /\ at' = [at EXCEPT ![s] = "idle"]
  /\ snapshot' = [snapshot EXCEPT ![s] = NoRun]
  /\ UNCHANGED <<runs, dirty, scheduled, recent, file, stopping, retry>>

\* save failed at one of its steps, up to the rename or after it; writeMu is given back.
SaveFails(s) ==
  /\ Writing(s) /\ at' = [at EXCEPT ![s] = "failed"]
  /\ snapshot' = [snapshot EXCEPT ![s] = NoRun]
  /\ UNCHANGED <<runs, dirty, scheduled, recent, file, durable, stopping, retry>>

\* (mutant) a failed save is only logged
MarkNever(s) ==
  /\ at[s] = "failed" /\ at' = [at EXCEPT ![s] = "idle"]
  /\ UNCHANGED <<runs, dirty, scheduled, recent, snapshot, file, durable, stopping, retry>>

\* flushRuns, after a failed save: the records are marked changed again.
MarkAgain(s) ==
  /\ at[s] = "failed" /\ dirty' = TRUE /\ retry' = TRUE /\ at' = [at EXCEPT ![s] = "idle"]
  /\ UNCHANGED <<runs, scheduled, recent, snapshot, file, durable, stopping>>

\* Wait, once the syncs have ended: stopRunSaves stops the timer and flushes.
StopRunSaves ==
  /\ ~stopping /\ at["sync"] = "idle" /\ stopping' = TRUE
  /\ scheduled' = FALSE /\ at' = [at EXCEPT !["wait"] = "flush"]
  /\ UNCHANGED <<runs, dirty, recent, snapshot, file, durable, retry>>

\* The process ends, after Wait or in a crash, and the next one loads the file.  A crash of
\* the machine takes back a rename that no directory sync has followed.
Load(f) == IF f = Damaged THEN NoRun ELSE f
Restart ==
  /\ file' \in {file, durable}
  /\ runs' = Load(file')
  /\ dirty' = FALSE /\ scheduled' = FALSE /\ recent' = FALSE /\ stopping' = FALSE
  /\ retry' = FALSE
  /\ at' = [s \in Savers |-> "idle"] /\ snapshot' = [s \in Savers |-> NoRun]
  /\ UNCHANGED durable

\* Someone damages the file.
Damage ==
  /\ file # Damaged /\ file' = Damaged /\ durable' = Damaged
  /\ UNCHANGED <<runs, dirty, scheduled, recent, at, snapshot, stopping, retry>>

RunSteps ==
  \/ MarkRunsDirty \/ WindowEnds
  \/ \E t \in Timers : TrailingSave(t)
  \/ \E s \in Savers : FlushRuns(s) \/ TakeSnapshot(s) \/ Rename(s) \/ SyncDir(s) \/ MarkAgain(s)

-----------------------------------------------------------------------------
RunTypeOK ==
  /\ runs \in Records /\ snapshot \in [Savers -> Records]
  /\ file \in Records \cup {Damaged} /\ durable \in Records \cup {Damaged}
  /\ dirty \in BOOLEAN /\ scheduled \in BOOLEAN /\ recent \in BOOLEAN
  /\ stopping \in BOOLEAN /\ retry \in BOOLEAN
  /\ at \in [Savers -> {"idle", "mark", "flush", "lock", "write", "renamed", "failed"}]

\* markRunsDirty: "changes that follow within the interval are folded into one trailing
\* write, and Wait flushes whatever is still pending"; flushRuns: "A failed write ...
\* leaves them marked changed, so the next flush retries it".  A record the file does not
\* have is marked or being marked, or a flush that took the mark away still writes it or
\* marks it again; and a mark has a flush coming, unless the last write failed.
NothingForgotten ==
  /\ file \notin {runs, Damaged} =>
       \/ dirty \/ at["sync"] = "mark"
       \/ \E s \in Savers : at[s] \in {"lock", "failed"} \/ (at[s] = "write" /\ snapshot[s] = runs)
  /\ dirty => scheduled \/ retry \/ \E s \in Savers : at[s] = "flush"
=============================================================================
