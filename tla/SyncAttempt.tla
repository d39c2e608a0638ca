---------------------------- MODULE SyncAttempt ----------------------------
(***************************************************************************)
(* One attempt of a repository (sync.go, pushbatch.go): fetch the origin's *)
(* branches and tags into the local mirror, then bring the replica in line *)
(* with it, in batches when the platform limits the refs of a push.  Git   *)
(* is external: a step is one git process, which does its work, fails      *)
(* part way, or is killed.  Attempts follow each other; the context may be *)
(* cancelled, the push token may expire, the origin may change and the     *)
(* process may die at any time.                                            *)
(***************************************************************************)
EXTENDS Integers, Sequences, FiniteSets, SequencesExt

CONSTANTS None,
          Order,        \* every ref name, in the order of sort.Strings
          Under,        \* <<x, y>>: x is a directory of y's name (x and x/y)
          Shadowing,    \* <<u, s>>: s is refs/heads/u or refs/tags/u
          Length,       \* the length of a ref name
          MaxRefLen,    \* maxBatchRefLen
          MaxArgBytes,  \* maxBatchArgBytes
          BatchRefs,    \* push_batch_refs, 0 when it is not set
          Tables,       \* what origin and replica may hold at first
          MaxAttempts,  \* bound on the attempts
          MaxEdits,     \* bound on the changes of the origin
          MaxFaults     \* bound on the faults, of any kind

Refs == Range(Order)
Values == {1, 2}
\* A table maps the refs to commits; no table holds both x and x/y.
Empty == [r \in Refs |-> None]
Held(table) == {r \in Refs : table[r] # None}
Legal(table) == \A p \in Under : ~({p[1], p[2]} \subseteq Held(table))

ASSUME AttemptAssumption ==
  /\ Order \in Seq(Refs) /\ \A i, j \in 1..Len(Order) : Order[i] = Order[j] => i = j
  /\ Under \subseteq Refs \X Refs /\ Shadowing \subseteq Refs \X Refs
  /\ Length \in [Refs -> Nat] /\ MaxRefLen \in Nat /\ MaxArgBytes \in Nat /\ BatchRefs \in Nat
  /\ \A t \in Tables : t \in [Refs -> Values \cup {None}] /\ Legal(t)
  /\ None \notin Values
  /\ MaxAttempts \in Nat /\ MaxEdits \in Nat /\ MaxFaults \in Nat

\* No table is the absence of one.
ASSUME TableAssumption == None \notin [Refs -> Values \cup {None}]

VARIABLES
  origin, replica,   \* the branches and tags of the two ends
  mirror,            \* those of the local mirror, None when there is no mirror
  broken,            \* the mirror is there and is not a usable repository
  pc,                \* where the attempt is
  cancelled,         \* its context has ended
  expired,           \* its push token is past its expiry
  plan,              \* what the planning push said
  batches, next,     \* the batches of its upserts, and the next one to push
  res,               \* syncResult
  attempt, edits, faults,  \* counters
  fetched,           \* history: what the origin advertised to this attempt
  before,            \* history: the replica when the attempt began
  clean,             \* history: the attempt has met no fault
  current            \* history: the attempts that left the replica as fetched

ends == <<origin, replica, mirror, broken>>
counts == <<attempt, edits, faults>>
history == <<fetched, before, clean, current>>
attemptVars == <<ends, pc, cancelled, expired, plan, batches, next, res, counts, history>>

\* syncResult: a cancelled attempt is pending, every other one is finished.
Pending == [state |-> "pending", error |-> None]
OK == [state |-> "ok", error |-> None]
Error(type) == [state |-> "error", error |-> type]

AttemptInit ==
  /\ origin \in Tables /\ replica \in Tables /\ mirror = None /\ broken = FALSE
  /\ pc = "idle" /\ cancelled = FALSE /\ expired = FALSE
  /\ plan = None /\ batches = <<>> /\ next = 1 /\ res = None
  /\ attempt = 0 /\ edits = 0 /\ faults = 0
  /\ fetched = None /\ before = replica /\ clean = TRUE /\ current = {}

\* A fault is counted, and the attempt it happens to is no longer a clean one.
Fault == faults < MaxFaults /\ faults' = faults + 1 /\ clean' = FALSE
NoFault == UNCHANGED <<faults, clean>>

\* The attempt ends with result r.
End(r) == pc' = "done" /\ res' = r
\* It goes on to its step p.
GoTo(p) == pc' = p /\ UNCHANGED res

-----------------------------------------------------------------------------
\* classifyGitFailure: what a failed git is reported as.  The failures: the deadline
\* passed, the disk is full, git was killed for memory, the far end refused the login, does
\* not know the repository, refused the refs, could not be reached, or something else.
OriginFailures == {"deadline", "disk", "memory", "auth", "missing", "conn", "other"}
ReplicaFailures == {"deadline", "disk", "memory", "auth", "rejected", "conn", "other"}

LocalError(f) == IF f = "disk" THEN "local_disk_exhausted" ELSE "job_out_of_memory"

ClassifyOrigin(f) ==
  CASE f \in {"disk", "memory"} -> LocalError(f)
    [] f \in {"auth", "missing"} -> "origin_access_denied"
    [] f \in {"deadline", "conn"} -> "origin_unreachable"
    [] OTHER -> "unclassified"

ClassifyReplica(f, late) ==
  CASE f = "deadline" -> "push_timeout"
    [] f \in {"disk", "memory"} -> LocalError(f)
    [] f = "auth" -> IF late THEN "push_token_expired" ELSE "credential_rejected"
    [] f = "rejected" -> "replica_rejected"
    [] f = "conn" -> "replica_unreachable"
    [] OTHER -> "unclassified"

\* A git of the origin side failed, or was never started because the context had ended.
OriginFailed ==
  \/ cancelled /\ End(Pending) /\ NoFault
  \/ ~cancelled /\ Fault /\ \E f \in OriginFailures : End(Error(ClassifyOrigin(f)))

-----------------------------------------------------------------------------
\* A sync task is claimed, with its push token, and its attempt begins.
Start ==
  /\ pc = "idle" /\ attempt < MaxAttempts
  /\ attempt' = attempt + 1 /\ pc' = "start"
  /\ UNCHANGED <<ends, cancelled, expired, plan, batches, next, res, edits, faults, history>>

\* Nothing is left of an attempt that is over but what it did to the ends.
Over ==
  /\ pc' = "idle" /\ res' = None /\ cancelled' = FALSE /\ expired' = FALSE
  /\ plan' = None /\ batches' = <<>> /\ next' = 1
  /\ fetched' = None /\ before' = replica'

\* syncAttempt up to its first git: the context, the token, the mirrors' root and git's
\* home.  localFault reads as a full disk or as something else.
Prepare ==
  /\ pc = "start"
  /\ \/ cancelled /\ End(Pending) /\ NoFault
     \/ ~cancelled /\ expired /\ End(Error("push_token_expired")) /\ NoFault
     \/ ~cancelled /\ ~expired /\ GoTo("fetch") /\ NoFault
     \/ ~cancelled /\ ~expired /\ Fault
        /\ \E f \in {"disk", "other"} : End(Error(ClassifyOrigin(f)))
  /\ UNCHANGED <<ends, cancelled, expired, plan, batches, next, attempt, edits, fetched, before,
                 current>>

\* updateMirror, fetching into the mirror there is.  Only a fetch that was not cancelled
\* and whose git calls the local mirror unusable makes it be removed and built again.
Fetch ==
  /\ pc = "fetch" /\ mirror # None
  /\ \/ ~broken /\ ~cancelled /\ NoFault /\ GoTo("refs")
        /\ mirror' = origin /\ fetched' = origin /\ UNCHANGED broken
     \/ OriginFailed /\ UNCHANGED <<mirror, broken, fetched>>
     \/ broken /\ ~cancelled /\ NoFault /\ GoTo("init")
        /\ mirror' = None /\ broken' = FALSE /\ UNCHANGED fetched
  /\ UNCHANGED <<origin, replica, cancelled, expired, plan, batches, next, attempt, edits, before,
                 current>>

\* updateMirror, git init --bare: an empty mirror, which a crash can leave behind; a failed
\* init removes what it made.
InitMirror ==
  /\ pc = "init" \/ (pc = "fetch" /\ mirror = None)
  /\ \/ ~cancelled /\ GoTo("first") /\ NoFault /\ mirror' = Empty
     \/ OriginFailed /\ mirror' = None
  /\ UNCHANGED <<origin, replica, broken, cancelled, expired, plan, batches, next, attempt, edits,
                 fetched, before, current>>

\* updateMirror, the first fetch; when it fails the empty mirror is removed.
FirstFetch ==
  /\ pc = "first"
  /\ \/ ~cancelled /\ GoTo("refs") /\ NoFault /\ mirror' = origin /\ fetched' = origin
     \/ OriginFailed /\ mirror' = None /\ UNCHANGED fetched
  /\ UNCHANGED <<origin, replica, broken, cancelled, expired, plan, batches, next, attempt, edits,
                 before, current>>

\* hasPushableRefs: a mirror without branches and tags is never pushed.
CheckRefs ==
  /\ pc = "refs"
  /\ \/ ~cancelled /\ Held(mirror) # {} /\ GoTo("size") /\ NoFault
     \/ ~cancelled /\ Held(mirror) = {} /\ End(Error("unclassified")) /\ NoFault
     \/ OriginFailed
  /\ UNCHANGED <<ends, cancelled, expired, plan, batches, next, attempt, edits, fetched, before,
                 current>>

\* max_repository_mb, and the newest commit for the statistics, after which the context is
\* looked at again.
CheckSize ==
  /\ pc = "size"
  /\ \/ ~cancelled /\ GoTo("count") /\ NoFault
     \/ cancelled /\ End(Pending) /\ NoFault
     \/ Fault /\ \E e \in {"repository_over_limit", "local_disk_exhausted", "unclassified"} :
                   End(Error(e))
  /\ UNCHANGED <<ends, cancelled, expired, plan, batches, next, attempt, edits, fetched, before,
                 current>>

-----------------------------------------------------------------------------
\* mirrorMayExceedBatch: a mirror that fits one batch is pushed as it is; one whose refs
\* cannot be counted is planned.
CountRefs ==
  /\ pc = "count"
  /\ \/ /\ BatchRefs > 0 /\ Cardinality(Held(mirror)) > BatchRefs
        /\ GoTo("plan") /\ NoFault
     \/ /\ BatchRefs = 0 \/ (~cancelled /\ Cardinality(Held(mirror)) <= BatchRefs)
        /\ GoTo("push") /\ NoFault
     \/ /\ BatchRefs > 0 /\ Cardinality(Held(mirror)) <= BatchRefs
        /\ GoTo("plan") /\ IF cancelled THEN NoFault ELSE Fault
  /\ UNCHANGED <<ends, cancelled, expired, plan, batches, next, attempt, edits, fetched, before,
                 current>>

\* pushPlan: the refs a push of the whole mirror would write and would delete (sorted, so that
\* sets say as much), and the names on either side that shadow a shorter one.
Upserts == {r \in Refs : mirror[r] # None /\ mirror[r] # replica[r]}
Deletes == Held(replica) \ Held(mirror)
Shadows == {p[2] : p \in Shadowing} \cap (Held(replica) \cup Held(mirror))

\* (mutant) a ref below one to be deleted is put in a batch
ConflictAbove(u, deletes, shadows) ==
  \/ Length[u] > MaxRefLen
  \/ \E d \in deletes : <<u, d>> \in Under
  \/ \E s \in shadows : <<u, s>> \in Shadowing

\* splitConflicts: an upsert stays out of the batches when a ref to be deleted is a
\* directory of its name or the other way round, when a longer name makes it ambiguous, or
\* when it is too long.
Conflict(u, deletes, shadows) ==
  \/ Length[u] > MaxRefLen
  \/ \E d \in deletes : <<u, d>> \in Under \/ <<d, u>> \in Under
  \/ \E s \in shadows : <<u, s>> \in Shadowing

Free(p) == {u \in p.upserts : ~Conflict(u, p.deletes, p.shadows)}

\* partitionBatches: cuts refs in order; "+ref:ref" and its separator are what a ref costs.
Cost(r) == 2 * Length[r] + 3

\* (mutant) a batch takes one ref too many
CutLate(acc, r) ==
  IF acc.cur # <<>> /\ (Len(acc.cur) > BatchRefs \/ acc.size + Cost(r) > MaxArgBytes)
  THEN [out |-> Append(acc.out, acc.cur), cur |-> <<r>>, size |-> Cost(r)]
  ELSE [out |-> acc.out, cur |-> Append(acc.cur, r), size |-> acc.size + Cost(r)]

Cut(acc, r) ==
  IF acc.cur # <<>> /\ (Len(acc.cur) >= BatchRefs \/ acc.size + Cost(r) > MaxArgBytes)
  THEN [out |-> Append(acc.out, acc.cur), cur |-> <<r>>, size |-> Cost(r)]
  ELSE [out |-> acc.out, cur |-> Append(acc.cur, r), size |-> acc.size + Cost(r)]

\* The loop of partitionBatches: what it has when it has passed the first n names.
Cuts(refs) ==
  LET cut[n \in 0..Len(Order)] ==
        IF n = 0 THEN [out |-> <<>>, cur |-> <<>>, size |-> 0]
        ELSE IF Order[n] \in refs THEN Cut(cut[n - 1], Order[n]) ELSE cut[n - 1]
  IN  cut

Partition(refs) ==
  LET last == Cuts(refs)[Len(Order)]
  IN  IF last.cur = <<>> THEN last.out ELSE Append(last.out, last.cur)

\* (mutant) only the exit status of a push counts
PushFailedLoudly(f) ==
  End(IF cancelled THEN Pending ELSE IF f = "rejected" THEN OK
      ELSE Error(ClassifyReplica(f, expired)))

\* A push failed; whether the token has expired is asked again now.
PushFailed(f) == End(IF cancelled THEN Pending ELSE Error(ClassifyReplica(f, expired)))

\* planPush: the context and the token, then the dry run.  A plan that cannot be read in
\* full ends the attempt.
PlanPush ==
  LET p == [upserts |-> Upserts, deletes |-> Deletes, shadows |-> Shadows]
  IN  /\ pc = "plan"
      /\ \/ cancelled /\ End(Pending) /\ NoFault /\ UNCHANGED <<plan, batches>>
         \/ ~cancelled /\ expired /\ End(Error("push_token_expired")) /\ NoFault
            /\ UNCHANGED <<plan, batches>>
         \/ ~cancelled /\ ~expired /\ GoTo("push") /\ NoFault /\ plan' = p
            /\ batches' = IF Cardinality(p.upserts) > BatchRefs THEN Partition(Free(p)) ELSE <<>>
         \/ ~cancelled /\ ~expired /\ Fault /\ UNCHANGED <<plan, batches>>
            /\ \/ \E f \in ReplicaFailures : PushFailed(f)
               \/ End(Error("unclassified"))
      /\ UNCHANGED <<ends, cancelled, expired, next, attempt, edits, fetched, before, current>>

-----------------------------------------------------------------------------
\* The push under way: a batch, or the final push of everything, which prunes.
Final == next > Len(batches)
Batch == Range(batches[next])

\* pushOnce, until git starts: the context, then the token.
BeginPush ==
  /\ pc = "push" /\ NoFault
  /\ \/ cancelled /\ End(Pending)
     \/ ~cancelled /\ expired /\ End(Error("push_token_expired"))
     \/ ~cancelled /\ ~expired /\ GoTo("pushing")
  /\ UNCHANGED <<ends, cancelled, expired, plan, batches, next, attempt, edits, fetched, before,
                 current>>

\* What the push asks of the replica: a batch writes its refs, the final push also deletes
\* what the mirror lacks.
\* (mutant) every push prunes
AskedPruning == IF Final THEN Refs ELSE Batch \cup Deletes

Asked == IF Final THEN Refs ELSE Batch
Target == [r \in Refs |-> IF r \in Asked THEN mirror[r] ELSE replica[r]]

\* Git as the code relies on it: a push of named refs can lock none that is a directory of
\* one the replica holds, or below one, and refuses to start on an ambiguous name; the
\* final push names no ref, and deletes and writes together.
Refused ==
  IF Final THEN {}
  ELSE {u \in Batch : \E r \in Held(replica) : <<u, r>> \in Under \/ <<r, u>> \in Under}
Ambiguous ==
  ~Final /\ \E u \in Batch, s \in Held(replica) \cup Held(mirror) : <<u, s>> \in Shadowing

\* What a push that failed or was killed may have done: some of what it was asked.
PartlyPushed ==
  {t \in [Refs -> Values \cup {None}] :
     /\ \A r \in Refs : t[r] \in {replica[r], Target[r]}
     /\ Legal(t)}

\* pushOnce, when git has ended.  Its report is read whatever its exit status: a push with
\* a rejected ref has failed.
EndPush ==
  /\ pc = "pushing"
  /\ \/ /\ Refused = {} /\ ~Ambiguous /\ NoFault
        /\ replica' = Target
        /\ IF Final THEN GoTo("report") /\ UNCHANGED next ELSE GoTo("push") /\ next' = next + 1
        /\ current' = IF Final /\ Target = fetched THEN current \cup {attempt} ELSE current
     \/ /\ Ambiguous /\ NoFault /\ PushFailed("other") /\ UNCHANGED <<replica, next, current>>
     \/ /\ Refused # {} /\ ~Ambiguous /\ NoFault /\ PushFailed("rejected")
        /\ replica' = [r \in Refs |-> IF r \in Refused THEN replica[r] ELSE Target[r]]
        /\ UNCHANGED <<next, current>>
     \/ /\ Fault /\ \E f \in ReplicaFailures : PushFailed(f)
        /\ replica' \in PartlyPushed /\ UNCHANGED <<next, current>>
  /\ UNCHANGED <<origin, mirror, broken, cancelled, expired, plan, batches, attempt, edits,
                 fetched, before>>

\* The origin's default branch is asked for and the mirror searched for LFS attributes:
\* neither can make a sync fail that has pushed everything.
Report ==
  /\ pc = "report" /\ End(OK) /\ NoFault
  /\ UNCHANGED <<ends, cancelled, expired, plan, batches, next, attempt, edits, fetched, before,
                 current>>

-----------------------------------------------------------------------------
Active == pc \notin {"idle", "done"}

\* The context ends: the process stops or the credential is superseded.
Cancel ==
  /\ Active /\ ~cancelled /\ cancelled' = TRUE /\ Fault
  /\ UNCHANGED <<ends, pc, expired, plan, batches, next, res, attempt, edits, fetched, before,
                 current>>

\* The push token reaches its expiry.
Expire ==
  /\ Active /\ ~expired /\ expired' = TRUE /\ Fault
  /\ UNCHANGED <<ends, pc, cancelled, plan, batches, next, res, attempt, edits, fetched, before,
                 current>>

OriginChanges ==
  /\ edits < MaxEdits /\ edits' = edits + 1
  /\ origin' \in Tables \ {origin}
  /\ UNCHANGED <<replica, mirror, broken, pc, cancelled, expired, plan, batches, next, res,
                 attempt, faults, history>>

\* The process dies and starts again.  A fetch or init cut short may leave a mirror that is
\* not usable, a push may have done part of its work.
CrashAttempt ==
  /\ faults < MaxFaults /\ faults' = faults + 1
  /\ replica' \in IF pc = "pushing" THEN PartlyPushed ELSE {replica}
  /\ broken' \in IF pc \in {"fetch", "first"} /\ mirror # None THEN {broken, TRUE} ELSE {broken}
  /\ Over /\ clean' = TRUE
  /\ UNCHANGED <<origin, mirror, attempt, edits, current>>

AttemptSteps ==
  \/ Prepare \/ Fetch \/ InitMirror \/ FirstFetch \/ CheckRefs \/ CheckSize
  \/ CountRefs \/ PlanPush \/ BeginPush \/ EndPush \/ Report
  \/ Cancel \/ Expire \/ OriginChanges
=============================================================================
