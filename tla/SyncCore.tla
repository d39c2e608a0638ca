------------------------------ MODULE SyncCore ------------------------------
(***************************************************************************)
(* The heart of the git-sync connector: the sync manager (manager.go), the *)
(* attempt registry (attempts.go), and the three things that change what   *)
(* may be synced while syncs run: a platform configuration (config.go), a  *)
(* reload of the local providers (providerswap.go) and the end of a sync   *)
(* (client.go).  Client.mu and manager.mu are two mutexes, so every hold   *)
(* of one of them is one step and anything may happen in between.          *)
(*                                                                         *)
(* Actors: the gateway read loop, the provider reloader and the periodic   *)
(* scheduler start syncs; one runner goroutine per repository in flight    *)
(* executes them.  The slot pool is module SlotPool, instantiated with one *)
(* caller per repository because a repository has at most one runner.      *)
(***************************************************************************)
EXTENDS Naturals, Sequences, FiniteSets

CONSTANTS Repos,       \* repo_ids
          Origins,     \* origin URLs
          Replicas,    \* replica push URLs on the pinned host
          Providers,   \* local providers; each serves one host
          ServedBy,    \* which provider serves an origin's host (or None)
          Creds,       \* credentials
          Configs,     \* the configurations the platform may send
          Limits,      \* max_concurrency values
          LoadedRuns,  \* run records the state file may hold at startup (or None)
          MaxEvents,   \* bound on the external events of a behaviour
          None         \* nothing: no URL, provider, credential, target, record...

\* What git_sync_config says of one repository; replica is None when the URL is
\* missing or malformed, tokenOK is validPushToken.
Target == [origin : Origins, replica : Replicas \cup {None}, tokenOK : BOOLEAN]

Bindings == [provider : Providers \cup {None}, gen : Nat]
NoBinding == [provider |-> None, gen |-> 0]
Attempts == [seq : Nat, bind : Bindings, superseded : BOOLEAN]
Tasks == [seq : Nat, origin : Origins, replica : Replicas, bind : Bindings]
\* A recorded result: the target and binding of the attempt it describes.
Results == [origin : Origins, replica : Replicas, bind : Bindings]
\* errInvalidReplica: a property of the configuration, not of an attempt
InvalidReplica == [origin |-> None, replica |-> None, bind |-> NoBinding]
Fingerprints == [origin : Origins, replica : Replicas \cup {None}]

ASSUME CoreAssumption ==
  /\ None \notin Repos \cup Origins \cup Replicas \cup Providers \cup Creds
  /\ None \notin Target \cup Attempts \cup Tasks \cup Results \cup Fingerprints
  /\ ServedBy \in [Origins -> Providers \cup {None}]
  /\ Configs \subseteq [Repos -> Target \cup {None}]
  /\ LoadedRuns \subseteq [origin : Origins, replica : Replicas \cup {None}] \cup {None}
  /\ IsFiniteSet(Repos) /\ Limits # {} /\ Limits \subseteq Nat
  /\ MaxEvents \in Nat

VARIABLES
  \* Client, guarded by Client.mu
  cfg,          \* repos: the configured target of each repository
  bind,         \* repoState.bind
  syncing,      \* repoState.syncing
  started,      \* repoState.attemptStartedAt is set
  result,       \* repoState.result: which attempt it describes
  runs,         \* the target each run record was made against
  attempts,     \* the registered attempt of each repository
  attemptSeq,
  cred, gen,    \* providers: credential and generation of each provider
  providerGen,
  \* manager, guarded by manager.mu
  inflight, rerun,
  \* the actors that start syncs, and the runners
  phase, ids, cur, pc, task,
  \* the slot pool (module SlotPool)
  limit, held, waiters, granted, at, ctxDone,
  suspended,    \* criticalPatchRequired
  waitCh,       \* the daemon's Wait at shutdown: the idle channel it captured
  events,       \* external events so far
  owed,         \* (history) repositories whose trigger no sync has answered yet
  stray         \* (history) repositories whose mark was carried to another origin than
                \* that of the sync it stood for

Slots == INSTANCE SlotPool WITH Callers <- Repos

confVars == <<cfg, bind, syncing, started, result, runs>>
provVars == <<cred, gen, providerGen>>
attVars == <<attempts, attemptSeq>>
mgrVars == <<inflight, rerun>>
actorVars == <<phase, ids, cur>>
runVars == <<pc, task>>
slotVars == <<limit, held, waiters, granted, at, ctxDone>>
histVars == <<owed, stray>>
vars == <<confVars, provVars, attVars, mgrVars, actorVars, runVars, slotVars,
          suspended, waitCh, events, histVars>>

Actors == {"readLoop", "reloader", "scheduler"}

\* replicaUsable, and replicaURL, which is empty unless it is
Usable(t) == t.replica # None /\ t.tokenOK
ReplicaURL(t) == IF Usable(t) THEN t.replica ELSE None
\* targetFingerprint: what a run record is about
Fingerprint(t) == [origin |-> t.origin, replica |-> t.replica]

\* bindRepo's binding against generations g: providerSet.match finds a provider for
\* the origin's host, or the repository is unbound.
BindOf(t, g) ==
  IF t # None /\ ServedBy[t.origin] # None /\ g[ServedBy[t.origin]] # 0
  THEN [provider |-> ServedBy[t.origin], gen |-> g[ServedBy[t.origin]]]
  ELSE NoBinding

InForce(b, g) == b.provider # None /\ g[b.provider] = b.gen

Configured(r) == cfg[r] # None
Syncable(r) == Configured(r) /\ bind[r] # NoBinding /\ Usable(cfg[r])
SyncableRepos == {r \in Repos : Syncable(r)}

\* A sync of r is registered, until it ends.
Attempting(r) == pc[r] \in {"claimed", "run"}

Init ==
  /\ cfg = [r \in Repos |-> None]
  /\ bind = [r \in Repos |-> NoBinding]
  /\ syncing = [r \in Repos |-> FALSE]
  /\ started = [r \in Repos |-> FALSE]
  /\ result = [r \in Repos |-> None]
  /\ runs \in [Repos -> LoadedRuns]
  /\ attempts = [r \in Repos |-> None]
  /\ attemptSeq = 0
  /\ cred \in [Providers -> Creds \cup {None}]
  /\ gen = [p \in Providers |-> IF cred[p] = None THEN 0 ELSE 1]
  /\ providerGen = 1
  /\ inflight = {} /\ rerun = {}
  /\ phase = [a \in Actors |-> "idle"]
  /\ ids = [a \in Actors |-> {}]
  /\ cur = [a \in Actors |-> None]
  /\ pc = [r \in Repos |-> "off"]
  /\ task = [r \in Repos |-> None]
  /\ Slots!Init
  /\ suspended = FALSE
  /\ waitCh = "none"
  /\ events = 0
  /\ owed = {} /\ stray = {}

\* An actor takes on an external event; none does once the daemon waits to exit
\* (Run returns only after the read loop, the reloader and the scheduler stopped).
External(a) ==
  /\ phase[a] = "idle" /\ waitCh = "none"
  /\ events < MaxEvents /\ events' = events + 1

-----------------------------------------------------------------------------
(***************************************************************************)
(* The gateway read loop.                                                  *)
(***************************************************************************)

\* bindRepo's result for target t bound to b, when it was bound to old with result res.
RebindResult(t, b, old, res) ==
  IF b # NoBinding /\ ~Usable(t) THEN InvalidReplica
  ELSE IF b # old THEN None ELSE res

\* canonicalURL is empty while the repository is unbound.
CanonicalURL(t, b) == IF b = NoBinding THEN None ELSE t.origin

\* (mutant) a repository moved to another replica is the same one
SameSyncIdentityOrigin(r, t, b) ==
  bind[r] = b /\ CanonicalURL(cfg[r], bind[r]) = CanonicalURL(t, b)

\* sameSyncIdentity of the configured repository and its successor t bound to b
SameSyncIdentity(r, t, b) ==
  /\ bind[r] = b
  /\ CanonicalURL(cfg[r], bind[r]) = CanonicalURL(t, b)
  /\ ReplicaURL(cfg[r]) = ReplicaURL(t)

\* (mutant) only the records of unlisted repositories go
ReconcileRunsListed(next) ==
  [r \in Repos |-> IF next[r] = None /\ \E q \in Repos : next[q] # None
                   THEN None ELSE runs[r]]

\* reconcileRunsLocked: a record about another target goes, and so does one of a
\* repository that is no longer listed unless the configuration lists none at all.
ReconcileRuns(next) ==
  [r \in Repos |->
     IF \/ next[r] = None /\ \E q \in Repos : next[q] # None
        \/ next[r] # None /\ runs[r] # Fingerprint(next[r])
     THEN None ELSE runs[r]]

\* applyConfig of an acceptable message (one hold of Client.mu).
ApplyConfig(next, l) ==
  LET b == [r \in Repos |-> BindOf(next[r], gen)]
      carried == {r \in Repos : /\ Configured(r) /\ next[r] # None
                                /\ SameSyncIdentity(r, next[r], b[r])}
      fresh == [r \in Repos |-> IF next[r] = None THEN None
                                ELSE RebindResult(next[r], b[r], NoBinding, None)]
  IN  /\ External("readLoop")
      /\ cfg' = next
      /\ bind' = b
      /\ result' = [r \in Repos |-> IF r \in carried /\ fresh[r] = None
                                    THEN result[r] ELSE fresh[r]]
      /\ syncing' = [r \in Repos |-> r \in carried /\ syncing[r]]
      /\ started' = [r \in Repos |-> r \in carried /\ started[r]]
      /\ runs' = ReconcileRuns(next)
      /\ stray' = {r \in carried : /\ syncing[r] \/ started[r]
                                   /\ \/ r \in stray
                                      \/ Attempting(r) /\ next[r].origin # task[r].origin}
      /\ Slots!Resize(l)
      /\ phase' = [phase EXCEPT !["readLoop"] = "start"]
      /\ UNCHANGED <<provVars, attVars, mgrVars, ids, cur, runVars, suspended, waitCh, owed>>

\* handleSyncNow for one repository or for all of them, not while suspended.  A
\* request for one repository may also be refused by the provider gate, in which
\* case nothing happens.
SyncNow(S) ==
  /\ External("readLoop")
  /\ ~suspended
  /\ S # {} /\ (S = SyncableRepos \/ \E r \in SyncableRepos : S = {r})
  /\ phase' = [phase EXCEPT !["readLoop"] = "enqueue"]
  /\ ids' = [ids EXCEPT !["readLoop"] = S]
  /\ owed' = owed \cup S
  /\ UNCHANGED <<confVars, provVars, attVars, mgrVars, cur, runVars, slotVars,
                 suspended, waitCh, stray>>

\* OnHandshake: each connection states whether a critical update is required.
OnHandshake(b) ==
  /\ External("readLoop")
  /\ suspended' = b
  /\ UNCHANGED <<confVars, provVars, attVars, mgrVars, actorVars, runVars, slotVars,
                 waitCh, histVars>>

-----------------------------------------------------------------------------
(***************************************************************************)
(* The reloader: setProviders.  A provider whose credential is unchanged   *)
(* keeps its generation, any other gets one never used before, so a        *)
(* restored credential is a new generation.  (The code draws one number    *)
(* per changed provider; bindings name the provider too, so one per swap   *)
(* distinguishes the same ones.)                                           *)
(***************************************************************************)
BuildProviderSet(next) ==
  [p \in Providers |-> IF next[p] = None THEN 0
                       ELSE IF next[p] = cred[p] THEN gen[p] ELSE providerGen + 1]

\* (mutant) only an attempt whose provider is gone is superseded
SupersedeGone(g) ==
  [r \in Repos |-> IF attempts[r] # None /\ g[attempts[r].bind.provider] = 0
                   THEN [attempts[r] EXCEPT !.superseded = TRUE]
                   ELSE attempts[r]]

\* Every attempt on a credential not in force under generations g is cancelled.
Supersede(g) ==
  [r \in Repos |-> IF attempts[r] # None /\ ~InForce(attempts[r].bind, g)
                   THEN [attempts[r] EXCEPT !.superseded = TRUE]
                   ELSE attempts[r]]

SetProviders(next) ==
  LET g == BuildProviderSet(next)
      b == [r \in Repos |-> BindOf(cfg[r], g)]
      changed == {r \in Repos : b[r] # NoBinding /\ b[r] # bind[r]}
      queued == {r \in Repos : syncing[r] /\ attempts[r] = None}
  IN  /\ External("reloader")
      /\ next # cred
      /\ cred' = next /\ gen' = g /\ providerGen' = providerGen + 1
      /\ bind' = b
      /\ result' = [r \in Repos |-> IF Configured(r)
                                    THEN RebindResult(cfg[r], b[r], bind[r], result[r])
                                    ELSE None]
      /\ attempts' = Supersede(g)
      /\ phase' = [phase EXCEPT !["reloader"] = "start"]
      /\ ids' = [ids EXCEPT !["reloader"] = changed \ queued]
      /\ UNCHANGED <<cfg, syncing, started, runs, attemptSeq, mgrVars, cur, runVars,
                     slotVars, suspended, waitCh, histVars>>

-----------------------------------------------------------------------------
(***************************************************************************)
(* Starting syncs: startSyncs and manager.enqueue, run by the read loop    *)
(* and the reloader; enqueueScheduled, run by the scheduler.               *)
(***************************************************************************)
NextPhase(rest) == IF rest = {} THEN "idle" ELSE "enqueue"

\* startSyncs: the read loop takes the syncable set as it is now, the reloader the
\* repositories setProviders chose; nothing while suspended.
StartSyncs(a) ==
  LET todo == IF suspended THEN {} ELSE IF a = "readLoop" THEN SyncableRepos ELSE ids[a]
  IN  /\ phase[a] = "start"
      /\ ids' = [ids EXCEPT ![a] = todo]
      /\ phase' = [phase EXCEPT ![a] = NextPhase(todo)]
      /\ owed' = owed \cup todo
      /\ UNCHANGED <<confVars, provVars, attVars, mgrVars, cur, runVars, slotVars,
                     suspended, waitCh, events, stray>>

\* enqueue: one repository of the list, skipped when it cannot be synced any more.
CheckSyncable(a, r) ==
  /\ phase[a] = "enqueue" /\ r \in ids[a]
  /\ ids' = [ids EXCEPT ![a] = @ \ {r}]
  /\ \/ /\ Syncable(r)
        /\ phase' = [phase EXCEPT ![a] = "launch"]
        /\ cur' = [cur EXCEPT ![a] = r]
        /\ UNCHANGED owed
     \/ /\ ~Syncable(r)
        /\ phase' = [phase EXCEPT ![a] = NextPhase(ids[a] \ {r})]
        /\ owed' = owed \ {r}
        /\ UNCHANGED cur
  /\ UNCHANGED <<confVars, provVars, attVars, mgrVars, runVars, slotVars, suspended,
                 waitCh, events, stray>>

\* enqueueScheduled, up to launch: a scheduled sync only starts a repository that is
\* idle, syncable and not suspended.
EnqueueScheduled(r) ==
  /\ External("scheduler")
  /\ ~ctxDone /\ ~suspended /\ r \notin inflight /\ Syncable(r)
  /\ phase' = [phase EXCEPT !["scheduler"] = "launch"]
  /\ cur' = [cur EXCEPT !["scheduler"] = r]
  /\ UNCHANGED <<confVars, provVars, attVars, mgrVars, ids, runVars, slotVars, suspended,
                 waitCh, histVars>>

\* (mutant) a trigger for a repository in flight is dropped
FoldNever(a) == rerun

\* A trigger for a repository in flight asks for a trailing rerun, a scheduled one not.
Fold(a) == IF a = "scheduler" THEN rerun ELSE rerun \cup {cur[a]}

\* launch (one hold of manager.mu): in flight already, so a trailing rerun for the
\* read loop and the reloader, nothing for the scheduler; otherwise mark in flight.
Launch(a) ==
  /\ phase[a] = "launch"
  /\ \/ /\ cur[a] \in inflight
        /\ rerun' = Fold(a)
        /\ phase' = [phase EXCEPT ![a] = NextPhase(ids[a])]
        /\ cur' = [cur EXCEPT ![a] = None]
        /\ UNCHANGED inflight
     \/ /\ cur[a] \notin inflight
        /\ inflight' = inflight \cup {cur[a]}
        /\ phase' = [phase EXCEPT ![a] = "begin"]
        /\ UNCHANGED <<rerun, cur>>
  /\ UNCHANGED <<confVars, provVars, attVars, ids, runVars, slotVars, suspended, waitCh,
                 events, histVars>>

\* setSyncing: only a repository that is still configured carries the mark.
SetSyncing(r, b) ==
  /\ syncing' = [syncing EXCEPT ![r] = Configured(r) /\ b]
  /\ started' = [started EXCEPT ![r] = b /\ @]

\* launch, after the lock: the begin hook, then the runner goroutine.
Begin(a) ==
  /\ phase[a] = "begin"
  /\ SetSyncing(cur[a], TRUE)
  /\ pc' = [pc EXCEPT ![cur[a]] = "acquire"]
  /\ phase' = [phase EXCEPT ![a] = NextPhase(ids[a])]
  /\ cur' = [cur EXCEPT ![a] = None]
  /\ UNCHANGED <<cfg, bind, result, runs, provVars, attVars, mgrVars, ids, task, slotVars,
                 suspended, waitCh, events, histVars>>

-----------------------------------------------------------------------------
(***************************************************************************)
(* The runner of repository r: manager.runRepo and runOnce.                *)
(***************************************************************************)
Goto(r, l) == pc' = [pc EXCEPT ![r] = l]

\* Steps that touch only the runner, the slot pool and the history.
RunnerOnly == UNCHANGED <<confVars, provVars, attVars, mgrVars, actorVars, task,
                          suspended, waitCh, events>>

\* slots.acquire: at once, or by queueing and being granted a slot later...
Acquire(r) ==
  /\ pc[r] = "acquire"
  /\ \/ Slots!AcquireNow(r) /\ Goto(r, "slotted")
     \/ Slots!Enqueue(r) /\ UNCHANGED pc
     \/ Slots!Wake(r) /\ Goto(r, "slotted")
     \/ Slots!GiveUp(r) /\ UNCHANGED pc
     \/ Slots!Abandon(r) /\ Goto(r, "dropping")   \* ... or not at all
  /\ RunnerOnly /\ UNCHANGED histVars

\* (mutant) a suspended runner waits for the suspension to end
CheckStartWaits(r) ==
  /\ pc[r] = "slotted" /\ ~suspended
  /\ Goto(r, IF ctxDone THEN "dropping" ELSE "claim")
  /\ RunnerOnly /\ UNCHANGED <<slotVars, histVars>>

\* With the slot held: shutting down or suspended, nothing runs.
CheckStart(r) ==
  /\ pc[r] = "slotted"
  /\ \/ (ctxDone \/ suspended) /\ Goto(r, "dropping")
        /\ owed' = owed \ {r}
     \/ ~ctxDone /\ ~suspended /\ Goto(r, "claim") /\ UNCHANGED owed
  /\ RunnerOnly /\ UNCHANGED <<slotVars, stray>>

\* claimTask (one hold of Client.mu): what to sync, with which credential, and the
\* registration a replaced credential reaches.  admit is what the provider gate
\* (mayClaim) decides; module Scheduler is about that.
Claim(r, admit) ==
  LET ok == Syncable(r) /\ InForce(bind[r], gen) /\ attempts[r] = None /\ admit
  IN  /\ pc[r] = "claim"
      /\ attemptSeq' = IF Syncable(r) /\ InForce(bind[r], gen) THEN attemptSeq + 1 ELSE attemptSeq
      /\ \/ /\ ok
            /\ task' = [task EXCEPT ![r] = [seq |-> attemptSeq', origin |-> cfg[r].origin,
                                            replica |-> cfg[r].replica, bind |-> bind[r]]]
            /\ attempts' = [attempts EXCEPT ![r] = [seq |-> attemptSeq', bind |-> bind[r],
                                                    superseded |-> FALSE]]
            /\ Goto(r, "claimed")
         \/ /\ ~ok
            /\ Goto(r, "dropping")
            /\ UNCHANGED <<task, attempts>>
      /\ owed' = owed \ {r}
      /\ UNCHANGED <<confVars, provVars, mgrVars, actorVars, slotVars, suspended, waitCh, events,
                     stray>>

\* (mutant) a rebound repository is another target
TargetMatchesBound(r) ==
  /\ cfg[r].origin = task[r].origin /\ ReplicaURL(cfg[r]) = task[r].replica
  /\ bind[r] = task[r].bind

\* targetMatches: the origin is compared as configured, bound or not.
TargetMatches(r) ==
  cfg[r].origin = task[r].origin /\ ReplicaURL(cfg[r]) = task[r].replica

\* startAttempt: the status may now report the attempt.
StartAttempt(r) ==
  /\ pc[r] = "claimed"
  /\ started' = [started EXCEPT ![r] =
       @ \/ (Configured(r) /\ TargetMatches(r) /\ bind[r] = task[r].bind)]
  /\ Goto(r, "run")
  /\ UNCHANGED <<cfg, bind, syncing, result, runs, provVars, attVars, mgrVars, actorVars,
                 task, slotVars, suspended, waitCh, events, histVars>>

\* endAttemptLocked: only the attempt's own registration is removed.
EndAttempt(r, stale) == IF stale THEN attempts ELSE [attempts EXCEPT ![r] = None]

\* The sync ends and finishSync runs.  cancelled: the result is pending, which only a
\* cancelled attempt can return; a sync that outran its cancellation still returns a
\* result.
FinishSync(r, cancelled) ==
  LET superseded == attempts[r] # None /\ attempts[r].superseded
      stale == attempts[r] # None /\ attempts[r].seq # task[r].seq
      mine == ~stale /\ Configured(r) /\ TargetMatches(r)
      kept == mine /\ ~superseded /\ bind[r] = task[r].bind /\ ~cancelled
  IN  /\ pc[r] = "run"
      /\ cancelled => superseded \/ ctxDone
      /\ attempts' = EndAttempt(r, stale)
      /\ syncing' = [syncing EXCEPT ![r] = @ /\ ~mine]
      /\ started' = [started EXCEPT ![r] = @ /\ ~mine]
      /\ stray' = IF mine THEN stray \ {r} ELSE stray
      /\ result' = [result EXCEPT ![r] =
           IF kept THEN [origin |-> task[r].origin, replica |-> task[r].replica,
                         bind |-> task[r].bind] ELSE @]
      /\ runs' = [runs EXCEPT ![r] = IF kept THEN Fingerprint(cfg[r]) ELSE @]
      /\ task' = [task EXCEPT ![r] = None]
      /\ Goto(r, "finished")
      /\ UNCHANGED <<cfg, bind, attemptSeq, provVars, mgrVars, actorVars, slotVars,
                     suspended, waitCh, events, owed>>

\* The release hook of a sync that did not run; the slot, if held, goes back next.
ReleaseSync(r) ==
  /\ pc[r] = "dropping"
  /\ SetSyncing(r, FALSE)
  /\ stray' = stray \ {r}
  /\ Goto(r, IF at[r] = "holding" THEN "finished" ELSE "loop")
  /\ UNCHANGED <<cfg, bind, result, runs, provVars, attVars, mgrVars, actorVars, task,
                 slotVars, suspended, waitCh, events, owed>>

\* runOnce's deferred slots.release.
ReleaseSlot(r) ==
  /\ pc[r] = "finished"
  /\ Slots!Release(r)
  /\ Goto(r, "loop")
  /\ RunnerOnly /\ UNCHANGED histVars

RunAgain(r) == r \in rerun /\ ~ctxDone

RerunAfter(r) == rerun \ {r}

\* (mutant) the idle channel is closed as soon as any runner ends
NotifyIdleEarly(left) == waitCh' = IF waitCh = "open" THEN "closed" ELSE waitCh

\* removeInflightLocked closes the idle channel when the in-flight set empties.
NotifyIdle(left) ==
  waitCh' = IF waitCh = "open" /\ left = {} THEN "closed" ELSE waitCh

\* runRepo after a run (one hold of manager.mu): run again if asked meanwhile, else
\* leave the in-flight set, which closes the idle channel when it was the last.
Loop(r) ==
  LET again == RunAgain(r)
      left == IF again THEN inflight ELSE inflight \ {r}
  IN  /\ pc[r] = "loop"
      /\ rerun' = RerunAfter(r)
      /\ inflight' = left
      /\ Goto(r, IF again THEN "rebegin" ELSE "off")
      /\ NotifyIdle(left)
      /\ UNCHANGED <<confVars, provVars, attVars, actorVars, task, slotVars, suspended,
                     events, histVars>>

\* The begin hook of a rerun.
Rebegin(r) ==
  /\ pc[r] = "rebegin"
  /\ SetSyncing(r, TRUE)
  /\ Goto(r, "acquire")
  /\ UNCHANGED <<cfg, bind, result, runs, provVars, attVars, mgrVars, actorVars, task,
                 slotVars, suspended, waitCh, events, histVars>>

-----------------------------------------------------------------------------
(***************************************************************************)
(* Shutdown: the process-lifetime context ends, every actor stops, and the *)
(* daemon waits for the idle channel it reads under manager.mu (drain).    *)
(***************************************************************************)
Shutdown ==
  /\ ~ctxDone
  /\ Slots!EndContext
  /\ UNCHANGED <<confVars, provVars, attVars, mgrVars, actorVars, runVars, suspended,
                 waitCh, events, histVars>>

StartWait ==
  /\ ctxDone /\ waitCh = "none" /\ \A a \in Actors : phase[a] = "idle"
  /\ waitCh' = IF inflight = {} THEN "closed" ELSE "open"
  /\ UNCHANGED <<confVars, provVars, attVars, mgrVars, actorVars, runVars, slotVars,
                 suspended, events, histVars>>

\* The wait is bounded; a sync that outlives it keeps running.
EndWait ==
  /\ waitCh \in {"open", "closed"}
  /\ waitCh' = IF waitCh = "closed" THEN "idle" ELSE "timed out"
  /\ UNCHANGED <<confVars, provVars, attVars, mgrVars, actorVars, runVars, slotVars,
                 suspended, events, histVars>>

\* The daemon has exited.
Exited ==
  /\ waitCh \in {"idle", "timed out"}
  /\ UNCHANGED vars

ActorStep(a) == StartSyncs(a) \/ (\E r \in Repos : CheckSyncable(a, r)) \/ Launch(a) \/ Begin(a)

RunnerStep(r) ==
  \/ Acquire(r) \/ CheckStart(r) \/ (\E admit \in BOOLEAN : Claim(r, admit))
  \/ StartAttempt(r) \/ (\E c \in BOOLEAN : FinishSync(r, c))
  \/ ReleaseSync(r) \/ ReleaseSlot(r) \/ Loop(r) \/ Rebegin(r)

Environment ==
  \/ \E next \in Configs, l \in Limits : ApplyConfig(next, l)
  \/ \E S \in SUBSET Repos : SyncNow(S)
  \/ \E b \in BOOLEAN : OnHandshake(b)
  \/ \E next \in [Providers -> Creds \cup {None}] : SetProviders(next)
  \/ \E r \in Repos : EnqueueScheduled(r)
  \/ Shutdown \/ StartWait \/ EndWait \/ Exited

Next ==
  \/ Environment
  \/ \E a \in Actors : ActorStep(a)
  \/ \E r \in Repos : RunnerStep(r)

Spec == Init /\ [][Next]_vars

(***************************************************************************)
(* The actors' and runners' goroutines are scheduled, and a sync ends: git *)
(* is killed when its context ends and is bounded by its own timeouts.     *)
(* Nothing external is promised.                                           *)
(***************************************************************************)
FairSpec ==
  /\ Spec
  /\ \A a \in Actors : WF_vars(ActorStep(a))
  /\ \A r \in Repos : WF_vars(RunnerStep(r))

-----------------------------------------------------------------------------
ConfTypes ==
  /\ cfg \in [Repos -> Target \cup {None}]
  /\ bind \in [Repos -> Bindings]
  /\ syncing \in [Repos -> BOOLEAN] /\ started \in [Repos -> BOOLEAN]
  /\ result \in [Repos -> Results \cup {InvalidReplica, None}]
  /\ runs \in [Repos -> Fingerprints \cup {None}]

ProvTypes ==
  /\ cred \in [Providers -> Creds \cup {None}] /\ gen \in [Providers -> Nat]
  /\ providerGen \in Nat

AttemptTypes ==
  /\ attempts \in [Repos -> Attempts \cup {None}]
  /\ attemptSeq \in Nat
  /\ task \in [Repos -> Tasks \cup {None}]

ActorTypes ==
  /\ phase \in [Actors -> {"idle", "start", "enqueue", "launch", "begin"}]
  /\ ids \in [Actors -> SUBSET Repos]
  /\ cur \in [Actors -> Repos \cup {None}]

RunTypes ==
  /\ inflight \in SUBSET Repos /\ rerun \in SUBSET Repos
  /\ pc \in [Repos -> {"off", "acquire", "slotted", "claim", "claimed", "run", "dropping",
                       "finished", "loop", "rebegin"}]
  /\ suspended \in BOOLEAN
  /\ waitCh \in {"none", "open", "closed", "idle", "timed out"}
  /\ events \in Nat
  /\ owed \in SUBSET Repos /\ stray \in SUBSET Repos

CoreTypes == ConfTypes /\ ProvTypes /\ AttemptTypes /\ ActorTypes /\ RunTypes
TypeOK == CoreTypes /\ Slots!TypeOK

(***************************************************************************)
(* Safety                                                                  *)
(***************************************************************************)
\* claimTask's promise: "there is no moment at which a task carries a credential that
\* nothing can revoke".  A sync whose context is still live uses a credential that is
\* in force, whatever reloads and configurations came after it was claimed.
RevokedIsCancelled ==
  \A r \in Repos : Attempting(r) =>
     \/ attempts[r] # None /\ attempts[r].superseded
     \/ InForce(task[r].bind, gen)

\* The defensive branches of claimTask and finishSync are dead: a runner about to
\* claim finds no other attempt and a binding in step with the providers, and a
\* runner that ends finds its own registration.
OneAttemptPerRepo ==
  \A r \in Repos :
     /\ pc[r] = "claim" => attempts[r] = None
     /\ Attempting(r) => attempts[r] # None /\ attempts[r].seq = task[r].seq
     /\ Syncable(r) => InForce(bind[r], gen)

\* What the status says of a repository was said by an attempt on the target and the
\* credential it has now: no stale result survives a reconfiguration or a reload, or
\* is recorded after one.
ResultIsCurrent ==
  \A r \in Repos : result[r] \notin {None, InvalidReplica} =>
     /\ Configured(r)
     /\ result[r] = [origin |-> cfg[r].origin, replica |-> ReplicaURL(cfg[r]),
                     bind |-> bind[r]]

\* A run record is about the origin and replica the repository has now, records of
\* before a restart included: last_success_at never describes another replication.
RunRecordIsCurrent ==
  \A r \in Repos : Configured(r) /\ runs[r] # None => runs[r] = Fingerprint(cfg[r])

\* Somebody will still run r's sync from its claim onwards.
ClaimAhead(r) ==
  \/ pc[r] \in {"acquire", "slotted", "claim", "rebegin"}
  \/ r \in rerun
  \/ \E a \in Actors : r = cur[a] /\ (phase[a] = "begin" \/ (phase[a] = "launch" /\ a # "scheduler"))
  \/ \E a \in {"readLoop", "reloader"} : r \in ids[a] /\ phase[a] # "start"

\* manager: a trigger that arrives while its repository is in flight is "folded into a
\* single trailing rerun rather than dropped (so a refreshed push token is never
\* ignored)".  Until shutdown, every repository handed to enqueue has a claim ahead.
TriggerKept == \A r \in owed : ctxDone \/ ClaimAhead(r)

\* repoState.syncing, "a sync is queued or running" (config.go:91): a status never reports a
\* sync nobody runs.  The code does not keep this: sameSyncIdentity compares the canonical
\* URLs, which are empty while a repository is unbound, so one that is moved to another origin
\* meanwhile keeps the mark of a sync whose end targetMatches then ignores.
SyncingIsInFlight == \A r \in Repos : syncing[r] => r \in inflight

\* What holds: the mark stands for a sync that is queued or running, and last_attempt_at for one
\* that runs, through every reload and reconfiguration but one: a repository that a configuration
\* moves to another origin under its running sync, until a later sync of it ends or is dropped.
MarkFollowsRun ==
  \A r \in Repos \ stray :
    /\ syncing[r] => pc[r] \in {"acquire", "slotted", "claim", "claimed", "run", "dropping"}
    /\ started[r] => pc[r] = "run"

\* A rerun is only ever pending for a repository in flight, whose runner will see it,
\* and every repository in flight has a runner, or an actor about to start it.
InFlightHasRunner ==
  /\ rerun \subseteq inflight
  /\ \A r \in Repos : r \in inflight <=>
        (pc[r] # "off" \/ \E a \in Actors : phase[a] = "begin" /\ cur[a] = r)

\* runOnce holds its slot from acquire to its deferred release on every path, and no
\* other: no path leaks a slot or syncs without one.
SlotWhileRunning ==
  \A r \in Repos :
     /\ pc[r] \in {"slotted", "claim", "claimed", "run", "finished"} => at[r] = "holding"
     /\ at[r] = "holding" =>
           pc[r] \in {"slotted", "claim", "claimed", "run", "dropping", "finished"}

\* Once the daemon's Wait has seen the idle channel close, no sync runs any more: the
\* process exits without leaving a git that holds a credential behind.
IdleAfterWait == waitCh = "idle" => inflight = {} /\ \A r \in Repos : pc[r] = "off"

\* The manager uses the pool as SlotPool expects, so what is proved of the pool holds
\* of it here: acquire only when out, release only when holding.
SlotsSpec == Slots!Spec

\* Every trigger is answered by a claim, or refused, and shutdown drains the runners.
TriggerAnswered == \A r \in Repos : r \in owed ~> (r \notin owed \/ ctxDone)
ShutdownDrains == ctxDone ~> inflight = {}

(***************************************************************************)
(* The inductive invariant behind the theorems of SyncCoreProofs.          *)
(***************************************************************************)
\* A repository's binding always is what the providers in force give it.
BindInStep == \A r \in Repos : bind[r] = BindOf(cfg[r], gen)

\* An attempt is registered from its claim to its end, under its own credential.
Registered ==
  \A r \in Repos :
     /\ attempts[r] # None <=> Attempting(r)
     /\ Attempting(r) =>
           /\ task[r] # None /\ task[r].bind # NoBinding
           /\ attempts[r].seq = task[r].seq /\ attempts[r].bind = task[r].bind
           /\ attempts[r].superseded \/ InForce(task[r].bind, gen)

\* A recorded result is that of a bound repository: an unbound one has no origin to
\* compare, so sameSyncIdentity alone would carry it over.
ResultBound ==
  \A r \in Repos : result[r] \notin {None, InvalidReplica} => bind[r] # NoBinding

\* What an actor is doing: it names a repository between its check and its begin hook,
\* starts at most one runner, which does not run yet, and has nothing left when idle.
ActorsOK ==
  /\ phase["scheduler"] \in {"idle", "launch", "begin"} /\ ids["scheduler"] = {}
  /\ \A a \in Actors :
        /\ phase[a] \in {"launch", "begin"} <=> cur[a] # None
        /\ phase[a] = "idle" => ids[a] = {}
        /\ phase[a] = "begin" => pc[cur[a]] = "off"
        /\ \A b \in Actors : phase[a] = "begin" /\ phase[b] = "begin" /\ cur[a] = cur[b] => a = b

\* Where a runner may be while the pool has it out, waiting or holding.
SlotPlaces ==
  \A r \in Repos :
     /\ at[r] = "leaving" => ctxDone
     /\ pc[r] \in {"slotted", "claim", "claimed", "run", "finished"} => at[r] = "holding"
     /\ pc[r] \in {"off", "loop", "rebegin"} => at[r] = "out"
     /\ pc[r] = "dropping" => at[r] \in {"out", "holding"}
     /\ pc[r] = "dropping" /\ at[r] = "out" => ctxDone
     /\ pc[r] = "acquire" => at[r] # "holding"

\* From the moment the daemon waits, nobody starts a sync.
WaitOK ==
  waitCh # "none" => /\ ctxDone
                     /\ \A a \in Actors : phase[a] = "idle"
                     /\ waitCh \in {"closed", "idle"} => inflight = {}

IInv ==
  /\ CoreTypes /\ BindInStep /\ Registered
  /\ ResultIsCurrent /\ ResultBound /\ RunRecordIsCurrent
  /\ ActorsOK /\ InFlightHasRunner /\ SlotPlaces /\ WaitOK /\ TriggerKept
=============================================================================
