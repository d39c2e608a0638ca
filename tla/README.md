# Verification of mkonnect

mkonnect is an on-premises connector. Its first process (`cmd/mkonnect`) keeps an outbound
connection to a platform and carries HTTP requests to internal tools. Its second process
(`cmd/mkonnect-gitsync`) keeps mirrors of internal git repositories and pushes them to a replica.
This directory holds TLA+ models of the program, the TLC runs that check them on small instances,
and proofs that TLAPS checks for every instance. `PROJECT.json` lists components, runs, mutants,
the line map from definitions to source, findings, hazards and theorems.

Contents: [inventory](#inventory), [plan](#plan), [modules](#modules), [runs](#runs-and-bounds),
[fairness](#fairness), [proofs](#proofs), [findings](#findings),
[seen while modelling](#seen-while-modelling), [limits](#what-is-not-modelled).

## Inventory

Paths are below `src/internal`. "Hard" names what a unit test would hardly reach.

| Part | State | Operations | Hard |
|---|---|---|---|
| Slots, `gitsync/slots.go` | limit, held count, queue of waiters | acquire, abandon, release, resize | a grant racing the end of a context; a resize with waiters |
| Manager, `gitsync/manager.go` | in-flight set, rerun set, idle channel | enqueue, launch, runRepo, runOnce, drain | triggers during a run; early returns; the wait to exit |
| Attempts, `gitsync/attempts.go` | one registered attempt per repository | claimTask, endAttemptLocked | a credential rotated around a claim |
| Configuration, `gitsync/config.go` | repositories with target, binding, result, syncing mark; run records | applyConfig, rejectConfig, reconcileRunsLocked | results of syncs that end after a change |
| Providers, `gitsync/providers.go`, `providerswap.go` | credentials and their generations | setProviders | rebinding while syncs are queued, claimed, running |
| End of a sync, `gitsync/client.go` | as above | startAttempt, finishSync, releaseSync | three locks, taken one after the other |
| Scheduler, `gitsync/scheduler.go` | an entry per repository: base, draw, failures | reconcile, poll, dispatch, completed, admitManual | stale reads before the lock; suspensions; backoff |
| Gates, `gitsync/providergate.go` | a gate per refused credential, a pass per repository | arm, succeeded, beginProbe, claim, retain | late reports; a lock of its own inside a poll |
| Mirror cleanup, `gitsync/gc.go` | marks and trash on disk; last-configured times in memory | sweep, mark, claim, remove | syncs and configurations during a sweep; restarts |
| One sync, `gitsync/sync.go`, `pushbatch.go`, `classify.go` | the mirror; a plan of pushes | updateMirror, pushStage, planPush, splitConflicts, partitionBatches, pushOnce | partly pushed batches, names in each other's way, expiring tokens, a mirror left by a crash |
| Reload, `gitsync/reload.go`, `configload.go`, `localfile.go` | applied, pending and bad digests | sight, confirm, forced, decide | files that change between two reads, and within one |
| Run state, `gitsync/runstate.go`, `client.go` | records in memory, a file, a dirty flag, a timer | recordAttempt, markRunsDirty, trailingSave, flushRuns, save, stopRunSaves, load | a failed write against timer and shutdown; two saves at once; a crash in a save |
| Status, origin check, `gitsync/status.go`, `originprobe.go` | last result, epochs | notifyStatus, maybeProbe | a probe overtaken by a connection or a reload |
| Gateway, `gateway/gateway.go`, `auth/keystore.go` | connection, key file | Connect, register, reconnect, drain | a used token with no saved key; a connection that dies silently |
| API connector, `ws/client.go` | worker semaphore, in-flight count, status cache | HandleMessage, OnDraining | requests that outlive a drain and their connection; a status signal taken by the wrong goroutine |
| Plugin handler, `plugin/handler.go`, `creds/store.go` | client cache by generation; credentials in memory and on disk | request, clientFor, Reload, command line | a reload during a request; a SIGHUP during a reload |
| Pure data handling | none | URL pin, redaction, parsing, preflight, CLI | none: sequential |

How they interact. The gateway's read loop calls the git-sync client for each message: a
configuration is applied, then reconciled with the scheduler, then noted for the cleanup, then its
repositories are enqueued. The reloader calls `setProviders`, which rebinds, cancels, reconciles
and enqueues. The scheduler's goroutine enqueues what is due. The manager runs one goroutine per
repository in flight, which takes a slot, claims a task under `Client.mu` (asking the gates), syncs
and reports to the client and the scheduler. The cleanup loop holds `manager.mu` from its last look
at the syncs until a mirror is moved away, and inside it takes `Client.mu` for its look at the
configuration only, so that another one may be accepted between that look and the move. `Client.mu`, `manager.mu`, `scheduler.mu`, the gates' lock and
the pool's lock are separate, so almost every operation is several steps with gaps in between.
Those gaps are what the models are about.

A sync that ends is recorded in memory and, by its own goroutine, a timer or `Wait`, in a file. The
API connector is simpler in its locks and harder in its lifetimes: its goroutines (requests, tests,
status, heartbeat, SIGHUP) outlive the connection that started them.

What makes each part correct: the pool never over-grants and never stalls; a revoked credential
is not used by a live sync; what is reported is about the present target; no trigger is lost and
exit leaves nothing running; a refused credential is held back, and a failed repository waits; a
mirror in use is never removed, one is moved away only if it was seen to be an orphan, and every
orphan eventually is. A sync deletes nothing before
everything else has arrived, and what is recorded as a success was one; the file catches up with
memory and never goes back. A changed configuration is put in force if it holds, and only then. A
registration token is not spent for nothing; an accepted request is answered; the platform learns
the status. A request is sent with the parts of one credential entry, and its error marker is true.

## Plan

1. `SlotPool`, `SyncCore` and their proofs: the core. *Done.*
2. `Scheduler` with the gates, `MirrorGC`, both with proofs. *Done.*
3. `Reloader`: look, settle, confirm, SIGHUP, with a proof. *Done.*
4. `SyncAttempt` (fetch and push) and `RunState` (the state file), composed in `SyncRun`, with
   proofs. *Done.*
5. `Gateway`, composed with the API connector in `Connector`, with proofs. *Done.*
6. `Forwarding`: requests, credential store, client cache, with proofs. *Done.*
7. Every invariant and action property that a run checks is stated by a theorem, and so is type
   correctness. *Done.*
8. Abstract specifications: `SlotPool` inside `SyncCore`, `Gateway` inside `Connector`, and
   `Replication`, the promise for one repository, which `SyncRun` implements. *Done, with proofs.*

## Modules

`SlotPool` is `slots.go`. Each operation holds the pool's mutex throughout and is one action. A
caller is `out`, `waiting` in its select, `leaving` (it saw the context end and is about to
abandon) or `holding`. `granted` are the waiters whose channel is closed and who have not seen it.

`SyncCore` is the manager, the attempt registry, the configuration, the provider swap and the end
of a sync; it instantiates `SlotPool` with the repositories as callers. Three actors start syncs
(read loop, reloader, scheduler), each with a phase; each repository has at most one runner, with
a program counter. A step is one hold of one lock. URLs and credentials are model values; a target
is an origin, a replica (or none) and whether the token is usable; a binding is a provider and the
generation of its credential. A sync's git work is the interval between `StartAttempt` and
`FinishSync`, which ends cancelled only if something cancelled it. The history variable `owed` holds
the repositories whose trigger has not reached a claim, `stray` those whose syncing mark was carried
to another origin. Whether the gate admits a
claim is a free choice here.

`Scheduler` is `scheduler.go` and `providergate.go`, with the manager reduced to what they see of
it. Due times are countdowns, so behaviours are unbounded. A poll holds `scheduler.mu` from
`PollBegin` to its end but the gates are asked step by step, so claims, requests and releases
interleave with it; `Configure` and `ReloadProviders` are followed by `ReadRepos`, `Reconcile` and
`StartSyncs` of the same actor. The origin (external) accepts or refuses a login; an attempt's
outcome follows from its login. `fresh` stands for the comparison of an attempt's start with the
time of the last refusal. Jitter is a choice within a bound. `lastBy`, `refusedLast`, `holdOff`
and `overwritten` (repositories whose entry a reconcile replaced with an older reading while their
last failure still forbade a retry) are history.

`MirrorGC` is `gc.go` with the read loop's part, the syncs as far as they touch the directory (a
sync initialises it, rebuilds a corrupt one, removes one whose first fetch failed) and restarts.
Times are ages, `outdated` and `noted` stand for comparisons with `lastConfigured`. The claim is
three steps, since only its look at the syncs and the move share a lock: `Claim` (no sync is in
flight, cleanup is allowed), `StillOrphaned` (the configuration in force does not list the mirror)
and `MoveToTrash`. In between, configurations are accepted or rejected but no sync begins or ends
(`Claiming`). `against` is history: what has spoken against the move at every moment of the claim.
File operations may fail. A sweep takes no time on the scale of the grace period.

`SyncAttempt` is `sync.go` and `pushbatch.go`: one action per git process, with the checks before
it and what is made of its end after it. Origin, mirror and replica are tables from ref names to
commits. Git is external: a fetch copies the origin's table; a push moves the replica towards the
mirror, entirely, in part (it failed or was killed), or not for the refs whose names are in the way
of what the replica holds. Ref names are model values with the three relations the code looks at:
`Under` (one is a directory of the other), `Shadowing` (one makes the other ambiguous) and `Length`.
The refs of a plan are sorted, so a plan is sets of refs, and the loop of `partitionBatches` is a
recursive function over the names in order.
Every failure of git is one of the classes `classifyGitFailure` tells apart. `fetched`, `before`,
`clean` and `current` are history. A cancellation, an expired token, a change of the origin or a
crash may come at any step.

`RunState` is the state file with the part of `client.go` that saves it. The goroutine of the sync
that ended, the timers and `Wait` each have a place in `markRunsDirty`, `flushRuns` and `save`. A
record is the attempt it is about and the last attempt that succeeded; one record stands for the
map, since it is always written as a whole. `file` is what a reader sees, `durable` what the last
directory sync secured (whatever the file then is): a restart after a crash of the machine may find
either. `SyncRun` composes the two: `FinishSync` records what an attempt ended with.

`Replication` is the abstract specification of that composition, in ten actions and without mirror,
plan, batches, tokens, failures, timers or locks: an attempt begins, learns what the origin holds,
moves refs of the replica to that and to nothing else, and ends with a record or without one; an
attempt is recorded once, and as a success only when the replica is what was advertised; the file
follows memory and never goes back, is secured, is damaged, and is what a restart finds. `SyncRun`
instantiates it (`Promise`) with `fetched` as the advertisement and `runs` as memory.

`Reloader` is `reload.go` with the reads of `configload.go` and `localfile.go`. A read is two steps,
the provider file (`Tick`, `Settle`, `TakeHup`) and the token file it names (`FinishRead`), and the
files may change before, between and after. A text of the provider file is whether it decodes and,
per provider, an inline token, a reference to the token file, an invalid entry or none. A digest is
what was read of each file. `inForce` is what `apply` was given, so its effect is `SyncCore`'s
`SetProviders`.

`Gateway` is `gateway.go` and `keystore.go`: the phases of `Run` and `Connect`, the key file, the
token and the gateway's answers. `spoiled` is history: a fault hit a registration between the check
of the key directory and the save, which nothing can repair. `Connector` extends it with
`ws/client.go`. `old` are the goroutines whose connection has ended; `wait` the goroutines in
`inFlight.Wait`, of which a drain that timed out leaves one behind; a `sync.WaitGroup` that is
reused before such a goroutine has run panics, which is a restart. A status is a version number,
which a reload and a finished test increase; `told` is the last one written to the connection. The
work of a request or a probe is one step, `Work`: which address and credential a probe tries and
what comes back is data, and it touches no state of the client before its end.

`Forwarding` is `handler.go` and `store.go`, with the command line that writes the credentials file
and the SIGHUP goroutine that reads it. A request is the steps between which something else can
happen: `Resolve` (the one `store.Get`), `Build` (every check, then the generation), `ClientFor`
(the cache's lock), `Send`, `Answer`. `client.Do` is not one attempt: net/http sends a request again
by itself when the kept-alive connection it was written to turns out dead and the request is
replayable (a safe method, or one with an `Idempotency-Key`; its body can be rewound). `Replay` is
that step: back to `Send`, with what was sent kept. Headers and query parameters are the kinds the code tells
apart. `Reload` holds the store's lock while it reads the file, so no request reads the store
meanwhile.

`MC*` modules give the constants their values; `*Proofs` modules hold the theorems. Definitions
marked `(mutant)` are faulty variants used to test the properties: putting the variant in place of
the definition after it breaks the property that `PROJECT.json` names.

## Runs and bounds

| Run | What it shows | Instance |
|---|---|---|
| `slot_pool` | held slots are owned, no stalled waiter, arrival order, no grant over the limit, every wait ends | 4 callers, limits 0, 1, 3: one resize can serve several waiters |
| `sync_one_repo` | revocation, current results and records, marks follow runs; triggers are answered, shutdown drains | 1 repository, 2 credentials, 2 origins, 6 targets, old run records, 4 events |
| `sync_origin` | violated: a repository is marked as syncing only while its sync is in flight ([findings](#findings)) | the same with 1 credential and 3 events |
| `sync_two_repos` | triggers kept, exit | 2 repositories, limits 1 and 2, 3 events |
| `sched_gate` | a recorded refusal keeps the gate | 2 repositories on 1 credential |
| `sched_backoff` | no pass outlives its gate; the backoff floor holds, but for a stale reconcile | 1 repository, 2 credentials of which the origin may come to refuse one, 1 configuration and 1 reload in any order, suspensions, requests for it and for all; interval 1, cap 2 |
| `mirror_gc` | a sync keeps its directory, a configured mirror is not taken; orphans and trash go away | 2 mirrors found on the disk with any marks: `m1` comes and goes and has a provider, `m2` is configured whenever anything is; an empty configuration; 3 configurations, 1 restart |
| `sync_run` | deletes come last, batches, a clean run succeeds, true records, nothing forgotten; all of it implements `Replication` | 5 refs with a directory conflict, a shadow and two lengths; 3 tables; batches of 2 refs; 3 attempts, 1 change of the origin, 2 faults, 2 timers |
| `reloader` | two sightings, files win, SIGHUP wins | 2 providers, 3 texts, 2 tokens, 3 edits, 1 SIGHUP |
| `reload_gone` | violated: a deleted file is revoked ([findings](#findings)) | the same with 2 edits and no SIGHUP |
| `connector` | token kept, drain, limit, answers, status, reconnection | 2 requests and a test, 1 worker, 1 drain, 1 SIGHUP, 1 fault |
| `forwarding` | one entry per request, current bundle, true markers, reload | 1 plugin, 3 kinds of entry, 2 requests of which the transport may replay one, 1 edit, 1 rotation, 2 SIGHUPs |

Why these bounds are enough for the cases of interest: an event of `SyncCore` is a configuration, a
request, a handshake, a reload or a scheduled start; the known races need one to queue a sync and
two or three more to disturb it. Repositories interact only through the slots, for which two
repositories and one slot suffice, and through the in-flight set. A gate needs two repositories for
one to overtake the other. The backoff is one repository's; the two actors that reconcile, one
reading each, are enough for the older reading to be installed last. Jitter is zero in the
scheduler's runs, which makes due times the earliest the backoff allows, and arbitrary in the
theorems. `sched_backoff` tells states apart by a view: it leaves out `wasSuspended`, which without
jitter changes nothing, and two history variables that its invariants do not read. A sweep needs a
configuration that leaves a mirror out, and two more that bring it back and leave it out again;
three may also fall between the claim's look and its move. With `Grace = 1` a mark is either young
or due. Mirrors meet only in the order a sweep visits them, and the safety properties are proved for
any number. Two batches and a final push, with one conflict of each kind, need five refs; the second
and third attempt meet what a failed or killed first one left at the replica, in the mirror and in
the file. Three edits make a file change, go back or go missing around one look and one
confirmation. One worker makes the second request or the test meet the limit; one fault is enough
because after it the connector is in a state the initial ones do not have (a used token, a request
of an ended connection), and the crash and the network fault are not bounded apart. Two SIGHUPs let
the second fall into the first one's reload, and two requests let one move the cache on while the
other holds an older generation.

Counters are bounded in the guards: `MaxEvents`, `MaxConfigs`, `MaxReloads`, `MaxRestarts`,
`MaxAttempts`, `MaxEdits`, `MaxRotations`, `MaxHups`, `MaxDrains`, `MaxFaults`, and `MaxFailures`
(the failure count saturates).

Four properties name an exception that the code has and a comment may not: `MarkFollowsRun` the
repositories in `stray` (first finding), `BackoffKept` those in `overwritten` (third finding),
`MarkerIsTrue` a replayable request and `ConfiguredKept` a configuration that comes after the
claim's look (items 10 and 9 of [seen while modelling](#seen-while-modelling)). Without its
exception each is refuted by TLC on the same instance.

Deadlock is checked in the passing runs, except `connector` and `forwarding`, where the process may
stop and the requests and edits run out. Type invariants (`TypeOK`, `RunTypeOK`) document the state
and are what the proofs start from; they are not listed as results of runs.

## Fairness

* `SlotPool`: each caller that waits or holds goes on (goroutines are scheduled; syncs end).
* `SyncCore`: weak fairness of each actor's and each runner's steps. A sync ends because git runs
  under timeouts and is killed with its context. Nothing external is promised.
* `Scheduler`: none. That a gate opens again while the origin accepts the credential is not claimed:
  a turn goes to whichever repository is due, which may be suspended, unlisted or fail for a reason
  of its own, a refused run drops a pass granted meanwhile, and nothing in the code makes this stop.
* `MirrorGC`: weak fairness of sweep, read loop and syncs; strong fairness of the file operations
  that may fail: one that is tried again and again succeeds some day.
* `Connector`: weak fairness of every goroutine's next step: upstream calls, drains and handshakes
  have timeouts, the heartbeat ticks, the gateway answers. Faults, messages, signals and a repaired
  disk are not fair, so `Connects` excepts a connector that only an operator can help, from some
  point on for good (`[]Stranded`): a first registration is in that state for a moment, between the
  use of the token and the save of the key, and is not excepted.
* `Reloader`: weak fairness of tick, settle timer and read; strong fairness of taking a SIGHUP, as
  `select` does not pass over a ready channel for ever.
* `Forwarding`: weak fairness of the SIGHUP goroutine and of each request.

## Proofs

Every invariant, every action property and every refinement that the passing runs check is also a
theorem, for every value of the constants. Each proof is an inductive invariant, which TLC checked
on the run's instance first, with one lemma per action or group of actions.

**`SlotPoolProofs`**: for any finite set of callers and any limits, the count equals the owners
(`SlotsCounted`), no waiter is queued beside a free slot (`PoolInvariant`), no step grants over the
limit (`PoolWithinLimit`) and service is in arrival order (`PoolArrivalOrder`). The invariant needs
that the queue has no duplicates and holds exactly the callers that wait ungranted (`QueueOK`),
without which removing an element or serving a prefix says nothing about the owners.

**`SyncCoreProofs`** first shows that the core uses the pool as specified (`CoreUsesPool`: every step
is a step of `SlotPool` or leaves it alone), so the pool's theorems hold inside it. Then it proves
the inductive invariant `IInv` (also small enough to be checked by TLC), from which follow
`CredentialsRevocable`, `ResultsCurrent`, `RunRecordsCurrent`, `TriggersKept` and `CleanExit`. Its
parts: bindings are in step with the providers; an attempt is registered exactly from claim to end,
under its own credential, cancelled or in force; a result belongs to a bound repository (an unbound
one has no canonical URL, so the identity test alone would carry a result to another origin); where
an actor is says what it names and whose runner does not run yet; where a runner is says whether it
holds a slot; from the moment the daemon waits nobody starts a sync.

`MarksAreTrue` proves `MarkFollowsRun` for any configurations and reloads: a mark that was not carried
to another origin stands for a sync that is queued or running, a start for one that runs. Its
invariant `MarkInv` says that a runner with an attempt finds the marks of its own target or none, so
its end clears them. The claim of the comment, without the exception, is the finding `sync_origin`.

**`SchedulerProofs`** proves `PassesHaveGates` and `RefusalsKeepGates` for any repositories, targets,
credentials and intervals and any number of configurations and reloads, and the types. A poll asks
the gates step by step, so the invariant has to say what it remembers from one step to the next:
`PollInv` (what it works on is due) and `ProbeInv` (while it has picked a probe, the gate is there
and so is the gate of the pass that an undo would put back; without it the undo could bring back a
pass without a gate). `FreshInv` relates the attempts under way to the last refusal: a login by an
attempt that began after the gate was armed came after the refusal, so its success may open the
gate. `BackoffIsKept` holds for any configurations and reloads, in any order of the two reconciles.
Its invariant `HoldInv` says that the entry of a failed repository is about its present target and
waits at least as long as the failure asks; a reconcile that would break it has read another target
than the present one, which is what puts the repository into `overwritten`.

**`MirrorGCProofs`** proves `SyncKeepsMirror` (with the types, as one invariant) and
`ConfiguredMirrorsKept`, an action property. `ClaimIsSafe` carries both through the three steps of a
claim: no sync of the mirror is in flight from the first on, because both hold `manager.mu`; what
still speaks against the move has done so at every moment since, and when the claim has passed its
look at the configuration nothing does, whatever is accepted later.

**`SyncRunProofs`** has four parts, for any refs, tables, batch limits and trailing timers and any
number of attempts and faults.

* The file: `RecordsAreSaved` (`NothingForgotten`) and the types. The
  invariant `RunInv` adds that one goroutine holds `writeMu`, that a snapshot overtaken while it is
  written will be followed by another (`Overtaken`: without it a rename could leave memory ahead of
  the file with nobody bound to write it), and how old memory, file and snapshots may be (`Ages`).
* The record: `SuccessIsTrue` (`RecordIsTrue`) rests on `AttemptInv`: from fetch to last push the
  mirror is what the origin advertised to this attempt, so the final push, which asks for every ref,
  leaves the replica equal to it.
* The pushes: `BatchesSound`, `DeletesAreLast` and `CleanRunsSucceed`. What the loop of
  `partitionBatches` makes of any refs is proved by induction. The library's induction theorems take
  an operator and cannot be instantiated here, so `SetInduction` restates induction for a set of
  naturals, from the well-foundedness of `<`; with it `CutsDef` and `SizesDef` show that the
  recursive functions exist and satisfy their equations, and `PartitionGood` is the loop invariant
  (`CutInv`: the batches so far, closed, are full, within both bounds, in order, and hold the names
  passed so far that were to be pushed and no other). `PushInv` then follows the attempt: until its
  pushes the replica is as it was; during them no ref is gone, none is there that neither end had,
  and the batches that were pushed have arrived. From that, the conflict test and the fact that no
  end holds both `x` and `x/y`, git never has to refuse a batch (`BatchesAccepted`).
* The refinement: `PromiseKept` (`KeepsPromise`) shows step by step that `SyncRun` implements
  `Replication`. Besides the invariants above it needs where an attempt is to say what it knows
  (`StageInv`: nothing was advertised before the fetch, an attempt under way is not recorded, one
  that ended well left the replica as advertised) and the ages of the last success on its way from
  memory through a snapshot to the file (`SuccessAges`; `Ages` has only those of the last attempt,
  and a record is older if either is). A push maps to a step that moves each ref to its advertised
  commit or leaves it, because the mirror is the advertisement; a rename maps to `Save` because a
  snapshot is taken under `writeMu`; what fails, waits, plans or marks maps to a stutter.

**`ReloaderProofs`** proves `ConfirmedTwice` (`HeldTwice`) for any providers, texts and tokens and any
edits, between the two files of a read too. The invariant `SightInv` says that the credentials of
the sighting are those its digest stands for; that a digest determines the credentials whenever
both reads are usable is `BundleStore`. From the same lemma, `DigestsSuffice`: a usable read that is
taken for no change gives exactly the credentials in force, which is what `sight`, `confirm` and
`forced` assume when they compare digests only. `PausesEnd`: the polls are never off without the
settle timer. `ReloaderTypes`: what is in force is the outcome of a usable read; its core is that
the two passes leave a provider a token, the inline credential or none (`EntriesType`).

**`ConnectorProofs`** proves `TokenNotWasted` (`TokenKept`), `RefusalsAreDue` (`RefusedAtLimit`) and
`DrainsAnswer` (`DrainAnswers`). `TokenInv` needs that a directory that cannot be written during a
registration failed after its check, and that a registration that begins with a used token was lost
by an earlier fault. `JobInv` counts: the semaphore has one token per goroutine of any connection,
the wait group one per request, and a drain admits no new one, so a released wait means zero.
`ConnectorUsesGateway` shows that the connector implements `GatewaySpec`, the connection by itself.
`ConnectorTypes` adds `StatusInv`: the status moved on at most once per SIGHUP and per test that
reported (a bound, not an equality, since a refused or killed test ends without a report).

**`ForwardingProofs`** proves `SentFromOneEntry` (`SentAsConfigured`), `BundlesCurrent`, `MarkersTrue`
and the types. The invariant `FInv` follows a request step by step (`Gathered`: what it holds is of
the one entry it resolved), bounds the ages of cache entries and requests by the store's generation
(`CacheAge`: a client built under an older generation is never put into a newer cache), and the
generation by the signals. `Told` and `ReplayInv` follow what was sent through a replay: a request
that has reached the provider and is ready to be sent again is a replayable one.

Assumptions are those named in the modules: finiteness of callers and repositories, limits that are
naturals, that the value `None` is none of the others, that the ref names are listed once each, that
no file content is the absence of a file, that a credential is not the name of a plugin, and that the
trailing timers are neither the sync's goroutine nor `Wait`'s, that a damaged file is no record and
that no table of refs is `None`.

Only model-checked: all liveness (`EveryWaitEnds`, `TriggerAnswered`, `ShutdownDrains`,
`OrphanCollected`, `TrashEmptied`, `RequestAnswered`, `StatusSettles`, `Connects`, `ReloadApplies`,
`FileWins`, `HupWins`). Reasoning under fairness is out of this prover's reach.

## Findings

`sync_origin`: a syncing mark that no sync clears. `config.go:91` declares `syncing` as "a sync is
queued or running". A reload removes a repository's provider while its sync runs, and a configuration
then moves it to another origin. `sameSyncIdentity` (`config.go:139`) compares canonical URLs, which
are empty in both states because the repository is unbound, so the mark is carried over; the ending
sync compares the origin URL (`targetMatches`, `client.go:699`), finds that it is not its own, and
leaves the mark. As long as the repository is unbound, the status says that its host is not
configured, with the old `last_attempt_at`. Once a reload binds it again it is reported as syncing
though nothing is queued or running, and `setProviders`, which takes it for queued
(`providerswap.go:46`), starts no sync. Only another sync of it clears the mark.

`reload_gone`: a provider file that is deleted after it was unreadable is never noticed. `reload.go`
says that a missing file "is the one change that fails closed: after the settle the configuration is
empty, every credential is revoked". A file that is refused and one that is missing leave the same
source (`configload.go:131`) and so the same digest. An unreadable file is sighted, confirmed and
remembered as bad; when it is then deleted, `sight` takes it for the same, and the credentials stay
in force until a SIGHUP, another change or a restart. `FileWins` therefore excepts a digest that is
remembered as unusable; `HupWins` has no exception.

A token file has the same two cases, with different effects (a provider whose token file is missing
is dropped, one whose token file is refused keeps the last good configuration in force) and again
one digest: when a refused token file is deleted, the change waits for a SIGHUP in the same way.

A third disagreement is kept as the exception of a passing property rather than as a run of its own:
the comment of `reconcile` (`scheduler.go:144-146`) says that a repository "whose target is unchanged
is left exactly as it was, including any backoff". `reconcile` reads the repositories
(`scheduler.go:148`) before it takes the scheduler's lock, and both the read loop and the reloader
call it. The older of two readings may be installed last; it replaces the entry, and the one a later
configuration of the same target brings starts without the backoff, so a repository that has just
failed is due early. `BackoffKept` without `overwritten` is refuted by exactly that (`sched_backoff`),
and `BackoffIsKept` proves that nothing else resets a backoff.

## Seen while modelling

Disagreements between code and comments, or weak points, that the models have and that limit what
can be claimed of them. The first three were each reached by TLC in these models.

1. A lost resync (`providerswap.go:46`; line 20 promises "one sync"). `setProviders` takes a run
   that was just refused for one that is still queued.
2. Two probes at once (`providergate.go:151`; line 38 says "one repository is given a pass"). The
   undo of a probe that could not be dispatched reopens the turn although an already queued run
   used the pass.
3. The grace period is lost over a restart (`gc.go:490`), because what recognises an old mark is in
   memory only.
4. `Wait` (`client.go:708`) stops the timer of a trailing save but does not join one that has
   fired: `main` may return while it writes. The file stays whole, since it is renamed, but the
   records of that save can be missing (`Exit` in `SyncRun`).
5. `KeyStore.Save` renames without syncing the file, so a crash of the machine can lose a key whose
   token is used up.
6. The API connector's drain is for `going_away` only; on SIGTERM `Run` returns at once.
7. Two runs of the command line that write the credentials file at once lose one of the changes.
8. A refused run drops the pass that a request was admitted with after the refusal
    (`client.go:493`).
9. A mirror can be taken just after its repository was configured again (`gc.go:586-596`,
   `gc.go:691-698`): the claim gives `Client.mu` back after its look at the configuration, and
   `applyConfig` needs no other lock, so a configuration may come between the look and the rename.
   The comment (`gc.go:679-686`) promises only what holds: no sync starts in between, and one that
   starts afterwards makes a fresh mirror. The cost is a full clone.
10. `upstream_unreachable` can be given to a request that reached the provider. `errorcodes.go:24-31`
    lists it under "no write can have happened" and the repository's `README.md:65` says that the
    request was not forwarded, while `errorcodes.go:39-40` says "almost certainly". When a kept-alive
    connection dies after a replayable request was written to it and the second dial is refused,
    `transportErrorCode` (`handler.go:331`) sees only the failed dial. Such a request is one that may
    be repeated, so no write is done twice by it; a `POST` without an idempotency key is sent again
    only if nothing of it was written (`handler_contract_test.go:43-52`).

## What is not modelled

The status messages and the origin check of the git-sync daemon (`status.go`, `originprobe.go`): a
probe's result is compared with the connection's and the providers' counters and stored in one
critical section, and a status is built and sent under one lock; what is left is the contents of a
message. The LFS search, which comes after a successful push and can only add a warning.

In `Scheduler`, a change of the interval while entries wait; time during a poll stands still. In
`MirrorGC`, a wrong clock, and entries that are not real directories. In `SyncCore`, the field
validation of a message, and the status notifications that follow a change. In `SyncAttempt`, the
contents of commits (a fetch is all or nothing, which git guarantees per ref and the code relies on
for the whole), and a second repository, which shares nothing but the disk. In `SyncRun`, a `Wait`
that gives up before the syncs have ended. In `Gateway`, how long a retry waits (the backoff is
reset only by a connection that ended cleanly). In `Forwarding`, path confinement, the comparison
of an answer with a credential's representations, and timeouts as durations: each is one outcome.

Not at all: URL and host comparison, redaction, parsing, file modes other than the provider file's,
preflight, one-shot commands and message types: sequential, without state of their own, and better
tested than modelled.
