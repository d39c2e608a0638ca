------------------------------ MODULE Scheduler ------------------------------
(***************************************************************************)
(* The periodic resync scheduler (scheduler.go) and the gates that hold    *)
(* back every repository of a credential the origin refused                *)
(* (providergate.go).  scheduler.mu is held for a whole poll, a reconcile  *)
(* and a completion, but the gates have a lock of their own, so claims,    *)
(* manual requests and released passes happen in the middle of a poll.     *)
(*                                                                         *)
(* Times are kept relative: a countdown instead of a due time, so that     *)
(* behaviours are unbounded and the state is not.  The manager is reduced  *)
(* to what the scheduler sees of it; module SyncCore has the rest.         *)
(***************************************************************************)
EXTENDS Integers, FiniteSets

CONSTANTS Repos,
          Keys,         \* sync targets (targetKey)
          Binds,        \* provider credentials (binding)
          BindOf,       \* the credential of a target
          Wanted,       \* what the repositories that can be synced may be
          Requests,     \* what git_sync_now may name: repositories, "all"
          Suspensions,  \* critical_patch_required values the handshakes carry
          Accepting,    \* what the origin may make of each credential
          Interval,     \* effectiveInterval
          Cap,          \* backoffCap
          Gap,          \* manualPassGap
          Jitter,       \* bound on what jitter, stagger and spread add or take
          MaxFailures,  \* bound on the failures counted
          MaxConfigs,   \* bound on the configurations after the first
          MaxReloads,   \* bound on the provider reloads
          None

ASSUME SchedulerAssumption ==
  /\ None \notin Keys \cup Binds \cup Nat
  /\ BindOf \in [Keys -> Binds]
  /\ Wanted \subseteq [Repos -> Keys \cup {None}]
  /\ Interval \in Nat \ {0} /\ Cap \in Nat /\ Gap \in Nat /\ Jitter \in 0..(Interval - 1)
  /\ MaxFailures \in Nat \ {0} /\ MaxConfigs \in Nat /\ MaxReloads \in Nat
  /\ Suspensions \subseteq BOOLEAN /\ Accepting \in [Binds -> SUBSET BOOLEAN]
  /\ Requests \subseteq Repos \cup {"all"}

VARIABLES
  \* Client: what can be synced (schedulableTargets); bindings no repository gets again
  want, retired, suspended,
  \* scheduler, guarded by scheduler.mu
  entries, wasSuspended,
  \* providerGates, guarded by its own mu
  gates,        \* time left until the gate lets one repository try, or None
  passes, manual,
  \* the polling goroutine, which holds scheduler.mu from "each" on
  poller, todo, halfOpen, probe, undo,
  \* the read loop and the reloader, and the request the read loop is serving
  phase, snapshot, resync, req, configs, reloads,
  \* the manager and its runners
  pc, rerun, task, outcome,
  fresh,        \* the attempt began after the gate of its credential was last armed
  \* the origin
  accepts,
  \* history
  lastBy,       \* whose login with the credential was the latest
  refusedLast,  \* that login was refused and the refusal has been recorded
  holdOff,      \* time left in which the repository's last failure forbids a retry
  overwritten   \* repositories whose entry a reconcile has since replaced with an older reading

clientVars == <<want, retired, suspended>>
schedVars == <<entries, wasSuspended>>
gateVars == <<gates, passes, manual>>
pollVars == <<poller, todo, halfOpen, probe, undo>>
recVars == <<phase, snapshot, resync, req, configs, reloads>>
runVars == <<pc, rerun, task, outcome, fresh>>
histVars == <<lastBy, refusedLast, holdOff, overwritten>>
vars == <<clientVars, schedVars, gateVars, pollVars, recVars, runVars, accepts, histVars>>

Greater(a, b) == IF a > b THEN a ELSE b
Lesser(a, b) == IF a < b THEN a ELSE b
Down(t) == IF t = None THEN None ELSE Greater(t - 1, 0)

\* How long a credential stays gated after a refusal.
Tier == Greater(Interval, Cap)

\* backoffFloor after f failures, the last of which was the credential's.
BackoffFloor(f, credential) ==
  IF credential THEN Tier ELSE Greater(Interval, Lesser(Interval * 2^(f - 1), Cap))

\* due is measured once per base: delay's three cases, each with its jitter.
FailureDelays(f, credential) ==
  BackoffFloor(f, credential)..(BackoffFloor(f, credential) + Jitter)
FirstDelays == Interval..(Interval + Jitter)
SuccessDelays == (Interval - Jitter)..(Interval + Jitter)

\* due: wait is what is left of base plus delay, notBefore what is left of a resume's spread.
Entries == [key : Keys, wait : 0..(Tier + Jitter), notBefore : 0..Jitter,
            failures : 0..MaxFailures, credential : BOOLEAN]
Actors == {"readLoop", "reloader"}

\* Results: a refusal of the credential itself, another error that only a person can mend
\* (an expired push token), any other error, success.
Outcomes == {"ok", "refused", "denied", "error"}

ASSUME NoneAssumption == None \notin Entries \cup Outcomes \cup {"in"}

\* The repositories w lets sync, and the credential each uses.
Listed(w) == {r \in Repos : w[r] # None}
CredOf(r) == BindOf[want[r]]
Uses(w) == {BindOf[w[r]] : r \in Listed(w)}

\* The first configuration has just been accepted.
Init ==
  /\ want \in Wanted /\ retired = {} /\ suspended = FALSE
  /\ entries = [r \in Repos |-> None] /\ wasSuspended = FALSE
  /\ gates = [b \in Binds |-> None]
  /\ passes = [r \in Repos |-> None]
  /\ manual = [r \in Repos |-> 0]
  /\ poller = "idle" /\ todo = {} /\ halfOpen = {} /\ probe = None /\ undo = None
  /\ phase = [a \in Actors |-> IF a = "readLoop" THEN "read" ELSE "idle"]
  /\ snapshot = [a \in Actors |-> [r \in Repos |-> None]]
  /\ resync = {} /\ req = None /\ configs = 0 /\ reloads = 0
  /\ pc = [r \in Repos |-> "off"] /\ rerun = {}
  /\ task = [r \in Repos |-> None]
  /\ outcome = [r \in Repos |-> None]
  /\ fresh = [r \in Repos |-> FALSE]
  /\ accepts = [b \in Binds |-> TRUE]
  /\ lastBy = [b \in Binds |-> None]
  /\ refusedLast = [b \in Binds |-> FALSE]
  /\ holdOff = [r \in Repos |-> 0] /\ overwritten = {}

\* The scheduler's lock is free.
Unlocked == poller \in {"idle", "clear", "suspended"}

\* manager.enqueue: what can be synced is started, or folded into a rerun.
Enqueue(S) ==
  LET T == S \cap Listed(want)
  IN  /\ pc' = [r \in Repos |-> IF r \in T /\ pc[r] = "off" THEN "queued" ELSE pc[r]]
      /\ rerun' = rerun \cup {r \in T : pc[r] # "off"}
      /\ UNCHANGED <<task, outcome, fresh>>

-----------------------------------------------------------------------------
(***************************************************************************)
(* A configuration or a reload changes what can be synced; then reconcile, *)
(* which reads the repositories before it takes the scheduler's lock; then *)
(* startSyncs.                                                             *)
(***************************************************************************)
\* What a changed target makes of the history kept about a repository.
ForgetChanged(w) == holdOff' = [r \in Repos |-> IF w[r] = want[r] THEN holdOff[r] ELSE 0]

Configure(w) ==
  /\ phase["readLoop"] = "idle" /\ configs < MaxConfigs
  /\ Uses(w) \cap retired = {}
  /\ want' = w
  /\ configs' = configs + 1
  /\ phase' = [phase EXCEPT !["readLoop"] = "read"]
  /\ ForgetChanged(w)
  /\ UNCHANGED <<retired, suspended, schedVars, gateVars, pollVars, snapshot, resync, req,
                 reloads, runVars, accepts, lastBy, refusedLast, overwritten>>

\* setProviders: bindings change, and a replaced one never comes back (nextProviderGen).
\* What is newly bound is synced, unless it is queued and will claim the new credential.
ReloadProviders(w) ==
  LET changed == {r \in Repos : w[r] # want[r]}
      gone == {CredOf(r) : r \in changed \cap Listed(want)}
  IN  /\ phase["reloader"] = "idle" /\ reloads < MaxReloads
      /\ Uses(w) \cap (retired \cup gone) = {}
      /\ want' = w
      /\ retired' = retired \cup gone
      /\ resync' = {r \in changed \cap Listed(w) : pc[r] \notin {"queued", "release"}}
      /\ reloads' = reloads + 1
      /\ phase' = [phase EXCEPT !["reloader"] = "read"]
      /\ ForgetChanged(w)
      /\ UNCHANGED <<suspended, schedVars, gateVars, pollVars, snapshot, req, configs, runVars,
                     accepts, lastBy, refusedLast, overwritten>>

ReadRepos(a) ==
  /\ phase[a] = "read"
  /\ snapshot' = [snapshot EXCEPT ![a] = want]
  /\ phase' = [phase EXCEPT ![a] = "lock"]
  /\ UNCHANGED <<clientVars, schedVars, gateVars, pollVars, resync, req, configs, reloads, runVars,
                 accepts, histVars>>

\* (mutant) every entry starts over, whether or not its target changed
FreshAlways(e, k) == TRUE

\* Whether reconcile replaces entry e of a repository whose target is k.
Fresh(e, k) == IF e = None THEN TRUE ELSE e.key # k

\* (mutant) a dropped gate leaves its passes behind
RetainPasses(w) ==
  /\ gates' = [b \in Binds |-> IF b \in Uses(w) THEN gates[b] ELSE None]
  /\ passes' = [r \in Repos |-> IF r \in Listed(w) THEN passes[r] ELSE None]
  /\ manual' = [r \in Repos |-> IF r \in Listed(w) THEN manual[r] ELSE 0]

\* retain: gates of bindings not in use, passes without a gate, forgotten repositories.
Retain(w) ==
  LET kept == [b \in Binds |-> IF b \in Uses(w) THEN gates[b] ELSE None]
      keeps(r) == r \in Listed(w) /\ (passes[r] # None => kept[passes[r]] # None)
  IN  /\ gates' = kept
      /\ passes' = [r \in Repos |-> IF keeps(r) THEN passes[r] ELSE None]
      /\ manual' = [r \in Repos |-> IF r \in Listed(w) THEN manual[r] ELSE 0]

Reconcile(a) ==
  LET w == snapshot[a]
      new == {r \in Listed(w) : Fresh(entries[r], w[r])}
  IN  /\ phase[a] = "lock" /\ Unlocked
      /\ \E d \in [new -> FirstDelays] :
           entries' = [r \in Repos |->
             IF r \notin Listed(w) THEN None
             ELSE IF r \notin new THEN entries[r]
             ELSE [key |-> w[r], wait |-> d[r], notBefore |-> 0, failures |-> 0,
                   credential |-> FALSE]]
      /\ Retain(w)
      /\ refusedLast' = [b \in Binds |-> refusedLast[b] /\ b \in Uses(w)]
      /\ overwritten' = overwritten \cup {r \in Repos : holdOff[r] > 0 /\ w[r] # want[r]}
      /\ phase' = [phase EXCEPT ![a] = "start"]
      /\ UNCHANGED <<clientVars, wasSuspended, pollVars, snapshot, resync, req, configs, reloads,
                     runVars, accepts, lastBy, holdOff>>

\* startSyncs: a configuration starts every repository, a reload the newly bound ones.
StartSyncs(a) ==
  LET S == IF a = "readLoop" THEN Listed(want) ELSE resync
  IN  /\ phase[a] = "start"
      /\ Enqueue(IF suspended THEN {} ELSE S)
      /\ phase' = [phase EXCEPT ![a] = "idle"]
      /\ resync' = IF a = "reloader" THEN {} ELSE resync
      /\ snapshot' = [snapshot EXCEPT ![a] = [r \in Repos |-> None]]
      /\ UNCHANGED <<clientVars, schedVars, gateVars, pollVars, req, configs, reloads, accepts,
                     histVars>>

-----------------------------------------------------------------------------
(***************************************************************************)
(* git_sync_now, served by the read loop.                                 *)
(***************************************************************************)
\* A request for every repository gets no pass.
RequestAll ==
  /\ "all" \in Requests /\ phase["readLoop"] = "idle" /\ ~suspended
  /\ Enqueue(Repos)
  /\ UNCHANGED <<clientVars, schedVars, gateVars, pollVars, recVars, accepts, histVars>>

\* admitManual, the scheduler's half: which credential the repository is scheduled with.
RequestNow(r) ==
  /\ phase["readLoop"] = "idle" /\ Unlocked
  /\ ~suspended /\ want[r] # None
  /\ req' = [repo |-> r, bind |-> IF entries[r] = None THEN None ELSE BindOf[entries[r].key]]
  /\ phase' = [phase EXCEPT !["readLoop"] = "admit"]
  /\ UNCHANGED <<clientVars, schedVars, gateVars, pollVars, snapshot, resync, configs, reloads,
                 runVars, accepts, histVars>>

\* admitManual, the gates' half: a pass through a gate, once per gap.
AdmitManual ==
  LET r == req.repo
      b == req.bind
      gated == IF b = None THEN FALSE ELSE gates[b] # None
  IN  /\ phase["readLoop"] = "admit"
      /\ \/ /\ gated /\ manual[r] > 0
            /\ req' = None /\ phase' = [phase EXCEPT !["readLoop"] = "idle"]
            /\ UNCHANGED <<passes, manual>>
         \/ /\ gated /\ manual[r] = 0
            /\ passes' = [passes EXCEPT ![r] = b] /\ manual' = [manual EXCEPT ![r] = Gap]
            /\ phase' = [phase EXCEPT !["readLoop"] = "now"]
            /\ UNCHANGED req
         \/ /\ ~gated
            /\ phase' = [phase EXCEPT !["readLoop"] = "now"]
            /\ UNCHANGED <<req, passes, manual>>
      /\ UNCHANGED <<clientVars, schedVars, gates, pollVars, snapshot, resync, configs, reloads,
                     runVars, accepts, histVars>>

StartNow ==
  /\ phase["readLoop"] = "now"
  /\ Enqueue(IF suspended THEN {} ELSE {req.repo})
  /\ req' = None
  /\ phase' = [phase EXCEPT !["readLoop"] = "idle"]
  /\ UNCHANGED <<clientVars, schedVars, gateVars, pollVars, snapshot, resync, configs, reloads,
                 accepts, histVars>>

-----------------------------------------------------------------------------
(***************************************************************************)
(* poll.  Time stands still while it holds scheduler.mu.                   *)
(***************************************************************************)
IsDue(e) == IF e = None THEN FALSE ELSE e.wait = 0 /\ e.notBefore = 0
Due(es) == {r \in Repos : IsDue(es[r])}

\* Whether syncing is suspended is read before the lock is taken.
PollRead ==
  /\ poller = "idle"
  /\ poller' = IF suspended THEN "suspended" ELSE "clear"
  /\ UNCHANGED <<clientVars, schedVars, gateVars, todo, halfOpen, probe, undo, recVars, runVars,
                 accepts, histVars>>

\* Nothing while suspended; on resuming, what is due is spread out first.
PollBegin ==
  /\ \/ /\ poller = "suspended"
        /\ wasSuspended' = TRUE
        /\ poller' = "idle"
        /\ UNCHANGED <<entries, todo>>
     \/ /\ poller = "clear"
        /\ wasSuspended' = FALSE
        /\ \E d \in [IF wasSuspended THEN Due(entries) ELSE {} -> 0..Jitter] :
             entries' = [r \in Repos |-> IF r \in DOMAIN d
                                         THEN [entries[r] EXCEPT !.notBefore = d[r]]
                                         ELSE entries[r]]
        /\ todo' = Due(entries')
        /\ poller' = IF Due(entries') = {} THEN "idle" ELSE "each"
  /\ UNCHANGED <<clientVars, gateVars, halfOpen, probe, undo, recVars, runVars, accepts, histVars>>

\* enqueueScheduled starts only what is idle, can be synced and is not suspended.
CanStart(r) == pc[r] = "off" /\ want[r] # None /\ ~suspended

\* dispatch: the schedule is measured from the dispatch until the run reports.
Dispatch(r) ==
  \/ /\ CanStart(r)
     /\ Enqueue({r})
     /\ \E d \in IF entries[r].failures > 0
                 THEN FailureDelays(entries[r].failures, entries[r].credential)
                 ELSE SuccessDelays :
          entries' = [entries EXCEPT ![r] = [@ EXCEPT !.wait = d, !.notBefore = 0]]
  \/ /\ ~CanStart(r)
     /\ UNCHANGED <<runVars, entries>>

\* One due repository: dispatched, held back by its gate, or a candidate for the probe.
PollOne(r) ==
  LET gate == gates[BindOf[entries[r].key]]
  IN  /\ poller = "each" /\ r \in todo
      /\ todo' = todo \ {r}
      /\ \/ gate = None /\ Dispatch(r) /\ UNCHANGED halfOpen
         \/ gate = 0 /\ halfOpen' = halfOpen \cup {r} /\ UNCHANGED <<runVars, entries>>
         \/ gate \notin {None, 0} /\ UNCHANGED <<runVars, entries, halfOpen>>
      /\ poller' = IF todo' # {} THEN "each" ELSE IF halfOpen' # {} THEN "probe" ELSE "idle"
      /\ UNCHANGED <<clientVars, wasSuspended, gateVars, probe, undo, recVars, accepts, histVars>>

\* The candidates, fewest failures first: is the gate still waiting for one to try?
PollCandidate(r) ==
  LET b == BindOf[entries[r].key]
  IN  /\ poller = "probe" /\ r \in halfOpen
      /\ \A q \in halfOpen : entries[r].failures <= entries[q].failures
      /\ halfOpen' = halfOpen \ {r}
      /\ \/ gates[b] = 0 /\ probe' = r /\ poller' = "grant"
         \/ /\ gates[b] # 0
            /\ poller' = IF halfOpen' = {} THEN "idle" ELSE "probe"
            /\ UNCHANGED probe
      /\ UNCHANGED <<clientVars, schedVars, gateVars, todo, undo, recVars, runVars, accepts, histVars>>

\* beginProbe: the others wait a window for the verdict of the one that has the pass.
BeginProbe ==
  LET b == BindOf[entries[probe].key]
  IN  /\ poller = "grant" /\ poller' = "launch"
      /\ undo' = [gate |-> gates[b], pass |-> passes[probe]]
      /\ gates' = [gates EXCEPT ![b] = Interval]
      /\ passes' = [passes EXCEPT ![probe] = b]
      /\ UNCHANGED <<clientVars, schedVars, manual, todo, halfOpen, probe, recVars, runVars,
                     accepts, histVars>>

\* The probe is dispatched, or what was granted for it is taken back.
PollLaunch ==
  LET r == probe
      b == BindOf[entries[probe].key]
  IN  /\ poller = "launch"
      /\ Dispatch(r)
      /\ \/ CanStart(r) /\ UNCHANGED <<gates, passes>>
         \/ /\ ~CanStart(r)
            /\ gates' = [gates EXCEPT ![b] = IF @ = Interval THEN undo.gate ELSE @]
            /\ passes' = [passes EXCEPT ![r] = undo.pass]
      /\ probe' = None /\ undo' = None
      /\ poller' = IF halfOpen = {} THEN "idle" ELSE "probe"
      /\ UNCHANGED <<clientVars, wasSuspended, manual, todo, halfOpen, recVars, accepts, histVars>>

-----------------------------------------------------------------------------
(***************************************************************************)
(* The runner of repository r.                                             *)
(***************************************************************************)
\* providerGates.claim: without a gate, or with a pass for it.
Admitted(r) == gates[CredOf(r)] = None \/ passes[r] = CredOf(r)

\* Suspended, no longer listed, held back; or claimed, which uses up the pass.
Claim(r) ==
  LET claims == ~suspended /\ want[r] # None /\ Admitted(r)
  IN  /\ pc[r] = "queued"
      /\ \/ /\ ~claims
            /\ pc' = [pc EXCEPT ![r] = "release"]
            /\ UNCHANGED <<task, gates, passes>>
         \/ /\ claims
            /\ pc' = [pc EXCEPT ![r] = "claimed"]
            /\ task' = [task EXCEPT ![r] = want[r]]
            /\ passes' = [passes EXCEPT ![r] = IF gates[CredOf(r)] = None THEN @ ELSE None]
            /\ gates' = [gates EXCEPT ![CredOf(r)] = IF @ = 0 THEN Interval ELSE @]
      /\ UNCHANGED <<clientVars, schedVars, manual, pollVars, recVars, rerun, outcome, fresh,
                     accepts, histVars>>

\* The end of runOnce: again if asked meanwhile.
Done(r) ==
  /\ pc' = [pc EXCEPT ![r] = IF r \in rerun THEN "queued" ELSE "off"]
  /\ rerun' = rerun \ {r}
  /\ task' = [task EXCEPT ![r] = None]
  /\ outcome' = [outcome EXCEPT ![r] = None]
  /\ lastBy' = [b \in Binds |-> IF lastBy[b] = r THEN None ELSE lastBy[b]]

\* releaseSync drops the pass of a sync that did not run.
Release(r) ==
  /\ pc[r] = "release"
  /\ passes' = [passes EXCEPT ![r] = None]
  /\ Done(r)
  /\ UNCHANGED <<clientVars, schedVars, gates, manual, pollVars, recVars, fresh, accepts,
                 refusedLast, holdOff, overwritten>>

\* The attempt is timed from here (Stats.StartedAt).
Begin(r) ==
  /\ pc[r] = "claimed"
  /\ pc' = [pc EXCEPT ![r] = "run"]
  /\ fresh' = [fresh EXCEPT ![r] = TRUE]
  /\ UNCHANGED <<clientVars, schedVars, gateVars, pollVars, recVars, rerun, task, outcome, accepts,
                 histVars>>

\* (external) the sync logs in to the origin, which accepts the credential or not.
Login(r) ==
  LET b == BindOf[task[r]]
  IN  /\ pc[r] = "run" /\ outcome[r] = None
      /\ outcome' = [outcome EXCEPT ![r] = IF accepts[b] THEN "in" ELSE "refused"]
      /\ lastBy' = [lastBy EXCEPT ![b] = r]
      /\ refusedLast' = [refusedLast EXCEPT ![b] = FALSE]
      /\ UNCHANGED <<clientVars, schedVars, gateVars, pollVars, recVars, pc, rerun, task, fresh,
                     accepts, holdOff, overwritten>>

\* finishSync keeps the result of an unchanged target; a superseded attempt has none.
Finish(r, o) ==
  /\ pc[r] = "run"
  /\ o = "ok" => outcome[r] = "in"
  /\ o = "refused" <=> outcome[r] = "refused"
  /\ \/ /\ want[r] = task[r]
        /\ outcome' = [outcome EXCEPT ![r] = o]
        /\ pc' = [pc EXCEPT ![r] = "report"]
        /\ UNCHANGED <<rerun, task, fresh, lastBy>>
     \/ want[r] # task[r] /\ Done(r) /\ fresh' = [fresh EXCEPT ![r] = FALSE]
  /\ UNCHANGED <<clientVars, schedVars, gateVars, pollVars, recVars, accepts, refusedLast, holdOff,
                 overwritten>>

\* (mutant) any success opens the gate
SucceededAlways(r) ==
  LET b == BindOf[task[r]]
  IN  /\ gates' = [gates EXCEPT ![b] = None]
      /\ passes' = [q \in Repos |-> IF passes[q] = b THEN None ELSE passes[q]]

\* gates.succeeded: a success of an attempt begun after the gate closed opens it for good.
Succeeded(r) ==
  LET b == BindOf[task[r]]
      clears == fresh[r] /\ gates[b] # None
  IN  /\ gates' = [gates EXCEPT ![b] = IF clears THEN None ELSE @]
      /\ passes' = [q \in Repos |-> IF clears /\ passes[q] = b THEN None ELSE passes[q]]

\* gates.arm: closed for a tier from the latest refusal; no attempt has begun after it yet.
Arm(r) ==
  LET b == BindOf[task[r]]
      unaffected(q) == task[q] # None /\ BindOf[task[q]] # b
  IN  /\ gates' = [gates EXCEPT ![b] = Tier]
      /\ fresh' = [q \in Repos |-> fresh[q] /\ unaffected(q)]
      /\ refusedLast' = [refusedLast EXCEPT ![b] = lastBy[b] = r]
      /\ UNCHANGED passes

\* completed: ignored for a target that is not scheduled; else the next run is planned.
Report(r) ==
  LET mine == IF entries[r] = None THEN FALSE ELSE entries[r].key = task[r]
      f == Lesser(entries[r].failures + 1, MaxFailures)
      credential == outcome[r] \in {"refused", "denied"}
  IN  /\ pc[r] = "report" /\ Unlocked
      /\ \/ /\ ~mine
            /\ fresh' = [fresh EXCEPT ![r] = FALSE]
            /\ UNCHANGED <<entries, gates, passes, refusedLast, holdOff, overwritten>>
         \/ /\ mine /\ outcome[r] = "ok"
            /\ \E d \in SuccessDelays :
                 entries' = [entries EXCEPT ![r] = [@ EXCEPT !.wait = d, !.failures = 0,
                                                             !.credential = FALSE]]
            /\ Succeeded(r)
            /\ holdOff' = [holdOff EXCEPT ![r] = 0] /\ overwritten' = overwritten \ {r}
            /\ fresh' = [fresh EXCEPT ![r] = FALSE]
            /\ UNCHANGED refusedLast
         \/ /\ mine /\ outcome[r] # "ok"
            /\ \E d \in FailureDelays(f, credential) :
                 entries' = [entries EXCEPT ![r] = [@ EXCEPT !.wait = d, !.failures = f,
                                                             !.credential = credential]]
            /\ holdOff' = [holdOff EXCEPT ![r] = IF want[r] = task[r] THEN BackoffFloor(f, credential)
                                                 ELSE 0]
            /\ overwritten' = overwritten \ {r}
            /\ \/ outcome[r] = "refused" /\ Arm(r)
               \/ /\ outcome[r] # "refused"
                  /\ fresh' = [fresh EXCEPT ![r] = FALSE]
                  /\ UNCHANGED <<gates, passes, refusedLast>>
      /\ Done(r)
      /\ UNCHANGED <<clientVars, wasSuspended, manual, pollVars, recVars, accepts>>

-----------------------------------------------------------------------------
(***************************************************************************)
(* The environment: time, the critical-update suspension, the origin.      *)
(***************************************************************************)
Tick ==
  /\ Unlocked
  /\ entries' = [r \in Repos |->
                   IF entries[r] = None THEN None
                   ELSE [entries[r] EXCEPT !.wait = Down(@), !.notBefore = Down(@)]]
  /\ gates' = [b \in Binds |-> Down(gates[b])]
  /\ manual' = [r \in Repos |-> Down(manual[r])]
  /\ holdOff' = [r \in Repos |-> Down(holdOff[r])]
  /\ UNCHANGED <<clientVars, wasSuspended, passes, pollVars, recVars, runVars, accepts, lastBy,
                 refusedLast, overwritten>>

\* OnHandshake of a later connection.
SetSuspended(s) ==
  /\ suspended # s
  /\ suspended' = s
  /\ UNCHANGED <<want, retired, schedVars, gateVars, pollVars, recVars, runVars, accepts, lastBy,
                 refusedLast, holdOff, overwritten>>

\* (external) the account behind a credential is disabled, or works again.
OriginChanges(b, ok) ==
  /\ accepts[b] # ok
  /\ accepts' = [accepts EXCEPT ![b] = ok]
  /\ UNCHANGED <<clientVars, schedVars, gateVars, pollVars, recVars, runVars, histVars>>

Poll ==
  \/ PollRead \/ PollBegin \/ BeginProbe \/ PollLaunch
  \/ \E r \in Repos : PollOne(r) \/ PollCandidate(r)

Runner(r) ==
  \/ Claim(r) \/ Release(r) \/ Begin(r) \/ Login(r) \/ Report(r)
  \/ \E o \in Outcomes : Finish(r, o)

\* Everything but the passing of time.
Steps ==
  \/ \E w \in Wanted : Configure(w) \/ ReloadProviders(w)
  \/ \E a \in Actors : ReadRepos(a) \/ Reconcile(a) \/ StartSyncs(a)
  \/ RequestAll \/ (\E r \in Requests \cap Repos : RequestNow(r)) \/ AdmitManual \/ StartNow
  \/ Poll
  \/ \E r \in Repos : Runner(r)
  \/ \E s \in Suspensions : SetSuspended(s)
  \/ \E b \in Binds : \E ok \in Accepting[b] : OriginChanges(b, ok)

Next == Steps \/ Tick

Spec == Init /\ [][Next]_vars

-----------------------------------------------------------------------------
TypeOK ==
  /\ want \in [Repos -> Keys \cup {None}] /\ retired \subseteq Binds /\ suspended \in BOOLEAN
  /\ entries \in [Repos -> Entries \cup {None}] /\ wasSuspended \in BOOLEAN
  /\ gates \in [Binds -> (0..Tier) \cup {None}]
  /\ passes \in [Repos -> Binds \cup {None}] /\ manual \in [Repos -> 0..Gap]
  /\ poller \in {"idle", "clear", "suspended", "each", "probe", "grant", "launch"}
  /\ todo \subseteq Repos /\ halfOpen \subseteq Repos /\ probe \in Repos \cup {None}
  /\ undo \in [gate : (0..Tier) \cup {None}, pass : Binds \cup {None}] \cup {None}
  /\ phase \in [Actors -> {"idle", "read", "lock", "start", "admit", "now"}]
  /\ snapshot \in [Actors -> [Repos -> Keys \cup {None}]] /\ resync \subseteq Repos
  /\ req \in [repo : Repos, bind : Binds \cup {None}] \cup {None}
  /\ configs \in 0..MaxConfigs /\ reloads \in 0..MaxReloads
  /\ pc \in [Repos -> {"off", "queued", "release", "claimed", "run", "report"}]
  /\ rerun \subseteq Repos /\ task \in [Repos -> Keys \cup {None}]
  /\ outcome \in [Repos -> Outcomes \cup {"in", None}]
  /\ fresh \in [Repos -> BOOLEAN] /\ accepts \in [Binds -> BOOLEAN]
  /\ lastBy \in [Binds -> Repos \cup {None}] /\ refusedLast \in [Binds -> BOOLEAN]
  /\ holdOff \in [Repos -> 0..Tier] /\ overwritten \subseteq Repos

\* providerGates: "a success counts as evidence that the credential works again only if
\* its attempt began after" the refusal.  While the latest login with a credential was
\* refused and that is on record, its gate stands: no success that logged in earlier,
\* however late it reports, lets the repositories loose on a refused credential.
RefusalKeepsGate == \A b \in Binds : refusedLast[b] => gates[b] # None

\* A pass is for a gate that exists: none survives its gate to let a repository through
\* the next one.
PassHasGate == \A r \in Repos : passes[r] # None => gates[passes[r]] # None

\* A repository that failed is not due before its backoff floor has passed, however often the
\* same target is configured again and whether or not syncing was suspended; unless a reconcile
\* has since installed repositories it read before the latest of a configuration and a reload.
\* (The comment of reconcile, scheduler.go:144-146, makes no exception: "one whose target is
\* unchanged is left exactly as it was, including any backoff".)
BackoffKept ==
  \A r \in Repos \ overwritten : IsDue(entries[r]) => holdOff[r] = 0
=============================================================================
