-------------------------- MODULE SchedulerProofs --------------------------
(***************************************************************************)
(* The gates and the backoff: theorems about Scheduler for any             *)
(* repositories, targets, credentials, intervals, and number of            *)
(* configurations and reloads.                                             *)
(***************************************************************************)
EXTENDS Scheduler, TLAPS

\* A runner that has claimed its task has one, and no login before it runs.
RunnerInv ==
  \A r \in Repos :
    /\ pc[r] \in {"claimed", "run", "report"} => task[r] # None
    /\ pc[r] \notin {"run", "report"} => outcome[r] \notin {"in", "ok"}

\* The read loop remembers the request it serves.
RequestInv ==
  phase["readLoop"] \in {"admit", "now"} => req \in [repo : Repos, bind : Binds \cup {None}]

\* What a poll works on is due, as it holds the scheduler's lock.
PollInv ==
  /\ poller # "each" => todo = {}
  /\ Unlocked => halfOpen = {}
  /\ todo \subseteq Due(entries) /\ halfOpen \subseteq Due(entries) /\ todo \cap halfOpen = {}
  /\ poller \in {"grant", "launch"} => probe \in Due(entries) \ halfOpen

\* While the poll has picked a probe, no reconcile and no report takes its gate away, so what
\* beginProbe remembers can be put back.
ProbeInv ==
  /\ poller \in {"grant", "launch"} => gates[BindOf[entries[probe].key]] # None
  /\ poller = "launch" =>
       /\ undo \in [gate : 0..Tier, pass : Binds \cup {None}]
       /\ undo.pass # None => gates[undo.pass] # None

\* A login by an attempt that began after the gate was last armed came after the refusal.
FreshInv ==
  \A r \in Repos :
    pc[r] \in {"run", "report"} /\ fresh[r] /\ outcome[r] \in {"in", "ok"} =>
      ~refusedLast[BindOf[task[r]]]

SchedInv == TypeOK /\ RunnerInv /\ RequestInv /\ PollInv
GateInv == ProbeInv /\ PassHasGate /\ FreshInv /\ RefusalKeepsGate

\* A failed repository that no stale reconcile has replaced keeps the entry of its target, which
\* waits at least as long as the failure asks.
HoldInv ==
  \A r \in Repos \ overwritten : holdOff[r] # 0 =>
    entries[r] # None /\ entries[r].key = want[r] /\ holdOff[r] <= entries[r].wait

-----------------------------------------------------------------------------
(***************************************************************************)
(* Types, a group of variables at a time.                                  *)
(***************************************************************************)
ClientTypes == want \in [Repos -> Keys \cup {None}] /\ retired \subseteq Binds /\ suspended \in BOOLEAN
EntryTypes == entries \in [Repos -> Entries \cup {None}] /\ wasSuspended \in BOOLEAN
GateTypes ==
  /\ gates \in [Binds -> (0..Tier) \cup {None}]
  /\ passes \in [Repos -> Binds \cup {None}] /\ manual \in [Repos -> 0..Gap]
PollTypes ==
  /\ poller \in {"idle", "clear", "suspended", "each", "probe", "grant", "launch"}
  /\ todo \subseteq Repos /\ halfOpen \subseteq Repos /\ probe \in Repos \cup {None}
  /\ undo \in [gate : (0..Tier) \cup {None}, pass : Binds \cup {None}] \cup {None}
RecTypes ==
  /\ phase \in [Actors -> {"idle", "read", "lock", "start", "admit", "now"}]
  /\ snapshot \in [Actors -> [Repos -> Keys \cup {None}]] /\ resync \subseteq Repos
  /\ req \in [repo : Repos, bind : Binds \cup {None}] \cup {None}
  /\ configs \in 0..MaxConfigs /\ reloads \in 0..MaxReloads
RunTypes ==
  /\ pc \in [Repos -> {"off", "queued", "release", "claimed", "run", "report"}]
  /\ rerun \subseteq Repos /\ task \in [Repos -> Keys \cup {None}]
  /\ outcome \in [Repos -> Outcomes \cup {"in", None}] /\ fresh \in [Repos -> BOOLEAN]
HistTypes ==
  /\ lastBy \in [Binds -> Repos \cup {None}] /\ refusedLast \in [Binds -> BOOLEAN]
  /\ holdOff \in [Repos -> 0..Tier] /\ overwritten \subseteq Repos

\* The groups make up the type invariant.
LEMMA TypeParts ==
  TypeOK <=> /\ ClientTypes /\ EntryTypes /\ GateTypes /\ PollTypes /\ RecTypes /\ RunTypes
             /\ HistTypes /\ accepts \in [Binds -> BOOLEAN]
BY DEF TypeOK, ClientTypes, EntryTypes, GateTypes, PollTypes, RecTypes, RunTypes, HistTypes

\* The same of the next state.
LEMMA TypePartsNext ==
  ASSUME ClientTypes', EntryTypes', GateTypes', PollTypes', RecTypes', RunTypes', HistTypes',
         accepts' \in [Binds -> BOOLEAN]
  PROVE  TypeOK'
BY DEF TypeOK, ClientTypes, EntryTypes, GateTypes, PollTypes, RecTypes, RunTypes, HistTypes

\* A group that does not change keeps its types.
LEMMA TypeFrame ==
  ASSUME TypeOK
  PROVE  /\ UNCHANGED clientVars => ClientTypes'
         /\ UNCHANGED schedVars => EntryTypes'
         /\ UNCHANGED gateVars => GateTypes'
         /\ UNCHANGED pollVars => PollTypes'
         /\ UNCHANGED recVars => RecTypes'
         /\ UNCHANGED runVars => RunTypes'
         /\ UNCHANGED histVars => HistTypes'
         /\ UNCHANGED accepts => accepts' \in [Binds -> BOOLEAN]
BY TypeParts DEF ClientTypes, EntryTypes, GateTypes, PollTypes, RecTypes, RunTypes, HistTypes,
   clientVars, schedVars, gateVars, pollVars, recVars, runVars, histVars

\* backoffFloor lies between the interval and the gate's tier, however many failures.
LEMMA FloorBounds ==
  ASSUME NEW f \in 1..MaxFailures, NEW c \in BOOLEAN
  PROVE  BackoffFloor(f, c) \in Interval..Tier
<1>1. f - 1 \in Nat
  BY SchedulerAssumption
<1>2. 2^(f - 1) \in Int
  BY <1>1, SMT
<1> DEFINE d == Interval * 2^(f - 1)
<1>3. d \in Int
  BY <1>2, SchedulerAssumption
<1> HIDE DEF d
<1>4. Lesser(d, Cap) \in Int /\ Lesser(d, Cap) <= Cap
  BY <1>3, SchedulerAssumption DEF Lesser
<1>5. Greater(Interval, Lesser(d, Cap)) \in Interval..Greater(Interval, Cap)
  BY <1>4, SchedulerAssumption DEF Greater
<1>6. Tier \in Interval..Tier /\ Tier = Greater(Interval, Cap)
  BY SchedulerAssumption DEF Tier, Greater
<1>7. QED
  BY <1>5, <1>6 DEF BackoffFloor, d

\* The tier and the delays are natural numbers within the bounds of an entry.
LEMMA Bounds ==
  /\ Tier \in Nat /\ Interval <= Tier /\ Interval \in 0..Tier /\ Jitter \in Nat
  /\ FirstDelays \subseteq 0..(Tier + Jitter) /\ SuccessDelays \subseteq 0..(Tier + Jitter)
  /\ \A f \in 1..MaxFailures, c \in BOOLEAN :
       /\ FailureDelays(f, c) \subseteq 0..(Tier + Jitter)
       /\ BackoffFloor(f, c) \in 0..Tier
       /\ \A d \in FailureDelays(f, c) : BackoffFloor(f, c) <= d
<1>1. Tier \in Nat /\ Interval <= Tier /\ Interval \in 0..Tier /\ Jitter \in Nat
  BY SchedulerAssumption DEF Tier, Greater
<1>2. FirstDelays \subseteq 0..(Tier + Jitter) /\ SuccessDelays \subseteq 0..(Tier + Jitter)
  BY <1>1, SchedulerAssumption DEF FirstDelays, SuccessDelays
<1>3. ASSUME NEW f \in 1..MaxFailures, NEW c \in BOOLEAN
      PROVE  /\ FailureDelays(f, c) \subseteq 0..(Tier + Jitter)
             /\ BackoffFloor(f, c) \in 0..Tier
             /\ \A d \in FailureDelays(f, c) : BackoffFloor(f, c) <= d
  BY <1>1, SchedulerAssumption, FloorBounds DEF FailureDelays
<1>4. QED
  BY <1>1, <1>2, <1>3

\* A time that is left counts down and stays in its range.
LEMMA DownBounds ==
  ASSUME NEW n \in Nat
  PROVE  /\ \A t \in 0..n : Down(t) \in 0..n
         /\ \A t \in (0..n) \cup {None} : Down(t) \in (0..n) \cup {None} /\ (Down(t) = None <=> t = None)
         /\ \A t, u \in Nat : t <= u => Down(t) <= Down(u)
         /\ Down(0) = 0
BY SchedulerAssumption DEF Down, Greater

\* The initial state has its types.
LEMMA InitTypes == Init => TypeOK
<1> SUFFICES ASSUME Init PROVE TypeOK
  OBVIOUS
<1> USE SchedulerAssumption, Bounds DEF Init
<1>1. ClientTypes /\ EntryTypes
  BY DEF ClientTypes, EntryTypes
<1>2. GateTypes
  BY DEF GateTypes
<1>3. PollTypes
  BY DEF PollTypes
<1>4. RecTypes
  BY DEF RecTypes, Actors
<1>5. RunTypes
  BY DEF RunTypes
<1>6. HistTypes /\ accepts \in [Binds -> BOOLEAN]
  BY DEF HistTypes
<1>7. QED
  BY <1>1, <1>2, <1>3, <1>4, <1>5, <1>6, TypeParts

\* enqueue starts runners and marks reruns.
LEMMA EnqueueTypes ==
  ASSUME RunTypes, NEW S, Enqueue(S)
  PROVE  RunTypes'
BY DEF Enqueue, RunTypes, Listed

\* runOnce ends: the runner's variables keep their types.
LEMMA DoneTypes ==
  ASSUME TypeOK, NEW r \in Repos, Done(r)
  PROVE  /\ pc' \in [Repos -> {"off", "queued", "release", "claimed", "run", "report"}]
         /\ rerun' \subseteq Repos /\ task' \in [Repos -> Keys \cup {None}]
         /\ outcome' \in [Repos -> Outcomes \cup {"in", None}]
         /\ lastBy' \in [Binds -> Repos \cup {None}]
BY TypeParts DEF Done, RunTypes, HistTypes

\* A repository that is due has an entry.
LEMMA DueHasEntry ==
  ASSUME TypeOK, NEW r \in Due(entries)
  PROVE  /\ r \in Repos /\ entries[r] # None /\ entries[r] \in Entries
         /\ entries[r].key \in Keys /\ BindOf[entries[r].key] \in Binds
         /\ entries[r].wait = 0 /\ entries[r].notBefore = 0
<1>1. r \in Repos /\ entries[r] # None /\ entries[r].wait = 0 /\ entries[r].notBefore = 0
  BY DEF Due, IsDue
<1>2. entries[r] \in Entries
  BY <1>1, TypeParts DEF EntryTypes
<1>3. entries[r].key \in Keys
  BY <1>2 DEF Entries
<1>4. QED
  BY <1>1, <1>2, <1>3, SchedulerAssumption

\* dispatch starts a repository and measures its schedule anew, or does nothing.
LEMMA DispatchTypes ==
  ASSUME TypeOK, NEW r \in Due(entries), Dispatch(r)
  PROVE  RunTypes' /\ entries' \in [Repos -> Entries \cup {None}]
<1>1. RunTypes /\ entries \in [Repos -> Entries \cup {None}]
  BY TypeParts DEF EntryTypes
<1>2. CASE CanStart(r)
  <2>1. RunTypes'
    BY <1>1, <1>2, EnqueueTypes DEF Dispatch
  <2>2. entries[r] \in Entries /\ r \in Repos
    BY DueHasEntry
  <2>3. entries[r].failures \in 0..MaxFailures /\ entries[r].credential \in BOOLEAN
    BY <2>2 DEF Entries
  <2>4. PICK d \in IF entries[r].failures > 0
                   THEN FailureDelays(entries[r].failures, entries[r].credential)
                   ELSE SuccessDelays :
          entries' = [entries EXCEPT ![r] = [@ EXCEPT !.wait = d, !.notBefore = 0]]
    BY <1>2 DEF Dispatch
  <2>5. d \in 0..(Tier + Jitter)
    <3>1. CASE entries[r].failures > 0
      <4>1. entries[r].failures \in 1..MaxFailures
        BY <2>3, <3>1, SchedulerAssumption
      <4>2. QED
        BY <2>3, <2>4, <3>1, <4>1, Bounds
    <3>2. CASE ~(entries[r].failures > 0)
      BY <2>4, <3>2, Bounds
    <3>3. QED
      BY <3>1, <3>2
  <2>6. [entries[r] EXCEPT !.wait = d, !.notBefore = 0] \in Entries
    <3>1. 0 \in 0..Jitter
      BY Bounds
    <3>2. QED
      BY <2>2, <2>5, <3>1 DEF Entries
  <2>7. QED
    BY <1>1, <2>1, <2>2, <2>4, <2>6
<1>3. CASE ~CanStart(r)
  BY <1>1, <1>3 DEF Dispatch, RunTypes, runVars
<1>4. QED
  BY <1>2, <1>3

-----------------------------------------------------------------------------
\* Configurations, reloads and the first half of a reconcile.
LEMMA ConfigureTypes ==
  ASSUME TypeOK, NEW w \in Wanted, Configure(w) \/ ReloadProviders(w)
  PROVE  TypeOK'
<1> USE SchedulerAssumption
<1>1. w \in [Repos -> Keys \cup {None}]
  OBVIOUS
<1>2. ClientTypes /\ RecTypes /\ HistTypes
  BY TypeParts
<1>3. HistTypes'
  BY <1>2, Bounds DEF Configure, ReloadProviders, ForgetChanged, HistTypes
<1>4. RecTypes'
  <2>1. CASE Configure(w)
    BY <1>2, <2>1 DEF Configure, RecTypes, Actors
  <2>2. CASE ReloadProviders(w)
    BY <1>2, <2>2 DEF ReloadProviders, RecTypes, Actors
  <2>3. QED
    BY <2>1, <2>2
<1>5. ClientTypes'
  <2>1. CASE Configure(w)
    BY <1>1, <1>2, <2>1 DEF Configure, ClientTypes
  <2>2. CASE ReloadProviders(w)
    <3>1. \A r \in Listed(want) : CredOf(r) \in Binds
      BY <1>2 DEF Listed, CredOf, ClientTypes
    <3>2. retired' \subseteq Binds
      BY <1>2, <2>2, <3>1 DEF ReloadProviders, ClientTypes
    <3>3. QED
      BY <1>1, <1>2, <2>2, <3>2 DEF ReloadProviders, ClientTypes
  <2>3. QED
    BY <2>1, <2>2
<1>6. UNCHANGED <<schedVars, gateVars, pollVars, runVars, accepts>>
  BY DEF Configure, ReloadProviders
<1>7. QED
  BY <1>3, <1>4, <1>5, <1>6, TypePartsNext, TypeFrame

\* reconcile reads the repositories.
LEMMA ReadTypes ==
  ASSUME TypeOK, NEW a \in Actors, ReadRepos(a)
  PROVE  TypeOK'
<1>1. RecTypes'
  BY TypeParts DEF ReadRepos, RecTypes, ClientTypes
<1>2. UNCHANGED <<clientVars, schedVars, gateVars, pollVars, runVars, accepts, histVars>>
  BY DEF ReadRepos
<1>3. QED
  BY <1>1, <1>2, TypePartsNext, TypeFrame

\* reconcile installs them: new entries, and the gates and passes that are retained.
LEMMA ReconcileTypes ==
  ASSUME TypeOK, NEW a \in Actors, Reconcile(a)
  PROVE  TypeOK'
<1> DEFINE w == snapshot[a]
           new == {r \in Listed(w) : Fresh(entries[r], w[r])}
<1> USE SchedulerAssumption
<1>1. EntryTypes /\ GateTypes /\ RecTypes /\ HistTypes
  BY TypeParts
<1>2. w \in [Repos -> Keys \cup {None}]
  BY <1>1 DEF RecTypes
<1>3. PICK d \in [new -> FirstDelays] :
        entries' = [r \in Repos |->
          IF r \notin Listed(w) THEN None
          ELSE IF r \notin new THEN entries[r]
          ELSE [key |-> w[r], wait |-> d[r], notBefore |-> 0, failures |-> 0,
                credential |-> FALSE]]
  BY DEF Reconcile
<1>4. EntryTypes'
  <2>1. ASSUME NEW r \in new
        PROVE  [key |-> w[r], wait |-> d[r], notBefore |-> 0, failures |-> 0,
                credential |-> FALSE] \in Entries
    <3>1. w[r] \in Keys
      BY <1>2, <2>1 DEF Listed
    <3>2. d[r] \in 0..(Tier + Jitter)
      BY <2>1, Bounds
    <3>3. QED
      BY <3>1, <3>2, Bounds DEF Entries
  <2> HIDE DEF w, new
  <2>2. entries' \in [Repos -> Entries \cup {None}]
    BY <1>1, <1>3, <2>1 DEF EntryTypes
  <2>3. QED
    BY <1>1, <2>2 DEF EntryTypes, Reconcile
<1>5. GateTypes'
  <2>1. Retain(w)
    BY DEF Reconcile
  <2> HIDE DEF w, new
  <2>2. gates' \in [Binds -> (0..Tier) \cup {None}] /\ passes' \in [Repos -> Binds \cup {None}]
    BY <1>1, <2>1 DEF Retain, GateTypes
  <2>3. manual' \in [Repos -> 0..Gap]
    BY <1>1, <2>1 DEF Retain, GateTypes
  <2>4. QED
    BY <2>2, <2>3 DEF GateTypes
<1>6. RecTypes'
  BY <1>1 DEF Reconcile, RecTypes
<1>7. HistTypes'
  BY <1>1 DEF Reconcile, HistTypes
<1>8. UNCHANGED <<clientVars, pollVars, runVars, accepts>>
  BY DEF Reconcile
<1>9. QED
  BY <1>4, <1>5, <1>6, <1>7, <1>8, TypePartsNext, TypeFrame

\* startSyncs and the requests for every repository and for one.
LEMMA StartTypes ==
  ASSUME TypeOK, (\E a \in Actors : StartSyncs(a)) \/ RequestAll \/ StartNow
  PROVE  TypeOK'
<1>1. RunTypes /\ RecTypes
  BY TypeParts
<1>2. PICK S : Enqueue(S)
  BY DEF StartSyncs, RequestAll, StartNow
<1>3. RunTypes'
  BY <1>1, <1>2, EnqueueTypes
<1>4. RecTypes'
  <2>1. ASSUME NEW a \in Actors, StartSyncs(a) PROVE RecTypes'
    BY <1>1, <2>1 DEF StartSyncs, RecTypes
  <2>2. CASE RequestAll
    BY <2>2, TypeFrame DEF RequestAll
  <2>3. CASE StartNow
    BY <1>1, <2>3 DEF StartNow, RecTypes, Actors
  <2>4. QED
    BY <2>1, <2>2, <2>3
<1>5. UNCHANGED <<clientVars, schedVars, gateVars, pollVars, accepts, histVars>>
  BY DEF StartSyncs, RequestAll, StartNow, histVars
<1>6. QED
  BY <1>3, <1>4, <1>5, TypePartsNext, TypeFrame

\* admitManual, in its two halves.
LEMMA RequestTypes ==
  ASSUME SchedInv, (\E r \in Requests \cap Repos : RequestNow(r)) \/ AdmitManual
  PROVE  TypeOK'
<1> USE SchedulerAssumption
<1>1. TypeOK /\ EntryTypes /\ GateTypes /\ RecTypes
  BY TypeParts DEF SchedInv
<1>2. ASSUME NEW r \in Repos, RequestNow(r) PROVE TypeOK'
  <2>1. entries[r] # None => BindOf[entries[r].key] \in Binds
    BY <1>1 DEF EntryTypes, Entries
  <2>2. RecTypes'
    BY <1>1, <1>2, <2>1 DEF RequestNow, RecTypes, Actors
  <2>3. UNCHANGED <<clientVars, schedVars, gateVars, pollVars, runVars, accepts, histVars>>
    BY <1>2 DEF RequestNow
  <2>4. QED
    BY <1>1, <2>2, <2>3, TypePartsNext, TypeFrame
<1>3. CASE AdmitManual
  <2>1. req \in [repo : Repos, bind : Binds \cup {None}]
    BY <1>3 DEF AdmitManual, SchedInv, RequestInv
  <2>2. RecTypes'
    BY <1>1, <1>3 DEF AdmitManual, RecTypes, Actors
  <2>3. GateTypes'
    BY <1>1, <1>3, <2>1 DEF AdmitManual, GateTypes
  <2>4. UNCHANGED <<clientVars, schedVars, pollVars, runVars, accepts, histVars>>
    BY <1>3 DEF AdmitManual, histVars
  <2>5. QED
    BY <1>1, <2>2, <2>3, <2>4, TypePartsNext, TypeFrame
<1>4. QED
  BY <1>2, <1>3

\* poll: reading the suspension, what is due, one repository after the other.
LEMMA PollTypesKept ==
  ASSUME SchedInv, PollRead \/ PollBegin \/ (\E r \in Repos : PollOne(r) \/ PollCandidate(r))
  PROVE  TypeOK'
<1> USE SchedulerAssumption
<1>1. TypeOK /\ EntryTypes /\ PollTypes /\ RunTypes
  BY TypeParts DEF SchedInv
<1>2. CASE PollRead
  <2>1. PollTypes'
    BY <1>1, <1>2 DEF PollRead, PollTypes
  <2>2. UNCHANGED <<clientVars, schedVars, gateVars, recVars, runVars, accepts, histVars>>
    BY <1>2 DEF PollRead
  <2>3. QED
    BY <1>1, <2>1, <2>2, TypePartsNext, TypeFrame
<1>3. CASE PollBegin
  <2>1. CASE poller = "suspended"
    <3>1. EntryTypes' /\ PollTypes'
      BY <1>1, <1>3, <2>1 DEF PollBegin, PollTypes, EntryTypes
    <3>2. UNCHANGED <<clientVars, gateVars, recVars, runVars, accepts, histVars>>
      BY <1>3 DEF PollBegin
    <3>3. QED
      BY <1>1, <3>1, <3>2, TypePartsNext, TypeFrame
  <2>2. CASE poller = "clear"
    <3>1. PICK d \in [IF wasSuspended THEN Due(entries) ELSE {} -> 0..Jitter] :
            entries' = [r \in Repos |-> IF r \in DOMAIN d
                                        THEN [entries[r] EXCEPT !.notBefore = d[r]]
                                        ELSE entries[r]]
      BY <1>3, <2>2 DEF PollBegin
    <3>2. ASSUME NEW r \in DOMAIN d PROVE [entries[r] EXCEPT !.notBefore = d[r]] \in Entries
      <4>1. r \in Due(entries) /\ d[r] \in 0..Jitter
        BY <3>1, <3>2
      <4>2. entries[r] \in Entries
        BY <1>1, <4>1, DueHasEntry
      <4>3. QED
        BY <4>1, <4>2 DEF Entries
    <3>3. entries' \in [Repos -> Entries \cup {None}]
      BY <1>1, <3>1, <3>2 DEF EntryTypes
    <3>4. EntryTypes' /\ PollTypes'
      BY <1>1, <1>3, <2>2, <3>3 DEF PollBegin, PollTypes, EntryTypes, Due
    <3>5. UNCHANGED <<clientVars, gateVars, recVars, runVars, accepts, histVars>>
      BY <1>3 DEF PollBegin
    <3>6. QED
      BY <1>1, <3>4, <3>5, TypePartsNext, TypeFrame
  <2>3. QED
    BY <1>3, <2>1, <2>2 DEF PollBegin
<1>4. ASSUME NEW r \in Repos, PollOne(r) PROVE TypeOK'
  <2>1. r \in Due(entries)
    BY <1>4 DEF PollOne, SchedInv, PollInv
  <2>2. RunTypes' /\ EntryTypes'
    <3>1. CASE Dispatch(r)
      BY <1>1, <1>4, <2>1, <3>1, DispatchTypes DEF PollOne, EntryTypes
    <3>2. CASE UNCHANGED <<runVars, entries>>
      BY <1>1, <1>4, <3>2, TypeFrame DEF PollOne, EntryTypes
    <3>3. QED
      BY <1>4, <3>1, <3>2 DEF PollOne
  <2>3. PollTypes'
    BY <1>1, <1>4 DEF PollOne, PollTypes
  <2>4. UNCHANGED <<clientVars, gateVars, recVars, accepts, histVars>>
    BY <1>4 DEF PollOne
  <2>5. QED
    BY <1>1, <2>2, <2>3, <2>4, TypePartsNext, TypeFrame
<1>5. ASSUME NEW r \in Repos, PollCandidate(r) PROVE TypeOK'
  <2>1. PollTypes'
    BY <1>1, <1>5 DEF PollCandidate, PollTypes
  <2>2. UNCHANGED <<clientVars, schedVars, gateVars, recVars, runVars, accepts, histVars>>
    BY <1>5 DEF PollCandidate
  <2>3. QED
    BY <1>1, <2>1, <2>2, TypePartsNext, TypeFrame
<1>6. QED
  BY <1>2, <1>3, <1>4, <1>5

\* beginProbe, and the launch of the probe or its undoing.
LEMMA ProbeTypes ==
  ASSUME SchedInv, ProbeInv, BeginProbe \/ PollLaunch
  PROVE  TypeOK'
<1> USE SchedulerAssumption, Bounds
<1>1. TypeOK /\ EntryTypes /\ GateTypes /\ PollTypes /\ RunTypes
  BY TypeParts DEF SchedInv
<1> DEFINE b == BindOf[entries[probe].key]
<1>2. probe \in Due(entries)
  BY DEF BeginProbe, PollLaunch, SchedInv, PollInv
<1>3. probe \in Repos /\ b \in Binds
  BY <1>1, <1>2, DueHasEntry
<1> HIDE DEF b
<1>4. CASE BeginProbe
  <2>1. GateTypes'
    BY <1>1, <1>3, <1>4 DEF BeginProbe, GateTypes, b
  <2>2. gates[b] \in (0..Tier) \cup {None} /\ passes[probe] \in Binds \cup {None}
    BY <1>1, <1>3 DEF GateTypes
  <2>3. PollTypes'
    BY <1>1, <1>4, <2>2 DEF BeginProbe, PollTypes, b
  <2>4. UNCHANGED <<clientVars, schedVars, recVars, runVars, accepts, histVars>>
    BY <1>4 DEF BeginProbe
  <2>5. QED
    BY <1>1, <2>1, <2>3, <2>4, TypePartsNext, TypeFrame
<1>5. CASE PollLaunch
  <2>1. undo.gate \in (0..Tier) \cup {None} /\ undo.pass \in Binds \cup {None}
    BY <1>1, <1>5 DEF PollLaunch, PollTypes, ProbeInv
  <2>2. GateTypes'
    BY <1>1, <1>3, <1>5, <2>1 DEF PollLaunch, GateTypes, b
  <2>3. PollTypes'
    BY <1>1, <1>5 DEF PollLaunch, PollTypes
  <2>4. Dispatch(probe)
    BY <1>5 DEF PollLaunch
  <2>5. RunTypes' /\ EntryTypes'
    BY <1>1, <1>2, <1>5, <2>4, DispatchTypes DEF PollLaunch, EntryTypes
  <2>6. UNCHANGED <<clientVars, recVars, accepts, histVars>>
    BY <1>5 DEF PollLaunch
  <2>7. QED
    BY <1>1, <2>2, <2>3, <2>5, <2>6, TypePartsNext, TypeFrame
<1>6. QED
  BY <1>4, <1>5

\* The runner up to its login, and the end of a run without a report.
LEMMA RunnerTypes ==
  ASSUME SchedInv, NEW r \in Repos,
         Claim(r) \/ Release(r) \/ Begin(r) \/ Login(r) \/ (\E o \in Outcomes : Finish(r, o))
  PROVE  TypeOK'
<1> USE SchedulerAssumption, Bounds
<1>1. TypeOK /\ ClientTypes /\ GateTypes /\ RunTypes /\ HistTypes
  BY TypeParts DEF SchedInv
<1>2. CASE Claim(r)
  <2>1. want[r] # None => want[r] \in Keys /\ CredOf(r) \in Binds
    BY <1>1 DEF ClientTypes, CredOf
  <2>2. RunTypes'
    BY <1>1, <1>2, <2>1 DEF Claim, RunTypes
  <2>3. GateTypes'
    <3>1. CASE UNCHANGED <<gates, passes>>
      BY <1>1, <1>2, <3>1 DEF Claim, GateTypes
    <3>2. CASE want[r] # None
      <4>1. gates' \in [Binds -> (0..Tier) \cup {None}]
        BY <1>1, <1>2, <2>1, <3>2 DEF Claim, GateTypes
      <4>2. passes' \in [Repos -> Binds \cup {None}]
        BY <1>1, <1>2, <2>1, <3>2 DEF Claim, GateTypes
      <4>3. QED
        BY <1>1, <1>2, <4>1, <4>2 DEF Claim, GateTypes
    <3>3. QED
      BY <1>2, <3>1, <3>2 DEF Claim
  <2>4. UNCHANGED <<clientVars, schedVars, pollVars, recVars, accepts, histVars>>
    BY <1>2 DEF Claim, histVars
  <2>5. QED
    BY <1>1, <2>2, <2>3, <2>4, TypePartsNext, TypeFrame
<1>3. CASE Release(r)
  <2>1. RunTypes'
    BY <1>1, <1>3, DoneTypes DEF Release, RunTypes
  <2>2. HistTypes'
    BY <1>1, <1>3, DoneTypes DEF Release, HistTypes
  <2>3. GateTypes'
    BY <1>1, <1>3 DEF Release, GateTypes
  <2>4. UNCHANGED <<clientVars, schedVars, pollVars, recVars, accepts>>
    BY <1>3 DEF Release
  <2>5. QED
    BY <1>1, <2>1, <2>2, <2>3, <2>4, TypePartsNext, TypeFrame
<1>4. CASE Begin(r)
  <2>1. RunTypes'
    BY <1>1, <1>4 DEF Begin, RunTypes
  <2>2. UNCHANGED <<clientVars, schedVars, gateVars, pollVars, recVars, accepts, histVars>>
    BY <1>4 DEF Begin
  <2>3. QED
    BY <1>1, <2>1, <2>2, TypePartsNext, TypeFrame
<1>5. CASE Login(r)
  <2>1. RunTypes'
    BY <1>1, <1>5 DEF Login, RunTypes, Outcomes
  <2>2. HistTypes'
    BY <1>1, <1>5 DEF Login, HistTypes
  <2>3. UNCHANGED <<clientVars, schedVars, gateVars, pollVars, recVars, accepts>>
    BY <1>5 DEF Login
  <2>4. QED
    BY <1>1, <2>1, <2>2, <2>3, TypePartsNext, TypeFrame
<1>6. ASSUME NEW o \in Outcomes, Finish(r, o) PROVE TypeOK'
  <2>1. CASE want[r] = task[r]
    <3>1. RunTypes'
      BY <1>1, <1>6, <2>1 DEF Finish, RunTypes
    <3>2. HistTypes'
      BY <1>1, <1>6, <2>1 DEF Finish, HistTypes
    <3>3. QED
      BY <1>1, <1>6, <3>1, <3>2, TypePartsNext, TypeFrame DEF Finish
  <2>2. CASE want[r] # task[r]
    <3>1. Done(r) /\ fresh' = [fresh EXCEPT ![r] = FALSE]
      BY <1>6, <2>2 DEF Finish
    <3>2. RunTypes'
      BY <1>1, <3>1, DoneTypes DEF RunTypes
    <3>3. HistTypes'
      BY <1>1, <1>6, <3>1, DoneTypes DEF Finish, HistTypes
    <3>4. QED
      BY <1>1, <1>6, <3>2, <3>3, TypePartsNext, TypeFrame DEF Finish
  <2>3. QED
    BY <2>1, <2>2
<1>7. QED
  BY <1>2, <1>3, <1>4, <1>5, <1>6

\* The entry of a repository after a report: the backoff it plans, within its bounds.
LEMMA ReportEntry ==
  ASSUME SchedInv, NEW r \in Repos, Report(r), entries[r] # None, entries[r].key = task[r]
  PROVE  /\ outcome[r] = "ok" => holdOff'[r] = 0
         /\ outcome[r] # "ok" =>
              /\ holdOff'[r] \in 0..Tier
              /\ want[r] # task[r] => holdOff'[r] = 0
              /\ holdOff'[r] <= entries'[r].wait
         /\ entries'[r] \in Entries /\ entries'[r].key = entries[r].key
         /\ \A q \in Repos \ {r} : entries'[q] = entries[q] /\ holdOff'[q] = holdOff[q]
         /\ entries' \in [Repos -> Entries \cup {None}] /\ holdOff' \in [Repos -> 0..Tier]
<1> DEFINE f == Lesser(entries[r].failures + 1, MaxFailures)
           c == outcome[r] \in {"refused", "denied"}
           Planned(d, g, k) == [entries[r] EXCEPT !.wait = d, !.failures = g, !.credential = k]
<1>1. EntryTypes /\ HistTypes /\ entries[r] \in Entries
  BY TypeParts DEF SchedInv, EntryTypes
<1>2. /\ entries[r].key \in Keys /\ entries[r].notBefore \in 0..Jitter
      /\ entries[r].failures \in 0..MaxFailures
  BY <1>1 DEF Entries
<1>3. f \in 1..MaxFailures /\ c \in BOOLEAN
  BY <1>2, SchedulerAssumption DEF Lesser
<1> HIDE DEF f, c
<1>4. ASSUME NEW d \in 0..(Tier + Jitter), NEW g \in 0..MaxFailures, NEW k \in BOOLEAN
      PROVE  /\ Planned(d, g, k) \in Entries
             /\ Planned(d, g, k).key = entries[r].key /\ Planned(d, g, k).wait = d
  BY <1>1 DEF Entries
<1>5. CASE outcome[r] = "ok"
  <2>1. PICK d \in SuccessDelays :
          entries' = [entries EXCEPT ![r] = [@ EXCEPT !.wait = d, !.failures = 0,
                                                      !.credential = FALSE]]
    BY <1>5 DEF Report
  <2>2. d \in 0..(Tier + Jitter) /\ 0 \in 0..MaxFailures /\ 0 \in 0..Tier
    BY Bounds, SchedulerAssumption
  <2>3. holdOff' = [holdOff EXCEPT ![r] = 0]
    BY <1>5 DEF Report
  <2>4. /\ entries'[r] = Planned(d, 0, FALSE)
        /\ \A q \in Repos \ {r} : entries'[q] = entries[q]
        /\ entries' = [entries EXCEPT ![r] = entries'[r]]
    BY <1>1, <2>1 DEF EntryTypes
  <2>5. entries'[r] \in Entries /\ entries'[r].key = entries[r].key
    <3>1. Planned(d, 0, FALSE) \in Entries /\ Planned(d, 0, FALSE).key = entries[r].key
      BY <1>1, <2>2 DEF Entries
    <3> HIDE DEF Planned
    <3>2. QED
      BY <2>4, <3>1
  <2>6. QED
    BY <1>1, <1>5, <2>2, <2>3, <2>4, <2>5 DEF EntryTypes, HistTypes
<1>6. CASE outcome[r] # "ok"
  <2>1. PICK d \in FailureDelays(f, c) :
          entries' = [entries EXCEPT ![r] = [@ EXCEPT !.wait = d, !.failures = f,
                                                      !.credential = c]]
    BY <1>6 DEF Report, f, c
  <2> DEFINE h == IF want[r] = task[r] THEN BackoffFloor(f, c) ELSE 0
  <2>2. holdOff' = [holdOff EXCEPT ![r] = h]
    BY <1>6 DEF Report, f, c
  <2>3. /\ d \in 0..(Tier + Jitter) /\ BackoffFloor(f, c) \in 0..Tier /\ BackoffFloor(f, c) <= d
        /\ f \in 0..MaxFailures
    BY <1>3, <2>1, Bounds, SchedulerAssumption
  <2>4. h \in 0..Tier /\ h <= d /\ (want[r] # task[r] => h = 0)
    BY <2>3, Bounds
  <2> HIDE DEF h
  <2>5. /\ entries'[r] = Planned(d, f, c)
        /\ \A q \in Repos \ {r} : entries'[q] = entries[q]
        /\ entries' = [entries EXCEPT ![r] = entries'[r]]
    BY <1>1, <2>1 DEF EntryTypes
  <2> HIDE DEF Planned
  <2>6. entries'[r] \in Entries /\ entries'[r].key = entries[r].key /\ entries'[r].wait = d
    BY <1>3, <1>4, <2>3, <2>5
  <2>7. QED
    BY <1>1, <1>6, <2>2, <2>4, <2>5, <2>6 DEF EntryTypes, HistTypes
<1>7. QED
  BY <1>5, <1>6

\* The run that ends has a task, and its task a binding.
LEMMA ReportTask ==
  ASSUME RunTypes, RunnerInv, NEW r \in Repos, Report(r)
  PROVE  task[r] \in Keys /\ BindOf[task[r]] \in Binds
<1>1. pc[r] = "report"
  BY Zenon DEF Report
<1>2. task[r] \in Keys
  BY <1>1 DEF RunnerInv, RunTypes
<1>3. QED
  BY <1>2, SchedulerAssumption

\* completed.
LEMMA ReportTypes ==
  ASSUME SchedInv, NEW r \in Repos, Report(r)
  PROVE  TypeOK'
<1> USE SchedulerAssumption, Bounds
<1>1. TypeOK /\ EntryTypes /\ GateTypes /\ RunTypes /\ HistTypes
  BY TypeParts DEF SchedInv
<1>2. task[r] \in Keys /\ BindOf[task[r]] \in Binds
  BY <1>1, ReportTask DEF SchedInv
<1>3. Done(r) /\ UNCHANGED <<clientVars, wasSuspended, manual, pollVars, recVars, accepts>>
  BY DEF Report
<1>4. /\ entries' \in [Repos -> Entries \cup {None}] /\ holdOff' \in [Repos -> 0..Tier]
      /\ overwritten' \subseteq Repos
  <2>1. CASE UNCHANGED <<entries, holdOff, overwritten>>
    BY <1>1, <2>1 DEF EntryTypes, HistTypes
  <2>2. CASE entries[r] # None /\ entries[r].key = task[r]
    <3>1. overwritten' = overwritten \ {r}
      BY <2>2 DEF Report
    <3>2. QED
      BY <1>1, <2>2, <3>1, ReportEntry DEF HistTypes
  <2>3. QED
    BY <2>1, <2>2 DEF Report
<1>5. /\ gates' \in [Binds -> (0..Tier) \cup {None}] /\ passes' \in [Repos -> Binds \cup {None}]
      /\ fresh' \in [Repos -> BOOLEAN] /\ refusedLast' \in [Binds -> BOOLEAN]
  <2>1. CASE /\ UNCHANGED <<gates, passes, refusedLast>>
             /\ fresh' = [fresh EXCEPT ![r] = FALSE]
    BY <1>1, <2>1 DEF GateTypes, RunTypes, HistTypes
  <2>2. CASE /\ Succeeded(r) /\ UNCHANGED refusedLast
             /\ fresh' = [fresh EXCEPT ![r] = FALSE]
    <3>1. gates' \in [Binds -> (0..Tier) \cup {None}]
      BY <1>1, <1>2, <2>2 DEF GateTypes, Succeeded
    <3>2. passes' \in [Repos -> Binds \cup {None}]
      BY <1>1, <1>2, <2>2 DEF GateTypes, Succeeded
    <3>3. QED
      BY <1>1, <2>2, <3>1, <3>2 DEF RunTypes, HistTypes
  <2>3. CASE Arm(r)
    <3>1. gates' \in [Binds -> (0..Tier) \cup {None}] /\ passes' \in [Repos -> Binds \cup {None}]
      BY <1>1, <1>2, <2>3 DEF GateTypes, Arm
    <3>2. fresh' \in [Repos -> BOOLEAN]
      BY <1>1, <2>3 DEF RunTypes, Arm
    <3>3. refusedLast' \in [Binds -> BOOLEAN]
      BY <1>1, <1>2, <2>3 DEF HistTypes, Arm
    <3>4. QED
      BY <3>1, <3>2, <3>3
  <2>4. QED
    BY <2>1, <2>2, <2>3 DEF Report
<1>6. EntryTypes' /\ GateTypes'
  BY <1>1, <1>3, <1>4, <1>5 DEF EntryTypes, GateTypes
<1>7. RunTypes' /\ HistTypes'
  BY <1>1, <1>3, <1>4, <1>5, DoneTypes DEF RunTypes, HistTypes
<1>8. QED
  BY <1>1, <1>3, <1>6, <1>7, TypePartsNext, TypeFrame

\* Time, the suspension and the origin.
LEMMA EnvironmentTypes ==
  ASSUME TypeOK,
         \/ Tick \/ (\E s \in Suspensions : SetSuspended(s))
         \/ (\E b \in Binds : \E ok \in Accepting[b] : OriginChanges(b, ok))
  PROVE  TypeOK'
<1> USE SchedulerAssumption
<1>1. ClientTypes /\ EntryTypes /\ GateTypes /\ HistTypes /\ accepts \in [Binds -> BOOLEAN]
  BY TypeParts
<1>2. CASE Tick
  <2>1. ASSUME NEW r \in Repos, entries[r] # None
        PROVE  [entries[r] EXCEPT !.wait = Down(@), !.notBefore = Down(@)] \in Entries
    <3>1. entries[r] \in Entries
      BY <1>1, <2>1 DEF EntryTypes
    <3>2. entries[r].wait \in 0..(Tier + Jitter) /\ entries[r].notBefore \in 0..Jitter
      BY <3>1 DEF Entries
    <3>3. Down(entries[r].wait) \in 0..(Tier + Jitter) /\ Down(entries[r].notBefore) \in 0..Jitter
      BY <3>2, Bounds, DownBounds
    <3>4. QED
      BY <3>1, <3>3 DEF Entries
  <2>2. EntryTypes'
    BY <1>1, <1>2, <2>1 DEF Tick, EntryTypes
  <2>3. \A b \in Binds : Down(gates[b]) \in (0..Tier) \cup {None}
    BY <1>1, Bounds, DownBounds DEF GateTypes
  <2>4. \A r \in Repos : Down(manual[r]) \in 0..Gap /\ Down(holdOff[r]) \in 0..Tier
    BY <1>1, Bounds, DownBounds DEF GateTypes, HistTypes
  <2>5. GateTypes' /\ HistTypes'
    BY <1>1, <1>2, <2>3, <2>4 DEF Tick, GateTypes, HistTypes
  <2>6. UNCHANGED <<clientVars, pollVars, recVars, runVars, accepts>>
    BY <1>2 DEF Tick
  <2>7. QED
    BY <2>2, <2>5, <2>6, TypePartsNext, TypeFrame
<1>3. ASSUME NEW s \in Suspensions, SetSuspended(s) PROVE TypeOK'
  <2>1. ClientTypes'
    BY <1>1, <1>3 DEF SetSuspended, ClientTypes
  <2>2. UNCHANGED <<schedVars, gateVars, pollVars, recVars, runVars, accepts, histVars>>
    BY <1>3 DEF SetSuspended, histVars
  <2>3. QED
    BY <2>1, <2>2, TypePartsNext, TypeFrame
<1>4. ASSUME NEW b \in Binds, NEW ok \in Accepting[b], OriginChanges(b, ok) PROVE TypeOK'
  <2>1. accepts' \in [Binds -> BOOLEAN]
    BY <1>1, <1>4 DEF OriginChanges
  <2>2. UNCHANGED <<clientVars, schedVars, gateVars, pollVars, recVars, runVars, histVars>>
    BY <1>4 DEF OriginChanges
  <2>3. QED
    BY <2>1, <2>2, TypePartsNext, TypeFrame
<1>5. QED
  BY <1>2, <1>3, <1>4

\* Every step keeps the types.
LEMMA NextTypes ==
  ASSUME SchedInv, ProbeInv, [Next]_vars
  PROVE  TypeOK'
<1>1. TypeOK
  BY DEF SchedInv
<1>2. UNCHANGED vars => TypeOK'
  BY <1>1, TypePartsNext, TypeFrame DEF vars
<1>3. QED
  BY <1>1, <1>2, ConfigureTypes, ReadTypes, ReconcileTypes, StartTypes, RequestTypes,
     PollTypesKept, ProbeTypes, RunnerTypes, ReportTypes, EnvironmentTypes
     DEF Next, Steps, Poll, Runner

-----------------------------------------------------------------------------
(***************************************************************************)
(* The runners, the request and the poll.                                  *)
(***************************************************************************)
\* Runners are started by enqueue and otherwise change in steps of their own.
LEMMA RunnerSteps ==
  ASSUME [Next]_vars
  PROVE  UNCHANGED runVars \/ (\E S : Enqueue(S)) \/ (\E r \in Repos : Runner(r))
<1>1. CASE UNCHANGED vars
  BY <1>1 DEF vars
<1>2. CASE \E w \in Wanted : Configure(w) \/ ReloadProviders(w)
  BY <1>2 DEF Configure, ReloadProviders
<1>3. CASE \E a \in Actors : ReadRepos(a) \/ Reconcile(a) \/ StartSyncs(a)
  BY <1>3 DEF ReadRepos, Reconcile, StartSyncs
<1>4. CASE RequestAll \/ (\E r \in Requests \cap Repos : RequestNow(r)) \/ AdmitManual \/ StartNow
  BY <1>4 DEF RequestAll, RequestNow, AdmitManual, StartNow
<1>5. CASE Poll
  BY <1>5 DEF Poll, PollRead, PollBegin, BeginProbe, PollLaunch, PollOne, PollCandidate, Dispatch
<1>6. CASE \/ (\E s \in Suspensions : SetSuspended(s)) \/ Tick
           \/ (\E b \in Binds : \E ok \in Accepting[b] : OriginChanges(b, ok))
  BY <1>6 DEF SetSuspended, OriginChanges, Tick
<1>7. QED
  BY <1>1, <1>2, <1>3, <1>4, <1>5, <1>6 DEF Next, Steps

\* Only the read loop's own steps change its request.
LEMMA RequestSteps ==
  ASSUME [Next]_vars
  PROVE  \/ UNCHANGED <<phase, req>>
         \/ \E w \in Wanted : Configure(w) \/ ReloadProviders(w)
         \/ \E a \in Actors : ReadRepos(a) \/ Reconcile(a) \/ StartSyncs(a)
         \/ (\E r \in Requests \cap Repos : RequestNow(r)) \/ AdmitManual \/ StartNow
<1>1. CASE UNCHANGED vars
  BY <1>1 DEF vars, recVars
<1>2. CASE RequestAll
  BY <1>2 DEF RequestAll, recVars
<1>3. CASE Poll
  BY <1>3 DEF Poll, PollRead, PollBegin, BeginProbe, PollLaunch, PollOne, PollCandidate, recVars
<1>4. CASE \E r \in Repos : Runner(r)
  BY <1>4 DEF Runner, Claim, Release, Begin, Login, Report, Finish, recVars
<1>5. CASE \/ (\E s \in Suspensions : SetSuspended(s)) \/ Tick
           \/ (\E b \in Binds : \E ok \in Accepting[b] : OriginChanges(b, ok))
  BY <1>5 DEF SetSuspended, OriginChanges, Tick, recVars
<1>6. QED
  BY <1>1, <1>2, <1>3, <1>4, <1>5 DEF Next, Steps

\* The runners' bookkeeping is kept.
LEMMA RunnerKept ==
  ASSUME SchedInv, [Next]_vars
  PROVE  RunnerInv'
<1> USE SchedulerAssumption, NoneAssumption DEF Outcomes
<1>1. RunnerInv /\ RunTypes
  BY TypeParts DEF SchedInv
<1>2. CASE UNCHANGED runVars
  BY <1>1, <1>2 DEF RunnerInv, runVars
<1>3. ASSUME NEW S, Enqueue(S) PROVE RunnerInv'
  BY <1>1, <1>3 DEF Enqueue, RunnerInv
<1>4. ASSUME NEW r \in Repos, Done(r) PROVE RunnerInv'
  BY <1>1, <1>4 DEF Done, RunnerInv, RunTypes
<1>5. ASSUME NEW r \in Repos, Claim(r) PROVE RunnerInv'
  BY <1>1, <1>5 DEF Claim, RunnerInv, RunTypes
<1>6. ASSUME NEW r \in Repos, Begin(r) PROVE RunnerInv'
  BY <1>1, <1>6 DEF Begin, RunnerInv, RunTypes
<1>7. ASSUME NEW r \in Repos, Login(r) PROVE RunnerInv'
  BY <1>1, <1>7 DEF Login, RunnerInv, RunTypes
<1>8. ASSUME NEW r \in Repos, NEW o \in Outcomes, Finish(r, o) PROVE RunnerInv'
  <2>1. CASE Done(r)
    BY <1>4, <2>1
  <2>2. CASE pc' = [pc EXCEPT ![r] = "report"] /\ UNCHANGED task
             /\ outcome' = [outcome EXCEPT ![r] = o]
    BY <1>1, <1>8, <2>2 DEF Finish, RunnerInv, RunTypes
  <2>3. QED
    BY <1>8, <2>1, <2>2 DEF Finish
<1>9. ASSUME NEW r \in Repos, Release(r) \/ Report(r) PROVE RunnerInv'
  BY <1>4, <1>9 DEF Release, Report
<1>10. QED
  BY <1>2, <1>3, <1>5, <1>6, <1>7, <1>8, <1>9, RunnerSteps DEF Runner

\* The read loop keeps its request until it is served.
LEMMA RequestKept ==
  ASSUME SchedInv, [Next]_vars
  PROVE  RequestInv'
<1> USE SchedulerAssumption
<1>1. RequestInv /\ RecTypes /\ EntryTypes
  BY TypeParts DEF SchedInv
<1>2. CASE UNCHANGED <<phase, req>>
  BY <1>1, <1>2 DEF RequestInv
<1>3. CASE \E w \in Wanted : Configure(w) \/ ReloadProviders(w)
  BY <1>1, <1>3 DEF Configure, ReloadProviders, RequestInv, RecTypes, Actors
<1>4. CASE \E a \in Actors : ReadRepos(a) \/ Reconcile(a) \/ StartSyncs(a)
  BY <1>1, <1>4 DEF ReadRepos, Reconcile, StartSyncs, RequestInv, RecTypes, Actors
<1>5. ASSUME NEW r \in Repos, RequestNow(r) PROVE RequestInv'
  <2>1. entries[r] # None => BindOf[entries[r].key] \in Binds
    BY <1>1 DEF EntryTypes, Entries
  <2>2. QED
    BY <1>5, <2>1 DEF RequestNow, RequestInv
<1>6. CASE AdmitManual \/ StartNow
  BY <1>1, <1>6 DEF AdmitManual, StartNow, RequestInv, RecTypes, Actors
<1>7. QED
  BY <1>2, <1>3, <1>4, <1>5, <1>6, RequestSteps

\* Only the poll changes what it works on; entries change under the scheduler's lock.
LEMMA PollSteps ==
  ASSUME [Next]_vars
  PROVE  Poll \/ (UNCHANGED pollVars /\ (Unlocked \/ UNCHANGED entries))
<1>1. CASE UNCHANGED vars
  BY <1>1 DEF vars, schedVars
<1>2. CASE \E w \in Wanted : Configure(w) \/ ReloadProviders(w)
  BY <1>2 DEF Configure, ReloadProviders, schedVars
<1>3. CASE \E a \in Actors : ReadRepos(a) \/ Reconcile(a) \/ StartSyncs(a)
  BY <1>3 DEF ReadRepos, Reconcile, StartSyncs, schedVars
<1>4. CASE RequestAll \/ (\E r \in Requests \cap Repos : RequestNow(r)) \/ AdmitManual \/ StartNow
  BY <1>4 DEF RequestAll, RequestNow, AdmitManual, StartNow, schedVars
<1>5. CASE \E r \in Repos : Runner(r)
  BY <1>5 DEF Runner, Claim, Release, Begin, Login, Report, Finish, schedVars
<1>6. CASE \/ (\E s \in Suspensions : SetSuspended(s)) \/ Tick
           \/ (\E b \in Binds : \E ok \in Accepting[b] : OriginChanges(b, ok))
  BY <1>6 DEF SetSuspended, OriginChanges, Tick, schedVars
<1>7. QED
  BY <1>1, <1>2, <1>3, <1>4, <1>5, <1>6 DEF Next, Steps

\* dispatch touches the entry of one repository only.
LEMMA DispatchOthers ==
  ASSUME TypeOK, NEW r \in Repos, Dispatch(r), NEW q \in Due(entries), q # r
  PROVE  q \in Due(entries')
<1>1. q \in Repos /\ entries \in [Repos -> Entries \cup {None}]
  BY TypeParts DEF EntryTypes, Due
<1>2. entries'[q] = entries[q]
  BY <1>1 DEF Dispatch
<1>3. QED
  BY <1>2 DEF Due, IsDue

\* The poll keeps what it works on due.
LEMMA PollKept ==
  ASSUME SchedInv, [Next]_vars
  PROVE  PollInv'
<1> USE SchedulerAssumption
<1>1. TypeOK /\ PollInv /\ PollTypes /\ EntryTypes
  BY TypeParts DEF SchedInv
<1>2. CASE UNCHANGED pollVars /\ (Unlocked \/ UNCHANGED entries)
  <2>1. CASE UNCHANGED entries
    BY <1>1, <1>2, <2>1 DEF PollInv, pollVars, Unlocked, Due, IsDue
  <2>2. CASE Unlocked
    BY <1>1, <1>2, <2>2 DEF PollInv, pollVars, Unlocked
  <2>3. QED
    BY <1>2, <2>1, <2>2
<1>3. CASE PollRead
  BY <1>1, <1>3 DEF PollRead, PollInv, Unlocked, Due, IsDue, schedVars
<1>4. CASE PollBegin
  <2>1. halfOpen = {}
    BY <1>1, <1>4 DEF PollBegin, PollInv, Unlocked
  <2>2. CASE poller = "suspended"
    BY <1>1, <1>4, <2>1, <2>2 DEF PollBegin, PollInv, Unlocked
  <2>3. CASE poller = "clear"
    <3>1. todo' = Due(entries') /\ poller' = IF Due(entries') = {} THEN "idle" ELSE "each"
      BY <1>4, <2>3 DEF PollBegin
    <3>2. halfOpen' = {}
      BY <1>4, <2>1 DEF PollBegin
    <3>3. QED
      BY <3>1, <3>2 DEF PollInv, Unlocked
  <2>4. QED
    BY <1>4, <2>2, <2>3 DEF PollBegin
<1>5. ASSUME NEW r \in Repos, PollOne(r) PROVE PollInv'
  <2>1. \A q \in Due(entries) \ {r} : q \in Due(entries')
    <3>1. CASE Dispatch(r)
      BY <1>1, <3>1, DispatchOthers
    <3>2. CASE UNCHANGED entries
      BY <3>2 DEF Due, IsDue
    <3>3. QED
      BY <1>5, <3>1, <3>2 DEF PollOne
  <2>2. halfOpen' \subseteq Due(entries')
    <3>1. CASE halfOpen' = halfOpen
      BY <1>1, <1>5, <2>1, <3>1 DEF PollOne, PollInv
    <3>2. CASE halfOpen' = halfOpen \cup {r} /\ UNCHANGED entries
      BY <1>1, <1>5, <3>2 DEF PollOne, PollInv, Due, IsDue
    <3>3. QED
      BY <1>5, <3>1, <3>2 DEF PollOne
  <2>3. todo' \subseteq Due(entries') /\ todo' \cap halfOpen' = {}
    BY <1>1, <1>5, <2>1 DEF PollOne, PollInv
  <2>4. QED
    BY <1>5, <2>2, <2>3 DEF PollOne, PollInv, Unlocked
<1>6. ASSUME NEW r \in Repos, PollCandidate(r) PROVE PollInv'
  <2>1. Due(entries') = Due(entries)
    BY <1>6 DEF PollCandidate, Due, IsDue, schedVars
  <2>2. QED
    BY <1>1, <1>6, <2>1 DEF PollCandidate, PollInv, Unlocked
<1>7. CASE BeginProbe
  <2>1. Due(entries') = Due(entries)
    BY <1>7 DEF BeginProbe, Due, IsDue, schedVars
  <2>2. QED
    BY <1>1, <1>7, <2>1 DEF BeginProbe, PollInv, Unlocked
<1>8. CASE PollLaunch
  <2>1. probe \in Due(entries) \ halfOpen /\ halfOpen \subseteq Due(entries) /\ todo = {}
    BY <1>1, <1>8 DEF PollLaunch, PollInv
  <2>2. probe \in Repos /\ Dispatch(probe)
    BY <1>8, <2>1 DEF PollLaunch, Due
  <2>3. halfOpen' \subseteq Due(entries')
    BY <1>1, <1>8, <2>1, <2>2, DispatchOthers DEF PollLaunch
  <2>4. QED
    BY <1>8, <2>1, <2>3 DEF PollLaunch, PollInv, Unlocked
<1>9. QED
  BY <1>2, <1>3, <1>4, <1>5, <1>6, <1>7, <1>8, PollSteps DEF Poll

-----------------------------------------------------------------------------
(***************************************************************************)
(* The gates.                                                              *)
(***************************************************************************)
\* What is recorded of the latest login changes in three steps only.
LEMMA RefusalSteps ==
  ASSUME [Next]_vars
  PROVE  \/ UNCHANGED refusedLast
         \/ \E a \in Actors : Reconcile(a)
         \/ \E r \in Repos : Login(r) \/ Report(r)
<1>1. CASE UNCHANGED vars
  BY <1>1 DEF vars, histVars
<1>2. CASE \E w \in Wanted : Configure(w) \/ ReloadProviders(w)
  BY <1>2 DEF Configure, ReloadProviders
<1>3. CASE \E a \in Actors : ReadRepos(a) \/ StartSyncs(a)
  BY <1>3 DEF ReadRepos, StartSyncs, histVars
<1>4. CASE RequestAll \/ (\E r \in Requests \cap Repos : RequestNow(r)) \/ AdmitManual \/ StartNow
  BY <1>4 DEF RequestAll, RequestNow, AdmitManual, StartNow, histVars
<1>5. CASE Poll
  BY <1>5 DEF Poll, PollRead, PollBegin, BeginProbe, PollLaunch, PollOne, PollCandidate, histVars
<1>6. CASE \E r \in Repos : Claim(r) \/ Release(r) \/ Begin(r) \/ \E o \in Outcomes : Finish(r, o)
  BY <1>6 DEF Claim, Release, Begin, Finish, histVars
<1>7. CASE \/ (\E s \in Suspensions : SetSuspended(s)) \/ Tick
           \/ (\E b \in Binds : \E ok \in Accepting[b] : OriginChanges(b, ok))
  BY <1>7 DEF SetSuspended, OriginChanges, Tick, histVars
<1>8. QED
  BY <1>1, <1>2, <1>3, <1>4, <1>5, <1>6, <1>7 DEF Next, Steps, Runner

\* The gates and the passes change in these steps only.
LEMMA GateSteps ==
  ASSUME [Next]_vars
  PROVE  \/ UNCHANGED <<gates, passes>>
         \/ \E a \in Actors : Reconcile(a)
         \/ AdmitManual \/ BeginProbe \/ PollLaunch \/ Tick
         \/ \E r \in Repos : Claim(r) \/ Release(r) \/ Report(r)
<1>1. CASE UNCHANGED vars
  BY <1>1 DEF vars, gateVars
<1>2. CASE \E w \in Wanted : Configure(w) \/ ReloadProviders(w)
  BY <1>2 DEF Configure, ReloadProviders, gateVars
<1>3. CASE \E a \in Actors : ReadRepos(a) \/ StartSyncs(a)
  BY <1>3 DEF ReadRepos, StartSyncs, gateVars
<1>4. CASE RequestAll \/ (\E r \in Requests \cap Repos : RequestNow(r)) \/ StartNow
  BY <1>4 DEF RequestAll, RequestNow, StartNow, gateVars
<1>5. CASE PollRead \/ PollBegin \/ (\E r \in Repos : PollOne(r) \/ PollCandidate(r))
  BY <1>5 DEF PollRead, PollBegin, PollOne, PollCandidate, gateVars
<1>6. CASE \E r \in Repos : Begin(r) \/ Login(r) \/ \E o \in Outcomes : Finish(r, o)
  BY <1>6 DEF Begin, Login, Finish, gateVars
<1>7. CASE \/ (\E s \in Suspensions : SetSuspended(s))
           \/ (\E b \in Binds : \E ok \in Accepting[b] : OriginChanges(b, ok))
  BY <1>7 DEF SetSuspended, OriginChanges, gateVars
<1>8. QED
  BY <1>1, <1>2, <1>3, <1>4, <1>5, <1>6, <1>7 DEF Next, Steps, Poll, Runner

\* Only a reconcile and a report take a gate away, and both need the scheduler's lock.
LEMMA GatesStand ==
  ASSUME SchedInv, ProbeInv, [Next]_vars,
         \A a \in Actors : ~Reconcile(a), \A r \in Repos : ~Report(r), NEW b \in Binds,
         gates[b] # None
  PROVE  gates'[b] # None
<1> USE SchedulerAssumption, Bounds
<1>1. GateTypes /\ ClientTypes
  BY TypeParts DEF SchedInv
<1>2. CASE UNCHANGED gates
  BY <1>2
<1>3. CASE BeginProbe
  BY <1>1, <1>3 DEF BeginProbe, GateTypes
<1>4. CASE PollLaunch
  <2>1. undo.gate \in 0..Tier
    BY <1>4 DEF PollLaunch, ProbeInv
  <2>2. QED
    BY <1>1, <1>4, <2>1 DEF PollLaunch, GateTypes
<1>5. CASE Tick
  <2>1. gates'[b] = Down(gates[b])
    BY <1>5 DEF Tick
  <2>2. QED
    BY <1>1, <2>1, DownBounds DEF GateTypes
<1>6. ASSUME NEW r \in Repos, Claim(r) PROVE gates'[b] # None
  BY <1>1, <1>6 DEF Claim, GateTypes
<1>7. CASE AdmitManual \/ (\E r \in Repos : Release(r))
  BY <1>7 DEF AdmitManual, Release
<1>8. QED
  BY <1>2, <1>3, <1>4, <1>5, <1>6, <1>7, GateSteps

\* What a probe was granted can be taken back.
LEMMA ProbeKept ==
  ASSUME SchedInv, GateInv, [Next]_vars
  PROVE  ProbeInv'
<1> USE SchedulerAssumption, Bounds
<1>1. TypeOK /\ GateTypes /\ PollInv /\ ProbeInv /\ PassHasGate
  BY TypeParts DEF SchedInv, GateInv
<1>2. CASE UNCHANGED pollVars /\ (Unlocked \/ UNCHANGED entries)
  <2> SUFFICES ASSUME poller \in {"grant", "launch"} PROVE ProbeInv'
    BY <1>2 DEF pollVars, ProbeInv
  <2>1. (\A a \in Actors : ~Reconcile(a)) /\ (\A r \in Repos : ~Report(r)) /\ UNCHANGED entries
    BY <1>2 DEF Reconcile, Report, Unlocked
  <2>2. \A b \in Binds : gates[b] # None => gates'[b] # None
    BY <1>1, <2>1, GatesStand
  <2>3. BindOf[entries[probe].key] \in Binds
    BY <1>1, DueHasEntry DEF PollInv
  <2>4. QED
    BY <1>1, <1>2, <2>1, <2>2, <2>3 DEF ProbeInv, pollVars
<1>3. CASE PollRead \/ PollBegin \/ (\E r \in Repos : PollOne(r)) \/ PollLaunch
  BY <1>3 DEF PollRead, PollBegin, PollOne, PollLaunch, ProbeInv
<1>4. ASSUME NEW r \in Repos, PollCandidate(r) PROVE ProbeInv'
  BY <1>4 DEF PollCandidate, ProbeInv, gateVars, schedVars
<1>5. CASE BeginProbe
  <2> DEFINE b == BindOf[entries[probe].key]
  <2>1. b \in Binds /\ probe \in Repos
    BY <1>1, <1>5, DueHasEntry DEF BeginProbe, PollInv
  <2>2. gates[b] \in 0..Tier /\ passes[probe] \in Binds \cup {None}
    BY <1>1, <1>5, <2>1 DEF BeginProbe, ProbeInv, GateTypes
  <2>3. gates' = [gates EXCEPT ![b] = Interval] /\ UNCHANGED <<probe, entries>>
        /\ undo' = [gate |-> gates[b], pass |-> passes[probe]] /\ poller' = "launch"
    BY <1>5 DEF BeginProbe, schedVars
  <2>4. b' = b
    BY <2>3
  <2>5. passes[probe] # None => gates[passes[probe]] # None
    BY <1>1, <2>1 DEF PassHasGate
  <2> HIDE DEF b
  <2>6. gates'[b] # None /\ undo' \in [gate : 0..Tier, pass : Binds \cup {None}]
    BY <1>1, <2>1, <2>2, <2>3 DEF GateTypes
  <2>7. undo'.pass # None => gates'[undo'.pass] # None
    BY <1>1, <2>1, <2>2, <2>3, <2>5 DEF GateTypes
  <2>8. QED
    BY <2>3, <2>4, <2>6, <2>7 DEF ProbeInv, b
<1>6. QED
  BY <1>2, <1>3, <1>4, <1>5, PollSteps DEF Poll

\* A pass has its gate.
LEMMA PassKept ==
  ASSUME SchedInv, GateInv, [Next]_vars
  PROVE  PassHasGate'
<1> USE SchedulerAssumption, Bounds
<1>1. TypeOK /\ GateTypes /\ RunTypes /\ ClientTypes /\ PollInv /\ ProbeInv /\ PassHasGate
  BY TypeParts DEF SchedInv, GateInv
<1>2. ASSUME NEW a \in Actors, Reconcile(a) PROVE PassHasGate'
  <2> DEFINE w == snapshot[a]
  <2>1. Retain(w)
    BY <1>2 DEF Reconcile
  <2> HIDE DEF w
  <2>2. QED
    BY <1>1, <2>1 DEF Retain, PassHasGate, GateTypes
<1>3. ASSUME NEW r \in Repos, Report(r) PROVE PassHasGate'
  <2>1. BindOf[task[r]] \in Binds
    BY <1>1, <1>3, ReportTask DEF SchedInv
  <2>2. CASE UNCHANGED <<gates, passes>>
    BY <1>1, <2>2 DEF PassHasGate
  <2>3. CASE Succeeded(r)
    BY <1>1, <2>1, <2>3 DEF Succeeded, PassHasGate, GateTypes
  <2>4. CASE Arm(r)
    BY <1>1, <2>1, <2>4 DEF Arm, PassHasGate, GateTypes
  <2>5. QED
    BY <1>3, <2>2, <2>3, <2>4 DEF Report
<1>4. ASSUME \A a \in Actors : ~Reconcile(a), \A r \in Repos : ~Report(r) PROVE PassHasGate'
  <2>1. \A b \in Binds : gates[b] # None => gates'[b] # None
    BY <1>1, <1>4, GatesStand
  <2>2. SUFFICES ASSUME NEW q \in Repos, passes'[q] # None PROVE gates'[passes'[q]] # None
    BY DEF PassHasGate
  <2>3. CASE passes'[q] = passes[q]
    BY <1>1, <2>1, <2>2, <2>3 DEF PassHasGate, GateTypes
  <2>4. CASE AdmitManual
    <3>1. req \in [repo : Repos, bind : Binds \cup {None}]
      BY <2>4 DEF AdmitManual, SchedInv, RequestInv
    <3>2. QED
      BY <1>1, <2>2, <2>3, <2>4, <3>1 DEF AdmitManual, GateTypes
  <2>5. CASE BeginProbe
    <3>1. BindOf[entries[probe].key] \in Binds /\ probe \in Repos
      BY <1>1, <2>5, DueHasEntry DEF BeginProbe, PollInv
    <3>2. QED
      BY <1>1, <2>2, <2>3, <2>5, <3>1 DEF BeginProbe, GateTypes
  <2>6. CASE PollLaunch
    <3>1. /\ undo.pass \in Binds \cup {None}
          /\ undo.pass # None => gates[undo.pass] # None
      BY <1>1, <2>6 DEF PollLaunch, ProbeInv
    <3>2. passes'[q] \in {passes[q], undo.pass}
      BY <1>1, <2>6 DEF PollLaunch, GateTypes
    <3>3. QED
      BY <2>1, <2>2, <2>3, <3>1, <3>2
  <2>7. ASSUME NEW r \in Repos, Claim(r) \/ Release(r) PROVE passes'[q] \in {passes[q], None}
    BY <1>1, <2>7 DEF Claim, Release, GateTypes
  <2>8. CASE UNCHANGED passes
    BY <2>3, <2>8
  <2>9. QED
    BY <1>4, <2>2, <2>3, <2>4, <2>5, <2>6, <2>7, <2>8, GateSteps DEF Tick
<1>5. QED
  BY <1>2, <1>3, <1>4

\* An attempt that may still open a gate has logged in after the last recorded refusal.
LEMMA FreshKept ==
  ASSUME SchedInv, GateInv, [Next]_vars
  PROVE  FreshInv'
<1> USE SchedulerAssumption, NoneAssumption DEF Outcomes
<1>1. RunTypes /\ HistTypes /\ RunnerInv /\ FreshInv
  BY TypeParts DEF SchedInv, GateInv
<1>2. CASE UNCHANGED <<runVars, refusedLast>>
  BY <1>1, <1>2 DEF FreshInv, runVars
<1>3. ASSUME NEW S, Enqueue(S), UNCHANGED refusedLast PROVE FreshInv'
  BY <1>1, <1>3 DEF Enqueue, FreshInv
<1>4. ASSUME NEW a \in Actors, Reconcile(a) PROVE FreshInv'
  <2>1. UNCHANGED runVars /\ \A b \in Binds : refusedLast'[b] => refusedLast[b]
    BY <1>4 DEF Reconcile
  <2>2. ASSUME NEW r \in Repos, pc[r] \in {"run", "report"} PROVE BindOf[task[r]] \in Binds
    BY <1>1, <2>2 DEF RunnerInv, RunTypes
  <2>3. QED
    BY <1>1, <2>1, <2>2 DEF FreshInv, runVars
<1>5. ASSUME NEW r \in Repos, Login(r) PROVE FreshInv'
  <2>1. \A q \in Repos : pc[q] \in {"run", "report"} => BindOf[task[q]] \in Binds
    BY <1>1 DEF RunnerInv, RunTypes
  <2>2. ASSUME NEW q \in Repos, pc'[q] \in {"run", "report"}, fresh'[q],
               outcome'[q] \in {"in", "ok"}
        PROVE  ~refusedLast'[BindOf[task'[q]]]
    <3>1. UNCHANGED <<pc, task, fresh>> /\ pc[r] = "run"
      BY <1>5 DEF Login
    <3>2. CASE q = r
      BY <1>1, <1>5, <2>1, <3>1, <3>2 DEF Login, HistTypes
    <3>3. CASE q # r
      <4>1. outcome'[q] = outcome[q]
        BY <1>1, <1>5, <3>3 DEF Login, RunTypes
      <4>2. ~refusedLast[BindOf[task[q]]]
        BY <1>1, <2>2, <3>1, <4>1 DEF FreshInv
      <4>3. QED
        BY <1>1, <1>5, <2>1, <2>2, <3>1, <4>2 DEF Login, HistTypes
    <3>4. QED
      BY <3>2, <3>3
  <2>3. QED
    BY <2>2 DEF FreshInv
<1>6. ASSUME NEW r \in Repos, Done(r), UNCHANGED refusedLast,
             \A q \in Repos \ {r} : fresh'[q] => fresh[q]
      PROVE  FreshInv'
  BY <1>1, <1>6 DEF Done, FreshInv, RunTypes
<1>7. ASSUME NEW r \in Repos, Claim(r) \/ Begin(r), UNCHANGED refusedLast PROVE FreshInv'
  BY <1>1, <1>7 DEF Claim, Begin, FreshInv, RunnerInv, RunTypes
<1>8. ASSUME NEW r \in Repos, NEW o \in Outcomes, Finish(r, o) PROVE FreshInv'
  <2>1. CASE Done(r) /\ fresh' = [fresh EXCEPT ![r] = FALSE]
    BY <1>1, <1>6, <1>8, <2>1 DEF Finish, RunTypes
  <2>2. CASE /\ pc' = [pc EXCEPT ![r] = "report"] /\ UNCHANGED <<task, fresh>>
             /\ outcome' = [outcome EXCEPT ![r] = o]
    BY <1>1, <1>8, <2>2 DEF Finish, FreshInv, RunTypes
  <2>3. QED
    BY <1>8, <2>1, <2>2 DEF Finish
<1>9. ASSUME NEW r \in Repos, Report(r) PROVE FreshInv'
  <2>1. Done(r) /\ BindOf[task[r]] \in Binds
    <3>1. Done(r)
      BY <1>9 DEF Report
    <3>2. QED
      BY <1>1, <1>9, <3>1, ReportTask
  <2>2. CASE UNCHANGED refusedLast /\ fresh' = [fresh EXCEPT ![r] = FALSE]
    BY <1>1, <1>6, <2>1, <2>2 DEF RunTypes
  <2>3. CASE Arm(r)
    <3>1. ASSUME NEW q \in Repos, pc'[q] \in {"run", "report"}, fresh'[q],
                 outcome'[q] \in {"in", "ok"}
          PROVE  ~refusedLast'[BindOf[task'[q]]]
      <4>1. q # r
        BY <1>1, <2>1, <3>1 DEF Done, RunTypes
      <4>2. pc'[q] = pc[q] /\ task'[q] = task[q] /\ outcome'[q] = outcome[q]
        BY <1>1, <2>1, <4>1 DEF Done, RunTypes
      <4>3. fresh[q] /\ BindOf[task[q]] # BindOf[task[r]]
        BY <2>3, <3>1 DEF Arm
      <4>4. ~refusedLast[BindOf[task[q]]]
        BY <1>1, <3>1, <4>2, <4>3 DEF FreshInv
      <4>5. BindOf[task[q]] \in Binds
        BY <1>1, <3>1, <4>2 DEF RunnerInv, RunTypes
      <4>6. QED
        BY <1>1, <2>3, <4>2, <4>3, <4>4, <4>5 DEF Arm, HistTypes
    <3>2. QED
      BY <3>1 DEF FreshInv
  <2>4. QED
    BY <1>9, <2>2, <2>3 DEF Report
<1>10. ASSUME NEW r \in Repos, Release(r) PROVE FreshInv'
  BY <1>6, <1>10 DEF Release
<1>11. CASE UNCHANGED refusedLast
  <2>1. ASSUME NEW r \in Repos, Runner(r) PROVE FreshInv'
    BY <1>5, <1>7, <1>8, <1>9, <1>10, <1>11, <2>1 DEF Runner
  <2>2. QED
    BY <1>2, <1>3, <1>11, <2>1, RunnerSteps
<1>12. QED
  BY <1>4, <1>5, <1>9, <1>11, RefusalSteps

\* A recorded refusal keeps its gate: an attempt that could open it would have logged in later.
LEMMA RefusalKept ==
  ASSUME SchedInv, GateInv, [Next]_vars
  PROVE  RefusalKeepsGate'
<1> USE SchedulerAssumption, Bounds
<1>1. /\ GateTypes /\ RunTypes /\ HistTypes /\ RunnerInv
      /\ ProbeInv /\ FreshInv /\ RefusalKeepsGate
  BY TypeParts DEF SchedInv, GateInv
<1>2. ASSUME NEW a \in Actors, Reconcile(a) PROVE RefusalKeepsGate'
  <2> DEFINE w == snapshot[a]
  <2>1. Retain(w) /\ refusedLast' = [b \in Binds |-> refusedLast[b] /\ b \in Uses(w)]
    BY <1>2 DEF Reconcile
  <2> HIDE DEF w
  <2>2. QED
    BY <1>1, <2>1 DEF Retain, RefusalKeepsGate
<1>3. ASSUME NEW r \in Repos, Report(r) PROVE RefusalKeepsGate'
  <2>1. BindOf[task[r]] \in Binds
    BY <1>1, <1>3, ReportTask
  <2>2. CASE UNCHANGED <<gates, refusedLast>>
    BY <1>1, <2>2 DEF RefusalKeepsGate
  <2>3. CASE outcome[r] = "ok" /\ Succeeded(r) /\ UNCHANGED refusedLast
    <3>1. fresh[r] => ~refusedLast[BindOf[task[r]]]
      BY <1>1, <1>3, <2>3 DEF Report, FreshInv
    <3>2. QED
      BY <1>1, <2>1, <2>3, <3>1 DEF Succeeded, RefusalKeepsGate, GateTypes
  <2>4. CASE Arm(r)
    BY <1>1, <2>1, <2>4 DEF Arm, RefusalKeepsGate, GateTypes, HistTypes
  <2>5. QED
    BY <1>3, <2>2, <2>3, <2>4 DEF Report
<1>4. ASSUME \A a \in Actors : ~Reconcile(a), \A r \in Repos : ~Report(r)
      PROVE  RefusalKeepsGate'
  <2>1. \A b \in Binds : gates[b] # None => gates'[b] # None
    BY <1>1, <1>4, GatesStand
  <2>2. \A b \in Binds : refusedLast'[b] => refusedLast[b]
    BY <1>1, <1>4, RefusalSteps DEF Login, HistTypes
  <2>3. QED
    BY <1>1, <2>1, <2>2 DEF RefusalKeepsGate
<1>5. QED
  BY <1>2, <1>3, <1>4

\* Both invariants hold in every reachable state.
LEMMA GatesHold == Spec => [](SchedInv /\ GateInv)
<1>1. Init => SchedInv /\ GateInv
  <2> SUFFICES ASSUME Init PROVE SchedInv /\ GateInv
    OBVIOUS
  <2>1. TypeOK
    BY InitTypes
  <2>2. RunnerInv /\ RequestInv
    BY NoneAssumption DEF Init, RunnerInv, RequestInv, Actors, Outcomes
  <2>3. PollInv
    BY DEF Init, PollInv, Unlocked
  <2>4. ProbeInv /\ PassHasGate /\ FreshInv /\ RefusalKeepsGate
    BY DEF Init, ProbeInv, PassHasGate, FreshInv, RefusalKeepsGate
  <2>5. QED
    BY <2>1, <2>2, <2>3, <2>4 DEF SchedInv, GateInv
<1>2. SchedInv /\ GateInv /\ [Next]_vars => (SchedInv /\ GateInv)'
  <2> SUFFICES ASSUME SchedInv, GateInv, [Next]_vars PROVE (SchedInv /\ GateInv)'
    OBVIOUS
  <2>1. ProbeInv
    BY DEF GateInv
  <2>2. SchedInv'
    BY <2>1, NextTypes, RunnerKept, RequestKept, PollKept DEF SchedInv
  <2>3. GateInv'
    BY ProbeKept, PassKept, FreshKept, RefusalKept DEF GateInv
  <2>4. QED
    BY <2>2, <2>3
<1>3. QED
  BY <1>1, <1>2, PTL DEF Spec

\* Every variable of the scheduler, the gates, the poll and the runners keeps its type; in
\* particular every countdown stays within its bound, however many failures are counted.
THEOREM SchedulerTypes == Spec => []TypeOK
<1>1. SchedInv => TypeOK
  BY DEF SchedInv
<1>2. QED
  BY <1>1, GatesHold, PTL

\* claim, beginProbe and its undoing, admitManual, arm, succeeded and retain, in any
\* interleaving with a poll: no pass survives its gate.
THEOREM PassesHaveGates == Spec => []PassHasGate
<1>1. GateInv => PassHasGate
  BY DEF GateInv
<1>2. QED
  BY <1>1, GatesHold, PTL

\* A success that logged in before a recorded refusal never opens the gate the refusal closed,
\* however late completed learns of it.
THEOREM RefusalsKeepGates == Spec => []RefusalKeepsGate
<1>1. GateInv => RefusalKeepsGate
  BY DEF GateInv
<1>2. QED
  BY <1>1, GatesHold, PTL

-----------------------------------------------------------------------------
(***************************************************************************)
(* The backoff, whichever goroutine reconciles.                            *)
(***************************************************************************)
\* Entries, targets and holds change in these steps only.
LEMMA HoldSteps ==
  ASSUME [Next]_vars
  PROVE  \/ UNCHANGED <<want, entries, holdOff, overwritten>>
         \/ \E w \in Wanted : Configure(w) \/ ReloadProviders(w)
         \/ \E a \in Actors : Reconcile(a)
         \/ PollBegin \/ PollLaunch \/ (\E r \in Repos : PollOne(r) \/ Report(r)) \/ Tick
<1> USE DEF clientVars, schedVars, histVars
<1>1. CASE UNCHANGED vars
  BY <1>1 DEF vars
<1>2. CASE \E a \in Actors : ReadRepos(a) \/ StartSyncs(a)
  BY <1>2 DEF ReadRepos, StartSyncs
<1>3. CASE RequestAll \/ (\E r \in Requests \cap Repos : RequestNow(r)) \/ AdmitManual \/ StartNow
  BY <1>3 DEF RequestAll, RequestNow, AdmitManual, StartNow
<1>4. CASE PollRead \/ BeginProbe \/ (\E r \in Repos : PollCandidate(r))
  BY <1>4 DEF PollRead, BeginProbe, PollCandidate
<1>5. CASE \E r \in Repos : Claim(r) \/ Release(r) \/ Begin(r) \/ Login(r)
                            \/ \E o \in Outcomes : Finish(r, o)
  BY <1>5 DEF Claim, Release, Begin, Login, Finish
<1>6. CASE \/ (\E s \in Suspensions : SetSuspended(s))
           \/ (\E b \in Binds : \E ok \in Accepting[b] : OriginChanges(b, ok))
  BY <1>6 DEF SetSuspended, OriginChanges
<1>7. QED
  BY <1>1, <1>2, <1>3, <1>4, <1>5, <1>6 DEF Next, Steps, Poll, Runner

\* A repository that failed keeps its entry, and the entry waits as long as the failure asks.
LEMMA HoldKept ==
  ASSUME SchedInv, HoldInv, [Next]_vars
  PROVE  HoldInv'
<1> USE SchedulerAssumption, Bounds
<1> DEFINE Held(r) == entries[r] # None /\ entries[r].key = want[r] /\ holdOff[r] <= entries[r].wait
<1>1. TypeOK /\ EntryTypes /\ ClientTypes /\ HistTypes /\ PollInv
  BY TypeParts DEF SchedInv
<1>2. \A r \in Repos \ overwritten : holdOff[r] # 0 => Held(r)
  BY DEF HoldInv
<1>3. SUFFICES ASSUME NEW r \in Repos, r \notin overwritten', holdOff'[r] # 0 PROVE Held(r)'
  BY DEF HoldInv
<1>4. CASE /\ UNCHANGED overwritten
           /\ holdOff'[r] = holdOff[r] /\ entries'[r] = entries[r] /\ want'[r] = want[r]
  BY <1>2, <1>3, <1>4
<1>5. ASSUME NEW q \in Repos, q \in Due(entries), Dispatch(q),
             UNCHANGED <<want, holdOff, overwritten>>
      PROVE  Held(r)'
  <2>1. CASE r = q
    <3>1. /\ holdOff[r] # 0 /\ holdOff[r] \in Nat /\ entries[r].wait = 0
          /\ r \notin overwritten
      BY <1>1, <1>3, <1>5, <2>1, DueHasEntry DEF HistTypes
    <3>2. QED
      BY <1>2, <3>1
  <2>2. CASE r # q
    BY <1>1, <1>4, <1>5, <2>2 DEF Dispatch, EntryTypes
  <2>3. QED
    BY <2>1, <2>2
<1>6. ASSUME NEW w \in Wanted, Configure(w) \/ ReloadProviders(w) PROVE Held(r)'
  <2>1. /\ w[r] = want[r] /\ holdOff'[r] = holdOff[r] /\ want' = w
        /\ UNCHANGED <<entries, overwritten>>
    BY <1>3, <1>6 DEF Configure, ReloadProviders, ForgetChanged, schedVars
  <2>2. QED
    BY <1>4, <2>1
<1>7. ASSUME NEW a \in Actors, Reconcile(a) PROVE Held(r)'
  <2>1. /\ UNCHANGED <<want, holdOff>>
        /\ overwritten' = overwritten \cup {q \in Repos : holdOff[q] > 0 /\ snapshot[a][q] # want[q]}
    BY <1>7 DEF Reconcile, clientVars
  <2>2. holdOff[r] > 0 /\ r \notin overwritten
    BY <1>1, <1>3, <2>1 DEF HistTypes
  <2>3. snapshot[a][r] = want[r]
    BY <1>3, <2>1, <2>2
  <2>4. Held(r)
    BY <1>2, <1>3, <2>1, <2>2
  <2>5. want[r] # None
    BY <1>1, <2>4 DEF EntryTypes, Entries
  <2>6. r \in Listed(snapshot[a]) /\ ~Fresh(entries[r], snapshot[a][r])
    BY <2>3, <2>4, <2>5 DEF Listed, Fresh
  <2>7. entries'[r] = entries[r]
    BY <1>7, <2>6 DEF Reconcile
  <2>8. QED
    BY <2>1, <2>4, <2>7
<1>8. CASE PollBegin
  <2>1. UNCHANGED <<want, holdOff, overwritten>>
    BY <1>8 DEF PollBegin, clientVars, histVars
  <2>2. entries[r] # None /\ entries[r] \in Entries
    BY <1>1, <1>2, <1>3, <2>1 DEF EntryTypes
  <2>3. entries'[r] = entries[r] \/ \E n \in 0..Jitter : entries'[r] = [entries[r] EXCEPT !.notBefore = n]
    BY <1>8 DEF PollBegin
  <2>4. ASSUME NEW n \in 0..Jitter, entries'[r] = [entries[r] EXCEPT !.notBefore = n]
        PROVE  /\ entries'[r] \in Entries /\ entries'[r].key = entries[r].key
               /\ entries'[r].wait = entries[r].wait
    BY <2>2, <2>4 DEF Entries
  <2>5. /\ entries'[r] # None /\ entries'[r].key = entries[r].key
        /\ entries'[r].wait = entries[r].wait
    BY <2>2, <2>3, <2>4, NoneAssumption
  <2>6. QED
    BY <1>2, <1>3, <2>1, <2>5
<1>9. ASSUME NEW q \in Repos, PollOne(q) PROVE Held(r)'
  <2>1. q \in Due(entries) /\ UNCHANGED <<want, holdOff, overwritten>>
    BY <1>1, <1>9 DEF PollOne, PollInv, clientVars, histVars
  <2>2. QED
    BY <1>4, <1>5, <1>9, <2>1 DEF PollOne
<1>10. CASE PollLaunch
  <2>1. probe \in Due(entries) /\ UNCHANGED <<want, holdOff, overwritten>> /\ Dispatch(probe)
    BY <1>1, <1>10 DEF PollLaunch, PollInv, clientVars, histVars
  <2>2. QED
    BY <1>1, <1>5, <2>1, DueHasEntry
<1>11. ASSUME NEW q \in Repos, Report(q) PROVE Held(r)'
  <2>1. UNCHANGED want
    BY <1>11 DEF Report, clientVars
  <2>2. CASE UNCHANGED <<entries, holdOff, overwritten>>
    BY <1>4, <2>1, <2>2
  <2>3. CASE entries[q] # None /\ entries[q].key = task[q]
    <3>1. CASE r = q
      <4>1. /\ outcome[r] # "ok" /\ want[r] = task[r] /\ holdOff'[r] <= entries'[r].wait
            /\ entries'[r] \in Entries /\ entries'[r].key = entries[r].key
        BY <1>3, <1>11, <2>3, <3>1, ReportEntry
      <4>2. QED
        BY <2>1, <2>3, <3>1, <4>1, NoneAssumption
    <3>2. CASE r # q
      <4>1. entries'[r] = entries[r] /\ holdOff'[r] = holdOff[r]
        BY <1>3, <1>11, <2>3, <3>2, ReportEntry
      <4>2. overwritten' = overwritten \ {q}
        BY <1>11, <2>3 DEF Report
      <4>3. QED
        BY <1>2, <1>3, <2>1, <3>2, <4>1, <4>2
    <3>3. QED
      BY <3>1, <3>2
  <2>4. QED
    BY <1>11, <2>2, <2>3 DEF Report
<1>12. CASE Tick
  <2>1. holdOff'[r] = Down(holdOff[r]) /\ UNCHANGED <<want, overwritten>>
    BY <1>12 DEF Tick, clientVars
  <2>2. holdOff[r] \in Nat /\ holdOff[r] # 0
    BY <1>1, <1>3, <2>1, DownBounds DEF HistTypes
  <2>3. Held(r) /\ entries[r] \in Entries
    BY <1>1, <1>2, <1>3, <2>1, <2>2 DEF EntryTypes
  <2>4. entries[r].wait \in 0..(Tier + Jitter) /\ entries[r].notBefore \in 0..Jitter
    BY <2>3 DEF Entries
  <2>5. /\ Down(entries[r].wait) \in 0..(Tier + Jitter) /\ Down(entries[r].notBefore) \in 0..Jitter
        /\ Down(holdOff[r]) <= Down(entries[r].wait)
    BY <2>2, <2>3, <2>4, DownBounds
  <2>6. entries'[r] = [entries[r] EXCEPT !.wait = Down(entries[r].wait),
                                         !.notBefore = Down(entries[r].notBefore)]
    BY <1>12, <2>3 DEF Tick
  <2>7. /\ entries'[r] \in Entries /\ entries'[r].key = entries[r].key
        /\ entries'[r].wait = Down(entries[r].wait)
    BY <2>3, <2>5, <2>6 DEF Entries
  <2>8. QED
    BY <2>1, <2>3, <2>5, <2>7, NoneAssumption
<1>13. QED
  BY <1>4, <1>6, <1>7, <1>8, <1>9, <1>10, <1>11, <1>12, HoldSteps

\* backoffFloor is kept: a repository that failed is not due before its floor has passed, however
\* often the same target is configured again, whatever is reloaded, and whenever syncing is
\* suspended and resumed, but for the repositories whose entry a reconcile has since replaced with
\* an older reading.
THEOREM BackoffIsKept == Spec => []BackoffKept
<1>1. Init => HoldInv
  BY DEF Init, HoldInv
<1>2. SchedInv /\ HoldInv /\ [Next]_vars => HoldInv'
  BY HoldKept
<1>3. SchedInv /\ HoldInv => BackoffKept
  <2> SUFFICES ASSUME SchedInv, HoldInv, NEW r \in Repos \ overwritten, IsDue(entries[r])
                  PROVE  holdOff[r] = 0
    BY DEF BackoffKept
  <2>1. holdOff[r] \in Nat
    BY TypeParts, Bounds DEF SchedInv, HistTypes
  <2>2. entries[r].wait = 0
    BY DEF IsDue
  <2>3. QED
    BY <2>1, <2>2 DEF HoldInv
<1>4. SchedInv /\ GateInv => SchedInv
  OBVIOUS
<1>5. QED
  BY <1>1, <1>2, <1>3, <1>4, GatesHold, PTL DEF Spec
=============================================================================
