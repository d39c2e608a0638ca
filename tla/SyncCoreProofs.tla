--------------------------- MODULE SyncCoreProofs ---------------------------
(***************************************************************************)
(* Proofs about SyncCore, for any number of repositories, providers and    *)
(* configurations and without a bound on the events of a behaviour.        *)
(***************************************************************************)
EXTENDS SyncCore, TLAPS

Pool == INSTANCE SlotPoolProofs WITH Callers <- Repos

\* Every step of the manager is a step of the slot pool or leaves it alone: the pool is
\* used through acquire, release and resize only, each called where it may be.
THEOREM CoreUsesPool == Spec => SlotsSpec
<1>1. Init => Slots!Init
  BY DEF Init
<1>2. [Next]_vars => [Slots!Next]_(Slots!vars)
  <2> SUFFICES ASSUME [Next]_vars PROVE [Slots!Next]_(Slots!vars)
    OBVIOUS
  <2>1. ASSUME NEW next \in Configs, NEW l \in Limits, ApplyConfig(next, l)
        PROVE  Slots!Next
    BY <2>1 DEF ApplyConfig, Slots!Next
  <2>2. ASSUME NEW r \in Repos, Acquire(r) PROVE Slots!Next
    BY <2>2 DEF Acquire, Slots!Next, Slots!CallerStep
  <2>3. ASSUME NEW r \in Repos, ReleaseSlot(r) PROVE Slots!Next
    BY <2>3 DEF ReleaseSlot, Slots!Next, Slots!CallerStep
  <2>4. CASE Shutdown
    BY <2>4 DEF Shutdown, Slots!Next
  <2>5. CASE UNCHANGED slotVars
    BY <2>5 DEF slotVars, Slots!vars
  <2>6. ASSUME NEW a \in Actors, ActorStep(a) PROVE UNCHANGED slotVars
    BY <2>6 DEF ActorStep, StartSyncs, CheckSyncable, Launch, Begin
  <2>7. ASSUME NEW r \in Repos, RunnerStep(r)
        PROVE  Acquire(r) \/ ReleaseSlot(r) \/ UNCHANGED slotVars
    BY <2>7 DEF RunnerStep, CheckStart, Claim, StartAttempt, FinishSync, ReleaseSync, Loop, Rebegin
  <2>8. ASSUME Environment
        PROVE  \/ \E next \in Configs, l \in Limits : ApplyConfig(next, l)
               \/ Shutdown \/ UNCHANGED slotVars
    BY <2>8 DEF Environment, SyncNow, OnHandshake, SetProviders, EnqueueScheduled,
                StartWait, EndWait, Exited, vars
  <2>9. CASE UNCHANGED vars
    BY <2>5, <2>9 DEF vars
  <2> QED
    BY <2>1, <2>2, <2>3, <2>4, <2>5, <2>6, <2>7, <2>8, <2>9 DEF Next
<1> QED
  BY <1>1, <1>2, PTL DEF Spec, SlotsSpec, Slots!Spec

\* What is proved of the slot pool holds of it as the manager uses it: the counter is
\* exact and no repository waits below the limit.
THEOREM CorePool == Spec => [](Slots!TypeOK /\ Slots!NoStalledWaiter)
<1>1. Pool!IsFiniteSet(Repos) /\ Limits \subseteq Nat /\ Limits # {}
  BY CoreAssumption DEF IsFiniteSet, Pool!IsFiniteSet
<1>2. Slots!Init => Pool!Init
  BY DEF Slots!Init, Pool!Init, Slots!AtLeastOne, Pool!AtLeastOne
<1>3. [Slots!Next]_(Slots!vars) => [Pool!Next]_(Pool!vars)
  BY DEF Slots!Next, Pool!Next, Slots!vars, Pool!vars, Slots!CallerStep, Pool!CallerStep,
         Slots!AcquireNow, Pool!AcquireNow, Slots!Enqueue, Pool!Enqueue, Slots!Wake,
         Pool!Wake, Slots!GiveUp, Pool!GiveUp, Slots!Abandon, Pool!Abandon, Slots!Release,
         Pool!Release, Slots!Resize, Pool!Resize, Slots!EndContext, Pool!EndContext,
         Slots!GrantLocked, Pool!GrantLocked, Slots!Grants, Pool!Grants, Slots!Lesser,
         Pool!Lesser, Slots!AtLeastOne, Pool!AtLeastOne, Slots!RemoveElem, Pool!RemoveElem
<1>4. Pool!TypeOK /\ Pool!NoStalledWaiter => Slots!TypeOK /\ Slots!NoStalledWaiter
  BY DEF Pool!TypeOK, Slots!TypeOK, Pool!NoStalledWaiter, Slots!NoStalledWaiter
<1>5. Pool!Spec => [](Pool!TypeOK /\ Pool!QueueOK /\ Pool!HeldIsOwned /\ Pool!NoStalledWaiter)
  BY <1>1, Pool!PoolInvariant
<1> QED
  BY <1>2, <1>3, <1>4, <1>5, CoreUsesPool, PTL DEF SlotsSpec, Slots!Spec, Pool!Spec

-----------------------------------------------------------------------------
(***************************************************************************)
(* Frames: which variables each part of the invariant is about.            *)
(***************************************************************************)
\* What a repository is bound to and what is recorded of it.
DataInv == BindInStep /\ ResultIsCurrent /\ ResultBound /\ RunRecordIsCurrent

\* The data of a repository only changes with its configuration, binding and records.
LEMMA DataFrame == DataInv /\ UNCHANGED <<cfg, bind, result, runs, gen>> => DataInv'
  BY DEF DataInv, BindInStep, ResultIsCurrent, ResultBound, RunRecordIsCurrent, Configured

\* A registration only concerns its runner, its task and the credentials in force.
LEMMA RegisteredFrame == Registered /\ UNCHANGED <<attempts, pc, task, gen>> => Registered'
  BY DEF Registered, Attempting

\* The in-flight set only concerns the manager, the actors and the runners.
LEMMA FlightFrame ==
  ActorsOK /\ InFlightHasRunner /\ UNCHANGED <<mgrVars, actorVars, pc>>
    => ActorsOK' /\ InFlightHasRunner'
  BY DEF ActorsOK, InFlightHasRunner, mgrVars, actorVars

\* A runner's place in the pool only concerns the two and the context.
LEMMA SlotFrame == SlotPlaces /\ UNCHANGED <<pc, at, ctxDone>> => SlotPlaces'
  BY DEF SlotPlaces

\* The daemon's wait only concerns the context, the actors and the in-flight set.
LEMMA WaitFrame == WaitOK /\ UNCHANGED <<waitCh, ctxDone, phase, inflight>> => WaitOK'
  BY DEF WaitOK

\* A claim ahead stays ahead while runners, reruns and actors stand still.
LEMMA TriggerFrame ==
  TriggerKept /\ UNCHANGED <<pc, rerun, actorVars, owed, ctxDone>> => TriggerKept'
  BY DEF TriggerKept, ClaimAhead, actorVars

\* The types of what configurations and reloads write.
LEMMA ConfTypesFrame ==
  /\ ConfTypes /\ UNCHANGED confVars => ConfTypes'
  /\ ProvTypes /\ UNCHANGED provVars => ProvTypes'
  /\ AttemptTypes /\ UNCHANGED <<attVars, task>> => AttemptTypes'
  /\ ActorTypes /\ UNCHANGED actorVars => ActorTypes'
  BY DEF ConfTypes, ProvTypes, AttemptTypes, ActorTypes, confVars, provVars, attVars, actorVars

\* bindRepo: the binding is a binding, and one in force.
LEMMA BindOfInForce ==
  ASSUME NEW t \in Target \cup {None}, NEW g \in [Providers -> Nat]
  PROVE  /\ BindOf(t, g) \in Bindings
         /\ BindOf(t, g) # NoBinding => t # None /\ InForce(BindOf(t, g), g)
<1>1. CASE t # None /\ ServedBy[t.origin] # None /\ g[ServedBy[t.origin]] # 0
  <2>1. t \in Target
    BY <1>1
  <2>2. t.origin \in Origins
    BY <2>1 DEF Target
  <2>3. ServedBy[t.origin] \in Providers
    BY <1>1, <2>2, CoreAssumption
  <2> QED
    BY <1>1, <2>3 DEF BindOf, Bindings, InForce
<1>2. CASE ~(t # None /\ ServedBy[t.origin] # None /\ g[ServedBy[t.origin]] # 0)
  BY <1>2 DEF BindOf, Bindings, NoBinding
<1> QED
  BY <1>1, <1>2

\* bindRepo: a result survives only with its binding.
LEMMA RebindResultCases ==
  ASSUME NEW t, NEW b, NEW old, NEW res
  PROVE  \/ RebindResult(t, b, old, res) = InvalidReplica
         \/ RebindResult(t, b, old, res) = None
         \/ RebindResult(t, b, old, res) = res /\ b = old
  BY DEF RebindResult

-----------------------------------------------------------------------------
(***************************************************************************)
(* One lemma per action.                                                   *)
(***************************************************************************)

\* applyConfig keeps the invariant: results and records carried over are about the
\* same replication.
LEMMA ApplyConfigStep ==
  ASSUME IInv, Slots!TypeOK, NEW next \in Configs, NEW l \in Limits, ApplyConfig(next, l)
  PROVE  IInv'
<1> next \in [Repos -> Target \cup {None}]
  BY CoreAssumption
<1> DEFINE b == [r \in Repos |-> BindOf(next[r], gen)]
<1>b. /\ b \in [Repos -> Bindings]
      /\ bind' = b
  BY BindOfInForce DEF ApplyConfig, IInv, CoreTypes, ProvTypes
<1>r. ASSUME NEW r \in Repos
      PROVE  \/ result'[r] \in {InvalidReplica, None}
             \/ /\ result'[r] = result[r] /\ Configured(r) /\ next[r] # None
                /\ SameSyncIdentity(r, next[r], b[r])
  BY RebindResultCases DEF ApplyConfig
<1>1. ConfTypes'
  <2>1. result' \in [Repos -> Results \cup {InvalidReplica, None}]
    <3>1. \A r \in Repos : result'[r] \in Results \cup {InvalidReplica, None}
      BY <1>r DEF IInv, CoreTypes, ConfTypes
    <3> QED
      BY <3>1 DEF ApplyConfig
  <2>2. runs' \in [Repos -> Fingerprints \cup {None}]
    BY DEF ApplyConfig, ReconcileRuns, IInv, CoreTypes, ConfTypes
  <2>3. syncing' \in [Repos -> BOOLEAN] /\ started' \in [Repos -> BOOLEAN]
    BY DEF ApplyConfig
  <2> QED
    BY <1>b, <2>1, <2>2, <2>3 DEF ConfTypes, ApplyConfig
<1>2. ProvTypes' /\ AttemptTypes' /\ ActorTypes' /\ RunTypes'
  BY ConfTypesFrame DEF IInv, CoreTypes, ApplyConfig, provVars, attVars, runVars, mgrVars, External, Actors, ActorTypes, RunTypes
<1>3. BindInStep'
  BY <1>b DEF BindInStep, ApplyConfig, provVars
<1>4. ResultIsCurrent' /\ ResultBound'
  <2> SUFFICES ASSUME NEW r \in Repos, result'[r] \notin {None, InvalidReplica}
               PROVE  /\ next[r] # None /\ b[r] # NoBinding
                      /\ result'[r] = [origin |-> next[r].origin,
                                       replica |-> ReplicaURL(next[r]), bind |-> b[r]]
    BY <1>b DEF ResultIsCurrent, ResultBound, Configured, ApplyConfig
  <2>1. /\ result'[r] = result[r] /\ Configured(r) /\ next[r] # None
        /\ SameSyncIdentity(r, next[r], b[r])
    BY <1>r
  <2>2. /\ result[r] = [origin |-> cfg[r].origin, replica |-> ReplicaURL(cfg[r]), bind |-> bind[r]]
        /\ bind[r] # NoBinding
    BY <2>1 DEF IInv, ResultIsCurrent, ResultBound
  <2> QED
    BY <2>1, <2>2 DEF SameSyncIdentity, CanonicalURL
<1>5. RunRecordIsCurrent'
  BY DEF ApplyConfig, RunRecordIsCurrent, ReconcileRuns, Configured
<1>6. Registered'
  BY RegisteredFrame DEF IInv, ApplyConfig, attVars, runVars, provVars
<1>7. ActorsOK' /\ InFlightHasRunner' /\ WaitOK' /\ TriggerKept'
  BY DEF IInv, ApplyConfig, runVars, mgrVars, External, ActorsOK, InFlightHasRunner, WaitOK, TriggerKept, ClaimAhead, Actors, CoreTypes, ActorTypes, Slots!Resize
<1>9. SlotPlaces'
  BY SlotFrame DEF IInv, ApplyConfig, runVars, Slots!Resize
<1> QED
  BY <1>1, <1>2, <1>3, <1>4, <1>5, <1>6, <1>7, <1>9 DEF IInv, CoreTypes

\* handleSyncNow keeps the invariant: each repository it owes is in the list it walks.
LEMMA SyncNowStep ==
  ASSUME IInv, Slots!TypeOK, NEW S \in SUBSET Repos, SyncNow(S)
  PROVE  IInv'
<1>1. CoreTypes'
  BY ConfTypesFrame DEF IInv, CoreTypes, SyncNow, confVars, provVars, attVars, runVars,
     mgrVars, External, Actors, ActorTypes, RunTypes
<1>2. DataInv' /\ Registered' /\ SlotPlaces'
  BY DataFrame, RegisteredFrame, SlotFrame
  DEF IInv, DataInv, SyncNow, confVars, provVars, attVars, runVars, slotVars
<1>3. ActorsOK' /\ InFlightHasRunner' /\ WaitOK' /\ TriggerKept'
  BY DEF IInv, SyncNow, runVars, mgrVars, External, ActorsOK, InFlightHasRunner, WaitOK,
     TriggerKept, ClaimAhead, Actors, CoreTypes, ActorTypes, slotVars
<1> QED
  BY <1>1, <1>2, <1>3 DEF IInv, DataInv

\* OnHandshake only sets the suspension.
LEMMA OnHandshakeStep ==
  ASSUME IInv, Slots!TypeOK, NEW b \in BOOLEAN, OnHandshake(b)
  PROVE  IInv'
<1>1. CoreTypes'
  BY ConfTypesFrame DEF IInv, CoreTypes, OnHandshake, confVars, provVars, attVars, runVars,
     mgrVars, External, Actors, RunTypes, histVars
<1>2. DataInv' /\ Registered' /\ SlotPlaces'
  BY DataFrame, RegisteredFrame, SlotFrame
  DEF IInv, DataInv, OnHandshake, confVars, provVars, attVars, runVars, slotVars
<1>3. ActorsOK' /\ InFlightHasRunner' /\ WaitOK' /\ TriggerKept'
  BY FlightFrame, WaitFrame, TriggerFrame
  DEF IInv, OnHandshake, runVars, mgrVars, actorVars, slotVars, histVars
<1> QED
  BY <1>1, <1>2, <1>3 DEF IInv, DataInv

\* setProviders keeps the invariant: an attempt whose credential is not in force any
\* more is superseded in the same step, and only unchanged bindings keep a result.
LEMMA SetProvidersStep ==
  ASSUME IInv, Slots!TypeOK, NEW next \in [Providers -> Creds \cup {None}], SetProviders(next)
  PROVE  IInv'
<1> DEFINE g == BuildProviderSet(next)
<1> DEFINE b == [r \in Repos |-> BindOf(cfg[r], g)]
<1>g. g \in [Providers -> Nat]
  BY DEF IInv, CoreTypes, ProvTypes, BuildProviderSet
<1>b. b \in [Repos -> Bindings] /\ bind' = b /\ gen' = g
  BY <1>g, BindOfInForce DEF SetProviders, IInv, CoreTypes, ConfTypes
<1>r. ASSUME NEW r \in Repos
      PROVE  \/ result'[r] \in {InvalidReplica, None}
             \/ result'[r] = result[r] /\ b[r] = bind[r] /\ Configured(r)
  BY RebindResultCases DEF SetProviders
<1>a. ASSUME NEW r \in Repos
      PROVE  \/ attempts'[r] = attempts[r] /\ (attempts[r] # None => InForce(attempts[r].bind, g))
             \/ /\ attempts[r] # None
                /\ attempts'[r] = [attempts[r] EXCEPT !.superseded = TRUE]
  BY DEF SetProviders, Supersede
<1>1. ConfTypes'
  <2>1. \A r \in Repos : result'[r] \in Results \cup {InvalidReplica, None}
    BY <1>r DEF IInv, CoreTypes, ConfTypes
  <2>2. result' \in [Repos -> Results \cup {InvalidReplica, None}]
    BY <2>1 DEF SetProviders
  <2> QED
    BY <1>b, <2>2 DEF ConfTypes, SetProviders, IInv, CoreTypes
<1>2. ProvTypes'
  BY <1>b, <1>g DEF ProvTypes, SetProviders, IInv, CoreTypes
<1>3. AttemptTypes'
  <2>1. \A r \in Repos : attempts'[r] \in Attempts \cup {None}
    BY <1>a DEF IInv, CoreTypes, AttemptTypes, Attempts
  <2>2. attempts' \in [Repos -> Attempts \cup {None}]
    BY <2>1 DEF SetProviders, Supersede
  <2> QED
    BY <2>2 DEF AttemptTypes, SetProviders, IInv, CoreTypes, runVars
<1>4. ActorTypes' /\ RunTypes'
  BY DEF IInv, CoreTypes, SetProviders, ActorTypes, RunTypes, External, Actors, mgrVars, runVars,
     histVars
<1>5. BindInStep'
  BY <1>b DEF BindInStep, SetProviders
<1>6. ResultIsCurrent' /\ ResultBound'
  BY <1>r, <1>b DEF IInv, ResultIsCurrent, ResultBound, Configured, SetProviders
<1>7. RunRecordIsCurrent'
  BY DEF IInv, RunRecordIsCurrent, SetProviders, Configured
<1>8. Registered'
  <2> SUFFICES ASSUME NEW r \in Repos
               PROVE  /\ attempts'[r] # None <=> Attempting(r)
                      /\ Attempting(r) =>
                           /\ task[r] # None /\ task[r].bind # NoBinding
                           /\ attempts'[r].seq = task[r].seq /\ attempts'[r].bind = task[r].bind
                           /\ attempts'[r].superseded \/ InForce(task[r].bind, g)
    BY <1>b DEF Registered, SetProviders, runVars, Attempting
  <2>1. CASE attempts[r] = None
    BY <2>1, <1>a DEF IInv, Registered
  <2>2. CASE attempts[r] # None
    <3>1. attempts[r] \in Attempts
      BY <2>2 DEF IInv, CoreTypes, AttemptTypes
    <3>2. attempts'[r] \in Attempts
      BY <3>1, <1>a DEF Attempts
    <3>3. attempts'[r].seq = attempts[r].seq /\ attempts'[r].bind = attempts[r].bind
      BY <3>1, <1>a DEF Attempts
    <3>4. attempts'[r].superseded \/ InForce(attempts[r].bind, g)
      BY <2>2, <3>1, <1>a DEF Attempts
    <3> QED
      BY <2>2, <3>2, <3>3, <3>4, CoreAssumption DEF IInv, Registered
  <2> QED
    BY <2>1, <2>2
<1>9. ActorsOK' /\ InFlightHasRunner' /\ WaitOK'
  BY DEF IInv, SetProviders, runVars, mgrVars, External, ActorsOK, InFlightHasRunner, WaitOK,
     Actors, CoreTypes, ActorTypes, slotVars
<1>10. TriggerKept'
  BY DEF IInv, SetProviders, runVars, mgrVars, External, ActorsOK,
     TriggerKept, ClaimAhead, Actors, CoreTypes, ActorTypes, slotVars, histVars
<1>11. SlotPlaces'
  BY SlotFrame DEF IInv, SetProviders, runVars, slotVars
<1> QED
  BY <1>1, <1>2, <1>3, <1>4, <1>5, <1>6, <1>7, <1>8, <1>9, <1>10, <1>11 DEF IInv, CoreTypes

\* enqueueScheduled keeps the invariant.
LEMMA EnqueueScheduledStep ==
  ASSUME IInv, Slots!TypeOK, NEW r \in Repos, EnqueueScheduled(r)
  PROVE  IInv'
<1>1. CoreTypes'
  BY ConfTypesFrame DEF IInv, CoreTypes, EnqueueScheduled, confVars, provVars, attVars, runVars,
     mgrVars, External, Actors, ActorTypes, RunTypes, histVars
<1>2. DataInv' /\ Registered' /\ SlotPlaces'
  BY DataFrame, RegisteredFrame, SlotFrame
  DEF IInv, DataInv, EnqueueScheduled, confVars, provVars, attVars, runVars, slotVars
<1>3. ActorsOK' /\ InFlightHasRunner' /\ WaitOK' /\ TriggerKept'
  BY CoreAssumption DEF IInv, EnqueueScheduled, runVars, mgrVars, External, ActorsOK, InFlightHasRunner, WaitOK,
     TriggerKept, ClaimAhead, Actors, CoreTypes, ActorTypes, slotVars, histVars
<1> QED
  BY <1>1, <1>2, <1>3 DEF IInv, DataInv

\* The end of the context and the daemon's wait keep the invariant: the channel closes
\* only on an empty in-flight set.
LEMMA ShutdownStep ==
  ASSUME IInv, Slots!TypeOK, Shutdown \/ StartWait \/ EndWait
  PROVE  IInv'
<1> USE DEF Shutdown, StartWait, EndWait, confVars, provVars, attVars, mgrVars, actorVars, runVars, slotVars, histVars, Slots!EndContext
<1>1. CoreTypes'
  BY ConfTypesFrame DEF IInv, CoreTypes, RunTypes
<1>2. DataInv' /\ Registered'
  BY DataFrame, RegisteredFrame DEF IInv, DataInv
<1>5. SlotPlaces'
  <2>1. UNCHANGED <<pc, at>>
    OBVIOUS
  <2>2. ctxDone' = TRUE \/ ctxDone' = ctxDone
    OBVIOUS
  <2> QED
    BY ONLY <2>1, <2>2, IInv DEF IInv, SlotPlaces
<1>3. ActorsOK' /\ InFlightHasRunner'
  BY FlightFrame DEF IInv
<1>4. WaitOK' /\ TriggerKept'
  BY DEF IInv, CoreTypes, RunTypes, WaitOK, TriggerKept, ClaimAhead
<1> QED
  BY <1>1, <1>2, <1>3, <1>4, <1>5 DEF IInv, DataInv

\* startSyncs keeps the invariant: what it owes is what it will walk.
LEMMA StartSyncsStep ==
  ASSUME IInv, Slots!TypeOK, NEW a \in Actors, StartSyncs(a)
  PROVE  IInv'
<1>0. SyncableRepos \subseteq Repos
  BY DEF SyncableRepos
<1>1. CoreTypes'
  BY <1>0, ConfTypesFrame DEF IInv, CoreTypes, StartSyncs, confVars, provVars, attVars, runVars,
     mgrVars, ActorTypes, RunTypes, NextPhase
<1>2. DataInv' /\ Registered' /\ SlotPlaces'
  BY DataFrame, RegisteredFrame, SlotFrame
  DEF IInv, DataInv, StartSyncs, confVars, provVars, attVars, runVars, slotVars
<1>3. ActorsOK' /\ InFlightHasRunner' /\ WaitOK'
  BY DEF IInv, StartSyncs, runVars, mgrVars, ActorsOK, InFlightHasRunner, WaitOK, CoreTypes,
     ActorTypes, slotVars, NextPhase, Actors
<1>4. TriggerKept'
  BY <1>0 DEF IInv, StartSyncs, runVars, mgrVars, ActorsOK, TriggerKept, ClaimAhead, CoreTypes,
     ActorTypes, slotVars, NextPhase, Actors
<1> QED
  BY <1>1, <1>2, <1>3, <1>4 DEF IInv, DataInv

\* enqueue's check keeps the invariant: a repository it drops is owed nothing.
LEMMA CheckSyncableStep ==
  ASSUME IInv, Slots!TypeOK, NEW a \in Actors, NEW r \in Repos, CheckSyncable(a, r)
  PROVE  IInv'
<1>1. CoreTypes'
  BY ConfTypesFrame DEF IInv, CoreTypes, CheckSyncable, confVars, provVars, attVars, runVars,
     mgrVars, ActorTypes, RunTypes, NextPhase, histVars
<1>2. DataInv' /\ Registered' /\ SlotPlaces'
  BY DataFrame, RegisteredFrame, SlotFrame
  DEF IInv, DataInv, CheckSyncable, confVars, provVars, attVars, runVars, slotVars
<1>3. ActorsOK' /\ InFlightHasRunner' /\ WaitOK'
  BY CoreAssumption DEF IInv, CheckSyncable, runVars, mgrVars, ActorsOK, InFlightHasRunner, WaitOK,
     CoreTypes, ActorTypes, slotVars, NextPhase, Actors
<1>4. TriggerKept'
  BY DEF IInv, CheckSyncable, runVars, mgrVars, ActorsOK, TriggerKept, ClaimAhead, CoreTypes,
     ActorTypes, slotVars, NextPhase, Actors, histVars
<1> QED
  BY <1>1, <1>2, <1>3, <1>4 DEF IInv, DataInv

\* launch keeps the invariant: a trigger is folded into a rerun, or starts the one runner.
LEMMA LaunchStep ==
  ASSUME IInv, Slots!TypeOK, NEW a \in Actors, Launch(a)
  PROVE  IInv'
<1>0. cur[a] \in Repos
  BY DEF IInv, ActorsOK, CoreTypes, ActorTypes, Launch
<1>1. CoreTypes'
  BY <1>0, ConfTypesFrame DEF IInv, CoreTypes, Launch, confVars, provVars, attVars, runVars,
     mgrVars, ActorTypes, RunTypes, NextPhase, histVars, Fold
<1>2. DataInv' /\ Registered' /\ SlotPlaces'
  BY DataFrame, RegisteredFrame, SlotFrame
  DEF IInv, DataInv, Launch, confVars, provVars, attVars, runVars, slotVars
<1>3. ActorsOK'
  <2>1. /\ \A b \in Actors \ {a} : phase'[b] = phase[b] /\ cur'[b] = cur[b]
        /\ ids' = ids /\ pc' = pc
    BY DEF Launch, runVars, IInv, CoreTypes, ActorTypes
  <2>2. CASE cur[a] \in inflight
    <3>1. cur'[a] = None /\ phase'[a] \in {"idle", "enqueue"} /\ (phase'[a] = "idle" => ids[a] = {})
          /\ (a = "scheduler" => phase'[a] = "idle")
      BY <2>2 DEF Launch, IInv, CoreTypes, ActorTypes, NextPhase, ActorsOK
    <3> QED
      BY <2>1, <3>1 DEF ActorsOK, IInv, Actors
  <2>3. CASE cur[a] \notin inflight
    <3>1. cur'[a] = cur[a] /\ phase'[a] = "begin" /\ cur[a] # None
      BY <2>3, <1>0, CoreAssumption DEF Launch, IInv, CoreTypes, ActorTypes
    <3>2. pc[cur[a]] = "off" /\ \A b \in Actors : phase[b] = "begin" => cur[b] # cur[a]
      BY <2>3, <1>0 DEF IInv, InFlightHasRunner
    <3> QED
      BY <2>1, <3>1, <3>2 DEF ActorsOK, IInv, Actors
  <2> QED
    BY <2>2, <2>3
<1>6. WaitOK'
  BY DEF IInv, Launch, WaitOK, CoreTypes, ActorTypes, slotVars
<1>4. InFlightHasRunner'
  BY <1>0 DEF IInv, Launch, runVars, ActorsOK, InFlightHasRunner, Fold,
     CoreTypes, ActorTypes, slotVars, NextPhase, Actors
<1>5. TriggerKept'
  BY <1>0 DEF IInv, Launch, runVars, ActorsOK, TriggerKept, ClaimAhead, CoreTypes, Fold,
     ActorTypes, slotVars, NextPhase, Actors, histVars
<1> QED
  BY <1>1, <1>2, <1>3, <1>4, <1>5, <1>6 DEF IInv, DataInv

\* The begin hook keeps the invariant: the runner it starts was not running.
LEMMA BeginStep ==
  ASSUME IInv, Slots!TypeOK, NEW a \in Actors, Begin(a)
  PROVE  IInv'
<1>0. cur[a] \in Repos /\ pc[cur[a]] = "off"
  BY DEF IInv, ActorsOK, CoreTypes, ActorTypes, Begin
<1>1. CoreTypes'
  BY <1>0, ConfTypesFrame DEF IInv, CoreTypes, Begin, provVars, attVars, SetSyncing, Configured,
     mgrVars, ConfTypes, ActorTypes, RunTypes, NextPhase, histVars
<1>2. DataInv' /\ Registered'
  BY <1>0, DataFrame DEF IInv, DataInv, Begin, provVars, attVars, CoreTypes, RunTypes, Registered, Attempting
<1>4. SlotPlaces'
  BY <1>0 DEF IInv, Begin, SlotPlaces, CoreTypes, RunTypes, slotVars
<1>e. /\ \A b \in Actors \ {a} : phase'[b] = phase[b] /\ cur'[b] = cur[b]
      /\ cur'[a] = None /\ phase'[a] \in {"idle", "enqueue"} /\ ids' = ids
      /\ phase'[a] = "idle" <=> ids[a] = {}
      /\ pc'[cur[a]] = "acquire" /\ \A r \in Repos \ {cur[a]} : pc'[r] = pc[r]
  BY <1>0 DEF Begin, IInv, CoreTypes, ActorTypes, RunTypes, NextPhase
<1>f. \A b \in Actors \ {a} : phase[b] = "begin" => cur[b] \in Repos \ {cur[a]}
  BY DEF Begin, IInv, ActorsOK, CoreTypes, ActorTypes
<1>5. ActorsOK'
  BY <1>e, <1>f DEF ActorsOK, IInv, Actors, Begin
<1>6. InFlightHasRunner'
  <2>1. UNCHANGED <<inflight, rerun>>
    BY DEF Begin, mgrVars
  <2>2. cur[a] \in inflight
    BY <1>0 DEF IInv, InFlightHasRunner, Begin
  <2> QED
    BY <1>0, <1>e, <1>f, <2>1, <2>2 DEF InFlightHasRunner, IInv
<1>8. WaitOK'
  BY DEF IInv, Begin, WaitOK
<1>7. TriggerKept'
  <2>1. UNCHANGED <<owed, ctxDone, rerun>> /\ ids' = ids
    BY DEF Begin, mgrVars, histVars, slotVars
  <2>2. ASSUME NEW r \in owed, ~ctxDone PROVE ClaimAhead(r)'
    <3>1. ClaimAhead(r) /\ r \in Repos
      BY <2>2 DEF IInv, TriggerKept, CoreTypes, RunTypes
    <3>2. CASE r = cur[a]
      BY <1>e, <3>2 DEF ClaimAhead
    <3>3. CASE r # cur[a]
      <4>1. CASE pc[r] \in {"acquire", "slotted", "claim", "rebegin"} \/ r \in rerun
        BY <1>e, <2>1, <3>1, <3>3, <4>1 DEF ClaimAhead
      <4>2. ASSUME NEW b \in Actors, r = cur[b],
                   phase[b] = "begin" \/ (phase[b] = "launch" /\ b # "scheduler")
            PROVE  ClaimAhead(r)'
        <5>1. b # a
          BY <3>3, <4>2
        <5>2. phase'[b] = phase[b] /\ cur'[b] = cur[b]
          BY <1>e, <5>1
        <5>3. QED
          BY <4>2, <5>2, Zenon DEF ClaimAhead
      <4>3. ASSUME NEW b \in {"readLoop", "reloader"}, r \in ids[b], phase[b] # "start"
            PROVE  ClaimAhead(r)'
        <5>1. phase'[b] # "start"
          BY <1>e, <4>3 DEF Actors
        <5>2. QED
          BY <2>1, <4>3, <5>1, Zenon DEF ClaimAhead
      <4>4. QED
        BY <3>1, <4>1, <4>2, <4>3, Zenon DEF ClaimAhead
    <3>4. QED
      BY <3>2, <3>3
  <2>3. QED
    BY <2>1, <2>2, Zenon DEF TriggerKept
<1> QED
  BY <1>1, <1>2, <1>4, <1>5, <1>6, <1>7, <1>8 DEF IInv, DataInv

\* A runner moves from label l to label m, and nothing but pc, the pool and the history
\* changes: what the flight and registration parts need to know of it.
Moves(r, l, m) ==
  /\ pc[r] = l /\ pc' = [pc EXCEPT ![r] = m]

\* A runner that neither starts nor ends moves without disturbing the in-flight set.
LEMMA MoveKeepsFlight ==
  ASSUME IInv, NEW r \in Repos, NEW l, NEW m, Moves(r, l, m), l # "off", m # "off",
         UNCHANGED <<mgrVars, actorVars>>
  PROVE  ActorsOK' /\ InFlightHasRunner'
<1>1. /\ pc'[r] # "off" /\ pc[r] # "off"
      /\ \A q \in Repos \ {r} : pc'[q] = pc[q]
  BY DEF Moves, IInv, CoreTypes, RunTypes
<1>2. UNCHANGED <<inflight, rerun, phase, ids, cur>>
  BY DEF mgrVars, actorVars
<1>3. \A a \in Actors : phase[a] = "begin" => cur[a] \in Repos \ {r}
  BY <1>1 DEF IInv, ActorsOK, CoreTypes, ActorTypes
<1>4. ActorsOK'
  BY <1>1, <1>2, <1>3 DEF IInv, ActorsOK, Actors
<1>5. InFlightHasRunner'
  BY <1>1, <1>2 DEF IInv, InFlightHasRunner
<1> QED
  BY <1>4, <1>5

\* A runner outside an attempt moves without disturbing the registrations.
LEMMA MoveKeepsRegistered ==
  ASSUME IInv, NEW r \in Repos, NEW l, NEW m, Moves(r, l, m),
         l \notin {"claimed", "run"}, m \notin {"claimed", "run"},
         UNCHANGED <<attempts, task, gen>>
  PROVE  Registered'
  BY DEF IInv, Registered, Attempting, Moves, CoreTypes, RunTypes

\* A runner that stays ahead of its claim, was past it, or is owed nothing, moves without
\* losing a trigger.
LEMMA MoveKeepsTriggers ==
  ASSUME IInv, NEW r \in Repos, NEW l, NEW m, Moves(r, l, m),
         UNCHANGED <<rerun, actorVars, ctxDone>>, owed' \subseteq owed,
         r \in owed' => \/ m \in {"acquire", "slotted", "claim", "rebegin"}
                        \/ l \notin {"acquire", "slotted", "claim", "rebegin"}
  PROVE  TriggerKept'
<1> SUFFICES ASSUME NEW q \in owed' PROVE ctxDone \/ ClaimAhead(q)'
  BY DEF TriggerKept
<1>1. q \in Repos /\ q \in owed /\ (ctxDone \/ ClaimAhead(q))
  BY DEF IInv, TriggerKept, CoreTypes, RunTypes
<1>2. UNCHANGED <<phase, ids, cur>>
  BY DEF actorVars
<1>3. CASE q = r
  <2>1. pc[q] = l /\ pc'[q] = m
    BY <1>3 DEF Moves, IInv, CoreTypes, RunTypes
  <2> QED
    BY <1>1, <1>2, <1>3, <2>1 DEF ClaimAhead
<1>4. CASE q # r
  <2>1. pc'[q] = pc[q]
    BY <1>1, <1>4 DEF Moves, IInv, CoreTypes, RunTypes
  <2> QED
    BY <1>1, <1>2, <2>1 DEF ClaimAhead
<1> QED
  BY <1>3, <1>4

\* acquire keeps the invariant: with a slot the runner goes on, and without one it only
\* leaves because the context ended.
LEMMA AcquireStep ==
  ASSUME IInv, Slots!TypeOK, NEW r \in Repos, Acquire(r)
  PROVE  IInv'
<1>0. /\ UNCHANGED <<confVars, provVars, attVars, mgrVars, actorVars, task, suspended, waitCh,
                     events, histVars, ctxDone>>
      /\ \/ UNCHANGED pc
         \/ \E m \in {"slotted", "dropping"} : Moves(r, "acquire", m)
  BY DEF Acquire, RunnerOnly, Goto, Moves, Slots!AcquireNow, Slots!Enqueue, Slots!Wake,
     Slots!GiveUp, Slots!Abandon
<1>1. CoreTypes'
  BY <1>0, ConfTypesFrame DEF IInv, CoreTypes, RunTypes, Moves, mgrVars, histVars
<1>2. DataInv'
  BY <1>0, DataFrame DEF IInv, DataInv, confVars, provVars
<1>3. Registered'
  BY <1>0, MoveKeepsRegistered, RegisteredFrame DEF attVars, provVars, IInv
<1>4. ActorsOK' /\ InFlightHasRunner'
  BY <1>0, MoveKeepsFlight, FlightFrame DEF IInv
<1>6. WaitOK'
  BY <1>0, WaitFrame DEF IInv, mgrVars, actorVars
<1>7. SlotPlaces' /\ (pc'[r] = "dropping" => ctxDone)
  <2>1. CASE Slots!AcquireNow(r) /\ Goto(r, "slotted")
    BY <2>1 DEF Slots!AcquireNow, Goto, IInv, SlotPlaces, CoreTypes, RunTypes, Slots!TypeOK
  <2>2. CASE Slots!Enqueue(r) /\ UNCHANGED pc
    BY <2>2 DEF Slots!Enqueue, Acquire, IInv, SlotPlaces, CoreTypes, RunTypes, Slots!TypeOK
  <2>3. CASE Slots!Wake(r) /\ Goto(r, "slotted")
    BY <2>3 DEF Slots!Wake, Goto, IInv, SlotPlaces, CoreTypes, RunTypes, Slots!TypeOK
  <2>4. CASE Slots!GiveUp(r) /\ UNCHANGED pc
    BY <2>4 DEF Slots!GiveUp, Acquire, IInv, SlotPlaces, CoreTypes, RunTypes, Slots!TypeOK
  <2>5. CASE Slots!Abandon(r) /\ Goto(r, "dropping")
    BY <2>5 DEF Slots!Abandon, Goto, IInv, SlotPlaces, CoreTypes, RunTypes, Slots!TypeOK
  <2> QED
    BY <2>1, <2>2, <2>3, <2>4, <2>5 DEF Acquire
<1>8. TriggerKept'
  <2>1. CASE UNCHANGED pc
    BY <1>0, <2>1 DEF IInv, TriggerKept, ClaimAhead, mgrVars, actorVars, histVars
  <2>2. ASSUME NEW m \in {"slotted", "dropping"}, Moves(r, "acquire", m) PROVE TriggerKept'
    <3>1. m = "dropping" => ctxDone /\ UNCHANGED ctxDone
      BY <1>0, <1>7, <2>2 DEF IInv, CoreTypes, RunTypes, Moves
    <3>2. ClaimAhead(r)' \/ ctxDone'
      BY <1>0, <2>2, <3>1 DEF IInv, CoreTypes, RunTypes, Moves, ClaimAhead
    <3>3. \A q \in Repos \ {r} : pc'[q] = pc[q]
      BY <2>2 DEF Moves, IInv, CoreTypes, RunTypes
    <3>4. \A q \in Repos \ {r} : ClaimAhead(q)' = ClaimAhead(q)
      BY <1>0, <3>3 DEF ClaimAhead, mgrVars, actorVars
    <3>5. owed \subseteq Repos
      BY DEF IInv, CoreTypes, RunTypes
    <3> QED
      BY <1>0, <3>2, <3>4, <3>5 DEF IInv, TriggerKept, histVars
  <2> QED
    BY <1>0, <2>1, <2>2
<1> QED
  BY <1>1, <1>2, <1>3, <1>4, <1>6, <1>7, <1>8 DEF IInv, DataInv

\* The check after acquire keeps the invariant: a sync it drops is owed no more.
LEMMA CheckStartStep ==
  ASSUME IInv, Slots!TypeOK, NEW r \in Repos, CheckStart(r)
  PROVE  IInv'
<1>0. /\ UNCHANGED <<confVars, provVars, attVars, mgrVars, actorVars, task, suspended, waitCh,
                     events, slotVars, stray>>
      /\ \E m \in {"dropping", "claim"} : Moves(r, "slotted", m)
      /\ owed' \in SUBSET owed
      /\ r \in owed' => pc'[r] = "claim"
  BY DEF CheckStart, RunnerOnly, Goto, Moves, histVars, IInv, CoreTypes, RunTypes
<1>1. CoreTypes'
  BY <1>0, ConfTypesFrame DEF IInv, CoreTypes, RunTypes, Moves, mgrVars
<1>2. DataInv'
  BY <1>0, DataFrame DEF IInv, DataInv, confVars, provVars
<1>3. Registered'
  BY <1>0, MoveKeepsRegistered DEF attVars, provVars
<1>4. ActorsOK' /\ InFlightHasRunner'
  BY <1>0, MoveKeepsFlight
<1>6. WaitOK'
  BY <1>0, WaitFrame DEF IInv, mgrVars, actorVars, slotVars
<1>7. SlotPlaces'
  BY <1>0 DEF IInv, SlotPlaces, Moves, CoreTypes, RunTypes, slotVars
<1>8. TriggerKept'
  <2>1. PICK m \in {"dropping", "claim"} : Moves(r, "slotted", m)
    BY <1>0
  <2>2. r \in owed' => m = "claim"
    BY <1>0, <2>1 DEF Moves, IInv, CoreTypes, RunTypes
  <2> QED
    BY <1>0, <2>1, <2>2, MoveKeepsTriggers DEF mgrVars, slotVars
<1> QED
  BY <1>1, <1>2, <1>3, <1>4, <1>6, <1>7, <1>8 DEF IInv, DataInv

\* claimTask keeps the invariant: the task and its registration are made together, from
\* a binding that is in force.
LEMMA ClaimStep ==
  ASSUME IInv, Slots!TypeOK, NEW r \in Repos, NEW admit \in BOOLEAN, Claim(r, admit)
  PROVE  IInv'
<1>0. /\ UNCHANGED <<confVars, provVars, mgrVars, actorVars, slotVars, suspended, waitCh, events,
                     stray>>
      /\ owed' = owed \ {r}
      /\ \E m \in {"claimed", "dropping"} : Moves(r, "claim", m)
      /\ attemptSeq' \in Nat
  BY DEF Claim, Goto, Moves, IInv, CoreTypes, AttemptTypes
<1>1. \/ /\ UNCHANGED <<task, attempts>> /\ Moves(r, "claim", "dropping")
      \/ /\ Moves(r, "claim", "claimed")
         /\ Syncable(r) /\ InForce(bind[r], gen)
         /\ task' = [task EXCEPT ![r] = [seq |-> attemptSeq', origin |-> cfg[r].origin,
                                         replica |-> cfg[r].replica, bind |-> bind[r]]]
         /\ attempts' = [attempts EXCEPT ![r] = [seq |-> attemptSeq', bind |-> bind[r],
                                                 superseded |-> FALSE]]
  BY DEF Claim, Goto, Moves
<1>2. ASSUME Syncable(r)
      PROVE  /\ [seq |-> attemptSeq', origin |-> cfg[r].origin, replica |-> cfg[r].replica,
                 bind |-> bind[r]] \in Tasks
             /\ [seq |-> attemptSeq', bind |-> bind[r], superseded |-> FALSE] \in Attempts
             /\ bind[r] # NoBinding
  BY <1>0, <1>2 DEF Syncable, Configured, Usable, IInv, CoreTypes, ConfTypes, Target, Tasks, Attempts
<1>3. AttemptTypes'
  BY <1>0, <1>1, <1>2 DEF AttemptTypes, IInv, CoreTypes
<1>4. CoreTypes'
  BY <1>0, <1>3, ConfTypesFrame DEF IInv, CoreTypes, RunTypes, Moves, mgrVars
<1>5. DataInv'
  BY <1>0, DataFrame DEF IInv, DataInv, confVars, provVars
<1>6. Registered'
  <2>1. CASE UNCHANGED <<task, attempts>> /\ Moves(r, "claim", "dropping")
    BY <1>0, <2>1, MoveKeepsRegistered DEF provVars
  <2>2. CASE ~(UNCHANGED <<task, attempts>> /\ Moves(r, "claim", "dropping"))
    <3>1. /\ task'[r].bind = bind[r] /\ task'[r].seq = attempts'[r].seq
          /\ attempts'[r].bind = bind[r] /\ task'[r] # None /\ attempts'[r] # None
          /\ bind[r] # NoBinding /\ InForce(bind[r], gen)
          /\ pc'[r] = "claimed"
      <4>1. /\ task'[r] = [seq |-> attemptSeq', origin |-> cfg[r].origin,
                           replica |-> cfg[r].replica, bind |-> bind[r]]
            /\ attempts'[r] = [seq |-> attemptSeq', bind |-> bind[r], superseded |-> FALSE]
            /\ Syncable(r) /\ InForce(bind[r], gen) /\ pc'[r] = "claimed"
        BY <1>1, <2>2 DEF Moves, IInv, CoreTypes, AttemptTypes, RunTypes
      <4>2. task'[r] \in Tasks /\ attempts'[r] \in Attempts /\ bind[r] # NoBinding
        BY <1>2, <4>1
      <4>3. None \notin Tasks /\ None \notin Attempts
        BY CoreAssumption
      <4>4. task'[r] # None /\ attempts'[r] # None
        BY <4>2, <4>3
      <4>5. task'[r].bind = bind[r] /\ task'[r].seq = attemptSeq'
        BY <4>1
      <4>6. attempts'[r].bind = bind[r] /\ attempts'[r].seq = attemptSeq'
        BY <4>1
      <4> QED
        BY <4>1, <4>2, <4>4, <4>5, <4>6
    <3>2. \A q \in Repos \ {r} : task'[q] = task[q] /\ attempts'[q] = attempts[q] /\ pc'[q] = pc[q]
      BY <1>1, <2>2 DEF Moves, IInv, CoreTypes, AttemptTypes, RunTypes
    <3>3. gen' = gen
      BY <1>0 DEF provVars
    <3> SUFFICES ASSUME NEW q \in Repos
                 PROVE  /\ attempts'[q] # None <=> pc'[q] \in {"claimed", "run"}
                        /\ pc'[q] \in {"claimed", "run"} =>
                             /\ task'[q] # None /\ task'[q].bind # NoBinding
                             /\ attempts'[q].seq = task'[q].seq
                             /\ attempts'[q].bind = task'[q].bind
                             /\ attempts'[q].superseded \/ InForce(task'[q].bind, gen)
      BY <3>3 DEF Registered, Attempting, InForce
    <3>4. CASE q = r
      BY <3>1, <3>4
    <3>5. CASE q # r
      BY <3>2, <3>5 DEF Registered, Attempting, IInv
    <3> QED
      BY <3>4, <3>5
  <2> QED
    BY <2>1, <2>2
<1>7. ActorsOK' /\ InFlightHasRunner'
  BY <1>0, MoveKeepsFlight
<1>9. WaitOK'
  BY <1>0, WaitFrame DEF IInv, mgrVars, actorVars, slotVars
<1>10. SlotPlaces'
  BY <1>0 DEF IInv, SlotPlaces, Moves, CoreTypes, RunTypes, slotVars
<1>11. TriggerKept'
  BY <1>0, MoveKeepsTriggers DEF mgrVars, slotVars
<1> QED
  BY <1>3, <1>4, <1>5, <1>6, <1>7, <1>9, <1>10, <1>11 DEF IInv, DataInv

\* startAttempt keeps the invariant: it only marks an attempt that runs from here on.
LEMMA StartAttemptStep ==
  ASSUME IInv, Slots!TypeOK, NEW r \in Repos, StartAttempt(r)
  PROVE  IInv'
<1>0. /\ UNCHANGED <<cfg, bind, syncing, result, runs, provVars, attVars, mgrVars, actorVars, task,
                     slotVars, suspended, waitCh, events, histVars>>
      /\ Moves(r, "claimed", "run")
  BY DEF StartAttempt, Goto, Moves
<1>s. started' \in [Repos -> BOOLEAN] /\ \A q \in Repos \ {r} : started'[q] = started[q]
  BY DEF StartAttempt, IInv, CoreTypes, ConfTypes, Configured, TargetMatches
<1>1. CoreTypes'
  BY <1>0, <1>s, ConfTypesFrame DEF IInv, CoreTypes, ConfTypes, RunTypes, Moves, mgrVars, histVars
<1>2. DataInv'
  BY <1>0, DataFrame DEF IInv, DataInv, provVars
<1>3. Registered'
  BY <1>0 DEF IInv, Registered, Attempting, Moves, CoreTypes, RunTypes, attVars, provVars
<1>4. ActorsOK' /\ InFlightHasRunner'
  BY <1>0, MoveKeepsFlight
<1>6. WaitOK'
  BY <1>0, WaitFrame DEF IInv, mgrVars, actorVars, slotVars
<1>7. SlotPlaces'
  BY <1>0 DEF IInv, SlotPlaces, Moves, CoreTypes, RunTypes, slotVars
<1>8. TriggerKept'
  BY <1>0, MoveKeepsTriggers DEF mgrVars, slotVars, histVars
<1> QED
  BY <1>1, <1>2, <1>3, <1>4, <1>6, <1>7, <1>8 DEF IInv, DataInv

\* finishSync keeps the invariant: a result is recorded only for the target and the
\* binding the repository still has.
LEMMA FinishSyncStep ==
  ASSUME IInv, Slots!TypeOK, NEW r \in Repos, NEW c \in BOOLEAN, FinishSync(r, c)
  PROVE  IInv'
<1>0. /\ UNCHANGED <<cfg, bind, attemptSeq, provVars, mgrVars, actorVars, slotVars, suspended,
                     waitCh, events, owed>>
      /\ stray' \subseteq stray
      /\ Moves(r, "run", "finished")
      /\ task' = [task EXCEPT ![r] = None]
  BY DEF FinishSync, Goto, Moves
<1>1. /\ task[r] \in Tasks /\ task[r].bind # NoBinding
      /\ attempts[r] # None /\ attempts[r].seq = task[r].seq
      /\ attempts' = [attempts EXCEPT ![r] = None]
  BY DEF FinishSync, EndAttempt, IInv, Registered, Attempting, CoreTypes, AttemptTypes
<1>2. /\ syncing' \in [Repos -> BOOLEAN] /\ started' \in [Repos -> BOOLEAN]
      /\ \A q \in Repos \ {r} : started'[q] = started[q]
  BY DEF FinishSync, IInv, CoreTypes, ConfTypes
<1>3. \/ result' = [result EXCEPT ![r] = result[r]] /\ runs' = [runs EXCEPT ![r] = runs[r]]
      \/ /\ Configured(r) /\ TargetMatches(r) /\ bind[r] = task[r].bind
         /\ result' = [result EXCEPT ![r] = [origin |-> task[r].origin, replica |-> task[r].replica,
                                             bind |-> task[r].bind]]
         /\ runs' = [runs EXCEPT ![r] = Fingerprint(cfg[r])]
  BY DEF FinishSync
<1>q. /\ \A q \in Repos \ {r} : result'[q] = result[q] /\ runs'[q] = runs[q]
      /\ \/ result'[r] = result[r] /\ runs'[r] = runs[r]
         \/ /\ Configured(r) /\ TargetMatches(r) /\ bind[r] = task[r].bind
            /\ result'[r] = [origin |-> task[r].origin, replica |-> task[r].replica,
                             bind |-> task[r].bind]
            /\ runs'[r] = Fingerprint(cfg[r])
  BY <1>3 DEF IInv, CoreTypes, ConfTypes
<1>4. ConfTypes'
  <2>1. ASSUME Configured(r)
        PROVE  /\ Fingerprint(cfg[r]) \in Fingerprints
               /\ [origin |-> task[r].origin, replica |-> task[r].replica, bind |-> task[r].bind] \in Results
    BY <1>1, <2>1 DEF Configured, Fingerprint, Fingerprints, Results, Tasks, Target, IInv, CoreTypes, ConfTypes
  <2>2. result' \in [Repos -> Results \cup {InvalidReplica, None}]
    BY <1>3, <2>1 DEF IInv, CoreTypes, ConfTypes
  <2>3. runs' \in [Repos -> Fingerprints \cup {None}]
    BY <1>3, <2>1 DEF IInv, CoreTypes, ConfTypes
  <2> QED
    BY <1>0, <1>2, <2>2, <2>3 DEF IInv, CoreTypes, ConfTypes
<1>5. CoreTypes'
  BY <1>0, <1>1, <1>4, ConfTypesFrame DEF IInv, CoreTypes, AttemptTypes, RunTypes, Moves, mgrVars, histVars
<1>6. BindInStep'
  BY <1>0 DEF IInv, BindInStep, provVars
<1>7. ResultIsCurrent' /\ ResultBound'
  BY <1>0, <1>1, <1>q DEF IInv, ResultIsCurrent, ResultBound, TargetMatches, Configured
<1>8. RunRecordIsCurrent'
  BY <1>0, <1>q DEF IInv, RunRecordIsCurrent, Configured
<1>9. Registered'
  BY <1>0, <1>1 DEF IInv, Registered, Attempting, Moves, CoreTypes, RunTypes, AttemptTypes, provVars
<1>10. ActorsOK' /\ InFlightHasRunner'
  BY <1>0, MoveKeepsFlight
<1>11. WaitOK'
  BY <1>0, WaitFrame DEF IInv, mgrVars, actorVars, slotVars
<1>12. SlotPlaces'
  BY <1>0 DEF IInv, SlotPlaces, Moves, CoreTypes, RunTypes, slotVars
<1>13. TriggerKept'
  BY <1>0, MoveKeepsTriggers DEF mgrVars, slotVars, histVars
<1> QED
  BY <1>5, <1>6, <1>7, <1>8, <1>9, <1>10, <1>11, <1>12, <1>13 DEF IInv

\* The release hook keeps the invariant.
LEMMA ReleaseSyncStep ==
  ASSUME IInv, Slots!TypeOK, NEW r \in Repos, ReleaseSync(r)
  PROVE  IInv'
<1>0. /\ UNCHANGED <<cfg, bind, result, runs, provVars, attVars, mgrVars, actorVars, task,
                     slotVars, suspended, waitCh, events, owed>>
      /\ stray' \subseteq stray
      /\ syncing' \in [Repos -> BOOLEAN] /\ started' \in [Repos -> BOOLEAN]
      /\ \E m \in {"finished", "loop"} : Moves(r, "dropping", m)
      /\ pc'[r] = IF at[r] = "holding" THEN "finished" ELSE "loop"
  BY DEF ReleaseSync, SetSyncing, Configured, Goto, Moves, IInv, CoreTypes, ConfTypes, RunTypes
<1>1. CoreTypes'
  BY <1>0, ConfTypesFrame DEF IInv, CoreTypes, ConfTypes, RunTypes, Moves, mgrVars, histVars
<1>2. DataInv'
  BY <1>0, DataFrame DEF IInv, DataInv, provVars
<1>3. Registered'
  BY <1>0, MoveKeepsRegistered DEF attVars, provVars
<1>4. ActorsOK' /\ InFlightHasRunner'
  BY <1>0, MoveKeepsFlight
<1>5. WaitOK'
  BY <1>0, WaitFrame DEF IInv, mgrVars, actorVars, slotVars
<1>6. SlotPlaces'
  BY <1>0 DEF IInv, SlotPlaces, Moves, CoreTypes, RunTypes, slotVars
<1>7. TriggerKept'
  BY <1>0, MoveKeepsTriggers DEF mgrVars, slotVars, histVars
<1> QED
  BY <1>1, <1>2, <1>3, <1>4, <1>5, <1>6, <1>7 DEF IInv, DataInv

\* runOnce's deferred release keeps the invariant: the runner then holds no slot.
LEMMA ReleaseSlotStep ==
  ASSUME IInv, Slots!TypeOK, NEW r \in Repos, ReleaseSlot(r)
  PROVE  IInv'
<1>0. /\ UNCHANGED <<confVars, provVars, attVars, mgrVars, actorVars, task, suspended, waitCh,
                     events, histVars, ctxDone>>
      /\ Moves(r, "finished", "loop")
      /\ at' = [at EXCEPT ![r] = "out"]
  BY DEF ReleaseSlot, RunnerOnly, Goto, Moves, Slots!Release
<1>1. CoreTypes'
  BY <1>0, ConfTypesFrame DEF IInv, CoreTypes, RunTypes, Moves, mgrVars, histVars
<1>2. DataInv'
  BY <1>0, DataFrame DEF IInv, DataInv, confVars, provVars
<1>3. Registered'
  BY <1>0, MoveKeepsRegistered DEF attVars, provVars
<1>4. ActorsOK' /\ InFlightHasRunner'
  BY <1>0, MoveKeepsFlight
<1>5. WaitOK'
  BY <1>0, WaitFrame DEF IInv, mgrVars, actorVars
<1>6. SlotPlaces'
  BY <1>0 DEF IInv, SlotPlaces, Moves, CoreTypes, RunTypes, Slots!TypeOK
<1>7. TriggerKept'
  BY <1>0, MoveKeepsTriggers DEF mgrVars, histVars
<1> QED
  BY <1>1, <1>2, <1>3, <1>4, <1>5, <1>6, <1>7 DEF IInv, DataInv

\* A rerun's begin hook keeps the invariant.
LEMMA RebeginStep ==
  ASSUME IInv, Slots!TypeOK, NEW r \in Repos, Rebegin(r)
  PROVE  IInv'
<1>0. /\ UNCHANGED <<cfg, bind, result, runs, provVars, attVars, mgrVars, actorVars, task,
                     slotVars, suspended, waitCh, events, histVars>>
      /\ syncing' \in [Repos -> BOOLEAN] /\ started' \in [Repos -> BOOLEAN]
      /\ Moves(r, "rebegin", "acquire")
  BY DEF Rebegin, SetSyncing, Configured, Goto, Moves, IInv, CoreTypes, ConfTypes
<1>1. CoreTypes'
  BY <1>0, ConfTypesFrame DEF IInv, CoreTypes, ConfTypes, RunTypes, Moves, mgrVars, histVars
<1>2. DataInv'
  BY <1>0, DataFrame DEF IInv, DataInv, provVars
<1>3. Registered'
  BY <1>0, MoveKeepsRegistered DEF attVars, provVars
<1>4. ActorsOK' /\ InFlightHasRunner'
  BY <1>0, MoveKeepsFlight
<1>5. WaitOK'
  BY <1>0, WaitFrame DEF IInv, mgrVars, actorVars, slotVars
<1>6. SlotPlaces'
  BY <1>0 DEF IInv, SlotPlaces, Moves, CoreTypes, RunTypes, slotVars
<1>7. TriggerKept'
  BY <1>0, MoveKeepsTriggers DEF mgrVars, slotVars, histVars
<1> QED
  BY <1>1, <1>2, <1>3, <1>4, <1>5, <1>6, <1>7 DEF IInv, DataInv

\* The end of runRepo's loop body keeps the invariant: a pending rerun is taken up, or
\* the context ended; a runner leaves the in-flight set in the step that stops it.
LEMMA LoopStep ==
  ASSUME IInv, Slots!TypeOK, NEW r \in Repos, Loop(r)
  PROVE  IInv'
<1> DEFINE again == r \in rerun /\ ~ctxDone
<1>0. /\ UNCHANGED <<confVars, provVars, attVars, actorVars, task, slotVars, suspended, events, histVars>>
      /\ Moves(r, "loop", IF again THEN "rebegin" ELSE "off")
      /\ rerun' = rerun \ {r}
      /\ inflight' = IF again THEN inflight ELSE inflight \ {r}
      /\ waitCh' = IF waitCh = "open" /\ inflight' = {} THEN "closed" ELSE waitCh
  BY DEF Loop, RunAgain, RerunAfter, NotifyIdle, Goto, Moves
<1>p. /\ pc[r] = "loop" /\ pc'[r] = IF again THEN "rebegin" ELSE "off"
      /\ \A q \in Repos \ {r} : pc'[q] = pc[q]
  BY <1>0 DEF Moves, IInv, CoreTypes, RunTypes
<1>a. /\ UNCHANGED <<phase, ids, cur>>
      /\ \A a \in Actors : phase[a] = "begin" => cur[a] \in Repos \ {r}
  BY <1>0, <1>p DEF actorVars, IInv, ActorsOK, CoreTypes, ActorTypes
<1> HIDE DEF again
<1>1. CoreTypes'
  <2>1. RunTypes'
    BY <1>0 DEF IInv, CoreTypes, RunTypes, Moves, histVars
  <2> QED
    BY <1>0, <2>1, ConfTypesFrame DEF IInv, CoreTypes
<1>2. DataInv'
  BY <1>0, DataFrame DEF IInv, DataInv, confVars, provVars
<1>3. Registered'
  <2>1. (IF again THEN "rebegin" ELSE "off") \notin {"claimed", "run"}
    OBVIOUS
  <2> QED
    BY <1>0, <2>1, MoveKeepsRegistered DEF attVars, provVars
<1>4. ActorsOK'
  BY <1>p, <1>a DEF IInv, ActorsOK, Actors
<1>5. InFlightHasRunner'
  BY <1>0, <1>p, <1>a DEF IInv, InFlightHasRunner
<1>6. WaitOK'
  BY <1>0, <1>a DEF IInv, WaitOK, slotVars
<1>7. SlotPlaces'
  BY <1>0, <1>p DEF IInv, SlotPlaces, slotVars
<1>8. TriggerKept'
  <2> SUFFICES ASSUME NEW q \in owed PROVE ctxDone \/ ClaimAhead(q)'
    BY <1>0 DEF TriggerKept, histVars, slotVars
  <2>1. q \in Repos /\ (ctxDone \/ ClaimAhead(q))
    BY DEF IInv, TriggerKept, CoreTypes, RunTypes
  <2>2. CASE q = r
    BY <1>0, <1>p, <1>a, <2>1, <2>2 DEF ClaimAhead, again
  <2>3. CASE q # r
    BY <1>0, <1>p, <1>a, <2>1, <2>3 DEF ClaimAhead
  <2> QED
    BY <2>2, <2>3
<1> QED
  BY <1>1, <1>2, <1>3, <1>4, <1>5, <1>6, <1>7, <1>8 DEF IInv, DataInv

-----------------------------------------------------------------------------
(***************************************************************************)
(* The theorems.                                                           *)
(***************************************************************************)

\* The connector starts in the invariant, with any credentials and any run records.
LEMMA InitIInv == Init => IInv
<1> SUFFICES ASSUME Init PROVE IInv
  OBVIOUS
<1>1. NoBinding \in Bindings
  BY DEF NoBinding, Bindings
<1>2. ConfTypes
  BY <1>1, CoreAssumption DEF Init, ConfTypes, Fingerprints
<1>3. ProvTypes /\ AttemptTypes /\ ActorTypes /\ RunTypes
  BY DEF Init, ProvTypes, AttemptTypes, ActorTypes, RunTypes
<1>4. BindInStep /\ Registered /\ RunRecordIsCurrent
  BY DEF Init, BindInStep, BindOf, Registered, Attempting, RunRecordIsCurrent, Configured
<1>5. ResultIsCurrent /\ ResultBound
  BY DEF Init, ResultIsCurrent, ResultBound
<1>6. ActorsOK /\ InFlightHasRunner /\ SlotPlaces /\ WaitOK /\ TriggerKept
  BY DEF Init, Slots!Init, ActorsOK, Actors, InFlightHasRunner, SlotPlaces, WaitOK, TriggerKept
<1> QED
  BY <1>2, <1>3, <1>4, <1>5, <1>6 DEF IInv, CoreTypes

\* Every step keeps the invariant.
LEMMA NextIInv == IInv /\ Slots!TypeOK /\ [Next]_vars => IInv'
<1> SUFFICES ASSUME IInv, Slots!TypeOK, [Next]_vars PROVE IInv'
  OBVIOUS
<1>1. CASE UNCHANGED vars
  <2>1. CoreTypes'
    BY <1>1, ConfTypesFrame DEF vars, IInv, CoreTypes, RunTypes, mgrVars, runVars, histVars
  <2>2. DataInv' /\ Registered' /\ SlotPlaces'
    BY <1>1, DataFrame, RegisteredFrame, SlotFrame
    DEF vars, confVars, provVars, attVars, runVars, slotVars, IInv, DataInv
  <2>3. ActorsOK' /\ InFlightHasRunner' /\ WaitOK' /\ TriggerKept'
    BY <1>1, FlightFrame, WaitFrame, TriggerFrame
    DEF vars, mgrVars, actorVars, runVars, slotVars, histVars, IInv
  <2> QED
    BY <2>1, <2>2, <2>3 DEF IInv, DataInv
<1>2. CASE Environment
  BY <1>1, <1>2, ApplyConfigStep, SyncNowStep, OnHandshakeStep, SetProvidersStep,
     EnqueueScheduledStep, ShutdownStep DEF Environment, Exited
<1>3. ASSUME NEW a \in Actors, ActorStep(a) PROVE IInv'
  BY <1>3, StartSyncsStep, CheckSyncableStep, LaunchStep, BeginStep DEF ActorStep
<1>4. ASSUME NEW r \in Repos, RunnerStep(r) PROVE IInv'
  BY <1>4, AcquireStep, CheckStartStep, ClaimStep, StartAttemptStep, FinishSyncStep,
     ReleaseSyncStep, ReleaseSlotStep, LoopStep, RebeginStep DEF RunnerStep
<1> QED
  BY <1>1, <1>2, <1>3, <1>4 DEF Next

\* The inductive invariant of the sync core.
THEOREM CoreInvariant == Spec => []IInv
  BY InitIInv, NextIInv, CorePool, PTL DEF Spec

\* Type correctness of the sync core and of the pool it drives.
THEOREM CoreTypeOK == Spec => []TypeOK
<1>1. IInv /\ Slots!TypeOK => TypeOK
  BY DEF IInv, TypeOK
<1> QED
  BY <1>1, CoreInvariant, CorePool, PTL

\* claimTask and setProviders: a running sync that has not been cancelled uses a
\* credential that is in force, however reloads, configurations and claims interleave;
\* and the branches of claimTask and finishSync that guard against another attempt of
\* the same repository, or a binding out of step with the providers, are never taken.
THEOREM CredentialsRevocable == Spec => [](RevokedIsCancelled /\ OneAttemptPerRepo)
<1>1. IInv => RevokedIsCancelled
  BY DEF IInv, Registered, RevokedIsCancelled
<1>2. IInv => OneAttemptPerRepo
  <2> SUFFICES ASSUME IInv, NEW r \in Repos
               PROVE  /\ pc[r] = "claim" => attempts[r] = None
                      /\ Attempting(r) => attempts[r] # None /\ attempts[r].seq = task[r].seq
                      /\ Syncable(r) => InForce(bind[r], gen)
    BY DEF OneAttemptPerRepo
  <2>1. Syncable(r) => InForce(bind[r], gen)
    BY BindOfInForce DEF IInv, BindInStep, Syncable, CoreTypes, ConfTypes, ProvTypes
  <2> QED
    BY <2>1 DEF IInv, Registered, Attempting
<1> QED
  BY <1>1, <1>2, CoreInvariant, PTL

\* applyConfig, setProviders and finishSync: what the status reports of a repository is
\* about the target and the credential it has now.
THEOREM ResultsCurrent == Spec => []ResultIsCurrent
<1>1. IInv => ResultIsCurrent
  BY DEF IInv
<1> QED
  BY <1>1, CoreInvariant, PTL

\* reconcileRunsLocked and finishSync: the run record of a configured repository, loaded or
\* recorded, is about the replication it is configured for now.
THEOREM RunRecordsCurrent == Spec => []RunRecordIsCurrent
<1>1. IInv => RunRecordIsCurrent
  BY DEF IInv
<1> QED
  BY <1>1, CoreInvariant, PTL

\* manager.launch and runRepo: until shutdown no trigger is lost, whatever it races with.
THEOREM TriggersKept == Spec => [](TriggerKept /\ InFlightHasRunner)
<1>1. IInv => TriggerKept /\ InFlightHasRunner
  BY DEF IInv
<1> QED
  BY <1>1, CoreInvariant, PTL

\* runOnce and drain: every sync runs within its slot and gives it back, and a daemon
\* whose wait returned leaves no runner behind.
THEOREM CleanExit == Spec => [](SlotWhileRunning /\ IdleAfterWait)
<1>1. IInv => IdleAfterWait
  BY DEF IInv, WaitOK, InFlightHasRunner, IdleAfterWait
<1>2. IInv => SlotWhileRunning
  BY DEF IInv, SlotPlaces, SlotWhileRunning, CoreTypes, RunTypes
<1> QED
  BY <1>1, <1>2, CoreInvariant, PTL

-----------------------------------------------------------------------------
(***************************************************************************)
(* The syncing mark.                                                       *)
(***************************************************************************)
\* A mark belongs to a run that will clear it: a runner that ends finds the mark of its own
\* target, or none.
MarkInv ==
  \A r \in Repos \ stray :
    /\ syncing[r] => pc[r] \in {"acquire", "slotted", "claim", "claimed", "run", "dropping"}
    /\ started[r] => pc[r] = "run"
    /\ Attempting(r) /\ (syncing[r] \/ started[r]) => Configured(r) /\ TargetMatches(r)

\* The marks and what they are compared with change in these steps only.
LEMMA MarkSteps ==
  ASSUME [Next]_vars
  PROVE  \/ UNCHANGED <<cfg, syncing, started, pc, task, stray>>
         \/ \E next \in Configs, l \in Limits : ApplyConfig(next, l)
         \/ \E a \in Actors : Begin(a)
         \/ \E r \in Repos : RunnerStep(r)
<1> USE DEF confVars, runVars, histVars
<1>1. CASE UNCHANGED vars
  BY <1>1 DEF vars
<1>2. CASE Environment
  BY <1>1, <1>2 DEF Environment, SyncNow, OnHandshake, SetProviders, EnqueueScheduled, Shutdown,
     StartWait, EndWait, Exited
<1>3. ASSUME NEW a \in Actors, ActorStep(a) \/ Begin(a)
      PROVE  UNCHANGED <<cfg, syncing, started, pc, task, stray>> \/ Begin(a)
  BY <1>3 DEF ActorStep, StartSyncs, CheckSyncable, Launch
<1> QED
  BY <1>1, <1>2, <1>3 DEF Next

\* A configuration carries the marks of what is replicated as before; of what was moved to
\* another origin under its sync too, which is then astray.
LEMMA ApplyConfigMarks ==
  ASSUME IInv, MarkInv, NEW next \in Configs, NEW l \in Limits, ApplyConfig(next, l)
  PROVE  MarkInv'
<1>1. CoreTypes
  BY DEF IInv
<1>2. cfg' = next /\ UNCHANGED <<pc, task>>
  BY DEF ApplyConfig, runVars
<1>3. ASSUME NEW r \in Repos \ stray', syncing'[r] \/ started'[r]
      PROVE  /\ next[r] # None /\ ReplicaURL(cfg[r]) = ReplicaURL(next[r])
             /\ syncing'[r] => syncing[r]
             /\ started'[r] => started[r]
             /\ r \notin stray
             /\ Attempting(r) => next[r].origin = task[r].origin
  BY <1>3 DEF ApplyConfig, SameSyncIdentity
<1> QED
  BY <1>2, <1>3 DEF MarkInv, Configured, TargetMatches, Attempting

\* A sync that begins is marked, and its runner is the one that clears the mark.
LEMMA BeginMarks ==
  ASSUME IInv, MarkInv, NEW a \in Actors, Begin(a)
  PROVE  MarkInv'
<1>1. CoreTypes /\ cur[a] \in Repos /\ pc[cur[a]] = "off"
  BY CoreAssumption DEF IInv, ActorsOK, Begin, CoreTypes, ActorTypes
<1>2. UNCHANGED <<cfg, task, stray>>
  BY DEF Begin, histVars
<1> DEFINE r == cur[a]
<1>3. /\ pc'[r] = "acquire" /\ (started'[r] <=> started[r])
      /\ \A q \in Repos \ {r} : /\ pc'[q] = pc[q]
                                /\ syncing'[q] = syncing[q] /\ started'[q] = started[q]
  BY <1>1 DEF Begin, SetSyncing, CoreTypes, ConfTypes, RunTypes
<1>4. r \in Repos /\ pc[r] = "off"
  BY <1>1
<1> HIDE DEF r
<1> QED
  BY <1>2, <1>3, <1>4 DEF MarkInv, Configured, TargetMatches, Attempting

\* The runner: claimTask takes the target it is configured for, finishSync clears the marks of
\* that target, releaseSync any.
LEMMA RunnerMarks ==
  ASSUME IInv, MarkInv, NEW r \in Repos, RunnerStep(r)
  PROVE  MarkInv'
<1>1. CoreTypes /\ Registered
  BY DEF IInv
<1> USE <1>1 DEF CoreTypes, ConfTypes, RunTypes, AttemptTypes, Goto, histVars
<1>2. CASE Acquire(r) \/ CheckStart(r) \/ ReleaseSlot(r)
  <2>1. UNCHANGED <<cfg, syncing, started, task, stray>>
    BY <1>2 DEF Acquire, CheckStart, ReleaseSlot, RunnerOnly, confVars
  <2>2. /\ \A q \in Repos \ {r} : pc'[q] = pc[q]
        /\ ~Attempting(r) /\ pc'[r] \notin {"claimed", "run"}
        /\ pc[r] = "finished" \/ pc'[r] \in {"acquire", "slotted", "claim", "dropping"}
    BY <1>2 DEF Acquire, CheckStart, ReleaseSlot, Attempting
  <2> QED
    BY <2>1, <2>2 DEF MarkInv, Configured, TargetMatches, Attempting
<1>3. ASSUME NEW admit \in BOOLEAN, Claim(r, admit) PROVE MarkInv'
  <2>0. pc[r] = "claim" /\ UNCHANGED <<cfg, syncing, started, stray>>
    BY <1>3 DEF Claim, confVars
  <2>1. CASE pc' = [pc EXCEPT ![r] = "dropping"] /\ UNCHANGED task
    BY <2>0, <2>1 DEF MarkInv, Configured, TargetMatches, Attempting
  <2>2. CASE /\ pc' = [pc EXCEPT ![r] = "claimed"] /\ Syncable(r)
             /\ task' = [task EXCEPT ![r] = [seq |-> attemptSeq', origin |-> cfg[r].origin,
                                             replica |-> cfg[r].replica, bind |-> bind[r]]]
    <3>1. /\ pc'[r] = "claimed" /\ Configured(r)' /\ TargetMatches(r)'
      BY <2>0, <2>2 DEF Syncable, ReplicaURL, Configured, TargetMatches
    <3>2. \A q \in Repos \ {r} : /\ task'[q] = task[q] /\ pc'[q] = pc[q]
                                  /\ Configured(q)' = Configured(q)
      BY <2>0, <2>2 DEF Configured
    <3>3. \A q \in Repos \ {r} : /\ TargetMatches(q)' = TargetMatches(q)
                                  /\ Attempting(q)' = Attempting(q)
      BY <2>0, <3>2 DEF TargetMatches, Attempting
    <3> QED
      BY <2>0, <3>1, <3>2, <3>3 DEF MarkInv
  <2> QED
    BY <1>3, <2>1, <2>2 DEF Claim
<1>4. CASE StartAttempt(r)
  <2>1. /\ UNCHANGED <<cfg, syncing, task, stray>> /\ pc[r] = "claimed" /\ pc'[r] = "run"
        /\ \A q \in Repos \ {r} : pc'[q] = pc[q] /\ started'[q] = started[q]
    BY <1>4 DEF StartAttempt
  <2>2. started'[r] => started[r] \/ (Configured(r) /\ TargetMatches(r))
    BY <1>4, <2>1 DEF StartAttempt
  <2>3. \A q \in Repos : Configured(q)' = Configured(q) /\ TargetMatches(q)' = TargetMatches(q)
    BY <2>1 DEF Configured, TargetMatches
  <2>4. Attempting(r) /\ \A q \in Repos \ {r} : Attempting(q)' = Attempting(q)
    BY <2>1 DEF Attempting
  <2> QED
    BY <2>1, <2>2, <2>3, <2>4 DEF MarkInv
<1>5. ASSUME NEW c \in BOOLEAN, FinishSync(r, c) PROVE MarkInv'
  <2>1. attempts[r].seq = task[r].seq /\ Attempting(r)
    BY <1>5 DEF FinishSync, Registered, Attempting
  <2> DEFINE mine == Configured(r) /\ TargetMatches(r)
  <2>2. /\ syncing'[r] <=> syncing[r] /\ ~mine
        /\ started'[r] <=> started[r] /\ ~mine
        /\ stray' = IF mine THEN stray \ {r} ELSE stray
    BY <1>5, <2>1 DEF FinishSync
  <2>3. r \notin stray' => ~syncing'[r] /\ ~started'[r]
    BY <2>1, <2>2 DEF MarkInv
  <2>4. /\ pc'[r] = "finished" /\ UNCHANGED cfg
        /\ \A q \in Repos \ {r} : /\ pc'[q] = pc[q] /\ task'[q] = task[q]
                                  /\ syncing'[q] = syncing[q] /\ started'[q] = started[q]
    BY <1>5 DEF FinishSync
  <2>5. \A q \in Repos \ {r} : q \in stray' <=> q \in stray
    BY <2>2
  <2> HIDE DEF mine
  <2> QED
    BY <2>3, <2>4, <2>5 DEF MarkInv, Configured, TargetMatches, Attempting
<1>6. CASE ReleaseSync(r)
  BY <1>6 DEF ReleaseSync, SetSyncing, MarkInv, Configured, TargetMatches, Attempting
<1>7. CASE Loop(r)
  BY <1>7 DEF Loop, confVars, MarkInv, Configured, TargetMatches, Attempting
<1>8. CASE Rebegin(r)
  BY <1>8 DEF Rebegin, SetSyncing, MarkInv, Configured, TargetMatches, Attempting
<1> QED
  BY <1>2, <1>3, <1>4, <1>5, <1>6, <1>7, <1>8 DEF RunnerStep

\* The syncing mark is true of a sync that is queued or running, and attemptStartedAt of one that
\* runs, through any reloads and configurations, but for a repository that a configuration moved
\* to another origin while its sync ran: sameSyncIdentity carries the mark when the repository is
\* unbound, and targetMatches then keeps finishSync from clearing it.
THEOREM MarksAreTrue == Spec => []MarkFollowsRun
<1>1. Init => MarkInv
  BY DEF Init, MarkInv, Configured, Attempting
<1>2. IInv /\ MarkInv /\ [Next]_vars => MarkInv'
  <2> SUFFICES ASSUME IInv, MarkInv, [Next]_vars PROVE MarkInv'
    OBVIOUS
  <2>1. CASE UNCHANGED <<cfg, syncing, started, pc, task, stray>>
    BY <2>1 DEF MarkInv, Configured, TargetMatches, Attempting
  <2> QED
    BY <2>1, MarkSteps, ApplyConfigMarks, BeginMarks, RunnerMarks
<1>3. MarkInv => MarkFollowsRun
  BY DEF MarkInv, MarkFollowsRun
<1> QED
  BY <1>1, <1>2, <1>3, CoreInvariant, PTL DEF Spec
=============================================================================
