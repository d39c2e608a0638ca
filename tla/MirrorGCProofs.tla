--------------------------- MODULE MirrorGCProofs ---------------------------
(***************************************************************************)
(* For any mirrors, configurations and bounds: a sync keeps the directory  *)
(* it works in, and a mirror that stays configured is never moved away.    *)
(***************************************************************************)
EXTENDS MirrorGC, TLAPS

\* The program starts in a state of the invariant.
LEMMA InitIInv == Init => IInv
<1> SUFFICES ASSUME Init PROVE IInv
  OBVIOUS
<1>1. TypeOK
  <2>1. 0 \in 0..MaxConfigs /\ 0 \in 0..MaxRestarts /\ Grace \in Ages
    BY GCAssumption DEF Ages
  <2>2. Found \subseteq Mirrors /\ \A m \in Mirrors \ dir : marker[m] = None
    BY GCAssumption DEF Init
  <2>. QED BY <2>1, <2>2 DEF Init, TypeOK
<1>2. SyncHasMirror
  BY DEF Init, SyncHasMirror
<1>3. ClaimIsSafe
  BY DEF Init, ClaimIsSafe, Claiming
<1>. QED BY <1>1, <1>2, <1>3 DEF IInv

\* What leaves the claim and what it looked at alone keeps it safe.
LEMMA ClaimUntouched ==
  ASSUME IInv, UNCHANGED <<repos, rejected, critical, sweep, cur, against>>,
         Claiming => \A m \in Mirrors : pc[m] = "off" => pc'[m] = "off"
  PROVE  ClaimIsSafe'
<1>1. Objections(cur)' = Objections(cur)
  BY DEF Objections, HasKeep, Listed, Allowed
<1>2. Claiming => cur \in Mirrors
  BY DEF IInv, TypeOK, Claiming
<1>. QED BY <1>1, <1>2 DEF IInv, ClaimIsSafe, Claiming, InFlight

\* What changes the configuration, or whether cleanup is allowed, takes back the objections
\* that are none any more.
LEMMA ObjectionsFollow ==
  ASSUME IInv, StillAgainst, UNCHANGED <<sweep, cur, pc>>
  PROVE  /\ ClaimIsSafe'
         /\ against' \subseteq {"kept", "paused"}
  BY DEF IInv, TypeOK, ClaimIsSafe, StillAgainst, Claiming, InFlight

\* A git_sync_config, a handshake and a restart leave the mirrors as they are.
LEMMA ReaderKeeps ==
  ASSUME IInv,
         \/ \E S \in Configs : Apply(S)
         \/ Reject \/ Reader \/ Restart
         \/ \E b \in Patches : SetCritical(b)
  PROVE  IInv'
<1> USE GCAssumption DEF TypeOK, SyncHasMirror, Ages
<1>0. TypeOK /\ SyncHasMirror
  BY DEF IInv
<1>1. ASSUME NEW S \in Configs, Apply(S) PROVE IInv'
  <2>1. StillAgainst /\ UNCHANGED <<disk, sweepVars, manager>>
    BY <1>1 DEF Apply
  <2>2. ClaimIsSafe' /\ against' \subseteq {"kept", "paused"}
    BY <2>1, ObjectionsFollow DEF sweepVars, manager
  <2>. QED BY <1>0, <1>1, <2>2 DEF Apply, disk, sweepVars, manager, IInv
<1>2. CASE Reject
  <2>1. StillAgainst /\ UNCHANGED <<disk, sweepVars, manager>>
    BY <1>2 DEF Reject
  <2>2. ClaimIsSafe' /\ against' \subseteq {"kept", "paused"}
    BY <2>1, ObjectionsFollow DEF sweepVars, manager
  <2>. QED BY <1>0, <1>2, <2>2 DEF Reject, disk, sweepVars, manager, IInv
<1>3. CASE NoteConfigured
  <2>1. ClaimIsSafe'
    BY <1>3, ClaimUntouched DEF NoteConfigured, manager
  <2>. QED BY <1>0, <1>3, <2>1 DEF NoteConfigured, Listed, disk, manager, counts, IInv
<1>4. CASE ConfigApplied
  <2>1. ClaimIsSafe' /\ against' \subseteq {"kept", "paused"}
    BY <1>4, ObjectionsFollow DEF ConfigApplied, sweepVars, manager
  <2>. QED BY <1>0, <1>4, <2>1 DEF ConfigApplied, disk, sweepVars, manager, counts, IInv
<1>5. ASSUME NEW S \in SUBSET Mirrors, StartSyncs(S) PROVE IInv'
  <2>1. Claiming => \A m \in Mirrors : pc[m] = "off" => pc'[m] = "off"
    BY <1>0, <1>5 DEF StartSyncs
  <2>2. ClaimIsSafe'
    BY <1>5, <2>1, ClaimUntouched DEF StartSyncs, memory, sweepVars
  <2>. QED
    BY <1>0, <1>5, <2>2 DEF StartSyncs, InFlight, disk, memory, sweepVars, counts, IInv
<1>6. ASSUME NEW b \in Patches, SetCritical(b) PROVE IInv'
  <2>1. ClaimIsSafe' /\ against' \subseteq {"kept", "paused"}
    BY <1>6, ObjectionsFollow DEF SetCritical, sweepVars, manager
  <2>. QED BY <1>0, <1>6, <2>1 DEF SetCritical, disk, sweepVars, manager, counts, IInv
<1>7. CASE Restart
  <2>1. restarts' \in 0..MaxRestarts
    BY <1>0, <1>7 DEF Restart
  <2>2. TypeOK'
    BY <1>0, <1>7, <2>1 DEF Restart, disk
  <2>3. SyncHasMirror' /\ ClaimIsSafe'
    BY <1>7 DEF Restart, disk, ClaimIsSafe, Claiming
  <2>. QED BY <2>2, <2>3 DEF IInv
<1>. QED BY <1>1, <1>2, <1>3, <1>4, <1>5, <1>6, <1>7 DEF Reader

\* A sync adds, rebuilds or removes its own directory only, and ends only when no claim is
\* under way.
LEMMA SyncKeeps ==
  ASSUME IInv, NEW m \in Mirrors, Sync(m)
  PROVE  IInv'
<1> USE GCAssumption DEF TypeOK, SyncHasMirror, Ages
<1>0. TypeOK /\ SyncHasMirror
  BY DEF IInv
<1>1. ClaimIsSafe'
  <2>1. UNCHANGED <<repos, rejected, critical, sweep, cur, against>>
    BY DEF Sync, ClaimTask, OpenMirror, RebuildMirror, DropMirror, EndSync, memory, sweepVars
  <2>2. Claiming => \A n \in Mirrors : pc[n] = "off" => pc'[n] = "off"
    BY <1>0 DEF Sync, ClaimTask, OpenMirror, RebuildMirror, DropMirror, EndSync, Done, manager
  <2>. QED BY <2>1, <2>2, ClaimUntouched
<1>2. CASE ClaimTask(m)
  BY <1>0, <1>1, <1>2 DEF ClaimTask, Done, disk, memory, sweepVars, counts, IInv
<1>3. CASE OpenMirror(m)
  BY <1>0, <1>1, <1>3 DEF OpenMirror, memory, sweepVars, counts, IInv
<1>4. CASE RebuildMirror(m)
  BY <1>0, <1>1, <1>4 DEF RebuildMirror, memory, sweepVars, manager, counts, IInv
<1>5. CASE DropMirror(m)
  BY <1>0, <1>1, <1>5 DEF DropMirror, Done, memory, sweepVars, counts, IInv
<1>6. CASE EndSync(m)
  BY <1>0, <1>1, <1>6 DEF EndSync, Done, disk, memory, sweepVars, counts, IInv
<1>. QED BY <1>2, <1>3, <1>4, <1>5, <1>6 DEF Sync

\* A mark that is written is the mark of a mirror that is there.
LEMMA MarkerWritten ==
  ASSUME TypeOK, NEW m \in Mirrors, WriteMarker(m)
  PROVE  /\ marker' \in [Mirrors -> Ages \cup {None}]
         /\ \A n \in Mirrors \ dir : marker'[n] = None
         /\ outdated' \subseteq Mirrors
  BY GCAssumption DEF TypeOK, WriteMarker, Ages

\* The cleanup loop takes a directory only where no sync is in flight.
LEMMA SweepKeeps ==
  ASSUME IInv, Sweep
  PROVE  IInv'
<1> USE GCAssumption DEF TypeOK, SyncHasMirror, Ages
<1>0. TypeOK /\ SyncHasMirror /\ ClaimIsSafe
  BY DEF IInv
<1>1. CASE SweepBegin
  BY <1>0, <1>1 DEF SweepBegin, HasKeep, disk, memory, manager, counts, IInv, ClaimIsSafe, Claiming
<1>2. CASE Recover
  BY <1>0, <1>2 DEF Recover, memory, manager, counts, IInv, ClaimIsSafe, Claiming
<1>3. ASSUME NEW m \in Mirrors, SweepOne(m) PROVE IInv'
  BY <1>0, <1>3 DEF SweepOne, ClearMarker, manager, counts, IInv, ClaimIsSafe, Claiming
<1>4. CASE ReadMarker
  <2>1. sweep' \in {"scan", "judge"}
    BY <1>4 DEF ReadMarker, Leave
  <2>2. ClaimIsSafe'
    BY <2>1 DEF ClaimIsSafe, Claiming
  <2>3. CASE marker[cur] = None /\ WriteMarker(cur) /\ Leave
    <3>. QED BY <1>0, <1>4, <2>2, <2>3, MarkerWritten DEF ReadMarker, Leave, manager, counts, IInv
  <2>4. CASE marker[cur] # None
    <3>1. /\ since' = marker[cur] /\ sweep' = "judge" /\ sweep = "mark"
          /\ UNCHANGED <<marker, outdated, cur, against>>
          /\ UNCHANGED <<dir, tombs, repos, rejected, critical, reader, keep, todo, noted, pc,
                         rerun, received, restarts>>
      BY <1>4, <2>4 DEF ReadMarker, manager, counts
    <3>2. cur \in Mirrors
      BY <1>0, <3>1
    <3>3. since' \in Ages /\ since' # None
      BY <1>0, <2>4, <3>1, <3>2
    <3>4. TypeOK'
      BY <1>0, <3>1, <3>2, <3>3
    <3>. QED BY <1>0, <2>2, <3>1, <3>4 DEF IInv
  <2>. QED BY <1>4, <2>3, <2>4 DEF ReadMarker
<1>5. CASE Judge
  <2>1. sweep' \in {"scan", "claim"}
    BY <1>5 DEF Judge, Leave
  <2>2. ClaimIsSafe'
    BY <2>1 DEF ClaimIsSafe, Claiming
  <2>3. CASE cur \in outdated /\ WriteMarker(cur) /\ Leave
    <3>. QED BY <1>0, <1>5, <2>2, <2>3, MarkerWritten DEF Judge, Leave, manager, counts, IInv
  <2>4. CASE cur \notin outdated
    BY <1>0, <1>5, <2>2, <2>4 DEF Judge, Leave, manager, counts, IInv
  <2>. QED BY <1>5, <2>3, <2>4 DEF Judge
<1>6. CASE Claim
  <2>1. ClaimIsSafe'
    BY <1>0, <1>6 DEF Claim, Leave, ClaimIsSafe, Claiming, InFlight, Objections, HasKeep, Listed,
       Allowed, memory, manager
  <2>2. against' \subseteq {"kept", "paused"}
    BY <1>6 DEF Claim, Leave, Objections
  <2>. QED BY <1>0, <1>6, <2>1, <2>2 DEF Claim, Leave, disk, memory, manager, counts, IInv
<1>7. CASE StillOrphaned
  <2>1. ClaimIsSafe'
    <3>1. CASE HasKeep /\ ~Listed(cur) /\ sweep' = "move" /\ UNCHANGED <<cur, since, against>>
      <4>1. "kept" \notin Objections(cur) /\ Objections(cur)' = Objections(cur)
        BY <1>7, <3>1 DEF StillOrphaned, Objections, HasKeep, Listed, Allowed, memory
      <4>2. against = {}
        BY <1>0, <1>7, <4>1 DEF StillOrphaned, ClaimIsSafe, Claiming
      <4>. QED
        BY <1>0, <1>7, <3>1, <4>2 DEF StillOrphaned, ClaimIsSafe, Claiming, InFlight, manager
    <3>2. CASE Leave
      BY <3>2 DEF Leave, ClaimIsSafe, Claiming
    <3>. QED BY <1>7, <3>1, <3>2 DEF StillOrphaned
  <2>. QED BY <1>0, <1>7, <2>1 DEF StillOrphaned, Leave, disk, memory, manager, counts, IInv
<1>8. CASE MoveToTrash
  <2>1. cur \notin InFlight
    BY <1>0, <1>8 DEF MoveToTrash, ClaimIsSafe, Claiming
  <2>2. ClaimIsSafe' /\ against' \subseteq {"kept", "paused"}
    BY <1>0, <1>8 DEF MoveToTrash, Leave, ClaimIsSafe, Claiming
  <2>3. SyncHasMirror'
    BY <1>0, <1>8, <2>1 DEF MoveToTrash, Leave, InFlight, disk, manager
  <2>. QED
    BY <1>0, <1>8, <2>2, <2>3 DEF MoveToTrash, Leave, disk, memory, manager, counts, IInv
<1>9. CASE RemoveMoved
  BY <1>0, <1>9 DEF RemoveMoved, Leave, memory, manager, counts, IInv, ClaimIsSafe, Claiming
<1>10. CASE SweepEnd
  BY <1>0, <1>10 DEF SweepEnd, disk, memory, manager, counts, IInv, ClaimIsSafe, Claiming
<1>. QED
  BY <1>1, <1>2, <1>3, <1>4, <1>5, <1>6, <1>7, <1>8, <1>9, <1>10 DEF Sweep

\* Time only makes marks older.
LEMMA TickKeeps ==
  ASSUME IInv, Tick
  PROVE  IInv'
  BY GCAssumption DEF IInv, TypeOK, SyncHasMirror, Ages, Tick, Older, memory, sweepVars, manager,
     counts, ClaimIsSafe, Claiming

\* The invariant holds in every behaviour.
LEMMA GCAlways == Spec => []IInv
<1>1. Init => IInv
  BY InitIInv
<1>2. IInv /\ [Next]_vars => IInv'
  <2>1. ASSUME IInv, UNCHANGED vars PROVE IInv'
    <3>1. ClaimIsSafe'
      BY <2>1, ClaimUntouched DEF vars, memory, sweepVars, manager
    <3>. QED
      BY <2>1, <3>1 DEF IInv, TypeOK, SyncHasMirror, vars, disk, memory, sweepVars, manager, counts
  <2>. QED BY <2>1, ReaderKeeps, SyncKeeps, SweepKeeps, TickKeeps DEF Next
<1>. QED BY <1>1, <1>2, PTL DEF Spec

\* SyncHasMirror for every instance: claimMirror holds the manager's lock from its look to its
\* move, so no sync, whenever it was queued, loses the directory it works in.
THEOREM SyncKeepsMirror == Spec => [](TypeOK /\ SyncHasMirror)
<1>1. IInv => TypeOK /\ SyncHasMirror
  BY DEF IInv
<1>. QED BY <1>1, GCAlways, PTL

\* ConfiguredKept for every instance: apart from a sync that rebuilds its own, only claimMirror
\* takes a directory, and not one that stayed configured, or protected, through the claim.
THEOREM ConfiguredMirrorsKept == Spec => ConfiguredKept
<1> DEFINE Kept == \A m \in dir \ dir' : pc[m] = "open" \/ (m = cur /\ against = {})
<1>1. ASSUME IInv, [Next]_vars PROVE [Kept]_vars
  <2> SUFFICES ASSUME Next PROVE Kept
    BY <1>1
  <2>1. CASE MoveToTrash
    BY <1>1, <2>1 DEF MoveToTrash, disk, IInv, ClaimIsSafe
  <2>2. ASSUME NEW m \in Mirrors, DropMirror(m) PROVE Kept
    BY <2>2 DEF DropMirror
  <2>3. CASE ~MoveToTrash /\ \A m \in Mirrors : ~DropMirror(m)
    BY <2>3 DEF Next, Apply, Reject, Reader, NoteConfigured, ConfigApplied, StartSyncs, SetCritical,
       Sync, ClaimTask, OpenMirror, RebuildMirror, EndSync, Sweep, SweepBegin, Recover, SweepOne,
       ReadMarker, Judge, Claim, StillOrphaned, RemoveMoved, SweepEnd, Tick, Restart, disk
  <2>. QED BY <2>1, <2>2, <2>3
<1>. QED BY <1>1, GCAlways, PTL DEF Spec, ConfiguredKept
=============================================================================
