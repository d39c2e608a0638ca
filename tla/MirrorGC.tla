------------------------------ MODULE MirrorGC ------------------------------
(***************************************************************************)
(* Mirror garbage collection (gc.go): the loop that removes the mirror     *)
(* directories of repositories that left the configuration, against the    *)
(* read loop that applies configurations, the syncs that use the           *)
(* directories, and restarts, which lose everything but the disk.          *)
(*                                                                         *)
(* Times are kept as ages: of a mark, and of a repository's absence.  A    *)
(* sweep takes no time on the scale of the grace period (seven days).      *)
(***************************************************************************)
EXTENDS Integers, FiniteSets

CONSTANTS Mirrors,
          Found,        \* the mirrors an earlier process left on the disk
          Bound,        \* the repositories a provider serves
          Configs,      \* the repositories an accepted configuration may list
          Grace,        \* mirrorGCGrace
          MaxConfigs,   \* bound on the configurations received
          MaxRestarts,  \* bound on the restarts
          Patches,      \* critical_patch_required values the handshakes carry
          None

ASSUME GCAssumption ==
  /\ Found \subseteq Mirrors /\ Bound \subseteq Mirrors /\ Configs \subseteq SUBSET Mirrors
  /\ Grace \in Nat \ {0} /\ MaxConfigs \in Nat /\ MaxRestarts \in Nat
  /\ Patches \subseteq BOOLEAN
  /\ None \notin Mirrors /\ (\A S \in SUBSET Mirrors : S # None) /\ None \notin Nat

VARIABLES
  \* disk: survives a restart
  dir,          \* mirrors whose directory exists
  marker,       \* age of the orphan mark, up to Grace, or None (absent or unusable)
  tombs,        \* mirrors of which the trash holds a moved directory
  \* Client and mirrorGC: memory
  repos,        \* the accepted configuration, or None before the first
  rejected, critical,
  outdated,     \* mirrors last configured later than their last mark was dated
  \* the read loop's progress through a git_sync_config
  reader,
  \* the sweep
  sweep, keep, todo, cur,
  since,        \* age of the mark the sweep has read of cur
  noted,        \* mirrors whose lastConfigured is later than the sweep's Now
  \* the manager
  pc, rerun,
  \* history: what has spoken against taking cur at every moment of the claim under way
  against,
  \* bounds
  received, restarts

disk == <<dir, marker, tombs>>
memory == <<repos, rejected, critical, outdated>>
sweepVars == <<sweep, keep, todo, cur, since, noted>>
manager == <<pc, rerun>>
counts == <<received, restarts>>
vars == <<disk, memory, reader, sweepVars, manager, against, counts>>

Ages == 0..Grace
Older(a) == IF a = None THEN None ELSE IF a < Grace THEN a + 1 ELSE a

\* What an earlier process left may be marked, for any time.
Init ==
  /\ dir = Found /\ tombs = {}
  /\ marker \in [Mirrors -> Ages \cup {None}] /\ \A m \in Mirrors \ Found : marker[m] = None
  /\ repos = None /\ rejected = FALSE /\ critical = FALSE /\ outdated = {}
  /\ reader = "idle"
  /\ sweep = "idle" /\ keep = {} /\ todo = {} /\ cur = None /\ since = None /\ noted = {}
  /\ pc = [m \in Mirrors |-> "off"] /\ rerun = {}
  /\ against = {}
  /\ received = 0 /\ restarts = 0

\* acceptedMirrorKeep: no configuration, or an empty one, is never read as "all orphans".
HasKeep == repos # None /\ repos # {}

\* A repository of the accepted configuration.
Listed(m) == IF repos = None THEN FALSE ELSE m \in repos

\* mirrorGCAllowed
Allowed == ~rejected /\ ~critical

InFlight == {m \in Mirrors : pc[m] # "off"}

\* The claim holds m.mu from its look at the syncs until the move is done.
Claiming == sweep \in {"allowed", "move"}

\* What speaks against taking m: it is not known to be an orphan, or cleanup is not allowed.
Objections(m) == (IF HasKeep /\ ~Listed(m) THEN {} ELSE {"kept"})
                 \cup (IF Allowed THEN {} ELSE {"paused"})

\* An objection of the claim under way that is not one at some moment no longer counts.
StillAgainst == against' = against \cap Objections(cur)'

-----------------------------------------------------------------------------
(***************************************************************************)
(* HandleMessage of a git_sync_config, on the read loop.                   *)
(***************************************************************************)
\* applyConfig accepts S, or rejects what was sent and keeps what is in force.
Apply(S) ==
  /\ reader = "idle" /\ received < MaxConfigs
  /\ received' = received + 1
  /\ repos' = S
  /\ reader' = "note"
  /\ UNCHANGED <<disk, rejected, critical, outdated, sweepVars, manager, restarts>>
  /\ StillAgainst

Reject ==
  /\ reader = "idle" /\ received < MaxConfigs
  /\ received' = received + 1
  /\ rejected' = TRUE
  /\ UNCHANGED <<disk, repos, critical, outdated, reader, sweepVars, manager,
                 restarts>>
  /\ StillAgainst

\* noteConfigured: every mark there is, and the one a running sweep may yet write, is older.
NoteConfigured ==
  /\ reader = "note"
  /\ outdated' = outdated \cup {m \in Mirrors : Listed(m)}
  /\ noted' = IF sweep = "idle" THEN noted ELSE noted \cup {m \in Mirrors : Listed(m)}
  /\ reader' = "announce"
  /\ UNCHANGED <<disk, repos, rejected, critical, sweep, keep, todo, cur, since, manager,
                 against, counts>>

\* configApplied; the sweep it wakes the loop for may also begin by itself.
ConfigApplied ==
  /\ reader = "announce"
  /\ rejected' = FALSE
  /\ reader' = "start"
  /\ UNCHANGED <<disk, repos, critical, outdated, sweepVars, manager, counts>>
  /\ StillAgainst

\* startSyncs: some of the bound repositories can be synced.  Each is enqueued under m.mu.
StartSyncs(S) ==
  /\ reader = "start"
  /\ S \subseteq repos \cap Bound /\ (critical => S = {}) /\ (S # {} => ~Claiming)
  /\ pc' = [m \in Mirrors |-> IF m \in S \ InFlight THEN "queued" ELSE pc[m]]
  /\ rerun' = rerun \cup (S \cap InFlight)
  /\ reader' = "idle"
  /\ UNCHANGED <<disk, memory, sweepVars, against, counts>>

\* OnHandshake
SetCritical(b) ==
  /\ critical # b /\ critical' = b
  /\ UNCHANGED <<disk, repos, rejected, outdated, reader, sweepVars, manager, counts>>
  /\ StillAgainst

-----------------------------------------------------------------------------
(***************************************************************************)
(* A sync, from launch to removeInflightLocked.                            *)
(***************************************************************************)
\* The end of a run, under m.mu: another one if it was asked for meanwhile.
Done(m) ==
  /\ ~Claiming
  /\ pc' = [pc EXCEPT ![m] = IF m \in rerun THEN "queued" ELSE "off"]
  /\ rerun' = rerun \ {m}

ClaimTask(m) ==
  /\ pc[m] = "queued"
  /\ \/ /\ ~critical /\ Listed(m)
        /\ pc' = [pc EXCEPT ![m] = "claimed"]
        /\ UNCHANGED rerun
     \/ Done(m)
  /\ UNCHANGED <<disk, memory, reader, sweepVars, against, counts>>

\* updateMirror: the mirror is initialised if there is none...
OpenMirror(m) ==
  /\ pc[m] = "claimed"
  /\ pc' = [pc EXCEPT ![m] = "open"]
  /\ dir' = dir \cup {m}
  /\ UNCHANGED <<marker, tombs, memory, reader, sweepVars, rerun, against, counts>>

\* ... rebuilt, without what was in it, if git finds it corrupt...
RebuildMirror(m) ==
  /\ pc[m] = "open"
  /\ marker' = [marker EXCEPT ![m] = None]
  /\ UNCHANGED <<dir, tombs, memory, reader, sweepVars, manager, against, counts>>

\* ... and removed again if the first fetch into it fails.
DropMirror(m) ==
  /\ pc[m] = "open"
  /\ dir' = dir \ {m}
  /\ marker' = [marker EXCEPT ![m] = None]
  /\ Done(m)
  /\ UNCHANGED <<tombs, memory, reader, sweepVars, against, counts>>

EndSync(m) ==
  /\ pc[m] \in {"claimed", "open"}
  /\ Done(m)
  /\ UNCHANGED <<disk, memory, reader, sweepVars, against, counts>>

-----------------------------------------------------------------------------
(***************************************************************************)
(* The cleanup loop.                                                       *)
(***************************************************************************)
\* collectMirrors, woken or at its interval: the keep set and the time are read once.
SweepBegin ==
  /\ sweep = "idle"
  /\ \/ Allowed /\ HasKeep /\ keep' = repos /\ sweep' = "recover"
     \/ ~(Allowed /\ HasKeep) /\ UNCHANGED <<keep, sweep>>
  /\ UNCHANGED <<disk, memory, reader, todo, cur, since, noted, manager, against, counts>>

\* (mutant) what could not be removed is forgotten by later sweeps
RecoverNothing ==
  /\ sweep = "recover"
  /\ todo' = dir
  /\ sweep' = "scan"
  /\ UNCHANGED <<dir, marker, tombs, memory, reader, keep, cur, since, noted, manager, against, counts>>

\* recoverTombstones: leftovers are removed, or fail to be; then the mirrors are listed.
Recover ==
  /\ sweep = "recover"
  /\ tombs' \in SUBSET tombs
  /\ todo' = dir
  /\ sweep' = "scan"
  /\ UNCHANGED <<dir, marker, memory, reader, keep, cur, since, noted, manager, against, counts>>

\* (mutant) the mark is dated before the repository was last configured
WriteMarkerEarly(m) ==
  \/ m \in dir /\ marker' = [marker EXCEPT ![m] = 0] /\ outdated' = outdated \cup {m}
  \/ UNCHANGED <<marker, outdated>>

\* writeMarker records the sweep's Now, or fails and leaves the mark as it is.
WriteMarker(m) ==
  \/ /\ m \in dir
     /\ marker' = [marker EXCEPT ![m] = 0]
     /\ outdated' = (outdated \ {m}) \cup ({m} \cap noted)
  \/ UNCHANGED <<marker, outdated>>

\* clearMarker
ClearMarker(m) ==
  \/ marker' = [marker EXCEPT ![m] = None] /\ UNCHANGED outdated
  \/ UNCHANGED <<marker, outdated>>

\* Nothing more of cur.
Leave == sweep' = "scan" /\ cur' = None /\ since' = None /\ against' = {}

\* sweepOne of a mirror that is gone, a configured one, a busy one; else its mark is read.
SweepOne(m) ==
  /\ sweep = "scan" /\ m \in todo
  /\ todo' = todo \ {m}
  /\ \/ m \notin dir /\ UNCHANGED <<marker, outdated, sweep, cur>>
     \/ m \in dir \cap keep /\ ClearMarker(m) /\ UNCHANGED <<sweep, cur>>
     \/ m \in dir \ keep /\ m \in InFlight /\ UNCHANGED <<marker, outdated, sweep, cur>>
     \/ /\ m \in dir \ keep /\ m \notin InFlight
        /\ cur' = m /\ sweep' = "mark"
        /\ UNCHANGED <<marker, outdated>>
  /\ UNCHANGED <<dir, tombs, repos, rejected, critical, reader, keep, since, noted, manager,
                 against, counts>>

\* A mirror without a usable mark gets one, if a sync has not taken it meanwhile.
ReadMarker ==
  /\ sweep = "mark"
  /\ \/ marker[cur] = None /\ WriteMarker(cur) /\ Leave
     \/ /\ marker[cur] # None
        /\ since' = marker[cur] /\ sweep' = "judge"
        /\ UNCHANGED <<marker, outdated, cur, against>>
  /\ UNCHANGED <<dir, tombs, repos, rejected, critical, reader, keep, todo, noted, manager, counts>>

\* A mark from before the repository came back starts over; a young one is left.
Judge ==
  /\ sweep = "judge"
  /\ \/ cur \in outdated /\ WriteMarker(cur) /\ Leave
     \/ cur \notin outdated /\ since < Grace /\ Leave /\ UNCHANGED <<marker, outdated>>
     \/ /\ cur \notin outdated /\ since >= Grace
        /\ sweep' = "claim" /\ since' = None
        /\ UNCHANGED <<marker, outdated, cur, against>>
  /\ UNCHANGED <<dir, tombs, repos, rejected, critical, reader, keep, todo, noted, manager, counts>>

\* (mutant) the claim does not look for a sync
ClaimBusy ==
  /\ sweep = "claim"
  /\ \/ Allowed /\ sweep' = "allowed"
        /\ against' = Objections(cur) /\ UNCHANGED <<cur, since>>
     \/ ~Allowed /\ Leave
  /\ UNCHANGED <<disk, memory, reader, keep, todo, noted, manager, counts>>

\* claimMirror takes m.mu: no sync is in flight, and mirrorGCAllowed; ...
Claim ==
  /\ sweep = "claim"
  /\ \/ cur \notin InFlight /\ Allowed /\ sweep' = "allowed"
        /\ against' = Objections(cur) /\ UNCHANGED <<cur, since>>
     \/ (cur \in InFlight \/ ~Allowed) /\ Leave
  /\ UNCHANGED <<disk, memory, reader, keep, todo, noted, manager, counts>>

\* (mutant) the claim trusts the configuration the sweep began with
StillOrphanedRead ==
  /\ sweep = "allowed"
  /\ \/ cur \notin keep /\ sweep' = "move" /\ UNCHANGED <<cur, since, against>>
     \/ cur \in keep /\ Leave
  /\ UNCHANGED <<disk, memory, reader, keep, todo, noted, manager, counts>>

\* ... mirrorOrphaned: not of the configuration now in force, read under the Client's own
\* lock, which is given back: from here on another configuration may be accepted; ...
StillOrphaned ==
  /\ sweep = "allowed"
  /\ \/ HasKeep /\ ~Listed(cur) /\ sweep' = "move" /\ UNCHANGED <<cur, since, against>>
     \/ ~(HasKeep /\ ~Listed(cur)) /\ Leave
  /\ UNCHANGED <<disk, memory, reader, keep, todo, noted, manager, counts>>

\* ... the move to the trash, still under m.mu.  It may fail, and does if the directory is gone.
MoveToTrash ==
  /\ sweep = "move"
  /\ \/ /\ cur \in dir
        /\ dir' = dir \ {cur} /\ tombs' = tombs \cup {cur}
        /\ marker' = [marker EXCEPT ![cur] = None]
        /\ sweep' = "remove"
        /\ UNCHANGED <<cur, since, against>>
     \/ Leave /\ UNCHANGED disk
  /\ UNCHANGED <<memory, reader, keep, todo, noted, manager, counts>>

\* Remove takes the moved directory away, or fails and leaves it to a later sweep.
RemoveMoved ==
  /\ sweep = "remove"
  /\ tombs' \in {tombs, tombs \ {cur}}
  /\ Leave
  /\ UNCHANGED <<dir, marker, memory, reader, keep, todo, noted, manager, counts>>

SweepEnd ==
  /\ sweep = "scan" /\ todo = {}
  /\ sweep' = "idle" /\ keep' = {} /\ noted' = {}
  /\ UNCHANGED <<disk, memory, reader, todo, cur, since, manager, against, counts>>

-----------------------------------------------------------------------------
Tick ==
  /\ sweep = "idle"
  /\ marker' = [m \in Mirrors |-> Older(marker[m])]
  /\ UNCHANGED <<dir, tombs, memory, reader, sweepVars, manager, against, counts>>

\* The process stops at any point and starts again with what is on the disk.
Restart ==
  /\ restarts < MaxRestarts
  /\ restarts' = restarts + 1
  /\ repos' = None /\ rejected' = FALSE /\ critical' = FALSE /\ outdated' = {}
  /\ reader' = "idle"
  /\ sweep' = "idle" /\ keep' = {} /\ todo' = {} /\ cur' = None /\ since' = None
  /\ noted' = {}
  /\ pc' = [m \in Mirrors |-> "off"] /\ rerun' = {} /\ against' = {}
  /\ UNCHANGED <<disk, received>>

Reader == NoteConfigured \/ ConfigApplied \/ \E S \in SUBSET Mirrors : StartSyncs(S)
Sync(m) ==
  ClaimTask(m) \/ OpenMirror(m) \/ RebuildMirror(m) \/ DropMirror(m) \/ EndSync(m)
Sweep ==
  \/ SweepBegin \/ Recover \/ ReadMarker \/ Judge \/ Claim \/ StillOrphaned \/ MoveToTrash
  \/ RemoveMoved \/ SweepEnd
  \/ \E m \in Mirrors : SweepOne(m)

Next ==
  \/ (\E S \in Configs : Apply(S)) \/ Reject \/ Reader
  \/ \E b \in Patches : SetCritical(b)
  \/ \E m \in Mirrors : Sync(m)
  \/ Sweep
  \/ Tick \/ Restart

Spec == Init /\ [][Next]_vars

\* The loop has a ticker, syncs end and time passes; a file operation that is tried again
\* and again succeeds some day.
Fairness ==
  /\ WF_vars(Sweep) /\ WF_vars(Reader) /\ SF_vars(Tick)
  /\ \A m \in Mirrors : WF_vars(ClaimTask(m) \/ OpenMirror(m) \/ EndSync(m))
  /\ SF_vars((ReadMarker \/ Judge \/ \E m \in Mirrors : SweepOne(m)) /\ marker' # marker)
  /\ SF_vars(MoveToTrash /\ dir' # dir)
  /\ SF_vars(Recover /\ tombs' = {})

FairSpec == Spec /\ Fairness

-----------------------------------------------------------------------------
TypeOK ==
  /\ dir \subseteq Mirrors /\ tombs \subseteq Mirrors
  /\ marker \in [Mirrors -> Ages \cup {None}] /\ (\A m \in Mirrors \ dir : marker[m] = None)
  /\ repos \in (SUBSET Mirrors) \cup {None}
  /\ rejected \in BOOLEAN /\ critical \in BOOLEAN
  /\ outdated \subseteq Mirrors
  /\ reader \in {"idle", "note", "announce", "start"}
  /\ sweep \in {"idle", "recover", "scan", "mark", "judge", "claim", "allowed", "move", "remove"}
  /\ keep \subseteq Mirrors /\ todo \subseteq Mirrors /\ noted \subseteq Mirrors
  /\ since \in Ages \cup {None} /\ (since # None <=> sweep = "judge")
  /\ cur \in Mirrors \cup {None} /\ (cur = None <=> sweep \in {"idle", "recover", "scan"})
  /\ pc \in [Mirrors -> {"off", "queued", "claimed", "open"}] /\ rerun \subseteq Mirrors
  /\ against \subseteq {"kept", "paused"}
  /\ received \in 0..MaxConfigs /\ restarts \in 0..MaxRestarts

\* claimMirror: a sync never has its directory moved away under it, whatever the sweep read
\* before the sync was queued.
SyncHasMirror == \A m \in Mirrors : pc[m] = "open" => m \in dir

\* mirrorOrphaned, "from the live configuration": whatever the sweep began with, a mirror is
\* taken only if, since the claim began, there was a configuration that did not list it, and
\* cleanup was allowed.  A configuration or a rejection that comes after the claim's look, before
\* its move, is too late.  A mirror's own sync may remove it, to rebuild it.
ConfiguredKept ==
  [][\A m \in dir \ dir' : pc[m] = "open" \/ (m = cur /\ against = {})]_vars

\* The disk of a repository that stays out of the configuration is reclaimed, whatever
\* marks earlier absences, interrupted sweeps and restarts have left.
OrphanCollected ==
  \A m \in Mirrors : []<>(m \notin dir \/ Listed(m) \/ ~(Allowed /\ HasKeep))

\* "A removal that fails or is interrupted leaves the trash entry, which the next sweep
\* removes", over restarts too.
TrashEmptied == \A m \in Mirrors : []<>(m \notin tombs \/ ~(Allowed /\ HasKeep))

\* While m.mu is held no sync of the mirror starts, and what still speaks against the claim
\* speaks against it now.
ClaimIsSafe ==
  /\ Claiming => /\ cur \notin InFlight
                 /\ against \subseteq Objections(cur) /\ "paused" \notin against
  /\ sweep = "move" => against = {}

\* The inductive invariant behind SyncHasMirror and ConfiguredKept.
IInv == TypeOK /\ SyncHasMirror /\ ClaimIsSafe
=============================================================================
