---------------------------- MODULE Replication ----------------------------
(***************************************************************************)
(* What the git-sync daemon promises of one repository, whatever goes on   *)
(* inside it: attempt after attempt the replica moves towards what the     *)
(* origin advertised to the attempt under way, an attempt is recorded once *)
(* and as a success only when the replica has got there, and the record is *)
(* kept in a file that follows memory and survives the process.  Mirror,   *)
(* plan, batches, tokens, failures, timers and locks do not appear: they   *)
(* are the business of SyncRun, which implements this specification.       *)
(***************************************************************************)
EXTENDS Naturals

CONSTANTS Refs,      \* the names of branches and tags
          None,      \* no commit, no advertisement
          NoRun,     \* the record of a repository that was never synced
          Damaged    \* a file that is not trusted

VARIABLES
  origin, replica,   \* the branches and tags of the two ends
  advertised,        \* what the origin told the attempt under way, if it has
  attempt,           \* the attempts so far
  memory,            \* the last attempt and the last success on record
  file, durable      \* the record a reader finds, now and after a power failure

vars == <<origin, replica, advertised, attempt, memory, file, durable>>
recordVars == <<memory, file, durable>>

Init ==
  /\ advertised = None /\ attempt = 0
  /\ memory = NoRun /\ file = NoRun /\ durable = NoRun

\* Somebody pushes to the origin.
OriginMoves == UNCHANGED <<replica, advertised, attempt, recordVars>>

\* An attempt begins, when none is under way that has seen the origin.
Begin ==
  /\ advertised = None /\ attempt' = attempt + 1
  /\ UNCHANGED <<origin, replica, advertised, recordVars>>

\* It learns what the origin holds.
Advertise ==
  /\ advertised = None /\ advertised' = origin
  /\ UNCHANGED <<origin, replica, attempt, recordVars>>

\* The replica gets closer: each ref stays as it is or becomes what was advertised, which
\* was not nothing.
Closer ==
  /\ advertised # None /\ \E r \in Refs : advertised[r] # None
  /\ \A r \in Refs : replica'[r] \in {replica[r], advertised[r]}
Push == Closer /\ UNCHANGED <<origin, advertised, attempt, recordVars>>

\* An attempt ends without a record.
GiveUp == advertised' = None /\ UNCHANGED <<origin, replica, attempt, recordVars>>

\* An attempt ends and is recorded, no attempt twice and none after a later one; as a success
\* only when the replica holds exactly what was advertised.
Record ==
  /\ memory.tried < attempt /\ memory'.tried = attempt
  /\ \/ memory'.success = memory.success
     \/ memory'.success = attempt /\ advertised # None /\ replica = advertised
  /\ advertised' = None /\ UNCHANGED <<origin, replica, attempt, file, durable>>

\* The record reaches the file: one memory has or had, and no older than the file's.
Follows(r, s) == r.tried >= s.tried /\ r.success >= s.success
Save ==
  /\ file' # Damaged /\ Follows(memory, file')
  /\ file # Damaged => Follows(file', file)
  /\ UNCHANGED <<origin, replica, advertised, attempt, memory, durable>>

\* The file is made to survive a power failure.
Secure == durable' = file /\ UNCHANGED <<origin, replica, advertised, attempt, memory, file>>

\* The process ends, perhaps in a push, and the next one finds a file.
Restart ==
  /\ Closer \/ UNCHANGED replica
  /\ advertised' = None /\ file' \in {file, durable}
  /\ memory' = IF file' = Damaged THEN NoRun ELSE file'
  /\ UNCHANGED <<origin, attempt, durable>>

\* The file is damaged.
Damage ==
  /\ file' = Damaged /\ durable' = Damaged
  /\ UNCHANGED <<origin, replica, advertised, attempt, memory>>

Next ==
  \/ OriginMoves \/ Begin \/ Advertise \/ Push \/ GiveUp
  \/ Record \/ Save \/ Secure \/ Restart \/ Damage

Spec == Init /\ [][Next]_vars
=============================================================================
