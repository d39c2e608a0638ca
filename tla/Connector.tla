----------------------------- MODULE Connector -----------------------------
(***************************************************************************)
(* The API connector (ws/client.go) on its gateway connection: the read    *)
(* loop hands requests and connectivity tests to goroutines behind a       *)
(* worker limit, a drain waits for the requests, and three goroutines      *)
(* report the status of the plugins.  The goroutines outlive the           *)
(* connection that started them.                                           *)
(***************************************************************************)
EXTENDS Gateway, FiniteSets

CONSTANTS Requests,    \* http_request messages
          Tests,       \* test_connection messages
          Workers,     \* capacity of workerSem
          Patches,     \* critical_patch_required values the handshakes carry
          MaxDrains,   \* bound on going_away messages
          MaxReloads,  \* bound on SIGHUPs
          None

Jobs == Requests \cup Tests

ASSUME ConnectorAssumption ==
  /\ IsFiniteSet(Jobs) /\ Requests \cap Tests = {}
  /\ Workers \in Nat \ {0} /\ MaxDrains \in Nat /\ MaxReloads \in Nat
  /\ Patches \subseteq BOOLEAN /\ None \notin Nat

VARIABLES
  critical,   \* criticalPatchRequired
  job,        \* each message: not come, its goroutine's progress, or over
  old,        \* jobs under way whose connection has ended
  answered,   \* jobs whose answer was written to their connection
  sem,        \* workerSem
  inFlight,   \* the counter of the WaitGroup inFlight
  wait,       \* per drain, the goroutine that is in inFlight.Wait
  drains,
  version,    \* what connection_status would say now
  told,       \* what the gateway was last told on this connection
  built,      \* the connection_status the status goroutine has built and not sent yet
  statusCh,   \* a status push is signalled
  lingering,  \* a status goroutine of an ended connection has not returned yet
  reloads

jobVars == <<job, old, answered, sem, inFlight, wait, drains>>
statusVars == <<version, told, built, statusCh, lingering, reloads>>
vars == <<gatewayVars, critical, jobVars, statusVars>>

Active == {"begun", "working", "reply"}
Running == {j \in Jobs : job[j] \in Active}
Drains == 1..MaxDrains
Versions == 0..(MaxReloads + Cardinality(Tests))

TypeOK ==
  /\ GatewayTypeOK
  /\ critical \in BOOLEAN
  /\ job \in [Jobs -> Active \cup {"none", "over"}]
  /\ old \subseteq Jobs /\ answered \subseteq Jobs
  /\ sem \in 0..Workers /\ inFlight \in 0..Workers
  /\ wait \in [Drains -> {"none", "waiting", "released", "gone"}] /\ drains \in 0..MaxDrains
  /\ version \in Versions /\ told \in Versions \cup {None}
  /\ built \in Versions \cup {None}
  /\ statusCh \in BOOLEAN /\ lingering \in BOOLEAN /\ reloads \in 0..MaxReloads

Init ==
  /\ GatewayInit
  /\ critical = FALSE
  /\ job = [j \in Jobs |-> "none"] /\ old = {} /\ answered = {}
  /\ sem = 0 /\ inFlight = 0
  /\ wait = [d \in Drains |-> "none"] /\ drains = 0
  /\ version = 0 /\ told = None /\ built = None
  /\ statusCh = FALSE /\ lingering = FALSE /\ reloads = 0

-----------------------------------------------------------------------------
(***************************************************************************)
(* The connection.                                                         *)
(***************************************************************************)
\* Steps of the connection that neither the requests nor the status take part in.
Handshaking ==
  /\ \/ LoadKey \/ Hello \/ GatewayAccepts \/ GatewayRejects \/ HandshakeError
     \/ SaveKey \/ AttemptFails \/ RunReturns
  /\ UNCHANGED <<critical, jobVars, statusVars>>

Environment ==
  /\ Stop \/ Break \/ DiskFails \/ DiskBack
  /\ UNCHANGED <<critical, jobVars, statusVars>>

\* OnHandshake
OnHandshake(patch) ==
  /\ HandshakeOK
  /\ critical' = patch
  /\ UNCHANGED <<jobVars, statusVars>>

\* OnConnected: the first status is sent, or given up, and the status goroutine started.
OnConnected ==
  /\ Connected
  /\ told' = IF alive /\ ~ctxDone THEN version ELSE told
  /\ UNCHANGED <<critical, jobVars, version, built, statusCh, lingering, reloads>>

\* OnDraining: the read loop waits, and another goroutine is in inFlight.Wait.
OnDraining ==
  /\ drains < MaxDrains
  /\ GoingAway
  /\ drains' = drains + 1
  /\ wait' = [wait EXCEPT ![drains + 1] = IF inFlight = 0 THEN "gone" ELSE "waiting"]
  /\ UNCHANGED <<critical, job, old, answered, sem, inFlight, statusVars>>

\* Connect returns and cancels its context: the heartbeat and a write under way end, and the
\* status goroutine will.  A drain ends with its Wait, or by the timeout, which leaves the Wait behind.
ConnectReturns ==
  /\ Disconnect
  /\ old' = Running
  /\ told' = None
  /\ built' = None /\ lingering' = TRUE
  /\ UNCHANGED <<critical, job, answered, sem, inFlight, wait, drains, version, statusCh,
                 reloads>>

\* Everything in memory is gone.
Restart ==
  /\ Crash
  /\ critical' = FALSE
  /\ job' = [j \in Jobs |-> IF j \in Running THEN "over" ELSE job[j]]
  /\ old' = {}
  /\ sem' = 0 /\ inFlight' = 0
  /\ wait' = [d \in Drains |-> IF wait[d] = "none" THEN "none" ELSE "gone"]
  /\ told' = None /\ built' = None
  /\ statusCh' = FALSE /\ lingering' = FALSE
  /\ UNCHANGED <<answered, drains, version, reloads>>

ProcessDies == faults < MaxFaults /\ faults' = faults + 1 /\ Restart

-----------------------------------------------------------------------------
(***************************************************************************)
(* Requests and tests.                                                     *)
(***************************************************************************)
\* The read loop has received a message.
Receives(j) == phase = "up" /\ alive /\ ~ctxDone /\ job[j] = "none"

\* (mutant) a request is not counted
AcceptUncounted(j) ==
  /\ Receives(j) /\ sem < Workers
  /\ sem' = sem + 1
  /\ job' = [job EXCEPT ![j] = "begun"]
  /\ UNCHANGED <<gatewayVars, critical, old, answered, inFlight, wait, drains, statusVars>>

\* HandleMessage with a worker free.  Only a request is counted in inFlight.
Accept(j) ==
  /\ Receives(j) /\ sem < Workers
  /\ sem' = sem + 1
  /\ inFlight' = IF j \in Requests THEN inFlight + 1 ELSE inFlight
  /\ job' = [job EXCEPT ![j] = "begun"]
  /\ UNCHANGED <<gatewayVars, critical, old, answered, wait, drains, statusVars>>

\* HandleMessage at the limit: 429 for a request, a test is dropped.
Refuse(j) ==
  /\ Receives(j) /\ sem = Workers
  /\ job' = [job EXCEPT ![j] = "over"]
  /\ answered' = IF j \in Requests THEN answered \cup {j} ELSE answered
  /\ UNCHANGED <<gatewayVars, critical, old, sem, inFlight, wait, drains, statusVars>>

\* (mutant) the critical-patch return forgets the answer
BeginSilent(j) ==
  /\ job[j] = "begun" /\ phase # "stopped"
  /\ job' = [job EXCEPT ![j] = IF j \in Requests /\ critical THEN "over" ELSE "working"]
  /\ UNCHANGED <<gatewayVars, critical, old, answered, sem, inFlight, wait, drains,
                 statusVars>>

\* handleHTTPRequest asks for the critical patch first; a test goes to its provider.
Begin(j) ==
  /\ job[j] = "begun" /\ phase # "stopped"
  /\ job' = [job EXCEPT ![j] = IF j \in Requests /\ critical THEN "reply" ELSE "working"]
  /\ UNCHANGED <<gatewayVars, critical, old, answered, sem, inFlight, wait, drains,
                 statusVars>>

\* The handler or the probe returns; updatePluginStatus of a probe, of which only the end is here:
\* the address and the credential it tries, and what comes back, are data.
Work(j) ==
  /\ job[j] = "working" /\ phase # "stopped"
  /\ job' = [job EXCEPT ![j] = "reply"]
  /\ version' = IF j \in Tests THEN version + 1 ELSE version
  /\ UNCHANGED <<gatewayVars, critical, old, answered, sem, inFlight, wait, drains,
                 told, built, statusCh, lingering, reloads>>

\* (mutant) a test keeps its worker
FinishHolding(j) ==
  /\ job[j] = "reply" /\ phase # "stopped"
  /\ answered' = IF j \notin old /\ alive /\ ~ctxDone THEN answered \cup {j} ELSE answered
  /\ job' = [job EXCEPT ![j] = "over"] /\ old' = old \ {j}
  /\ sem' = IF j \in Tests THEN sem ELSE sem - 1
  /\ inFlight' = IF j \in Requests THEN inFlight - 1 ELSE inFlight
  /\ wait' = [d \in Drains |-> IF inFlight' = 0 /\ wait[d] = "waiting" THEN "released" ELSE wait[d]]
  /\ statusCh' = (statusCh \/ j \in Tests)
  /\ UNCHANGED <<gatewayVars, critical, drains, version, told, built, lingering, reloads>>

\* The answer, on the connection the message came by, and the goroutine's end: the worker
\* is given back, a request counted down, a test signals a status push.
Finish(j) ==
  /\ job[j] = "reply" /\ phase # "stopped"
  /\ answered' = IF j \notin old /\ alive /\ ~ctxDone THEN answered \cup {j} ELSE answered
  /\ job' = [job EXCEPT ![j] = "over"] /\ old' = old \ {j}
  /\ sem' = sem - 1
  /\ inFlight' = IF j \in Requests THEN inFlight - 1 ELSE inFlight
  /\ wait' = [d \in Drains |-> IF inFlight' = 0 /\ wait[d] = "waiting" THEN "released" ELSE wait[d]]
  /\ statusCh' = (statusCh \/ j \in Tests)
  /\ UNCHANGED <<gatewayVars, critical, drains, version, told, built, lingering, reloads>>

\* A goroutine in inFlight.Wait was released.  If the counter was used again before it ran,
\* sync.WaitGroup panics and the process dies.
WaitReturns(d) ==
  /\ wait[d] = "released" /\ ~ctxDone
  /\ \/ /\ inFlight = 0
        /\ wait' = [wait EXCEPT ![d] = "gone"]
        /\ UNCHANGED <<gatewayVars, critical, job, old, answered, sem, inFlight, drains,
                       statusVars>>
     \/ inFlight > 0 /\ faults' = faults /\ Restart

-----------------------------------------------------------------------------
(***************************************************************************)
(* connection_status: built from the caches, then written.  The status     *)
(* goroutine may be overtaken between the two; the others are one step.    *)
(***************************************************************************)
\* A status_request, answered by the read loop.
StatusRequest ==
  /\ phase = "up" /\ alive /\ ~ctxDone
  /\ told' = version
  /\ UNCHANGED <<gatewayVars, critical, jobVars, version, built, statusCh, lingering, reloads>>

\* (mutant) a heartbeat carries no status
OnHeartbeatHealth ==
  /\ phase \in {"up", "draining"} /\ alive /\ ~ctxDone
  /\ UNCHANGED vars

\* The heartbeat goroutine, also while the read loop drains.
OnHeartbeat ==
  /\ phase \in {"up", "draining"} /\ alive /\ ~ctxDone
  /\ told' = version
  /\ UNCHANGED <<gatewayVars, critical, jobVars, version, built, statusCh, lingering, reloads>>

\* The status goroutine takes the signal and builds the message.
TakeSignal ==
  /\ phase \in {"up", "draining"} /\ statusCh /\ ~ctxDone /\ built = None
  /\ statusCh' = FALSE /\ built' = version
  /\ UNCHANGED <<gatewayVars, critical, jobVars, version, told, lingering, reloads>>

\* emitConnectionStatus writes it, or fails.
EmitStatus ==
  /\ built # None /\ built' = None
  /\ told' = IF alive /\ ~ctxDone THEN built ELSE told
  /\ UNCHANGED <<gatewayVars, critical, jobVars, version, statusCh, lingering, reloads>>

\* The status goroutine of an ended connection: its context is done, and if there is a
\* signal as well the select may take either.
LingeringEnds ==
  /\ lingering /\ lingering' = FALSE
  /\ statusCh' \in {statusCh, FALSE}
  /\ UNCHANGED <<gatewayVars, critical, jobVars, version, told, built, reloads>>

\* The SIGHUP goroutine of main: credentials re-read, then SignalStatusPush.
Reload ==
  /\ reloads < MaxReloads /\ ~ctxDone
  /\ reloads' = reloads + 1 /\ version' = version + 1 /\ statusCh' = TRUE
  /\ UNCHANGED <<gatewayVars, critical, jobVars, told, built, lingering>>

-----------------------------------------------------------------------------
Next ==
  \/ Handshaking \/ Environment \/ OnConnected \/ OnDraining \/ ConnectReturns \/ ProcessDies
  \/ \E patch \in Patches : OnHandshake(patch)
  \/ \E j \in Jobs : Accept(j) \/ Refuse(j) \/ Begin(j) \/ Work(j) \/ Finish(j)
  \/ \E d \in Drains : WaitReturns(d)
  \/ StatusRequest \/ OnHeartbeat \/ TakeSignal \/ EmitStatus \/ LingeringEnds \/ Reload

Spec == Init /\ [][Next]_vars

\* Every goroutine goes on; upstream calls, drains and handshakes have timeouts, the
\* heartbeat ticks and the gateway answers.  Faults, messages and signals are not fair.
FairSpec ==
  /\ Spec
  /\ WF_vars(Handshaking)
  /\ WF_vars(\E patch \in Patches : OnHandshake(patch))
  /\ WF_vars(OnConnected) /\ WF_vars(ConnectReturns)
  /\ WF_vars(OnHeartbeat) /\ WF_vars(TakeSignal) /\ WF_vars(EmitStatus)
  /\ WF_vars(LingeringEnds)
  /\ \A j \in Jobs : WF_vars(Begin(j)) /\ WF_vars(Work(j)) /\ WF_vars(Finish(j))
  /\ \A d \in Drains : WF_vars(WaitReturns(d))

-----------------------------------------------------------------------------
\* A drain that ends by itself on a live connection (waitForInFlight returned before its
\* timeout) has let every request of the connection write its answer.
DrainAnswers ==
  [][phase = "draining" /\ phase' = "down" /\ alive /\ ~ctxDone /\ wait[drains] = "gone"
       => Running \cap Requests \subseteq old]_vars

\* A message is turned away only while Workers goroutines really are at work: every way
\* out of a goroutine gives its worker back.
RefusedAtLimit ==
  [][\A j \in Jobs : job[j] = "none" /\ job'[j] = "over" => Cardinality(Running) = Workers]_vars

\* A request that was let in is answered, unless its connection ended first.
RequestAnswered ==
  \A j \in Requests : job[j] = "begun" ~> j \in answered \/ j \in old \/ ~alive \/ ctxDone

\* Whatever signals were taken by the goroutine of an ended connection and whatever older
\* status was written last, the gateway comes to know the status of the plugins.
StatusSettles == <>[](phase = "up" /\ alive /\ ~ctxDone => told = version)

\* Lost handshakes, silent drops and crashes do not keep the connector away for good, unless it
\* is stranded and stays so.
Connects == ~alive ~> (phase = "up" /\ alive) \/ ctxDone \/ []Stranded
=============================================================================
