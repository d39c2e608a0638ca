-------------------------- MODULE ConnectorProofs --------------------------
(***************************************************************************)
(* The registration token, the worker limit and the drain: theorems about  *)
(* Connector for any messages, worker limit and number of drains, faults   *)
(* and reloads.                                                            *)
(***************************************************************************)
EXTENDS Connector, FiniteSetTheorems, TLAPS

-----------------------------------------------------------------------------
(***************************************************************************)
(* The registration token.                                                 *)
(***************************************************************************)
\* A loaded key is in the key file.
FoundIsSaved == found => key = "saved"

\* EnsureWritable was passed: a directory that cannot be written now failed after it.
CheckedDirectory == Registering /\ ~writable => spoiled

\* A registration that starts with a used token was lost by an earlier fault.
TokenLost ==
  token = "used" /\ key = "absent" /\ (phase = "dial" \/ (phase = "hello" /\ reply # "ok"))
    => spoiled

TokenInv == GatewayTypeOK /\ FoundIsSaved /\ CheckedDirectory /\ TokenLost /\ TokenKept

-----------------------------------------------------------------------------
(***************************************************************************)
(* Workers and drains.                                                     *)
(***************************************************************************)
JobTypes ==
  /\ job \in [Jobs -> Active \cup {"none", "over"}]
  /\ sem \in Nat /\ inFlight \in Nat
  /\ wait \in [Drains -> {"none", "waiting", "released", "gone"}] /\ drains \in 0..MaxDrains

\* workerSem holds one token per goroutine, inFlight one count per request.
Counted ==
  /\ sem = Cardinality(Running) /\ sem <= Workers
  /\ inFlight = Cardinality(Running \cap Requests)

\* A drain begins no request: once its Wait was released, none is left.
Drained ==
  phase = "draining" =>
    drains \in Drains /\ (wait[drains] \in {"released", "gone"} => inFlight = 0)

JobInv == JobTypes /\ Counted /\ Drained

-----------------------------------------------------------------------------
\* A connector starts with a saved key, or with none and a token that is not used up.
LEMMA TokenInitInv == Init => TokenInv
<1> SUFFICES ASSUME GatewayInit PROVE TokenInv
  BY DEF Init
<1>1. GatewayTypeOK
  <2>1. key \in {"absent", "saved"} /\ token \in {"none", "unused", "used"} /\ writable \in BOOLEAN
    BY GatewayAssumption, Zenon DEF GatewayInit
  <2>2. faults \in 0..MaxFaults
    BY GatewayAssumption DEF GatewayInit
  <2>3. QED
    BY <2>1, <2>2, Zenon DEF GatewayInit, GatewayTypeOK, Attempting
<1>2. FoundIsSaved /\ CheckedDirectory /\ TokenLost
  BY DEF GatewayInit, FoundIsSaved, CheckedDirectory, TokenLost, Registering, Attempting
<1>3. TokenKept
  BY GatewayAssumption DEF GatewayInit, TokenKept
<1>4. QED
  BY <1>1, <1>2, <1>3 DEF TokenInv

\* The steps of an attempt to connect.
LEMMA AttemptTokenInv ==
  ASSUME TokenInv,
         \/ LoadKey \/ Hello \/ GatewayAccepts \/ GatewayRejects \/ HandshakeOK
         \/ HandshakeError \/ SaveKey \/ AttemptFails
  PROVE  TokenInv'
<1> USE GatewayAssumption DEF TokenInv, GatewayTypeOK, FoundIsSaved, CheckedDirectory, TokenLost,
        TokenKept, Registering, Attempting
<1>1. CASE LoadKey
  BY <1>1 DEF LoadKey
<1>2. CASE Hello
  BY <1>2 DEF Hello
<1>3. CASE GatewayAccepts
  BY <1>3 DEF GatewayAccepts
<1>4. CASE GatewayRejects
  BY <1>4 DEF GatewayRejects
<1>5. CASE HandshakeOK
  BY <1>5 DEF HandshakeOK
<1>6. CASE HandshakeError
  BY <1>6 DEF HandshakeError
<1>7. CASE SaveKey
  BY <1>7 DEF SaveKey
<1>8. CASE AttemptFails
  BY <1>8 DEF AttemptFails
<1>9. QED
  BY <1>1, <1>2, <1>3, <1>4, <1>5, <1>6, <1>7, <1>8

\* An open connection, its end, and the environment: a crash or a full disk in the middle of
\* a registration spoils it.
LEMMA OpenTokenInv ==
  ASSUME TokenInv,
         \/ Connected \/ GoingAway \/ Disconnect \/ RunReturns \/ Stop \/ Break \/ DiskFails
         \/ DiskBack \/ (Crash /\ faults' \in 0..MaxFaults) \/ UNCHANGED gatewayVars
  PROVE  TokenInv'
<1> USE GatewayAssumption DEF TokenInv, GatewayTypeOK, FoundIsSaved, CheckedDirectory, TokenLost,
        TokenKept, Registering, Attempting
<1>1. CASE Connected \/ GoingAway \/ Disconnect \/ RunReturns
  <2>1. GatewayTypeOK'
    BY <1>1 DEF Connected, GoingAway, Disconnect, RunReturns
  <2>2. ~Registering /\ ~Registering' /\ phase' \notin {"dial", "hello"}
    BY <1>1 DEF Connected, GoingAway, Disconnect, RunReturns
  <2>3. UNCHANGED <<key, token, found, spoiled>>
    BY <1>1 DEF Connected, GoingAway, Disconnect, RunReturns
  <2>4. QED
    BY <2>1, <2>2, <2>3
<1>2. CASE Stop \/ Break
  <2>1. GatewayTypeOK'
    <3>1. faults' \in 0..MaxFaults
      BY <1>2 DEF Stop, Break
    <3>2. alive' \in BOOLEAN /\ ctxDone' \in BOOLEAN
      BY <1>2, Zenon DEF Stop, Break
    <3>3. QED
      BY <1>2, <3>1, <3>2, Zenon DEF Stop, Break
  <2>2. UNCHANGED <<key, token, writable, phase, found, reply, spoiled>>
    BY <1>2 DEF Stop, Break
  <2>3. QED
    BY <2>1, <2>2
<1>3. CASE DiskFails
  <2>1. GatewayTypeOK'
    <3>1. faults' \in 0..MaxFaults
      BY <1>3 DEF DiskFails
    <3>2. spoiled' \in BOOLEAN
      BY <1>3 DEF DiskFails
    <3>3. QED
      BY <1>3, <3>1, <3>2, Zenon DEF DiskFails
  <2>2. FoundIsSaved' /\ CheckedDirectory'
    BY <1>3 DEF DiskFails
  <2>3. TokenLost' /\ TokenKept'
    BY <1>3 DEF DiskFails
  <2>4. QED
    BY <2>1, <2>2, <2>3
<1>4. CASE DiskBack
  BY <1>4 DEF DiskBack
<1>5. CASE Crash /\ faults' \in 0..MaxFaults
  BY <1>5 DEF Crash
<1>6. CASE UNCHANGED gatewayVars
  BY <1>6 DEF gatewayVars
<1>7. QED
  BY <1>1, <1>2, <1>3, <1>4, <1>5, <1>6

\* Every step of the connector is one of these for the connection.
LEMMA TokenNextInv == TokenInv /\ [Next]_vars => TokenInv'
<1> SUFFICES ASSUME TokenInv, [Next]_vars PROVE TokenInv'
  OBVIOUS
<1>1. CASE Handshaking \/ Environment
  BY <1>1, AttemptTokenInv, OpenTokenInv DEF Handshaking, Environment
<1>2. CASE OnConnected \/ OnDraining \/ ConnectReturns
  BY <1>2, OpenTokenInv DEF OnConnected, OnDraining, ConnectReturns
<1>3. CASE ProcessDies
  <2>1. faults' \in 0..MaxFaults
    BY <1>3, GatewayAssumption DEF ProcessDies, TokenInv, GatewayTypeOK
  <2>2. QED
    BY <1>3, <2>1, OpenTokenInv DEF ProcessDies, Restart
<1>4. CASE \E patch \in Patches : OnHandshake(patch)
  BY <1>4, AttemptTokenInv DEF OnHandshake
<1>5. CASE \E j \in Jobs : Accept(j) \/ Refuse(j) \/ Begin(j) \/ Work(j) \/ Finish(j)
  BY <1>5, OpenTokenInv DEF Accept, Refuse, Begin, Work, Finish
<1>6. CASE \E d \in Drains : WaitReturns(d)
  <2>1. faults \in 0..MaxFaults
    BY DEF TokenInv, GatewayTypeOK
  <2>2. UNCHANGED gatewayVars \/ (Crash /\ faults' \in 0..MaxFaults)
    BY <1>6, <2>1 DEF WaitReturns, Restart
  <2>3. QED
    BY <2>2, OpenTokenInv
<1>7. CASE StatusRequest \/ OnHeartbeat \/ TakeSignal \/ EmitStatus \/ LingeringEnds \/ Reload
  BY <1>7, OpenTokenInv DEF StatusRequest, OnHeartbeat, TakeSignal, EmitStatus, LingeringEnds, Reload
<1>8. CASE UNCHANGED vars
  BY <1>8, OpenTokenInv DEF vars
<1>9. QED
  BY <1>1, <1>2, <1>3, <1>4, <1>5, <1>6, <1>7, <1>8 DEF Next

\* EnsureWritable, Connect: a token used up without a saved key was in an attempt that still
\* goes on, or in one a fault hit after its check, whatever else the connector does.
THEOREM TokenNotWasted == Spec => []TokenKept
<1>1. TokenInv => TokenKept
  BY DEF TokenInv
<1>2. QED
  BY <1>1, TokenInitInv, TokenNextInv, PTL DEF Spec

-----------------------------------------------------------------------------
\* The goroutines at work are finitely many, and so are the requests among them.
LEMMA RunningFinite ==
  /\ IsFiniteSet(Running) /\ IsFiniteSet(Running \cap Requests)
  /\ Cardinality(Running) \in Nat /\ Cardinality(Running \cap Requests) \in Nat
<1>1. Running \subseteq Jobs /\ Running \cap Requests \subseteq Jobs
  BY DEF Running
<1>2. IsFiniteSet(Running) /\ IsFiniteSet(Running \cap Requests)
  BY <1>1, ConnectorAssumption, FS_Subset
<1>3. QED
  BY <1>2, FS_CardinalityType

\* Steps that start and end no goroutine.
LEMMA SameJobs ==
  ASSUME JobInv, Running' = Running, UNCHANGED <<sem, inFlight>>, JobTypes',
         phase' = "draining" => phase = "draining" /\ UNCHANGED <<wait, drains>>
  PROVE  JobInv'
BY DEF JobInv, Counted, Drained

\* Nothing runs and nobody waits at the start.
LEMMA JobInitInv == Init => JobInv
<1> SUFFICES ASSUME Init PROVE JobInv
  OBVIOUS
<1>1. Running = {}
  BY DEF Init, Running, Active
<1>2. JobTypes
  BY ConnectorAssumption DEF Init, JobTypes, Drains
<1>3. Counted
  BY <1>1, FS_EmptySet, ConnectorAssumption DEF Init, Counted
<1>4. Drained
  BY DEF Init, GatewayInit, Drained
<1>5. QED
  BY <1>2, <1>3, <1>4 DEF JobInv

\* HandleMessage with a worker free: one more goroutine, and one more request if it is one.
LEMMA AcceptInv ==
  ASSUME JobInv, NEW j \in Jobs, Accept(j)
  PROVE  JobInv'
<1> USE ConnectorAssumption DEF JobInv
<1>1. Running' = Running \cup {j} /\ j \notin Running
  BY DEF Accept, Receives, Running, JobTypes, Active
<1>2. Cardinality(Running') = Cardinality(Running) + 1
  BY <1>1, RunningFinite, FS_AddElement
<1>3. CASE j \in Requests
  <2>1. Running' \cap Requests = (Running \cap Requests) \cup {j}
    BY <1>1, <1>3
  <2>2. Cardinality(Running' \cap Requests) = Cardinality(Running \cap Requests) + 1
    BY <1>1, <2>1, RunningFinite, FS_AddElement
  <2>3. Counted'
    BY <1>2, <1>3, <2>2, RunningFinite DEF Accept, Counted
  <2>4. QED
    BY <2>3 DEF Accept, Receives, JobTypes, Active, Drained, gatewayVars
<1>4. CASE j \notin Requests
  <2>1. (Running \cap Requests)' = Running \cap Requests
    BY <1>1, <1>4
  <2>2. Counted'
    <3>1. sem' = Cardinality(Running') /\ sem' <= Workers
      BY <1>2, RunningFinite DEF Accept, Counted
    <3>2. inFlight' = Cardinality(Running \cap Requests)
      BY <1>4 DEF Accept, Counted
    <3>3. QED
      BY <2>1, <3>1, <3>2 DEF Counted
  <2>3. QED
    BY <1>4, <2>2 DEF Accept, Receives, JobTypes, Active, Drained, gatewayVars
<1>5. QED
  BY <1>3, <1>4

\* The end of a goroutine gives back its worker and counts its request down; the Wait of a
\* drain is released when the last one ends.
LEMMA FinishInv ==
  ASSUME JobInv, NEW j \in Jobs, Finish(j)
  PROVE  JobInv'
<1> USE ConnectorAssumption DEF JobInv
<1>1. Running' = Running \ {j} /\ j \in Running
  BY DEF Finish, Running, JobTypes, Active
<1>2. Cardinality(Running') = Cardinality(Running) - 1
  BY <1>1, RunningFinite, FS_RemoveElement
<1>3. wait' \in [Drains -> {"none", "waiting", "released", "gone"}]
  BY DEF Finish, JobTypes
<1>4. CASE j \in Requests
  <2>1. Running' \cap Requests = (Running \cap Requests) \ {j}
    BY <1>1, <1>4
  <2>2. Cardinality(Running' \cap Requests) = Cardinality(Running \cap Requests) - 1
    <3> DEFINE R == Running \cap Requests
    <3>1. IsFiniteSet(R) /\ j \in R
      BY <1>1, <1>4, RunningFinite
    <3> HIDE DEF R
    <3>2. Cardinality(R \ {j}) = Cardinality(R) - 1
      BY <3>1, FS_RemoveElement
    <3>3. QED
      BY <2>1, <3>2 DEF R
  <2>3. Cardinality(Running') \in Nat /\ Cardinality(Running' \cap Requests) \in Nat
    BY <1>1, <2>1, RunningFinite, FS_RemoveElement, FS_CardinalityType
  <2>4. Counted' /\ sem' \in Nat /\ inFlight' \in Nat
    BY <1>2, <1>4, <2>2, <2>3, RunningFinite DEF Finish, Counted
  <2>5. JobTypes'
    BY <1>3, <2>4 DEF Finish, JobTypes, Active
  <2>6. Drained'
    <3>1. inFlight # 0
      BY <1>4, <2>4 DEF Finish, JobTypes
    <3>2. QED
      BY <1>4, <3>1 DEF Finish, Drained, JobTypes, gatewayVars
  <2>7. QED
    BY <2>4, <2>5, <2>6
<1>5. CASE j \notin Requests
  <2>1. (Running \cap Requests)' = Running \cap Requests
    BY <1>1, <1>5
  <2>2. Cardinality(Running') \in Nat
    BY <1>1, RunningFinite, FS_RemoveElement, FS_CardinalityType
  <2>3. Counted' /\ sem' \in Nat /\ inFlight' \in Nat
    <3>1. sem' = Cardinality(Running') /\ sem' <= Workers /\ sem' \in Nat
      BY <1>2, <2>2, RunningFinite DEF Finish, Counted
    <3>2. inFlight' = Cardinality(Running \cap Requests) /\ inFlight' \in Nat
      BY <1>5, RunningFinite DEF Finish, Counted
    <3>3. QED
      BY <2>1, <3>1, <3>2 DEF Counted
  <2>4. JobTypes'
    BY <1>3, <2>3 DEF Finish, JobTypes, Active
  <2>5. Drained'
    BY <1>5 DEF Finish, Drained, JobTypes, gatewayVars
  <2>6. QED
    BY <2>3, <2>4, <2>5
<1>6. QED
  BY <1>4, <1>5

\* The process died: no goroutine is left, and no worker is taken.
LEMMA RestartInv ==
  ASSUME JobInv, Restart
  PROVE  JobInv'
<1> USE ConnectorAssumption DEF JobInv, Restart
<1>1. Running' = {}
  BY DEF Running, Active, JobTypes
<1>2. Counted'
  BY <1>1, FS_EmptySet DEF Counted
<1>3. JobTypes'
  BY DEF JobTypes, Running, Active
<1>4. Drained'
  BY DEF Crash, Drained
<1>5. QED
  BY <1>2, <1>3, <1>4

\* A drain that finds no request under way has nothing to wait for.
LEMMA DrainInv ==
  ASSUME JobInv, OnDraining
  PROVE  JobInv'
<1> USE ConnectorAssumption DEF JobInv, OnDraining
<1>1. Running' = Running
  BY DEF Running
<1>2. drains + 1 \in Drains /\ drains' = drains + 1
  BY DEF JobTypes, Drains
<1>3. JobTypes'
  BY <1>2 DEF JobTypes, Drains
<1>4. Counted'
  BY <1>1 DEF Counted
<1>5. Drained'
  BY <1>2 DEF Drained, JobTypes
<1>6. QED
  BY <1>3, <1>4, <1>5

\* A Wait that returns finds the counter at zero, or takes the process with it.
LEMMA WaitInv ==
  ASSUME JobInv, NEW d \in Drains, WaitReturns(d)
  PROVE  JobInv'
<1>1. CASE Restart
  BY <1>1, RestartInv
<1>2. CASE ~Restart
  <2> USE <1>2 DEF JobInv, WaitReturns
  <2>1. Running' = Running
    BY DEF Running
  <2>2. JobTypes' /\ Counted'
    BY <2>1 DEF JobTypes, Counted
  <2>3. Drained'
    BY DEF Drained, JobTypes, gatewayVars
  <2>4. QED
    BY <2>2, <2>3
<1>3. QED
  BY <1>1, <1>2

\* No step of the handshake or of the environment begins a drain.
LEMMA PhaseKept ==
  ASSUME \/ LoadKey \/ Hello \/ GatewayAccepts \/ GatewayRejects \/ HandshakeError \/ SaveKey
         \/ AttemptFails \/ RunReturns \/ Stop \/ Break \/ DiskFails \/ DiskBack
         \/ HandshakeOK \/ Connected \/ Disconnect \/ UNCHANGED gatewayVars
  PROVE  phase' = "draining" => phase = "draining"
BY DEF LoadKey, Hello, GatewayAccepts, GatewayRejects, HandshakeError, SaveKey, AttemptFails,
   RunReturns, Stop, Break, DiskFails, DiskBack, HandshakeOK, Connected, Disconnect, gatewayVars

\* Every step keeps the counts and what is known of a drain.
LEMMA JobNextInv == JobInv /\ [Next]_vars => JobInv'
<1> SUFFICES ASSUME JobInv, [Next]_vars PROVE JobInv'
  OBVIOUS
<1>1. CASE Handshaking \/ Environment \/ OnConnected \/ ConnectReturns
           \/ (\E patch \in Patches : OnHandshake(patch)) \/ UNCHANGED vars
           \/ StatusRequest \/ OnHeartbeat \/ TakeSignal \/ EmitStatus \/ LingeringEnds \/ Reload
  <2>1. UNCHANGED <<job, sem, inFlight, wait, drains>>
    BY <1>1 DEF Handshaking, Environment, OnConnected, ConnectReturns, OnHandshake, StatusRequest,
       OnHeartbeat, TakeSignal, EmitStatus, LingeringEnds, Reload, vars, jobVars
  <2>2. phase' = "draining" => phase = "draining"
    BY <1>1, PhaseKept DEF Handshaking, Environment, OnConnected, ConnectReturns, OnHandshake,
       StatusRequest, OnHeartbeat, TakeSignal, EmitStatus, LingeringEnds, Reload, vars
  <2>3. Running' = Running /\ JobTypes'
    BY <2>1 DEF Running, JobInv, JobTypes
  <2>4. QED
    BY <2>1, <2>2, <2>3, SameJobs
<1>2. ASSUME NEW j \in Jobs, Refuse(j) \/ Begin(j) \/ Work(j) PROVE JobInv'
  <2>1. Running' = Running
    BY <1>2 DEF Refuse, Receives, Begin, Work, Running, JobInv, JobTypes, Active
  <2>2. JobTypes'
    BY <1>2 DEF Refuse, Begin, Work, JobInv, JobTypes, Active
  <2>3. UNCHANGED <<sem, inFlight, wait, drains, phase>>
    BY <1>2 DEF Refuse, Begin, Work, gatewayVars
  <2>4. QED
    BY <2>1, <2>2, <2>3, SameJobs
<1>3. CASE ProcessDies
  BY <1>3, RestartInv DEF ProcessDies
<1>4. QED
  BY <1>1, <1>2, <1>3, AcceptInv, FinishInv, DrainInv, WaitInv DEF Next

\* The counts are right in every behaviour.
LEMMA JobAlways == Spec => []JobInv
BY JobInitInv, JobNextInv, PTL DEF Spec

\* HandleMessage: a message is turned away only while as many goroutines are at work as there
\* are workers, for any limit and any messages.
THEOREM RefusalsAreDue == Spec => RefusedAtLimit
<1> DEFINE Step == \A j \in Jobs : job[j] = "none" /\ job'[j] = "over" =>
                     Cardinality(Running) = Workers
<1>1. JobInv /\ [Next]_vars => [Step]_vars
  <2> SUFFICES ASSUME JobInv, Next, NEW j \in Jobs, job[j] = "none", job'[j] = "over"
               PROVE  Cardinality(Running) = Workers
    OBVIOUS
  <2>1. UNCHANGED job => FALSE
    OBVIOUS
  <2>2. ASSUME NEW i \in Jobs, Accept(i) \/ Begin(i) \/ Work(i) \/ Finish(i) PROVE FALSE
    BY <2>2 DEF Accept, Begin, Work, Finish, JobInv, JobTypes, Active
  <2>3. ~Restart
    BY DEF Restart, Running, Active
  <2>4. PICK i \in Jobs : Refuse(i)
    BY <2>1, <2>2, <2>3 DEF Next, Handshaking, Environment, OnConnected, OnDraining,
       ConnectReturns, ProcessDies, OnHandshake, WaitReturns, StatusRequest, OnHeartbeat,
       TakeSignal, EmitStatus, LingeringEnds, Reload, jobVars
  <2>5. QED
    BY <2>4 DEF Refuse, JobInv, Counted
<1>2. QED
  BY <1>1, JobAlways, PTL DEF Spec, RefusedAtLimit

\* OnDraining: a drain whose Wait has returned before the timeout, on a live connection,
\* leaves no request of the connection unanswered.
THEOREM DrainsAnswer == Spec => DrainAnswers
<1> DEFINE Step == phase = "draining" /\ phase' = "down" /\ alive /\ ~ctxDone
                     /\ wait[drains] = "gone" => Running \cap Requests \subseteq old
<1>1. JobInv => Step
  BY RunningFinite, FS_EmptySet DEF JobInv, Counted, Drained
<1>2. JobInv /\ [Next]_vars => [Step]_vars
  BY <1>1
<1>3. QED
  BY <1>2, JobAlways, PTL DEF Spec, DrainAnswers
-----------------------------------------------------------------------------
(***************************************************************************)
(* The connector uses its connection as Gateway specifies, and the types.  *)
(***************************************************************************)
\* handler callbacks: whatever requests, drains and status pushes do, each step of the connector
\* is one step of the connection or leaves it alone.
LEMMA GatewayStep == [Next]_vars => [GatewayNext]_gatewayVars
<1> SUFFICES ASSUME [Next]_vars PROVE [GatewayNext]_gatewayVars
  OBVIOUS
<1>1. CASE Handshaking \/ Environment
  BY <1>1 DEF Handshaking, Environment, GatewayNext
<1>2. CASE OnConnected \/ OnDraining \/ ConnectReturns
  BY <1>2 DEF OnConnected, OnDraining, ConnectReturns, GatewayNext
<1>3. CASE ProcessDies
  BY <1>3 DEF ProcessDies, Restart, GatewayNext
<1>4. CASE \E patch \in Patches : OnHandshake(patch)
  BY <1>4 DEF OnHandshake, GatewayNext
<1>5. CASE \E j \in Jobs : Accept(j) \/ Refuse(j) \/ Begin(j) \/ Work(j) \/ Finish(j)
  BY <1>5 DEF Accept, Refuse, Begin, Work, Finish
<1>6. CASE \E d \in Drains : WaitReturns(d)
  BY <1>6 DEF WaitReturns, Restart, GatewayNext
<1>7. CASE StatusRequest \/ OnHeartbeat \/ TakeSignal \/ EmitStatus \/ LingeringEnds \/ Reload
  BY <1>7 DEF StatusRequest, OnHeartbeat, TakeSignal, EmitStatus, LingeringEnds, Reload
<1>8. CASE UNCHANGED vars
  BY <1>8 DEF vars
<1>9. QED
  BY <1>1, <1>2, <1>3, <1>4, <1>5, <1>6, <1>7, <1>8 DEF Next

\* ws.Client and gateway.Gateway: the API connector implements the connection that Gateway
\* specifies by itself, so what is true of that connection is true inside the connector.
THEOREM ConnectorUsesGateway == Spec => GatewaySpec
<1>1. Init => GatewayInit
  BY DEF Init
<1>2. QED
  BY <1>1, GatewayStep, PTL DEF Spec, GatewaySpec

\* Each test that reported and each SIGHUP moved the status on by one, at most.
Reported == {j \in Tests : job[j] \in {"reply", "over"}}
StatusInv ==
  /\ version \in Nat /\ reloads \in 0..MaxReloads
  /\ version <= reloads + Cardinality(Reported)
  /\ told \in Versions \cup {None} /\ built \in Versions \cup {None}
  /\ statusCh \in BOOLEAN /\ lingering \in BOOLEAN /\ critical \in BOOLEAN
  /\ old \subseteq Jobs /\ answered \subseteq Jobs

\* The tests that reported are finitely many, and no more than there are.
LEMMA ReportedFinite ==
  /\ IsFiniteSet(Tests) /\ IsFiniteSet(Reported)
  /\ Cardinality(Tests) \in Nat /\ Cardinality(Reported) \in Nat
  /\ Cardinality(Reported) <= Cardinality(Tests)
<1>1. IsFiniteSet(Tests)
  BY ConnectorAssumption, FS_Subset DEF Jobs
<1>2. Reported \subseteq Tests
  BY DEF Reported
<1>3. IsFiniteSet(Reported) /\ Cardinality(Reported) <= Cardinality(Tests)
  BY <1>1, <1>2, FS_Subset
<1>4. QED
  BY <1>1, <1>3, FS_CardinalityType

\* The status is one of the versions that can be.
LEMMA VersionBound == StatusInv => version \in Versions
BY ReportedFinite, ConnectorAssumption DEF StatusInv, Versions

\* Nothing was reported at the start.
LEMMA StatusInit == Init => StatusInv
<1> SUFFICES ASSUME Init PROVE StatusInv
  OBVIOUS
<1>1. version = 0 /\ reloads = 0 /\ reloads \in 0..MaxReloads
  BY ConnectorAssumption DEF Init
<1>2. version <= reloads + Cardinality(Reported)
  BY <1>1, ReportedFinite
<1>3. version \in Nat
  BY <1>1
<1>4. QED
  BY <1>1, <1>2, <1>3, Zenon DEF Init, StatusInv

\* A test that comes to its reply is one more that has reported.
LEMMA WorkStatus ==
  ASSUME StatusInv, JobTypes, NEW j \in Jobs, Work(j)
  PROVE  StatusInv'
<1>1. CASE j \in Tests
  <2>1. Reported' = Reported \cup {j} /\ j \notin Reported
    BY <1>1 DEF Work, Reported, JobTypes, Jobs
  <2>2. Cardinality(Reported') = Cardinality(Reported) + 1
    BY <2>1, ReportedFinite, FS_AddElement
  <2>3. version' = version + 1 /\ reloads' = reloads
    BY <1>1 DEF Work
  <2>4. version' \in Nat /\ version' <= reloads' + Cardinality(Reported')
    BY <2>2, <2>3, ReportedFinite DEF StatusInv
  <2>5. QED
    BY <2>3, <2>4, Zenon DEF StatusInv, Work
<1>2. CASE j \notin Tests
  <2>1. Reported' = Reported
    BY <1>2 DEF Work, Reported, JobTypes, Jobs
  <2>2. QED
    BY <1>2, <2>1, Zenon DEF StatusInv, Work
<1>3. QED
  BY <1>1, <1>2

\* No step takes a report back.
LEMMA ReportedGrows ==
  ASSUME StatusInv, IsFiniteSet(Reported'), Reported \subseteq Reported', UNCHANGED <<version, reloads>>
  PROVE  version' <= reloads' + Cardinality(Reported')
<1>1. Cardinality(Reported) <= Cardinality(Reported') /\ Cardinality(Reported') \in Nat
  BY FS_Subset, FS_CardinalityType
<1>2. QED
  BY <1>1, ReportedFinite DEF StatusInv

\* The goroutines of requests and tests: their answers and their ends.
LEMMA JobStatus ==
  ASSUME StatusInv, JobTypes, NEW j \in Jobs, Accept(j) \/ Refuse(j) \/ Begin(j) \/ Finish(j)
  PROVE  StatusInv'
<1>1. UNCHANGED <<version, told, built, lingering, reloads, critical>>
  BY DEF Accept, Refuse, Begin, Finish, statusVars
<1>2. Reported \subseteq Reported' /\ Reported' \subseteq Tests
  BY DEF Accept, Refuse, Begin, Finish, Receives, Reported, JobTypes, Jobs
<1>3. version' <= reloads' + Cardinality(Reported')
  BY <1>1, <1>2, ReportedFinite, FS_Subset, ReportedGrows
<1>4. statusCh' \in BOOLEAN
  BY DEF Accept, Refuse, Begin, Finish, statusVars, StatusInv
<1>5. old' \subseteq Jobs /\ answered' \subseteq Jobs
  BY DEF Accept, Refuse, Begin, Finish, StatusInv
<1>6. QED
  BY <1>1, <1>3, <1>4, <1>5, Zenon DEF StatusInv

\* The process died: what ran is over, and nobody was told anything.
LEMMA RestartStatus ==
  ASSUME StatusInv, JobTypes, Restart
  PROVE  StatusInv'
<1>1. UNCHANGED <<version, reloads, answered>>
  BY DEF Restart
<1>2. Reported \subseteq Reported' /\ Reported' \subseteq Tests
  BY DEF Restart, Reported, Running, Jobs
<1>3. version' <= reloads' + Cardinality(Reported')
  BY <1>1, <1>2, ReportedFinite, FS_Subset, ReportedGrows
<1>4. QED
  BY <1>1, <1>3, Zenon DEF StatusInv, Restart

\* What is built, sent and signalled of the status; a SIGHUP moves it on.
LEMMA PushStatus ==
  ASSUME StatusInv,
         \/ StatusRequest \/ OnHeartbeat \/ TakeSignal \/ EmitStatus \/ LingeringEnds \/ Reload
         \/ OnConnected
  PROVE  StatusInv'
<1>1. Reported' = Reported /\ UNCHANGED <<old, answered, critical>>
  BY DEF StatusRequest, OnHeartbeat, TakeSignal, EmitStatus, LingeringEnds, Reload, OnConnected,
     Reported, jobVars
<1>2. version \in Versions
  BY VersionBound
<1>3. CASE Reload
  <2>1. version' \in Nat /\ reloads' \in 0..MaxReloads /\ version' <= reloads' + Cardinality(Reported)
    BY <1>3, ReportedFinite, ConnectorAssumption DEF Reload, StatusInv
  <2>2. QED
    BY <1>1, <1>3, <2>1, Zenon DEF Reload, StatusInv
<1>4. CASE ~Reload
  <2>1. UNCHANGED <<version, reloads>>
    BY <1>4, Zenon DEF StatusRequest, OnHeartbeat, TakeSignal, EmitStatus, LingeringEnds, OnConnected
  <2>2. told' \in {told, version, built} /\ (told' = built => built \in Versions \cup {None})
    BY <1>4 DEF StatusInv, StatusRequest, OnHeartbeat, TakeSignal, EmitStatus, LingeringEnds, OnConnected
  <2>3. told' \in Versions \cup {None}
    BY <1>2, <2>2 DEF StatusInv
  <2>4. built' \in Versions \cup {None}
    BY <1>2, <1>4 DEF StatusInv, StatusRequest, OnHeartbeat, TakeSignal, EmitStatus, LingeringEnds,
       OnConnected
  <2>5. statusCh' \in BOOLEAN /\ lingering' \in BOOLEAN
    BY <1>4 DEF StatusInv, StatusRequest, OnHeartbeat, TakeSignal, EmitStatus, LingeringEnds,
       OnConnected
  <2>6. QED
    BY <1>1, <2>1, <2>3, <2>4, <2>5, Zenon DEF StatusInv
<1>5. QED
  BY <1>3, <1>4

\* Every step keeps what is known of the status and of the jobs' histories.
LEMMA StatusNext == JobInv /\ StatusInv /\ [Next]_vars => StatusInv'
<1> SUFFICES ASSUME JobInv, StatusInv, [Next]_vars PROVE StatusInv'
  OBVIOUS
<1>1. JobTypes
  BY DEF JobInv
<1>2. CASE Handshaking \/ Environment \/ OnDraining \/ ConnectReturns
           \/ (\E patch \in Patches : OnHandshake(patch)) \/ UNCHANGED vars
  <2>1. UNCHANGED <<job, version, statusCh, reloads, answered>>
    BY <1>2 DEF Handshaking, Environment, OnDraining, ConnectReturns, OnHandshake, vars, jobVars,
       statusVars
  <2>2. Reported' = Reported
    BY <2>1 DEF Reported
  <2>3. critical' \in BOOLEAN
    BY <1>2, ConnectorAssumption DEF StatusInv, Handshaking, Environment, OnDraining, ConnectReturns,
       OnHandshake, vars
  <2>4. told' \in {told, None} /\ built' \in {built, None} /\ lingering' \in {lingering, TRUE}
    BY <1>2 DEF Handshaking, Environment, OnDraining, ConnectReturns, OnHandshake, vars, statusVars
  <2>5. old' \subseteq Jobs
    BY <1>2 DEF StatusInv, Handshaking, Environment, OnDraining, ConnectReturns, OnHandshake, vars,
       jobVars, Running
  <2>6. QED
    BY <2>1, <2>2, <2>3, <2>4, <2>5, Zenon DEF StatusInv
<1>3. CASE ProcessDies \/ \E d \in Drains : WaitReturns(d)
  <2>1. CASE Restart
    BY <1>1, <2>1, RestartStatus
  <2>2. CASE ~Restart
    <3>1. UNCHANGED <<critical, job, old, answered, statusVars>>
      BY <1>3, <2>2 DEF ProcessDies, WaitReturns
    <3>2. Reported' = Reported
      BY <3>1 DEF Reported
    <3>3. QED
      BY <3>1, <3>2, Zenon DEF StatusInv, statusVars
  <2>3. QED
    BY <2>1, <2>2
<1>4. QED
  BY <1>1, <1>2, <1>3, WorkStatus, JobStatus, PushStatus DEF Next

\* Connector as a whole: the registration, the workers, the drains and the status stay within
\* their types; no more than Workers requests are in flight, and the status is one of those
\* that the tests and the SIGHUPs can have brought about.
THEOREM ConnectorTypes == Spec => []TypeOK
<1>1. Spec => []TokenInv
  BY TokenInitInv, TokenNextInv, PTL DEF Spec
<1>2. Spec => []StatusInv
  BY StatusInit, StatusNext, JobAlways, PTL DEF Spec
<1>3. TokenInv /\ JobInv /\ StatusInv => TypeOK
  <2> SUFFICES ASSUME TokenInv, JobInv, StatusInv PROVE TypeOK
    OBVIOUS
  <2>1. GatewayTypeOK
    BY DEF TokenInv
  <2>2. sem \in 0..Workers
    BY ConnectorAssumption DEF JobInv, JobTypes, Counted
  <2>3. Cardinality(Running \cap Requests) <= Cardinality(Running)
    BY RunningFinite, FS_Subset
  <2>4. inFlight \in 0..Workers
    BY <2>3, RunningFinite, ConnectorAssumption DEF JobInv, JobTypes, Counted
  <2>5. version \in Versions
    BY VersionBound
  <2>6. QED
    BY <2>1, <2>2, <2>4, <2>5, Zenon DEF TypeOK, JobInv, JobTypes, StatusInv
<1>4. QED
  BY <1>1, <1>2, <1>3, JobAlways, PTL
=============================================================================
