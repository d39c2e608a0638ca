------------------------------ MODULE Gateway ------------------------------
(***************************************************************************)
(* The connection to the gateway (gateway.go) and the key file             *)
(* (keystore.go): enrolment with a one-time registration token, signed     *)
(* reconnection, heartbeats, a drain before a rolling update, and the      *)
(* retries of Run.  How long Run waits before a retry is left out; the     *)
(* gateway itself is external and modelled by the answers it can give.     *)
(***************************************************************************)
EXTENDS Naturals

CONSTANTS InitialTokens,  \* what the token of a connector without a key may be at the start
          MaxFaults       \* bound on faults of the network, the disk and the process

ASSUME GatewayAssumption ==
  /\ InitialTokens \subseteq {"none", "unused"}
  /\ MaxFaults \in Nat

VARIABLES
  key,       \* the key file
  token,     \* the registration token: none configured, unused, or used up at the gateway
  writable,  \* the key directory can be written
  phase,     \* where Run and Connect are
  found,     \* Connect has loaded a key
  reply,     \* the gateway's answer to the hello
  alive,     \* the open connection still carries messages
  ctxDone,   \* the process was asked to stop
  faults,
  spoiled    \* history: a fault hit the registration between its check and its end

gatewayVars == <<key, token, writable, phase, found, reply, alive, ctxDone, faults, spoiled>>

\* Connect is between LoadKey and a usable connection.
Attempting == {"dial", "hello", "saving"}

GatewayTypeOK ==
  /\ key \in {"absent", "saved"} /\ token \in {"none", "unused", "used"}
  /\ phase \in Attempting \cup {"down", "greet", "up", "draining", "stopped"}
  /\ reply \in {"none", "ok", "error"}
  /\ writable \in BOOLEAN /\ found \in BOOLEAN /\ alive \in BOOLEAN
  /\ ctxDone \in BOOLEAN /\ spoiled \in BOOLEAN /\ faults \in 0..MaxFaults

GatewayInit ==
  /\ \/ key = "absent" /\ token \in InitialTokens /\ writable \in BOOLEAN
     \/ key = "saved" /\ token = "used" /\ writable = TRUE
  /\ phase = "down" /\ found = FALSE /\ reply = "none" /\ alive = FALSE
  /\ ctxDone = FALSE /\ faults = 0 /\ spoiled = FALSE

Registering == phase \in Attempting /\ ~found

-----------------------------------------------------------------------------
\* (mutant) the key directory is not probed before the registration
LoadKeyUnchecked ==
  /\ phase = "down" /\ ~ctxDone
  /\ key = "saved" \/ token # "none"
  /\ found' = (key = "saved")
  /\ spoiled' = (spoiled /\ token = "used")
  /\ phase' = "dial"
  /\ UNCHANGED <<key, token, writable, reply, alive, ctxDone, faults>>

\* Connect up to the dial: a saved key, or a token and a key directory that can be
\* written.  Every other outcome is an error, after which Run tries again.
LoadKey ==
  /\ phase = "down" /\ ~ctxDone
  /\ \/ key = "saved" /\ found' = TRUE /\ spoiled' = spoiled
     \/ /\ key = "absent" /\ token # "none" /\ writable
        /\ found' = FALSE
        /\ spoiled' = (spoiled /\ token = "used")
  /\ phase' = "dial"
  /\ UNCHANGED <<key, token, writable, reply, alive, ctxDone, faults>>

\* The dial, the challenge and the hello, with the token or with a signature.
Hello ==
  /\ phase = "dial" /\ ~ctxDone
  /\ phase' = "hello" /\ reply' = "none"
  /\ UNCHANGED <<key, token, writable, found, alive, ctxDone, faults, spoiled>>

\* The gateway's side: a token is good once, and used up by the answer that issues the key.
GatewayAccepts ==
  /\ phase = "hello" /\ reply = "none" /\ (found \/ token = "unused")
  /\ token' = IF found THEN token ELSE "used"
  /\ reply' = "ok"
  /\ UNCHANGED <<key, writable, phase, found, alive, ctxDone, faults, spoiled>>

GatewayRejects ==
  /\ phase = "hello" /\ reply = "none"
  /\ \/ ~found /\ token = "used" /\ faults' = faults
     \/ (found \/ token # "used") /\ faults < MaxFaults /\ faults' = faults + 1
  /\ reply' = "error"
  /\ UNCHANGED <<key, token, writable, phase, found, alive, ctxDone, spoiled>>

\* readHandshakeResult of handshake_ok, OnHandshake included (it is the composition's).
HandshakeOK ==
  /\ phase = "hello" /\ reply = "ok" /\ ~ctxDone
  /\ phase' = IF found THEN "greet" ELSE "saving"
  /\ alive' = TRUE
  /\ UNCHANGED <<key, token, writable, found, reply, ctxDone, faults, spoiled>>

HandshakeError ==
  /\ phase = "hello" /\ reply = "error"
  /\ phase' = "down"
  /\ UNCHANGED <<key, token, writable, found, reply, alive, ctxDone, faults, spoiled>>

\* keyStore.Save: a temporary file renamed over the key file, or an error.
SaveKey ==
  /\ phase = "saving"
  /\ IF writable THEN key' = "saved" /\ phase' = "greet" /\ alive' = alive /\ spoiled' = FALSE
                 ELSE key' = key /\ phase' = "down" /\ alive' = FALSE /\ spoiled' = spoiled
  /\ UNCHANGED <<token, writable, found, reply, ctxDone, faults>>

\* The attempt ends by a network error, an unreadable answer or a cancelled context.
AttemptFails ==
  /\ phase \in {"dial", "hello"}
  /\ IF ctxDone THEN faults' = faults ELSE faults < MaxFaults /\ faults' = faults + 1
  /\ phase' = "down"
  /\ spoiled' = (spoiled \/ (~found /\ reply = "ok"))
  /\ UNCHANGED <<key, token, writable, found, reply, alive, ctxDone>>

\* OnConnected has returned; the heartbeat runs and the read loop begins.
Connected ==
  /\ phase = "greet"
  /\ phase' = "up"
  /\ UNCHANGED <<key, token, writable, found, reply, alive, ctxDone, faults, spoiled>>

\* going_away: OnDraining blocks the read loop.
GoingAway ==
  /\ phase = "up" /\ alive /\ ~ctxDone
  /\ phase' = "draining"
  /\ UNCHANGED <<key, token, writable, found, reply, alive, ctxDone, faults, spoiled>>

\* (mutant) a failed heartbeat does not close the connection
DisconnectUnnoticed ==
  /\ phase = "draining" \/ (phase = "up" /\ ctxDone)
  /\ phase' = "down" /\ alive' = FALSE
  /\ UNCHANGED <<key, token, writable, found, reply, ctxDone, faults, spoiled>>

\* The read loop ends: the drain is over, the context is cancelled, or the connection is
\* dead, which a failing heartbeat (or the read itself) notices.
Disconnect ==
  /\ phase = "draining" \/ (phase = "up" /\ (ctxDone \/ ~alive))
  /\ phase' = "down" /\ alive' = FALSE
  /\ UNCHANGED <<key, token, writable, found, reply, ctxDone, faults, spoiled>>

\* Run returns.
RunReturns ==
  /\ phase = "down" /\ ctxDone
  /\ phase' = "stopped"
  /\ UNCHANGED <<key, token, writable, found, reply, alive, ctxDone, faults, spoiled>>

-----------------------------------------------------------------------------
(***************************************************************************)
(* The environment.                                                        *)
(***************************************************************************)
Stop ==
  /\ ~ctxDone /\ phase # "stopped" /\ ctxDone' = TRUE
  /\ UNCHANGED <<key, token, writable, phase, found, reply, alive, faults, spoiled>>

\* The connection stops carrying messages; nobody is told.
Break ==
  /\ phase \in {"greet", "up", "draining"} /\ alive /\ faults < MaxFaults
  /\ alive' = FALSE /\ faults' = faults + 1
  /\ UNCHANGED <<key, token, writable, phase, found, reply, ctxDone, spoiled>>

\* Only the registration uses the key directory.
DiskFails ==
  /\ key = "absent" /\ writable /\ faults < MaxFaults
  /\ writable' = FALSE /\ faults' = faults + 1
  /\ spoiled' = (spoiled \/ Registering)
  /\ UNCHANGED <<key, token, phase, found, reply, alive, ctxDone>>

DiskBack ==
  /\ ~writable /\ writable' = TRUE
  /\ UNCHANGED <<key, token, phase, found, reply, alive, ctxDone, faults, spoiled>>

\* The process dies and is started again: only the key file is left.
Crash ==
  /\ phase # "stopped" /\ ~ctxDone
  /\ phase' = "down" /\ found' = FALSE /\ reply' = "none" /\ alive' = FALSE
  /\ spoiled' = (spoiled \/ Registering)
  /\ UNCHANGED <<key, token, writable, ctxDone>>

\* A crash is a fault of its own, or the client that uses the connection panicked.
GatewayNext ==
  \/ LoadKey \/ Hello \/ GatewayAccepts \/ GatewayRejects \/ HandshakeOK \/ HandshakeError
  \/ SaveKey \/ AttemptFails \/ Connected \/ GoingAway \/ Disconnect \/ RunReturns
  \/ Stop \/ Break \/ DiskFails \/ DiskBack
  \/ Crash /\ (faults' = faults \/ (faults < MaxFaults /\ faults' = faults + 1))

GatewaySpec == GatewayInit /\ [][GatewayNext]_gatewayVars

-----------------------------------------------------------------------------
\* EnsureWritable is there so that the token is not "burned for nothing": a token that is
\* used up while no key is saved was in an attempt that still goes on, or one that a fault
\* hit after its check.
TokenKept ==
  token = "used" /\ key = "absent" => Registering \/ spoiled

\* Nothing the connector does can get it connected: an operator has to act.
Stranded == key = "absent" /\ (token \in {"none", "used"} \/ ~writable)
=============================================================================
