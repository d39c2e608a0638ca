----------------------------- MODULE Forwarding -----------------------------
(***************************************************************************)
(* The forwarding of requests (plugin/handler.go) with the credentials of  *)
(* creds/store.go.  The command line writes the credentials file, the      *)
(* daemon reads it again on SIGHUP, and requests run meanwhile: each takes *)
(* a snapshot of its credential first and the client of a CA bundle later, *)
(* from a cache that follows the store's generation.                       *)
(*                                                                         *)
(* Paths, bodies and header values are data: a header is one of the kinds  *)
(* the code tells apart, and a refusal by a check of the message is one    *)
(* outcome.                                                                *)
(***************************************************************************)
EXTENDS Naturals, FiniteSets

CONSTANTS Providers,   \* the plugin names
          Registered,  \* those with a PLUGIN_* base URL
          Creds,       \* credentials: has it a base URL, an authorization, a CA bundle?
                       \* (each lists some headers and parameters to strip)
          DefaultBundle, \* CA_BUNDLE names the bundle for every plugin
          Operators,   \* concurrent runs of the command line
          Requests,
          Replayable,  \* those the transport may send again: a safe method, or a write that
                       \* carries an Idempotency-Key
          Bundles,     \* contents of the CA-bundle file; "bad" cannot be loaded
          MaxEdits,    \* bound on changes of the credentials file
          MaxRotations,\* bound on changes of the bundle
          MaxHups,     \* bound on SIGHUPs
          None, Invalid

ASSUME ForwardingAssumption ==
  /\ Registered \subseteq Providers /\ IsFiniteSet(Requests) /\ Replayable \subseteq Requests
  /\ Creds \subseteq [url : BOOLEAN, auth : BOOLEAN, bundle : BOOLEAN]
  /\ DefaultBundle \in BOOLEAN
  /\ MaxEdits \in Nat /\ MaxRotations \in Nat /\ MaxHups \in Nat
  /\ None \notin Creds /\ None \notin Bundles /\ None \notin Providers
  /\ Creds \cap Providers = {}

Entries == [Providers -> Creds \cup {None}]

\* What the handler makes of an inbound header: hop-by-hop, a caller's credential, one the
\* plugin's strip_headers lists, and any other.  A query parameter carries a credential, is
\* listed by strip_query_params, has a name that cannot be decoded, or is any other.
HeaderKinds == {"hop", "credential", "listed", "plain"}
ParamKinds == {"credential", "listed", "undecodable", "plain"}

\* The error markers by what they tell of the request.  One stands for all refusals of a
\* request as such (expired, unknown plugin, method, path, base URL, size), one for the two
\* of an unknown outcome.
NotForwarded == {"rejected", "invalid_ca_bundle", "upstream_unreachable"}
Withheld == {"response_too_large", "upstream_credential_leak"}
Unknown == {"upstream_timeout_or_error"}

VARIABLES
  file,      \* the credentials file: its entries, or invalid
  cli,       \* per run of the command line, the store it has opened, or None
  edits,
  bundle,    \* the CA-bundle file
  rotations,
  data, generation,  \* the daemon's Store
  hup,       \* a SIGHUP is queued
  reading,   \* Reload holds the store's lock and has read the file: what it read, or None
  hups,
  asked,     \* history: the file at the last SIGHUP, while it has not changed since
  cacheGen,  \* caClientCache: the generation of the entries
  entries,   \* per transport mode, the client: the bundle's content, and when it was read
  pc, req,   \* the requests
  sent,      \* what reached the provider
  code       \* the outcome: the error marker, "relayed", or "unmarked": an error without one

fileVars == <<file, cli, edits, bundle, rotations>>
storeVars == <<data, generation, hup, reading, hups, asked>>
cacheVars == <<cacheGen, entries>>
requestVars == <<pc, req, sent, code>>
vars == <<fileVars, storeVars, cacheVars, requestVars>>

Gens == 0..(MaxHups + 1)
Clients == [content : Bundles, at : Gens]
Messages == [url : Creds \cup Providers, token : Creds \cup {None},
             headers : SUBSET HeaderKinds, query : SUBSET ParamKinds, client : Clients \cup {None}]
Results == NotForwarded \cup Withheld \cup Unknown \cup {"relayed", "unmarked"}

ASSUME NoneAssumption == None \notin Clients \cup Messages \cup Results

TypeOK ==
  /\ file \in Entries \cup {Invalid} /\ cli \in [Operators -> Entries \cup {None}]
  /\ edits \in 0..MaxEdits /\ bundle \in Bundles /\ rotations \in 0..MaxRotations
  /\ data \in Entries /\ generation \in Gens
  /\ hup \in BOOLEAN /\ reading \in Entries \cup {Invalid, None} /\ hups \in 0..MaxHups
  /\ asked \in Entries \cup {None}
  /\ cacheGen \in Gens /\ entries \in [BOOLEAN -> Clients \cup {None}]
  /\ pc \in [Requests -> {"none", "arrived", "resolved", "built", "ready", "sent", "done"}]
  /\ req \in [Requests -> [provider : Providers \cup {None}, cred : Creds \cup {None},
                           gen : Gens, client : Clients \cup {None}]]
  /\ sent \in [Requests -> Messages \cup {None}]
  /\ code \in [Requests -> Results \cup {None}]

\* HasAuthorization; a bundle of the entry or the default one.
UsesLocal(cred) == IF cred = None THEN FALSE ELSE cred.auth
HasBundle(cred) == IF cred = None THEN DefaultBundle ELSE cred.bundle \/ DefaultBundle

Nobody == [provider |-> None, cred |-> None, gen |-> 0, client |-> None]

\* New has loaded the file, and HTTPHandler warmed the cache with what it then implied.
Init ==
  /\ file \in Entries /\ cli = [o \in Operators |-> None] /\ edits = 0
  /\ bundle \in Bundles /\ rotations = 0
  /\ data = file /\ generation = 1
  /\ hup = FALSE /\ reading = None /\ hups = 0 /\ asked = None
  /\ cacheGen = 1
  /\ entries = [direct \in BOOLEAN |->
                  IF \/ DefaultBundle
                     \/ \E p \in Providers : HasBundle(data[p]) /\ UsesLocal(data[p]) = direct
                  THEN [content |-> bundle, at |-> 1] ELSE None]
  /\ pc = [q \in Requests |-> "none"] /\ req = [q \in Requests |-> Nobody]
  /\ sent = [q \in Requests |-> None] /\ code = [q \in Requests |-> None]

-----------------------------------------------------------------------------
(***************************************************************************)
(* The command line and the operator.                                      *)
(***************************************************************************)
\* runConfigSet and runConfigRemove open a store of their own ...
ConfigOpen(o) ==
  /\ cli[o] = None /\ file # Invalid /\ edits < MaxEdits
  /\ cli' = [cli EXCEPT ![o] = file]
  /\ UNCHANGED <<file, edits, bundle, rotations, storeVars, cacheVars, requestVars>>

\* ... change it, and write all of it over the file, or fail and leave the file alone.
ConfigSave(o, p, c) ==
  /\ cli[o] # None /\ edits < MaxEdits
  /\ cli' = [cli EXCEPT ![o] = None]
  /\ edits' = edits + 1
  /\ \/ /\ file' = [cli[o] EXCEPT ![p] = c]
        /\ asked' = IF file' = file THEN asked ELSE None
     \/ UNCHANGED <<file, asked>>
  /\ UNCHANGED <<bundle, rotations, data, generation, hup, reading, hups, cacheVars,
                 requestVars>>

\* The file is edited by hand into something load rejects.
Spoil ==
  /\ edits < MaxEdits /\ file # Invalid
  /\ edits' = edits + 1 /\ file' = Invalid /\ asked' = None
  /\ UNCHANGED <<cli, bundle, rotations, data, generation, hup, reading, hups, cacheVars,
                 requestVars>>

Rotate(b) ==
  /\ rotations < MaxRotations /\ b # bundle
  /\ rotations' = rotations + 1 /\ bundle' = b
  /\ UNCHANGED <<file, cli, edits, storeVars, cacheVars, requestVars>>

\* (mutant) a SIGHUP during a reload is lost
SighupUnbuffered ==
  /\ hups < MaxHups
  /\ hups' = hups + 1
  /\ hup' = (hup \/ reading = None)
  /\ asked' = IF file = Invalid THEN None ELSE file
  /\ UNCHANGED <<fileVars, data, generation, reading, cacheVars, requestVars>>

\* sighupCh holds one signal; another one meanwhile adds nothing.
Sighup ==
  /\ hups < MaxHups
  /\ hups' = hups + 1
  /\ hup' = TRUE
  /\ asked' = IF file = Invalid THEN None ELSE file
  /\ UNCHANGED <<fileVars, data, generation, reading, cacheVars, requestVars>>

-----------------------------------------------------------------------------
(***************************************************************************)
(* The store of the daemon.                                                *)
(***************************************************************************)
\* The SIGHUP goroutine takes a signal; Reload locks the store and reads the file, ...
TakeSighup ==
  /\ hup /\ reading = None
  /\ hup' = FALSE /\ reading' = file
  /\ UNCHANGED <<fileVars, data, generation, hups, asked, cacheVars, requestVars>>

\* ... and puts it in force.  What load rejects changes nothing; a missing file is an empty
\* one.
Reload ==
  /\ reading # None /\ reading' = None
  /\ \/ /\ reading # Invalid
        /\ data' = reading /\ generation' = generation + 1
     \/ /\ reading = Invalid
        /\ UNCHANGED <<data, generation>>
  /\ UNCHANGED <<fileVars, hup, hups, asked, cacheVars, requestVars>>

-----------------------------------------------------------------------------
(***************************************************************************)
(* A request.                                                              *)
(***************************************************************************)
\* The handler returns with a marker, or with what the provider answered.
Returns(q, result) ==
  /\ pc' = [pc EXCEPT ![q] = "done"]
  /\ code' = [code EXCEPT ![q] = result]
  /\ req' = [req EXCEPT ![q] = Nobody]

\* A request for plugin p, or for one nobody configured.  A deadline that has passed is the
\* first thing looked at.
Arrive(q, p) ==
  /\ pc[q] = "none"
  /\ \/ /\ pc' = [pc EXCEPT ![q] = "arrived"] /\ code' = code
        /\ req' = [req EXCEPT ![q].provider = p]
     \/ Returns(q, "rejected")
  /\ UNCHANGED <<fileVars, storeVars, cacheVars, sent>>

\* The base URL: the entry's own, else the registered one, else none.
BaseURL(p, cred) ==
  IF cred # None /\ cred.url THEN cred
  ELSE IF p \in Registered THEN p ELSE None

\* store.Get: the entry there is now.
Get(p) == IF p = None THEN None ELSE data[p]

\* store.Get, once: the base URL, the authorization and the bundle are of one entry.
Resolve(q) ==
  /\ pc[q] = "arrived" /\ reading = None
  /\ \/ /\ BaseURL(req[q].provider, Get(req[q].provider)) # None
        /\ pc' = [pc EXCEPT ![q] = "resolved"] /\ code' = code
        /\ req' = [req EXCEPT ![q].cred = Get(req[q].provider)]
     \/ /\ BaseURL(req[q].provider, Get(req[q].provider)) = None
        /\ Returns(q, "rejected")
  /\ UNCHANGED <<fileVars, storeVars, cacheVars, sent>>

\* The method, the path, the base URL and the body are checked, then the generation of the
\* store is read if a bundle is configured.
Build(q) ==
  /\ pc[q] = "resolved"
  /\ \/ \E result \in {"rejected", "unmarked"} : Returns(q, result)
     \/ /\ HasBundle(req[q].cred) => reading = None
        /\ pc' = [pc EXCEPT ![q] = IF HasBundle(req[q].cred) THEN "built" ELSE "ready"]
        /\ req' = [req EXCEPT ![q].gen = IF HasBundle(req[q].cred) THEN generation ELSE 0]
        /\ code' = code
  /\ UNCHANGED <<fileVars, storeVars, cacheVars, sent>>

\* (mutant) the entries of an older generation are kept
MovedOnNever(gen) == FALSE

\* clientFor starts the entries afresh when it is called with a later generation.
MovedOn(gen) == gen > cacheGen

\* clientFor, under the cache's lock: the client there is, or a new one from the bundle as it
\* is now; a bundle that cannot be loaded is remembered too, and the request refused.
ClientFor(q) ==
  LET direct == UsesLocal(req[q].cred)
      kept == IF MovedOn(req[q].gen) THEN [d \in BOOLEAN |-> None] ELSE entries
      client == IF kept[direct] # None THEN kept[direct]
                                       ELSE [content |-> bundle, at |-> generation]
  IN /\ pc[q] = "built"
     /\ cacheGen' = IF MovedOn(req[q].gen) THEN req[q].gen ELSE cacheGen
     /\ entries' = [kept EXCEPT ![direct] = client]
     /\ \/ /\ client.content # "bad"
           /\ pc' = [pc EXCEPT ![q] = "ready"] /\ code' = code
           /\ req' = [req EXCEPT ![q].client = client]
        \/ /\ client.content = "bad"
           /\ Returns(q, "invalid_ca_bundle")
     /\ UNCHANGED <<fileVars, storeVars, sent>>

\* What of the caller's is dropped: what the entry lists, and credentials when the connector
\* applies its own.
Stripped(cred) == (IF cred # None THEN {"listed"} ELSE {})
                  \cup (IF UsesLocal(cred) THEN {"credential"} ELSE {})

\* stripHeaders: which inbound headers are passed on.
ForwardedHeaders(cred) == HeaderKinds \ ({"hop"} \cup Stripped(cred))

\* stripQueryParamsFromRaw: a query is passed on as it is when nothing is to be stripped;
\* else a parameter whose name cannot be decoded goes as well.
ForwardedQuery(cred) ==
  IF Stripped(cred) = {} THEN ParamKinds
  ELSE ParamKinds \ ({"undecodable"} \cup Stripped(cred))

\* (mutant) the credential is looked up again for the authorization
MessageLate(q) ==
  LET cred == req[q].cred
      now == data[req[q].provider]
  IN [url |-> BaseURL(req[q].provider, cred),
      token |-> IF UsesLocal(now) THEN now ELSE None,
      headers |-> ForwardedHeaders(cred), query |-> ForwardedQuery(cred),
      client |-> req[q].client]

\* The outgoing request: an entry's own URL, else the registered one.
Message(q) ==
  LET cred == req[q].cred
  IN [url |-> BaseURL(req[q].provider, cred),
      token |-> IF UsesLocal(cred) THEN cred ELSE None,
      headers |-> ForwardedHeaders(cred), query |-> ForwardedQuery(cred),
      client |-> req[q].client]

\* client.Do up to the provider: it is sent; or the dial fails; or the caller has gone; or
\* another failure (of TLS, a timeout), which might have come after it was sent.
Send(q) ==
  /\ pc[q] = "ready"
  /\ \/ /\ sent' = [sent EXCEPT ![q] = Message(q)]
        /\ pc' = [pc EXCEPT ![q] = "sent"] /\ UNCHANGED <<code, req>>
     \/ /\ \E result \in {"upstream_unreachable", "unmarked"} \cup Unknown : Returns(q, result)
        /\ sent' = sent
  /\ UNCHANGED <<fileVars, storeVars, cacheVars>>

\* (mutant) every request is sent again
ReplayAny(q) ==
  /\ pc[q] = "sent"
  /\ pc' = [pc EXCEPT ![q] = "ready"]
  /\ UNCHANGED <<fileVars, storeVars, cacheVars, req, sent, code>>

\* (external) Transport.RoundTrip, still within client.Do: the kept-alive connection the
\* request was written to turns out dead, and a replayable one looks for another.
Replay(q) ==
  /\ pc[q] = "sent" /\ q \in Replayable
  /\ pc' = [pc EXCEPT ![q] = "ready"]
  /\ UNCHANGED <<fileVars, storeVars, cacheVars, req, sent, code>>

\* (mutant) a failed read of the answer is reported as never sent
OutcomesUnread == {"relayed", "unmarked", "upstream_unreachable"} \cup Withheld

\* The answer, its failure or its size; an answer that shows the credential is withheld.
Outcomes == {"relayed", "unmarked"} \cup Withheld \cup Unknown

\* responseContainsLocalCredentials: only a credential that was applied is looked for.
MayLeak(cred) == UsesLocal(cred)

Answer(q) ==
  /\ pc[q] = "sent"
  /\ \E result \in Outcomes :
       /\ result = "upstream_credential_leak" => MayLeak(req[q].cred)
       /\ Returns(q, result)
  /\ UNCHANGED <<fileVars, storeVars, cacheVars, sent>>

-----------------------------------------------------------------------------
Next ==
  \/ \E o \in Operators : ConfigOpen(o)
  \/ \E o \in Operators, p \in Providers, c \in Creds \cup {None} : ConfigSave(o, p, c)
  \/ Spoil \/ Sighup \/ TakeSighup \/ Reload
  \/ \E b \in Bundles : Rotate(b)
  \/ \E q \in Requests, p \in Providers \cup {None} : Arrive(q, p)
  \/ \E q \in Requests : Resolve(q) \/ Build(q) \/ ClientFor(q) \/ Send(q) \/ Replay(q) \/ Answer(q)

Spec == Init /\ [][Next]_vars

\* The SIGHUP goroutine and the request goroutines go on; upstream calls have a timeout.
FairSpec ==
  /\ Spec
  /\ WF_vars(TakeSighup) /\ WF_vars(Reload)
  /\ \A q \in Requests : WF_vars(Resolve(q) \/ Build(q) \/ ClientFor(q) \/ Send(q) \/ Answer(q))

-----------------------------------------------------------------------------
\* What a provider receives is of one credential entry, whatever was reloaded while the
\* request ran: a token goes to the URL it was configured with, no credential of the caller
\* goes with it, and a configured CA bundle is the one that is trusted.
SentAsConfigured ==
  \A q \in Requests : sent[q] # None =>
    LET m == sent[q]
        entry == IF m.token # None THEN m.token ELSE m.url
    IN /\ m.token # None => /\ m.token.url => m.url = m.token
                           /\ "credential" \notin m.headers \cup m.query
       /\ entry \in Creds => /\ entry.auth = (m.token # None)
                             /\ HasBundle(entry) = (m.client # None)
       /\ m.client # None => m.client.content # "bad"

\* A request is served with a CA bundle that was read under the generation the request saw
\* or a later one: after a reload no request trusts the bundle of before.
BundleIsCurrent ==
  \A q \in Requests : req[q].client # None => req[q].client.at >= req[q].gen

\* The markers tell the platform whether a write can have happened: one of the group "not
\* forwarded" of errorcodes.go is never given to a request that reached the provider, unless it
\* is "upstream_unreachable" and the request one that may safely be repeated: the transport had
\* sent it once and then could not connect to send it again.  Only an answer the provider gave
\* is relayed or withheld.
MarkerIsTrue ==
  \A q \in Requests :
    /\ code[q] \in NotForwarded /\ sent[q] # None =>
         q \in Replayable /\ code[q] = "upstream_unreachable"
    /\ code[q] \in Withheld \cup {"relayed"} => sent[q] # None

\* A SIGHUP sent after the file was written puts the file in force, also when a reload was
\* already under way, unless the file changes again.
ReloadApplies ==
  \A f \in Entries : asked = f ~> data = f \/ asked # f
=============================================================================
