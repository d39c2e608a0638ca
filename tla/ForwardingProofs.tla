-------------------------- MODULE ForwardingProofs --------------------------
(***************************************************************************)
(* What reaches a provider and what the platform is told of it: theorems   *)
(* about Forwarding for any plugins, credentials, bundles and requests,    *)
(* and any number of edits, rotations and reloads.                         *)
(***************************************************************************)
EXTENDS Forwarding, TLAPS

\* Each reload answers a SIGHUP: the generation never gets ahead of the signals.
Signals ==
  /\ generation <= hups + 1
  /\ hup \/ reading # None => generation <= hups
  /\ hup /\ reading # None => generation + 1 <= hups

\* A cached client was built under the generation of the cache or a later one, and neither
\* the cache nor a request is ahead of the store.
CacheAge ==
  /\ cacheGen <= generation
  /\ \A d \in BOOLEAN : entries[d] # None => entries[d].at >= cacheGen
  /\ \A q \in Requests : req[q].gen <= generation

\* What a request has gathered at each of its steps, all of one entry.
Gathered ==
  \A q \in Requests :
    /\ pc[q] \in {"none", "arrived", "resolved", "built", "done"} => req[q].client = None
    /\ pc[q] = "built" => HasBundle(req[q].cred)
    /\ pc[q] \in {"resolved", "built", "ready", "sent"} =>
         BaseURL(req[q].provider, req[q].cred) # None
    /\ pc[q] \in {"ready", "sent"} =>
         /\ HasBundle(req[q].cred) <=> req[q].client # None
         /\ req[q].client # None => req[q].client.content # "bad"

\* When a request has an outcome, and when it has been sent.
Told ==
  \A q \in Requests :
    /\ code[q] # None => pc[q] = "done"
    /\ sent[q] # None => pc[q] \in {"sent", "done"} \/ (pc[q] = "ready" /\ q \in Replayable)
    /\ pc[q] = "sent" => sent[q] # None

FInv ==
  /\ TypeOK /\ Signals /\ CacheAge /\ Gathered /\ Told
  /\ SentAsConfigured /\ BundleIsCurrent /\ MarkerIsTrue

-----------------------------------------------------------------------------
\* The daemon starts with the file in force, its cache warm and no request.
LEMMA FInitInv == Init => FInv
<1> SUFFICES ASSUME Init PROVE FInv
  OBVIOUS
<1> USE ForwardingAssumption, NoneAssumption DEF Init
<1>1. TypeOK
  <2>1. 0 \in Gens /\ 1 \in Gens
    BY DEF Gens
  <2>2. file \in Entries /\ data \in Entries /\ cli \in [Operators -> Entries \cup {None}]
    OBVIOUS
  <2>3. entries \in [BOOLEAN -> Clients \cup {None}]
    BY <2>1 DEF Clients
  <2>4. req \in [Requests -> [provider : Providers \cup {None}, cred : Creds \cup {None},
                              gen : Gens, client : Clients \cup {None}]]
    BY <2>1 DEF Nobody
  <2>5. edits \in 0..MaxEdits /\ rotations \in 0..MaxRotations /\ hups \in 0..MaxHups
    OBVIOUS
  <2>6. generation \in Gens /\ cacheGen \in Gens
    BY <2>1
  <2>7. /\ pc \in [Requests -> {"none", "arrived", "resolved", "built", "ready", "sent", "done"}]
        /\ sent \in [Requests -> Messages \cup {None}]
        /\ code \in [Requests -> Results \cup {None}]
    OBVIOUS
  <2>8. QED
    BY <2>2, <2>3, <2>4, <2>5, <2>6, <2>7 DEF TypeOK
<1>2. Signals
  BY DEF Signals
<1>3. CacheAge
  BY DEF CacheAge, Nobody
<1>4. Gathered
  BY DEF Gathered, Nobody
<1>5. Told
  BY DEF Told
<1>6. SentAsConfigured
  BY DEF SentAsConfigured
<1>7. BundleIsCurrent
  BY DEF BundleIsCurrent, Nobody
<1>8. MarkerIsTrue
  BY DEF MarkerIsTrue, Results
<1>9. QED
  BY <1>1, <1>2, <1>3, <1>4, <1>5, <1>6, <1>7, <1>8 DEF FInv

\* The command line, an edit, a rotation and the store leave the requests and the cache
\* alone; a reload only makes the store newer.
LEMMA StoreInv ==
  ASSUME FInv, TypeOK', Signals', UNCHANGED <<cacheVars, requestVars>>,
         generation' >= generation
  PROVE  FInv'
<1> USE DEF FInv, cacheVars, requestVars
<1>1. CacheAge'
  BY ForwardingAssumption DEF CacheAge, TypeOK, Gens
<1>2. Gathered' /\ Told' /\ SentAsConfigured' /\ BundleIsCurrent' /\ MarkerIsTrue'
  BY DEF Gathered, Told, SentAsConfigured, BundleIsCurrent, MarkerIsTrue
<1>3. QED
  BY <1>1, <1>2

\* The command line, an edit by hand and a rotation change files only.
LEMMA FilesInv ==
  ASSUME FInv,
         \/ \E o \in Operators : ConfigOpen(o)
         \/ \E o \in Operators, p \in Providers, c \in Creds \cup {None} : ConfigSave(o, p, c)
         \/ Spoil
         \/ \E b \in Bundles : Rotate(b)
  PROVE  FInv'
<1> USE ForwardingAssumption
<1>1. UNCHANGED <<cacheVars, requestVars, data, generation, hup, reading, hups>>
  BY DEF ConfigOpen, ConfigSave, Spoil, Rotate, storeVars
<1>2. file' \in Entries \cup {Invalid} /\ cli' \in [Operators -> Entries \cup {None}]
      /\ asked' \in Entries \cup {None}
  <2> USE DEF FInv, TypeOK, storeVars
  <2>1. CASE \E o \in Operators : ConfigOpen(o)
    BY <2>1 DEF ConfigOpen
  <2>2. ASSUME NEW o \in Operators, NEW p \in Providers, NEW c \in Creds \cup {None},
               ConfigSave(o, p, c)
        PROVE  file' \in Entries \cup {Invalid} /\ cli' \in [Operators -> Entries \cup {None}]
               /\ asked' \in Entries \cup {None}
    <3>1. [cli[o] EXCEPT ![p] = c] \in Entries
      BY <2>2 DEF ConfigSave, Entries
    <3>2. QED
      BY <2>2, <3>1 DEF ConfigSave
  <2>3. CASE Spoil \/ \E b \in Bundles : Rotate(b)
    BY <2>3 DEF Spoil, Rotate
  <2>4. QED
    BY <2>1, <2>2, <2>3
<1>3. edits' \in 0..MaxEdits /\ bundle' \in Bundles /\ rotations' \in 0..MaxRotations
  BY DEF ConfigOpen, ConfigSave, Spoil, Rotate, FInv, TypeOK
<1>4. TypeOK' /\ Signals'
  BY <1>1, <1>2, <1>3 DEF FInv, TypeOK, Signals, cacheVars, requestVars
<1>5. generation' >= generation
  BY <1>1 DEF FInv, TypeOK, Gens
<1>6. QED
  BY <1>1, <1>4, <1>5, StoreInv

\* A SIGHUP, its taking and the reload: the generation follows the signals.
LEMMA ReloadInv ==
  ASSUME FInv, Sighup \/ TakeSighup \/ Reload
  PROVE  FInv'
<1> USE ForwardingAssumption DEF FInv, TypeOK, Gens
<1>1. CASE Sighup
  <2>1. TypeOK' /\ Signals'
    BY <1>1 DEF Sighup, Signals, fileVars, cacheVars, requestVars
  <2>2. QED
    BY <1>1, <2>1, StoreInv DEF Sighup
<1>2. CASE TakeSighup
  <2>1. TypeOK' /\ Signals'
    BY <1>2 DEF TakeSighup, Signals, fileVars, cacheVars, requestVars
  <2>2. QED
    BY <1>2, <2>1, StoreInv DEF TakeSighup
<1>3. CASE Reload
  <2>1. TypeOK' /\ Signals'
    BY <1>3 DEF Reload, Signals, fileVars, cacheVars, requestVars
  <2>2. QED
    BY <1>3, <2>1, StoreInv DEF Reload
<1>4. QED
  BY <1>1, <1>2, <1>3

-----------------------------------------------------------------------------
\* A request that ends with a marker that agrees with whether it was sent.
LEMMA ReturnsInv ==
  ASSUME FInv, NEW q \in Requests, NEW result \in Results, Returns(q, result),
         UNCHANGED <<fileVars, storeVars, sent>>,
         TypeOK', CacheAge', pc[q] # "done",
         result \in NotForwarded /\ sent[q] # None =>
           q \in Replayable /\ result = "upstream_unreachable",
         result \in Withheld \cup {"relayed"} => sent[q] # None
  PROVE  FInv'
<1> USE NoneAssumption DEF FInv, Returns, TypeOK, Nobody, storeVars
<1>1. Signals'
  BY DEF Signals
<1>2. Gathered'
  BY DEF Gathered
<1>3. Told'
  BY DEF Told
<1>4. SentAsConfigured'
  BY DEF SentAsConfigured
<1>5. BundleIsCurrent'
  BY DEF BundleIsCurrent
<1>6. MarkerIsTrue'
  BY DEF MarkerIsTrue
<1>7. QED
  BY <1>1, <1>2, <1>3, <1>4, <1>5, <1>6

\* The types of a request that has ended.
LEMMA ReturnsTypes ==
  ASSUME FInv, NEW q \in Requests, NEW result \in Results, Returns(q, result),
         UNCHANGED <<fileVars, storeVars, cacheVars, sent>>
  PROVE  TypeOK' /\ CacheAge'
<1> USE ForwardingAssumption DEF FInv, Returns, TypeOK, Nobody, fileVars, storeVars, cacheVars, Gens
<1>1. TypeOK'
  BY DEF Results
<1>2. CacheAge'
  BY DEF CacheAge
<1>3. QED
  BY <1>1, <1>2

\* A request arrives, or its deadline has passed.
LEMMA ArriveInv ==
  ASSUME FInv, NEW q \in Requests, NEW p \in Providers \cup {None}, Arrive(q, p)
  PROVE  FInv'
<1> USE DEF FInv
<1>1. UNCHANGED <<fileVars, storeVars, cacheVars, sent>> /\ pc[q] = "none"
  BY DEF Arrive
<1>2. CASE Returns(q, "rejected")
  BY <1>1, <1>2, ReturnsInv, ReturnsTypes DEF Told, Results, NotForwarded, Withheld
<1>3. CASE ~Returns(q, "rejected")
  <2>1. /\ pc' = [pc EXCEPT ![q] = "arrived"] /\ code' = code
        /\ req' = [req EXCEPT ![q].provider = p]
    BY <1>3 DEF Arrive
  <2> USE <1>1, <2>1 DEF TypeOK, fileVars, storeVars, cacheVars
  <2>2. TypeOK'
    OBVIOUS
  <2>3. Signals' /\ CacheAge'
    BY DEF Signals, CacheAge
  <2>4. Gathered'
    BY DEF Gathered
  <2>5. Told' /\ MarkerIsTrue'
    BY DEF Told, MarkerIsTrue
  <2>6. SentAsConfigured' /\ BundleIsCurrent'
    BY DEF SentAsConfigured, BundleIsCurrent
  <2>7. QED
    BY <2>2, <2>3, <2>4, <2>5, <2>6
<1>4. QED
  BY <1>2, <1>3

\* The entry a request is served with is the one in force now, and has a base URL.
LEMMA ResolveInv ==
  ASSUME FInv, NEW q \in Requests, Resolve(q)
  PROVE  FInv'
<1> USE DEF FInv
<1>1. UNCHANGED <<fileVars, storeVars, cacheVars, sent>> /\ pc[q] = "arrived"
  BY DEF Resolve
<1>2. CASE Returns(q, "rejected")
  BY <1>1, <1>2, ReturnsInv, ReturnsTypes DEF Told, Results, NotForwarded, Withheld
<1>3. CASE ~Returns(q, "rejected")
  <2>1. /\ BaseURL(req[q].provider, Get(req[q].provider)) # None
        /\ pc' = [pc EXCEPT ![q] = "resolved"] /\ code' = code
        /\ req' = [req EXCEPT ![q].cred = Get(req[q].provider)]
    BY <1>3 DEF Resolve
  <2>2. Get(req[q].provider) \in Creds \cup {None}
    BY DEF Get, TypeOK, Entries
  <2> USE <1>1, <2>1, <2>2 DEF TypeOK, fileVars, storeVars, cacheVars
  <2>3. TypeOK'
    OBVIOUS
  <2>4. Signals' /\ CacheAge'
    BY DEF Signals, CacheAge
  <2>5. Gathered'
    BY DEF Gathered
  <2>6. Told' /\ MarkerIsTrue'
    BY DEF Told, MarkerIsTrue
  <2>7. SentAsConfigured' /\ BundleIsCurrent'
    BY DEF SentAsConfigured, BundleIsCurrent
  <2>8. QED
    BY <2>3, <2>4, <2>5, <2>6, <2>7
<1>4. QED
  BY <1>2, <1>3

\* A request that needs a bundle remembers the generation of the store, which no cached
\* client of an older one may serve; one that needs none goes on without a client.
LEMMA BuildInv ==
  ASSUME FInv, NEW q \in Requests, Build(q)
  PROVE  FInv'
<1> USE DEF FInv
<1>1. UNCHANGED <<fileVars, storeVars, cacheVars, sent>> /\ pc[q] = "resolved"
  BY DEF Build
<1>2. CASE \E result \in {"rejected", "unmarked"} : Returns(q, result)
  BY <1>1, <1>2, ReturnsInv, ReturnsTypes DEF Told, Results, NotForwarded, Withheld
<1>3. CASE ~\E result \in {"rejected", "unmarked"} : Returns(q, result)
  <2>1. /\ pc' = [pc EXCEPT ![q] = IF HasBundle(req[q].cred) THEN "built" ELSE "ready"]
        /\ req' = [req EXCEPT ![q].gen = IF HasBundle(req[q].cred) THEN generation ELSE 0]
        /\ code' = code
    BY <1>3 DEF Build
  <2> DEFINE g == IF HasBundle(req[q].cred) THEN generation ELSE 0
             m == IF HasBundle(req[q].cred) THEN "built" ELSE "ready"
  <2>a. g \in Gens /\ m \in {"built", "ready"}
    BY ForwardingAssumption DEF Gens, TypeOK
  <2>b. TypeOK'
    <3>1. pc' = [pc EXCEPT ![q] = m] /\ req' = [req EXCEPT ![q].gen = g]
      BY <2>1
    <3> HIDE DEF g, m
    <3>2. pc' \in [Requests -> {"none", "arrived", "resolved", "built", "ready", "sent", "done"}]
      BY <2>a, <3>1 DEF TypeOK
    <3>3. req' \in [Requests -> [provider : Providers \cup {None}, cred : Creds \cup {None},
                                 gen : Gens, client : Clients \cup {None}]]
      BY <2>a, <3>1 DEF TypeOK
    <3>4. QED
      BY <1>1, <2>1, <3>2, <3>3 DEF TypeOK, fileVars, storeVars, cacheVars
  <2> USE <1>1, <2>1 DEF TypeOK, fileVars, storeVars, cacheVars
  <2>2. TypeOK'
    BY <2>b
  <2>3. Signals' /\ CacheAge'
    BY ForwardingAssumption DEF Signals, CacheAge, Gens
  <2>4. Gathered'
    BY DEF Gathered
  <2>5. Told' /\ MarkerIsTrue'
    BY DEF Told, MarkerIsTrue
  <2>6. SentAsConfigured'
    BY DEF SentAsConfigured
  <2>7. BundleIsCurrent'
    BY DEF BundleIsCurrent, Gathered
  <2>8. QED
    BY <2>2, <2>3, <2>4, <2>5, <2>6, <2>7
<1>4. QED
  BY <1>2, <1>3

\* The client a request gets from the cache: one the cache kept, which is of the cache's
\* generation or a later one, or a new one, which is of the store's.
LEMMA ClientForInv ==
  ASSUME FInv, NEW q \in Requests, ClientFor(q)
  PROVE  FInv'
<1> DEFINE direct == UsesLocal(req[q].cred)
           kept == IF MovedOn(req[q].gen) THEN [d \in BOOLEAN |-> None] ELSE entries
           client == IF kept[direct] # None THEN kept[direct]
                                            ELSE [content |-> bundle, at |-> generation]
<1> USE ForwardingAssumption, NoneAssumption DEF FInv
<1>1. direct \in BOOLEAN
  <2>1. req[q].cred \in Creds \cup {None}
    BY DEF TypeOK
  <2>2. QED
    BY <2>1 DEF UsesLocal
<1>2. kept \in [BOOLEAN -> Clients \cup {None}]
  BY DEF TypeOK
<1>3. client \in Clients
  BY <1>1, <1>2 DEF TypeOK, Clients
<1> HIDE DEF direct
<1>4. /\ UNCHANGED <<fileVars, storeVars, sent>> /\ pc[q] = "built"
      /\ cacheGen' = IF MovedOn(req[q].gen) THEN req[q].gen ELSE cacheGen
      /\ entries' = [kept EXCEPT ![direct] = client]
  BY DEF ClientFor, direct
<1>5. cacheGen' \in Gens /\ cacheGen' <= generation /\ req[q].gen <= cacheGen'
  BY <1>4 DEF TypeOK, CacheAge, MovedOn, Gens
<1>6. \A d \in BOOLEAN : kept[d] # None => kept[d].at >= cacheGen'
  BY <1>4 DEF CacheAge, MovedOn
<1>7. client.at >= cacheGen'
  BY <1>1, <1>2, <1>5, <1>6 DEF TypeOK, Gens
<1> HIDE DEF kept, client
<1>8. entries' \in [BOOLEAN -> Clients \cup {None}]
  BY <1>1, <1>2, <1>3, <1>4
<1>9. \A d \in BOOLEAN : entries'[d] # None => entries'[d].at >= cacheGen'
  BY <1>1, <1>2, <1>4, <1>6, <1>7
<1>10. CASE Returns(q, "invalid_ca_bundle")
  <2> USE <1>4, <1>5, <1>8, <1>9, <1>10 DEF Returns, fileVars, storeVars
  <2>1. TypeOK'
    BY DEF TypeOK, Nobody, Results, Gens, NotForwarded
  <2>2. CacheAge'
    BY DEF TypeOK, CacheAge, Nobody, Gens
  <2>3. QED
    BY <2>1, <2>2, ReturnsInv DEF Told, Results, NotForwarded, Withheld
<1>11. CASE ~Returns(q, "invalid_ca_bundle")
  <2>1. /\ client.content # "bad"
        /\ pc' = [pc EXCEPT ![q] = "ready"] /\ code' = code
        /\ req' = [req EXCEPT ![q].client = client]
    BY <1>11 DEF ClientFor, direct, kept, client
  <2>2. TypeOK'
    <3>1. /\ pc' \in [Requests -> {"none", "arrived", "resolved", "built", "ready", "sent", "done"}]
          /\ code' \in [Requests -> Results \cup {None}]
      BY <2>1 DEF TypeOK
    <3>2. req' \in [Requests -> [provider : Providers \cup {None}, cred : Creds \cup {None},
                                 gen : Gens, client : Clients \cup {None}]]
      <4>1. client \in Clients \cup {None} /\ req' = [req EXCEPT ![q].client = client]
        BY <1>3, <2>1
      <4>2. req \in [Requests -> [provider : Providers \cup {None}, cred : Creds \cup {None},
                                  gen : Gens, client : Clients \cup {None}]]
        BY DEF TypeOK
      <4>3. QED
        BY <4>1, <4>2
    <3>3. QED
      BY <1>4, <1>5, <1>8, <3>1, <3>2 DEF TypeOK, fileVars, storeVars
  <2> USE <1>3, <1>4, <1>5, <1>8, <1>9, <2>1 DEF TypeOK, fileVars, storeVars
  <2>3. Signals' /\ CacheAge'
    BY DEF Signals, CacheAge
  <2>4. Gathered'
    BY DEF Gathered
  <2>5. Told' /\ MarkerIsTrue'
    BY DEF Told, MarkerIsTrue
  <2>6. SentAsConfigured'
    BY DEF SentAsConfigured
  <2>7. BundleIsCurrent'
    BY <1>7 DEF BundleIsCurrent, Clients, Gens
  <2>8. QED
    BY <2>2, <2>3, <2>4, <2>5, <2>6, <2>7
<1>12. QED
  BY <1>10, <1>11

\* The message of a request is made from the one entry the request resolved.
LEMMA MessageConfigured ==
  ASSUME FInv, NEW q \in Requests, pc[q] = "ready"
  PROVE  LET m == Message(q)
             entry == IF m.token # None THEN m.token ELSE m.url
         IN /\ m \in Messages
            /\ m.token # None => /\ m.token.url => m.url = m.token
                                 /\ "credential" \notin m.headers \cup m.query
            /\ entry \in Creds => /\ entry.auth = (m.token # None)
                                  /\ HasBundle(entry) = (m.client # None)
            /\ m.client # None => m.client.content # "bad"
<1> DEFINE cred == req[q].cred
           m == Message(q)
           entry == IF m.token # None THEN m.token ELSE m.url
<1> USE ForwardingAssumption, NoneAssumption
<1>1. cred \in Creds \cup {None} /\ req[q].provider \in Providers \cup {None}
      /\ req[q].client \in Clients \cup {None}
  BY DEF FInv, TypeOK
<1>2. /\ BaseURL(req[q].provider, cred) # None
      /\ HasBundle(cred) <=> req[q].client # None
      /\ req[q].client # None => req[q].client.content # "bad"
  BY DEF FInv, Gathered
<1>3. /\ m.url = BaseURL(req[q].provider, cred)
      /\ m.token = IF UsesLocal(cred) THEN cred ELSE None
      /\ m.headers = ForwardedHeaders(cred) /\ m.query = ForwardedQuery(cred)
      /\ m.client = req[q].client
  BY DEF Message
<1>4. m.url \in Creds \cup Providers
  BY <1>1, <1>2, <1>3 DEF BaseURL
<1>5. m \in Messages
  <2>1. m.headers \subseteq HeaderKinds /\ m.query \subseteq ParamKinds
    BY <1>3 DEF ForwardedHeaders, ForwardedQuery
  <2>2. m.token \in Creds \cup {None}
    BY <1>1, <1>3
  <2>3. QED
    BY <1>1, <1>3, <1>4, <2>1, <2>2 DEF Message, Messages
<1>6. m.token # None =>
        /\ m.token.url => m.url = m.token
        /\ "credential" \notin m.headers \cup m.query
  <2>1. SUFFICES ASSUME m.token # None
                 PROVE  /\ m.token.url => m.url = m.token
                        /\ "credential" \notin m.headers \cup m.query
    OBVIOUS
  <2>2. UsesLocal(cred) /\ m.token = cred /\ cred # None
    BY <1>3, <2>1
  <2>3. m.token.url => m.url = m.token
    BY <1>3, <2>2 DEF BaseURL
  <2>4. "credential" \in Stripped(cred)
    BY <2>2 DEF Stripped
  <2>5. "credential" \notin m.headers \cup m.query
    BY <1>3, <2>4 DEF ForwardedHeaders, ForwardedQuery
  <2>6. QED
    BY <2>3, <2>5
<1>7. entry \in Creds =>
        /\ entry.auth = (m.token # None)
        /\ HasBundle(entry) = (m.client # None)
  <2>1. SUFFICES ASSUME entry \in Creds
                 PROVE  /\ entry.auth = (m.token # None)
                        /\ HasBundle(entry) = (m.client # None)
    OBVIOUS
  <2>2. entry = cred /\ cred # None
    BY <1>1, <1>3, <2>1 DEF BaseURL, UsesLocal
  <2>3. cred.auth \in BOOLEAN /\ cred.bundle \in BOOLEAN
    BY <1>1, <2>2
  <2>4. cred.auth <=> m.token # None
    BY <1>3, <2>2 DEF UsesLocal
  <2>5. HasBundle(cred) \in BOOLEAN
    BY <2>2, <2>3 DEF HasBundle
  <2>6. HasBundle(cred) <=> m.client # None
    BY <1>2, <1>3
  <2>7. cred.auth = (m.token # None)
    BY <2>3, <2>4
  <2>8. HasBundle(cred) = (m.client # None)
    BY <2>5, <2>6
  <2>9. QED
    BY <2>2, <2>7, <2>8
<1>8. m.client # None => m.client.content # "bad"
  BY <1>2, <1>3
<1>9. QED
  BY <1>5, <1>6, <1>7, <1>8

\* A request that is sent is sent as its entry says; any other outcome of the call leaves
\* nothing at the provider that the marker could deny, unless it was sent once already.
LEMMA SendInv ==
  ASSUME FInv, NEW q \in Requests, Send(q)
  PROVE  FInv'
<1> USE DEF FInv
<1>1. UNCHANGED <<fileVars, storeVars, cacheVars>> /\ pc[q] = "ready"
  BY DEF Send
<1>2. CASE sent' = sent
           /\ \E result \in {"upstream_unreachable", "unmarked"} \cup Unknown : Returns(q, result)
  BY <1>1, <1>2, ReturnsInv, ReturnsTypes DEF Told, Results, NotForwarded, Withheld, Unknown
<1>3. CASE /\ sent' = [sent EXCEPT ![q] = Message(q)]
           /\ pc' = [pc EXCEPT ![q] = "sent"] /\ UNCHANGED <<code, req>>
  <2>1. Message(q) \in Messages /\ Message(q) # None
    BY <1>1, MessageConfigured, NoneAssumption
  <2> USE <1>1, <1>3, <2>1 DEF TypeOK, fileVars, storeVars, cacheVars
  <2>2. TypeOK'
    OBVIOUS
  <2>3. Signals' /\ CacheAge'
    BY DEF Signals, CacheAge
  <2>4. Gathered'
    BY DEF Gathered
  <2>5. Told'
    BY DEF Told
  <2>6. MarkerIsTrue'
    BY NoneAssumption DEF MarkerIsTrue, Told, Results
  <2>7. SentAsConfigured'
    <3> SUFFICES ASSUME NEW r \in Requests, sent'[r] # None
                 PROVE  LET n == sent'[r]
                            entry == IF n.token # None THEN n.token ELSE n.url
                        IN /\ n.token # None => /\ n.token.url => n.url = n.token
                                                /\ "credential" \notin n.headers \cup n.query
                           /\ entry \in Creds => /\ entry.auth = (n.token # None)
                                                 /\ HasBundle(entry) = (n.client # None)
                           /\ n.client # None => n.client.content # "bad"
      BY DEF SentAsConfigured
    <3>1. CASE r = q
      BY <3>1, MessageConfigured
    <3>2. CASE r # q
      BY <3>2 DEF SentAsConfigured
    <3>3. QED
      BY <3>1, <3>2
  <2>8. BundleIsCurrent'
    BY DEF BundleIsCurrent
  <2>9. QED
    BY <2>2, <2>3, <2>4, <2>5, <2>6, <2>7, <2>8
<1>4. QED
  BY <1>2, <1>3 DEF Send

\* A request that is to be sent again keeps what it has gathered.
LEMMA ReplayInv ==
  ASSUME FInv, NEW q \in Requests, Replay(q)
  PROVE  FInv'
<1> USE DEF FInv, Replay, TypeOK, fileVars, storeVars, cacheVars
<1>1. TypeOK'
  OBVIOUS
<1>2. Signals' /\ CacheAge'
  BY DEF Signals, CacheAge
<1>3. Gathered'
  BY DEF Gathered
<1>4. Told'
  BY DEF Told
<1>5. MarkerIsTrue' /\ SentAsConfigured' /\ BundleIsCurrent'
  BY DEF MarkerIsTrue, SentAsConfigured, BundleIsCurrent
<1>6. QED
  BY <1>1, <1>2, <1>3, <1>4, <1>5

\* An answer, read or not, is never told as a request that was not forwarded.
LEMMA AnswerInv ==
  ASSUME FInv, NEW q \in Requests, Answer(q)
  PROVE  FInv'
<1>1. UNCHANGED <<fileVars, storeVars, cacheVars, sent>> /\ pc[q] = "sent"
  BY DEF Answer
<1>2. PICK result \in Outcomes : Returns(q, result)
  BY DEF Answer
<1>3. result \in Results /\ result \notin NotForwarded
  BY DEF Outcomes, Results, NotForwarded, Withheld, Unknown
<1>4. sent[q] # None
  BY <1>1 DEF FInv, Told
<1>5. TypeOK' /\ CacheAge'
  BY <1>1, <1>2, <1>3, ReturnsTypes
<1>6. QED
  BY <1>1, <1>2, <1>3, <1>4, <1>5, ReturnsInv

-----------------------------------------------------------------------------
\* Every step keeps the invariant.
LEMMA FNextInv == FInv /\ [Next]_vars => FInv'
<1> SUFFICES ASSUME FInv, [Next]_vars PROVE FInv'
  OBVIOUS
<1>1. CASE UNCHANGED vars
  <2> USE <1>1 DEF vars, fileVars, storeVars, cacheVars, requestVars, FInv
  <2>1. TypeOK' /\ Signals'
    BY DEF TypeOK, Signals
  <2>2. generation' >= generation
    BY ForwardingAssumption DEF TypeOK, Gens
  <2>3. QED
    BY <2>1, <2>2, StoreInv
<1>2. CASE Next
  BY <1>2, FilesInv, ReloadInv, ArriveInv, ResolveInv, BuildInv, ClientForInv, SendInv, ReplayInv,
     AnswerInv
     DEF Next
<1>3. QED
  BY <1>1, <1>2

\* The invariant holds in every behaviour.
LEMMA FAlways == Spec => []FInv
BY FInitInv, FNextInv, PTL DEF Spec

\* HTTPHandler: what a provider receives is of one credential entry, for any interleaving of
\* reloads, edits and requests.
THEOREM SentFromOneEntry == Spec => []SentAsConfigured
<1>1. FInv => SentAsConfigured
  BY DEF FInv
<1>2. QED
  BY <1>1, FAlways, PTL

\* caClientCache.clientFor: a client is never older than the generation its request saw.
THEOREM BundlesCurrent == Spec => []BundleIsCurrent
<1>1. FInv => BundleIsCurrent
  BY DEF FInv
<1>2. QED
  BY <1>1, FAlways, PTL

\* errorcodes.go: a marker of the group "not forwarded" is never given to a request that
\* reached the provider, other than "upstream_unreachable" to one that may be repeated; and
\* what is relayed or withheld is an answer.
THEOREM MarkersTrue == Spec => []MarkerIsTrue
<1>1. FInv => MarkerIsTrue
  BY DEF FInv
<1>2. QED
  BY <1>1, FAlways, PTL

\* The variables of store, cache and requests keep their types; the generation is bounded by
\* the signals there were.
THEOREM ForwardingTypes == Spec => []TypeOK
<1>1. FInv => TypeOK
  BY DEF FInv
<1>2. QED
  BY <1>1, FAlways, PTL
=============================================================================
