--------------------------- MODULE ReloaderProofs ---------------------------
(***************************************************************************)
(* The settle of the live reload, for any providers, texts and tokens, and *)
(* any number of edits and requests: theorems about Reloader.              *)
(***************************************************************************)
EXTENDS Reloader, TLAPS

\* The credentials a digest stands for, when what it is the digest of is usable.
StoreOf(d) == IF d.text = None THEN Empty ELSE Entries(d.text, d.token)

\* A read that finds no file has no text, and the credentials of the sighting are those of
\* the digest that waits to be confirmed, or it was unusable.
SightInv ==
  /\ reading # None => (reading.missing => reading.text = None)
  /\ sighted \in {StoreOf(pendingSeen), None}

\* readProviderConfigMode: a missing file gives no text.
LEMMA MissingHasNoText ==
  ASSUME NEW why
  PROVE  LET c == ReadProviderConfigMode(why) IN c.missing => c.text = None
BY ReloaderAssumption DEF ReadProviderConfigMode

\* bundleOf: two reads with one digest give the same credentials, unless one is unusable.
LEMMA BundleStore ==
  ASSUME NEW c, c.missing => c.text = None
  PROVE  /\ Bundle(c).store \in {StoreOf(Bundle(c).digest), None}
         /\ Bundle(c).kind # "invalid" => Bundle(c).store = StoreOf(Bundle(c).digest)
         /\ Bundle(c).kind = "missing" <=> c.missing
<1> DEFINE b == Bundle(c)
<1>1. b.digest.text = c.text /\ b.digest.token = ReadTokenFile(c.text)
  BY DEF Bundle
<1>2. CASE c.missing
  BY <1>1, <1>2 DEF Bundle, StoreOf
<1>3. CASE ~c.missing /\ FirstPass(c.text) /\ SecondPass(c.text)
  <2>1. c.text # None
    BY <1>3 DEF FirstPass
  <2>2. b.kind = "ok" /\ b.store = Entries(c.text, ReadTokenFile(c.text))
    BY <1>3 DEF Bundle
  <2>3. QED
    BY <1>1, <1>3, <2>1, <2>2 DEF StoreOf
<1>4. CASE ~c.missing /\ ~(FirstPass(c.text) /\ SecondPass(c.text))
  BY <1>4 DEF Bundle
<1>5. QED
  BY <1>2, <1>3, <1>4

\* New has read the files once.
LEMMA SightInit == Init => SightInv
BY MissingHasNoText, BundleStore DEF Init, SightInv

\* A first sighting keeps the digest and the credentials together.
LEMMA SightKept ==
  ASSUME SightInv, FinishRead
  PROVE  SightInv'
<1> DEFINE b == Bundle(reading)
<1>1. b.store \in {StoreOf(b.digest), None}
  BY BundleStore DEF SightInv, FinishRead
<1>2. reading' = None
  BY DEF FinishRead
<1> HIDE DEF b
<1>3. CASE Await(b)
  BY <1>1, <1>2, <1>3 DEF Await, SightInv, StoreOf, Entries
<1>4. CASE UNCHANGED <<pendingSeen, sighted>>
  BY <1>2, <1>4 DEF SightInv, StoreOf, Entries
<1>5. Await(b) \/ UNCHANGED <<pendingSeen, sighted>>
  BY DEF FinishRead, Sight, Confirm, Forced, Decide, NoWait, reloaderVars, b
<1>6. QED
  BY <1>3, <1>4, <1>5

\* Every step of the files, the operator and the goroutine keeps it.
LEMMA SightNext == SightInv /\ [Next]_vars => SightInv'
<1> SUFFICES ASSUME SightInv, [Next]_vars PROVE SightInv'
  OBVIOUS
<1>1. CASE FinishRead
  BY <1>1, SightKept
<1>2. CASE Tick \/ Settle \/ TakeHup
  BY <1>2, MissingHasNoText DEF Tick, Settle, TakeHup, reloaderVars, SightInv, StoreOf, Entries
<1>3. CASE UNCHANGED <<reading, pendingSeen, sighted>>
  BY <1>3 DEF SightInv, StoreOf, Entries
<1>4. QED
  BY <1>1, <1>2, <1>3 DEF Next, EditProvider, EditToken, RequestReload, reloaderVars, vars

\* confirm, forced: a poll changes the credentials in force only to what two reads found, a
\* settle wait apart, however the files change between the reads and between the two files
\* of one read; a SIGHUP never takes a missing file for an empty configuration at once.
THEOREM ConfirmedTwice == Spec => HeldTwice
<1> DEFINE Step == inForce' # inForce =>
                     \/ sighted \in {inForce', None}
                     \/ reading.why = "forced" /\ ~reading.missing
<1>1. SightInv /\ [Next]_vars => [Step]_vars
  <2> SUFFICES ASSUME SightInv, Next, inForce' # inForce
               PROVE  \/ sighted \in {inForce', None}
                      \/ reading.why = "forced" /\ ~reading.missing
    OBVIOUS
  <2> DEFINE b == Bundle(reading)
  <2>1. FinishRead
    BY DEF Next, EditProvider, EditToken, RequestReload, Tick, Settle, TakeHup, reloaderVars
  <2>2. /\ b.kind # "invalid" => b.store = StoreOf(b.digest)
        /\ b.kind = "missing" <=> reading.missing
    BY <2>1, BundleStore DEF SightInv, FinishRead
  <2> HIDE DEF b
  <2>3. CASE reading.why = "confirm" /\ Confirm(b)
    BY <2>2, <2>3 DEF Confirm, Sight, Decide, RefusedMode, SightInv, reloaderVars
  <2>4. CASE reading.why = "forced" /\ Forced(b)
    BY <2>2, <2>4 DEF Forced, reloaderVars
  <2>5. QED
    BY <2>1, <2>3, <2>4 DEF FinishRead, Sight, b
<1>2. QED
  BY <1>1, SightInit, SightNext, PTL DEF Spec, HeldTwice

-----------------------------------------------------------------------------
(***************************************************************************)
(* Types: what is in force is always a set of usable credentials.          *)
(***************************************************************************)
\* readProviderConfigMode, whatever the files are.
LEMMA ReadType ==
  ASSUME NEW why \in {"look", "confirm", "forced"}, loose \in BOOLEAN
  PROVE  ReadProviderConfigMode(why) \in ConfigReads
<1> DEFINE c == ReadProviderConfigMode(why)
<1>1. c.text \in Texts \cup {None} /\ c.missing \in BOOLEAN /\ c.loose \in BOOLEAN /\ c.why = why
  BY DEF ReadProviderConfigMode
<1>2. c = [why |-> c.why, missing |-> c.missing, text |-> c.text, loose |-> c.loose]
  BY DEF ReadProviderConfigMode
<1> HIDE DEF c
<1>3. c \in ConfigReads
  BY <1>1, <1>2 DEF ConfigReads
<1>4. QED
  BY <1>3 DEF c

\* readTokenFile: contents that are there, or nothing.
LEMMA TokenType ==
  ASSUME NEW text, tok \in TokenFiles
  PROVE  ReadTokenFile(text) \in TokenFiles \cup {None}
BY DEF ReadTokenFile

\* Both passes: a text that passes them gives every provider a token, the inline credential or
\* none; an invalid entry and a token file that cannot be used do not get this far.
LEMMA EntriesType ==
  ASSUME NEW text \in Texts \cup {None}, tok \in TokenFiles, FirstPass(text), SecondPass(text)
  PROVE  Entries(text, ReadTokenFile(text)) \in Stores
<1> DEFINE token == ReadTokenFile(text)
<1>1. text \in Texts
  BY DEF FirstPass
<1>2. text.entries \in [Providers -> {"inline", "file", "invalid", "none"}]
  BY <1>1, ReloaderAssumption
<1>3. ASSUME NEW p \in Providers
      PROVE  (CASE text.entries[p] = "file" -> IF token = None THEN "none" ELSE token
                [] OTHER -> text.entries[p]) \in Tokens \cup {"inline", "none"}
  <2>1. CASE text.entries[p] = "file"
    <3>1. NamesToken(text)
      BY <2>1 DEF NamesToken
    <3>2. token # None => token = tok /\ tok \notin {Absent, Unusable, Garbled}
      BY <3>1 DEF ReadTokenFile, SecondPass
    <3>3. token # None => token \in Tokens
      BY <3>2 DEF TokenFiles
    <3> HIDE DEF token
    <3>4. QED
      BY <2>1, <3>3
  <2>2. CASE text.entries[p] # "file"
    <3>1. text.entries[p] \in {"inline", "none"}
      BY <1>2, <2>2 DEF FirstPass
    <3> HIDE DEF token
    <3>2. QED
      BY <2>2, <3>1
  <2>3. QED
    BY <2>1, <2>2
<1> HIDE DEF token
<1>4. Entries(text, token) \in Stores
  BY <1>3 DEF Entries, Stores
<1>5. QED
  BY <1>4 DEF token

\* bundleOf: the digest and the credentials of any read.
LEMMA BundleType ==
  ASSUME NEW c \in ConfigReads, tok \in TokenFiles
  PROVE  /\ Bundle(c).digest \in Digests /\ Bundle(c).loose \in BOOLEAN
         /\ Bundle(c).store \in Stores \cup {None}
         /\ Bundle(c).kind \in {"ok", "missing"} => Bundle(c).store \in Stores
<1>1. c.text \in Texts \cup {None} /\ c.missing \in BOOLEAN /\ c.loose \in BOOLEAN
  BY DEF ConfigReads
<1>2. [text |-> c.text, loose |-> c.loose, token |-> ReadTokenFile(c.text)] \in Digests
  BY <1>1, TokenType DEF Digests
<1>3. Empty \in Stores
  BY DEF Empty, Stores
<1>4. FirstPass(c.text) /\ SecondPass(c.text) => Entries(c.text, ReadTokenFile(c.text)) \in Stores
  BY <1>1, EntriesType
<1>5. CASE c.missing
  BY <1>1, <1>2, <1>3, <1>5 DEF Bundle
<1>6. CASE ~c.missing /\ FirstPass(c.text) /\ SecondPass(c.text)
  BY <1>1, <1>2, <1>4, <1>6 DEF Bundle
<1>7. CASE ~c.missing /\ ~(FirstPass(c.text) /\ SecondPass(c.text))
  BY <1>1, <1>2, <1>7 DEF Bundle
<1>8. QED
  BY <1>5, <1>6, <1>7

\* New: the configuration the process starts with.
LEMMA TypeInit == Init => TypeOK
<1> SUFFICES ASSUME Init PROVE TypeOK
  OBVIOUS
<1> DEFINE c == ReadProviderConfigMode("confirm")
           b == Bundle(c)
<1>1. loose \in BOOLEAN /\ tok \in TokenFiles /\ prov \in Texts \cup {Absent, Unusable}
  BY DEF Init
<1>2. c \in ConfigReads
  BY <1>1, ReadType
<1>3. b.digest \in Digests /\ (b.kind \in {"ok", "missing"} => b.store \in Stores)
  BY <1>1, <1>2, BundleType
<1>4. b.kind \in {"ok", "missing", "invalid"}
  BY DEF Bundle
<1>5. b.kind # "invalid" /\ applied = b.digest /\ inForce = b.store /\ pendingSeen = b.digest
      /\ sighted = b.store
  BY DEF Init
<1> HIDE DEF b, c
<1>6. applied \in Digests /\ inForce \in Stores /\ pendingSeen \in Digests /\ sighted \in Stores
  BY <1>3, <1>4, <1>5
<1>7. edits \in 0..MaxEdits /\ hups \in 0..MaxHups
  BY ReloaderAssumption DEF Init
<1>8. QED
  BY <1>1, <1>6, <1>7, Zenon DEF Init, TypeOK

\* The outcome of a read.
LEMMA FinishType ==
  ASSUME TypeOK, FinishRead
  PROVE  TypeOK'
<1> DEFINE b == Bundle(reading)
<1>1. reading \in ConfigReads /\ tok \in TokenFiles
  BY DEF TypeOK, FinishRead
<1>2. /\ b.digest \in Digests /\ b.loose \in BOOLEAN /\ b.store \in Stores \cup {None}
      /\ b.kind \in {"ok", "missing"} => b.store \in Stores
  BY <1>1, BundleType
<1>3. reading' = None /\ (Sight(b) \/ Confirm(b) \/ Forced(b))
      /\ UNCHANGED <<fileVars, hups, asked, hup>>
  BY DEF FinishRead
<1> HIDE DEF b
<1>4. \/ UNCHANGED <<applied, inForce>>
      \/ b.kind \in {"ok", "missing"} /\ applied' = b.digest /\ inForce' = b.store
  BY <1>3 DEF Sight, Confirm, Forced, Decide, reloaderVars
<1>5. \/ UNCHANGED <<pending, pendingSeen, pendingLoose, armed, sighted>>
      \/ Await(b)
  BY <1>3 DEF Sight, Confirm, Forced, Decide, NoWait, reloaderVars
<1>6. lastBad' \in {None, b.digest, lastBad} /\ badFrom' \in {None, badFrom, pendingSeen}
  BY <1>3 DEF Sight, Confirm, Forced, Decide, reloaderVars
<1>7. applied' \in Digests /\ inForce' \in Stores
  BY <1>2, <1>4 DEF TypeOK
<1>8. /\ pending' \in BOOLEAN /\ pendingSeen' \in Digests /\ pendingLoose' \in BOOLEAN
      /\ armed' \in BOOLEAN /\ sighted' \in Stores \cup {None}
  BY <1>2, <1>5, Zenon DEF TypeOK, Await
<1>9. lastBad' \in Digests \cup {None} /\ badFrom' \in Digests \cup {None}
  BY <1>2, <1>6 DEF TypeOK
<1>10. QED
  BY <1>3, <1>7, <1>8, <1>9, Zenon DEF TypeOK, fileVars

\* An event that starts a read.
LEMMA EventType ==
  ASSUME TypeOK, Tick \/ Settle \/ TakeHup
  PROVE  TypeOK'
<1>1. reading' \in ConfigReads
  <2>1. \E why \in {"look", "confirm", "forced"} : reading' = ReadProviderConfigMode(why)
    BY DEF Tick, Settle, TakeHup
  <2>2. QED
    BY <2>1, ReadType DEF TypeOK
<1>2. loose' \in BOOLEAN
  BY DEF TypeOK, Tick, Settle, TakeHup, Tighten, fileVars
<1>3. pending' \in BOOLEAN /\ armed' \in BOOLEAN /\ hup' \in BOOLEAN
  BY DEF TypeOK, Tick, Settle, TakeHup, reloaderVars
<1>4. UNCHANGED <<prov, tok, mount, edits, hups, asked, applied, inForce, pendingSeen,
                  pendingLoose, lastBad, badFrom, sighted>>
  BY DEF Tick, Settle, TakeHup, fileVars, reloaderVars
<1>5. QED
  BY <1>1, <1>2, <1>3, <1>4, Zenon DEF TypeOK

\* The files and the operator.
LEMMA EditType ==
  ASSUME TypeOK, EditProvider \/ EditToken \/ RequestReload
  PROVE  TypeOK'
<1>1. edits' \in 0..MaxEdits /\ hups' \in 0..MaxHups
  <2>1. /\ edits' = edits \/ (edits < MaxEdits /\ edits' = edits + 1)
        /\ hups' = hups \/ (hups < MaxHups /\ hups' = hups + 1)
    BY Zenon DEF EditProvider, EditToken, RequestReload, fileVars
  <2>2. QED
    BY <2>1, ReloaderAssumption DEF TypeOK
<1>2. prov' \in Texts \cup {Absent, Unusable} /\ tok' \in TokenFiles
  BY DEF TypeOK, EditProvider, EditToken, RequestReload, fileVars
<1>3. loose' \in BOOLEAN /\ asked' \in BOOLEAN /\ hup' \in BOOLEAN
  <2>1. CASE EditProvider
    BY <2>1, Zenon DEF TypeOK, EditProvider
  <2>2. CASE EditToken \/ RequestReload
    BY <2>2, Zenon DEF TypeOK, EditToken, RequestReload, fileVars
  <2>3. QED
    BY <2>1, <2>2
<1>4. UNCHANGED <<mount, reading, reloaderVars>>
  BY DEF EditProvider, EditToken, RequestReload, fileVars
<1>5. QED
  BY <1>1, <1>2, <1>3, <1>4, Zenon DEF TypeOK, reloaderVars

\* The reloader as a whole: the credentials in force are always those of a usable read, never of
\* a refused or garbled file, however the files change between and within its reads.
THEOREM ReloaderTypes == Spec => []TypeOK
<1>1. TypeOK /\ [Next]_vars => TypeOK'
  <2>1. ASSUME TypeOK, UNCHANGED vars PROVE TypeOK'
    BY <2>1 DEF TypeOK, vars, fileVars, reloaderVars
  <2>2. QED
    BY <2>1, EditType, EventType, FinishType DEF Next
<1>2. QED
  BY <1>1, TypeInit, PTL DEF Spec

-----------------------------------------------------------------------------
\* The digest in force is the digest of the credentials in force.
AppliedInv == inForce = StoreOf(applied)

\* sight, confirm and forced leave everything alone when the digest is the one in force: a usable
\* read that is taken for no change gives exactly the credentials in force.
NoChangeMissed ==
  reading # None =>
    LET b == Bundle(reading) IN b.kind # "invalid" /\ b.digest = applied => b.store = inForce

\* Only decide changes what is in force, and the digest with it.
LEMMA AppliedNext == SightInv /\ AppliedInv /\ [Next]_vars => AppliedInv'
<1> SUFFICES ASSUME SightInv, AppliedInv, [Next]_vars PROVE AppliedInv'
  OBVIOUS
<1>1. CASE FinishRead
  <2> DEFINE b == Bundle(reading)
  <2>1. b.kind # "invalid" => b.store = StoreOf(b.digest)
    BY <1>1, BundleStore DEF SightInv, FinishRead
  <2>2. Sight(b) \/ Confirm(b) \/ Forced(b)
    BY <1>1 DEF FinishRead
  <2> HIDE DEF b
  <2>3. \/ UNCHANGED <<applied, inForce>>
        \/ b.kind \in {"ok", "missing"} /\ applied' = b.digest /\ inForce' = b.store
    BY <2>2 DEF Sight, Confirm, Forced, Decide, reloaderVars
  <2>4. QED
    BY <2>1, <2>3 DEF AppliedInv, StoreOf, Entries
<1>2. CASE UNCHANGED <<applied, inForce>>
  BY <1>2 DEF AppliedInv, StoreOf, Entries
<1>3. QED
  BY <1>1, <1>2 DEF Next, EditProvider, EditToken, RequestReload, Tick, Settle, TakeHup, reloaderVars,
     vars

\* sight, confirm, forced: keeping only a digest of what was applied misses no change of the
\* credentials, however the files change between the two reads of a look.
THEOREM DigestsSuffice == Spec => []NoChangeMissed
<1>1. Init => AppliedInv
  BY MissingHasNoText, BundleStore DEF Init, AppliedInv
<1>2. SightInv /\ AppliedInv => NoChangeMissed
  BY BundleStore DEF SightInv, AppliedInv, NoChangeMissed
<1>3. QED
  BY <1>1, <1>2, SightInit, SightNext, AppliedNext, PTL DEF Spec

\* While a sighting waits to be confirmed the polls are off, and the settle timer runs.
PauseHasTimer == pending => armed

\* sight, settle, forced: the polls are never off without a timer that will bring them back,
\* whichever of a look, a confirmation and a SIGHUP came in between.
THEOREM PausesEnd == Spec => []PauseHasTimer
<1>1. Init => PauseHasTimer
  BY DEF Init, PauseHasTimer
<1>2. PauseHasTimer /\ [Next]_vars => PauseHasTimer'
  <2> SUFFICES ASSUME PauseHasTimer, [Next]_vars PROVE PauseHasTimer'
    OBVIOUS
  <2>1. CASE FinishRead
    <3> DEFINE b == Bundle(reading)
    <3>1. Sight(b) \/ Confirm(b) \/ Forced(b)
      BY <2>1 DEF FinishRead
    <3> HIDE DEF b
    <3>2. Await(b) \/ UNCHANGED <<pending, armed>>
      BY <3>1 DEF Sight, Confirm, Forced, Decide, NoWait, reloaderVars
    <3>3. QED
      BY <3>2 DEF Await, PauseHasTimer
  <2>2. CASE ~FinishRead
    BY <2>2 DEF PauseHasTimer, Next, EditProvider, EditToken, RequestReload, Tick, Settle, TakeHup,
       reloaderVars, vars
  <2>3. QED
    BY <2>1, <2>2
<1>3. QED
  BY <1>1, <1>2, PTL DEF Spec
=============================================================================
