------------------------------ MODULE Reloader ------------------------------
(***************************************************************************)
(* The live reload of the provider configuration (reload.go), over the     *)
(* reads of the loader (configload.go, localfile.go, sources.go).          *)
(*                                                                         *)
(* A read opens the provider file first and the token file it names later, *)
(* and files change at any time.  A read that looks leaves the files       *)
(* alone; one that confirms tightens the provider file's mode.  A digest   *)
(* is what was read of each file, which is all that keyed hashes keep.     *)
(***************************************************************************)
EXTENDS Naturals

CONSTANTS Providers,
          Texts,     \* contents of the provider file: does it decode, and its entries
          Tokens,    \* usable contents of the token file
          Absent,    \* there is no file
          Unusable,  \* the file cannot be opened or is not acceptable as a file
          Garbled,   \* the token file is read and holds no token
          None,
          MaxEdits, MaxHups

ASSUME ReloaderAssumption ==
  /\ Texts \subseteq [decodes : BOOLEAN,
                      entries : [Providers -> {"inline", "file", "invalid", "none"}]]
  /\ {Absent, Unusable, None} \cap Texts = {}
  /\ MaxEdits \in Nat /\ MaxHups \in Nat

VARIABLES
  prov, loose, tok,  \* the provider file, whether its mode is too wide, and the token file
  mount,             \* the provider file's mode can be changed
  edits, hups,
  asked,             \* history: a SIGHUP was sent after the last edit
  reading,           \* the read under way: why, and what it found of the provider file
  applied,           \* the digest in force
  inForce,           \* the credentials in force: what apply was given
  pending, pendingSeen, pendingLoose,
  armed,             \* the settle timer
  lastBad, badFrom,
  hup,               \* the channel of one request
  sighted            \* history: the credentials the sighting read would give

fileVars == <<prov, loose, tok, mount, edits>>
reloaderVars == <<applied, inForce, pending, pendingSeen, pendingLoose, armed, lastBad, badFrom,
                  sighted>>
vars == <<fileVars, hups, asked, reading, reloaderVars, hup>>

-----------------------------------------------------------------------------
(***************************************************************************)
(* One read.                                                               *)
(***************************************************************************)
TokenFiles == Tokens \cup {Absent, Unusable, Garbled}
ConfigReads == [why : {"look", "confirm", "forced"}, text : Texts \cup {None},
                missing : BOOLEAN, loose : BOOLEAN]
Digests == [text : Texts \cup {None}, loose : BOOLEAN, token : TokenFiles \cup {None}]
Stores == [Providers -> Tokens \cup {"inline", "none"}]
Empty == [p \in Providers |-> "none"]

\* readProviderConfigMode: a look reports a mode that is too wide, a confirming read tightens
\* it or refuses the file.
ReadProviderConfigMode(why) ==
  LET refused == why # "look" /\ loose /\ ~mount
  IN [why |-> why, missing |-> prov = Absent,
      text |-> IF prov \in Texts /\ ~refused THEN prov ELSE None,
      loose |-> why = "look" /\ prov \in Texts /\ loose]

\* decodeConfig and the first pass: a file that is not a valid configuration opens no token
\* file.
FirstPass(text) ==
  text # None /\ text.decodes /\ \A p \in Providers : text.entries[p] # "invalid"

NamesToken(text) == \E p \in Providers : text.entries[p] = "file"

\* readTokenFile: what is read of the token file, if it may be used.
ReadTokenFile(text) ==
  IF FirstPass(text) /\ NamesToken(text) /\ tok \notin {Absent, Unusable} THEN tok ELSE None

\* The second pass fails on a token file that is there and cannot be used.
SecondPass(text) == NamesToken(text) => tok \notin {Unusable, Garbled}

\* The credentials of a text and the token that was read; a provider whose token file does
\* not exist is dropped.
Entries(text, token) ==
  [p \in Providers |->
     CASE text.entries[p] = "file" -> IF token = None THEN "none" ELSE token
       [] OTHER -> text.entries[p]]

\* bundleOf, with loadConfigMode: the digest, what was found, and the store if it is usable.
\* A refused or unreadable provider file is a problem of class "file".
Bundle(c) ==
  LET kind == IF c.missing THEN "missing"
              ELSE IF FirstPass(c.text) /\ SecondPass(c.text) THEN "ok" ELSE "invalid"
  IN [kind |-> kind,
      digest |-> [text |-> c.text, loose |-> c.loose, token |-> ReadTokenFile(c.text)],
      loose |-> c.loose, file |-> c.text = None,
      store |-> CASE kind = "missing" -> Empty
                  [] kind = "ok" -> Entries(c.text, ReadTokenFile(c.text))
                  [] OTHER -> None]

-----------------------------------------------------------------------------
(***************************************************************************)
(* The files and the operator.                                             *)
(***************************************************************************)
EditProvider ==
  /\ edits < MaxEdits /\ edits' = edits + 1
  /\ prov' \in Texts \cup {Absent, Unusable}
  /\ loose' \in (IF prov' \in Texts THEN BOOLEAN ELSE {FALSE})
  /\ <<prov', loose'>> # <<prov, loose>>
  /\ asked' = FALSE
  /\ UNCHANGED <<tok, mount, hups, reading, reloaderVars, hup>>

EditToken ==
  /\ edits < MaxEdits /\ edits' = edits + 1
  /\ tok' \in TokenFiles \ {tok}
  /\ asked' = FALSE
  /\ UNCHANGED <<prov, loose, mount, hups, reading, reloaderVars, hup>>

\* (mutant) a request while a read is under way is lost
RequestReloadIdle ==
  /\ hups < MaxHups /\ hups' = hups + 1
  /\ hup' = (hup \/ reading = None) /\ asked' = TRUE
  /\ UNCHANGED <<fileVars, reading, reloaderVars>>

\* requestReload: requests coalesce while one waits.
RequestReload ==
  /\ hups < MaxHups /\ hups' = hups + 1
  /\ hup' = TRUE /\ asked' = TRUE
  /\ UNCHANGED <<fileVars, reading, reloaderVars>>

-----------------------------------------------------------------------------
(***************************************************************************)
(* The goroutine: it takes an event and reads the provider file, ...       *)
(***************************************************************************)
Tick ==
  /\ reading = None /\ ~pending
  /\ reading' = ReadProviderConfigMode("look")
  /\ UNCHANGED <<fileVars, hups, asked, reloaderVars, hup>>

Tighten == loose' = (loose /\ ~(prov \in Texts /\ mount))

Settle ==
  /\ reading = None /\ armed
  /\ armed' = FALSE /\ pending' = FALSE
  /\ reading' = ReadProviderConfigMode("confirm") /\ Tighten
  /\ UNCHANGED <<prov, tok, mount, edits, hups, asked, applied, inForce, pendingSeen,
                 pendingLoose, lastBad, badFrom, hup, sighted>>

TakeHup ==
  /\ reading = None /\ hup
  /\ hup' = FALSE /\ armed' = FALSE /\ pending' = FALSE
  /\ reading' = ReadProviderConfigMode("forced") /\ Tighten
  /\ UNCHANGED <<prov, tok, mount, edits, hups, asked, applied, inForce, pendingSeen,
                 pendingLoose, lastBad, badFrom, sighted>>

(***************************************************************************)
(* ... then the token file, and acts on what it found.                     *)
(***************************************************************************)
\* (mutant) the wait is not started
AwaitUnarmed(b) ==
  /\ pending' = TRUE /\ pendingSeen' = b.digest /\ pendingLoose' = b.loose
  /\ armed' = armed /\ sighted' = b.store

\* A first sighting: the settle wait starts.
Await(b) ==
  /\ pending' = TRUE /\ pendingSeen' = b.digest /\ pendingLoose' = b.loose
  /\ armed' = TRUE /\ sighted' = b.store

NoWait == UNCHANGED <<pending, pendingSeen, pendingLoose, armed, sighted>>

Sight(b) ==
  /\ \/ /\ b.digest = applied
        /\ lastBad' = None /\ badFrom' = None /\ NoWait
     \/ /\ b.digest # applied /\ b.digest \in {lastBad, badFrom}
        /\ UNCHANGED <<lastBad, badFrom>> /\ NoWait
     \/ /\ b.digest \notin {applied, lastBad, badFrom}
        /\ Await(b) /\ UNCHANGED <<lastBad, badFrom>>
  /\ UNCHANGED <<applied, inForce>>

\* decide: what is unusable is remembered and the last good configuration stays.
Decide(b, from) ==
  /\ \/ /\ b.kind \in {"ok", "missing"}
        /\ applied' = b.digest /\ inForce' = b.store
        /\ lastBad' = None /\ badFrom' = None
     \/ /\ b.kind = "invalid"
        /\ lastBad' = b.digest /\ badFrom' = from /\ UNCHANGED <<applied, inForce>>
  /\ NoWait

\* The look could not judge the mode, and the confirming read refused it.
RefusedMode(b) ==
  b.kind = "invalid" /\ b.file /\ pendingLoose /\ b.digest # pendingSeen

\* (mutant) what is there at the second sighting is applied
ConfirmAnyway(b) ==
  \/ b.digest = applied /\ UNCHANGED reloaderVars
  \/ b.digest # applied /\ Decide(b, badFrom)

\* confirm: it went back, it turned out unusable, it moved on, or it has held.
Confirm(b) ==
  \/ b.digest = applied /\ UNCHANGED reloaderVars
  \/ b.digest # applied /\ RefusedMode(b) /\ Decide(b, pendingSeen)
  \/ b.digest \notin {applied, pendingSeen} /\ ~RefusedMode(b) /\ Sight(b)
  \/ b.digest # applied /\ b.digest = pendingSeen /\ Decide(b, badFrom)

\* forced: at once, but a missing file waits.
Forced(b) ==
  \/ b.digest = applied /\ UNCHANGED reloaderVars
  \/ /\ b.digest # applied /\ b.kind = "missing"
     /\ Await(b) /\ UNCHANGED <<applied, inForce, lastBad, badFrom>>
  \/ b.digest # applied /\ b.kind # "missing" /\ Decide(b, badFrom)

FinishRead ==
  /\ reading # None /\ reading' = None
  /\ LET b == Bundle(reading) IN
       \/ reading.why = "look" /\ Sight(b)
       \/ reading.why = "confirm" /\ Confirm(b)
       \/ reading.why = "forced" /\ Forced(b)
  /\ UNCHANGED <<fileVars, hups, asked, hup>>

-----------------------------------------------------------------------------
\* New has loaded a usable or missing configuration; a process with another one ends.
Init ==
  /\ prov \in Texts \cup {Absent} /\ loose = FALSE /\ tok \in TokenFiles /\ mount \in BOOLEAN
  /\ LET b == Bundle(ReadProviderConfigMode("confirm")) IN
       /\ b.kind # "invalid"
       /\ b.kind = "ok" => ~(NamesToken(prov) /\ tok = Absent)
       /\ applied = b.digest /\ inForce = b.store /\ pendingSeen = b.digest /\ sighted = b.store
  /\ edits = 0 /\ hups = 0 /\ asked = FALSE /\ reading = None
  /\ pending = FALSE /\ pendingLoose = FALSE /\ armed = FALSE
  /\ lastBad = None /\ badFrom = None /\ hup = FALSE

Next ==
  \/ EditProvider \/ EditToken \/ RequestReload
  \/ Tick \/ Settle \/ TakeHup \/ FinishRead

Spec == Init /\ [][Next]_vars

\* The loop of run waits for nothing else: a tick or a timer that is due is taken, and select
\* does not always pass over a waiting request.
FairSpec ==
  Spec /\ WF_vars(Tick) /\ WF_vars(Settle) /\ SF_vars(TakeHup) /\ WF_vars(FinishRead)

-----------------------------------------------------------------------------
TypeOK ==
  /\ prov \in Texts \cup {Absent, Unusable} /\ loose \in BOOLEAN /\ tok \in TokenFiles
  /\ mount \in BOOLEAN /\ edits \in 0..MaxEdits /\ hups \in 0..MaxHups /\ asked \in BOOLEAN
  /\ reading \in ConfigReads \cup {None}
  /\ applied \in Digests /\ inForce \in Stores
  /\ pending \in BOOLEAN /\ pendingSeen \in Digests /\ pendingLoose \in BOOLEAN
  /\ armed \in BOOLEAN /\ lastBad \in Digests \cup {None} /\ badFrom \in Digests \cup {None}
  /\ hup \in BOOLEAN /\ sighted \in Stores \cup {None}

\* A poll changes the credentials in force only to what two reads, a settle wait apart,
\* found, and no read ever takes a file that is gone for an empty configuration at first
\* sight: a SIGHUP puts in force at once only what a file says.  (The first of the two may
\* have found an unusable file in the place of one that the second finds missing: sources of
\* both have one digest.)
HeldTwice ==
  [][inForce' # inForce =>
       \/ sighted \in {inForce', None}
       \/ reading.why = "forced" /\ ~reading.missing]_vars

\* What a confirming read of the files as they are now would put in force, if usable.
Now == Bundle(ReadProviderConfigMode("confirm"))

\* Files that stay as they are end up in force, or their digest is the one remembered as
\* unusable: a change is never lost between a look, its settle wait and a request.
FileWins ==
  <>[](\/ Now.kind = "invalid" \/ inForce = Now.store
       \/ Bundle(ReadProviderConfigMode("look")).digest \in {lastBad, badFrom})

\* A SIGHUP after the last change puts the files in force whatever the polls remembered of
\* them before.
HupWins == <>[](asked /\ Now.kind # "invalid" => inForce = Now.store)

\* reloader: "A provider file that no longer exists is the one change that fails closed:
\* after the settle the configuration is empty, every credential is revoked".
RevocationHeeded == <>[](prov = Absent => inForce = Empty)
=============================================================================
