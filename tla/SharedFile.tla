----------------------------- MODULE SharedFile -----------------------------
(***************************************************************************)
(* The two YAML files the dashboard edits while others read them:          *)
(* runtime.yaml ("flags") through PATCH controls, and settings.yaml        *)
(* ("settings") through PUT settings.  Both are written to a temporary     *)
(* file of a fixed name, which then replaces the file.                     *)
(*                                                                         *)
(* Flags: whoever finds the file absent first writes the defaults.  Writes *)
(* of the API process are under a lock that the bot's process does not     *)
(* share.  Settings: no lock, and the API process caches what it read.     *)
(*                                                                         *)
(* A file is Absent, Empty (just truncated) or a record of values; of      *)
(* two writes to one open file the later one stands.  Looking at a file or *)
(* a cache that is there changes nothing and is not a step.                *)
(*                                                                         *)
(* A value is 0 or 1, or OutOfRange: a number that SettingsUpdate takes    *)
(* and Settings does not.  The flags are booleans.                         *)
(***************************************************************************)
EXTENDS Integers

CONSTANTS
  Fields,  \* keys of the file
  Editors, \* threads that serve a PATCH or PUT of one field
  Viewers, \* threads that serve a GET, and the bot at the start of a cycle
  Bot,
  Environment, \* the settings that environment variables and .env set, to what
  MaxEdits,\* bound
  Absent,  \* no file; nothing cached
  Empty    \* a file just truncated

ASSUME SharedFileAssumption ==
  /\ Fields # {} /\ Editors \cap Viewers = {} /\ Bot \in Viewers /\ MaxEdits \in Nat
  /\ DOMAIN Environment \subseteq Fields /\ Environment \in [DOMAIN Environment -> 0 .. 1]
  /\ {Absent, Empty} \cap [Fields -> 0 .. 2] = {} /\ Absent # Empty

VARIABLES
  which,   \* "flags" or "settings"
  present, \* the file was there from the start
  file, tmp,
  cache,   \* get_settings' cache in the API process, or Absent
  step,    \* what an actor does next
  boot,    \* it writes the defaults
  edit,    \* the field and value it was given
  val,     \* what it is about to write or to keep
  at,      \* where the file it has open is: "tmp", "file" or "gone"
  edits,
  alone,   \* history: no other request ran during its own
  asked    \* history: what the finished PATCHes asked for

fileVars == <<which, present, file, tmp, cache, step, boot, edit, val, at, edits, alone, asked>>

Actors == Editors \cup Viewers
Default == [f \in Fields |-> 0]
Known(x) == IF x \in {Absent, Empty} THEN Default ELSE x
OutOfRange == 2
Contents == [Fields -> 0 .. OutOfRange]
Edits == [field : Fields, value : 0 .. OutOfRange]
NoEdit == CHOOSE e \in Edits : e.value = 0

FileInit ==
  /\ which \in {"flags", "settings"} /\ present \in BOOLEAN
  /\ file = IF present THEN Default ELSE Absent
  /\ tmp = Absent /\ cache = Absent /\ edits = 0 /\ asked = Default
  /\ step = [a \in Actors |-> "idle"] /\ boot = [a \in Actors |-> FALSE]
  /\ edit = [a \in Actors |-> NoEdit] /\ val = [a \in Actors |-> Default]
  /\ at = [a \in Actors |-> "gone"] /\ alone = [a \in Actors |-> FALSE]
-----------------------------------------------------------------------------
(* Requests. *)

Busy == {a \in Actors : step[a] # "idle"}
Begin(a, s) ==
  /\ step[a] = "idle" /\ step' = [step EXCEPT ![a] = s]
  /\ alone' = [b \in Actors |-> IF b = a THEN Busy = {} ELSE alone[b] /\ b \notin Busy]

\* read finds the file absent: _bootstrap.  The bot reads the flags in this way.
ViewFlags(v) ==
  /\ which = "flags" /\ file = Absent /\ Begin(v, "open")
  /\ boot' = [boot EXCEPT ![v] = TRUE] /\ val' = [val EXCEPT ![v] = Default]
  /\ UNCHANGED <<which, present, file, tmp, cache, edit, at, edits, asked>>

\* get_settings with nothing cached.  The bot has a cache of its own, which it
\* clears in every cycle.
ViewSettings(v) ==
  /\ which = "settings" /\ v # Bot /\ cache = Absent /\ Begin(v, "load")
  /\ UNCHANGED <<which, present, file, tmp, cache, boot, edit, val, at, edits, asked>>

\* update_controls runs on the event loop, without an await until it has written:
\* one at a time.  update_settings runs in a thread per request.
EditBegins(e) ==
  /\ edits < MaxEdits /\ edits' = edits + 1
  /\ which = "flags" => Editors \cap Busy = {}
  /\ \E b \in Edits : /\ which = "flags" => b.value # OutOfRange
                     /\ edit' = [edit EXCEPT ![e] = b]
  /\ boot' = [boot EXCEPT ![e] = which = "flags" /\ file = Absent]
  /\ val' = [val EXCEPT ![e] = Default]
  /\ Begin(e, IF boot'[e] THEN "open" ELSE "read")
  /\ UNCHANGED <<which, present, file, tmp, cache, at, asked>>

\* Mutant of Merged: a field that was not given falls back to its default.
MergedIntoDefaults(x, b) == [Default EXCEPT ![b.field] = b.value]

\* The field given is changed, the others stay.
Merged(x, b) == [Known(x) EXCEPT ![b.field] = b.value]

Read(e) ==
  /\ step[e] = "read" /\ step' = [step EXCEPT ![e] = "open"]
  /\ val' = [val EXCEPT ![e] = Merged(file, edit[e])]
  /\ UNCHANGED <<which, present, file, tmp, cache, boot, edit, at, edits, alone, asked>>

\* The advisory crew cannot be switched on without a key, and settings.yaml may
\* not parse: the request fails before it writes.
Rejected(e) ==
  /\ step[e] = "read" /\ step' = [step EXCEPT ![e] = "idle"]
  /\ UNCHANGED <<which, present, file, tmp, cache, boot, edit, val, at, edits, alone, asked>>
-----------------------------------------------------------------------------
(* The write: open and truncate, write, os.replace. *)

\* _write_lock, held by a thread of the API process until it has replaced.
Unlocked(a) ==
  which = "flags" /\ a # Bot => \A b \in Actors \ {Bot, a} : step[b] \notin {"write", "replace"}

Open(a) ==
  /\ step[a] = "open" /\ Unlocked(a) /\ step' = [step EXCEPT ![a] = "write"]
  /\ tmp' = Empty /\ at' = [at EXCEPT ![a] = "tmp"]
  /\ UNCHANGED <<which, present, file, cache, boot, edit, val, edits, alone, asked>>

Write(a) ==
  /\ step[a] = "write" /\ step' = [step EXCEPT ![a] = "replace"]
  /\ tmp' = IF at[a] = "tmp" THEN val[a] ELSE tmp
  /\ file' = IF at[a] = "file" THEN val[a] ELSE file
  /\ UNCHANGED <<which, present, cache, boot, edit, val, at, edits, alone, asked>>

\* After the write: an editor that wrote the defaults goes on to its own edit; a
\* PUT goes on to the cache.
Then(a) ==
  IF a \in Editors /\ boot[a] THEN "read" ELSE IF which = "settings" THEN "clear" ELSE "idle"

Replace(a) ==
  /\ step[a] = "replace" /\ tmp # Absent
  /\ file' = tmp /\ tmp' = Absent
  /\ at' = [b \in Actors |-> IF b # a /\ at[b] = "tmp" THEN "file" ELSE IF at[b] = "file" \/ b = a THEN "gone" ELSE at[b]]
  /\ step' = [step EXCEPT ![a] = Then(a)] /\ boot' = [boot EXCEPT ![a] = FALSE]
  /\ asked' = IF boot[a] THEN asked ELSE [asked EXCEPT ![edit[a].field] = edit[a].value]
  /\ UNCHANGED <<which, present, cache, edit, val, edits, alone>>

\* Another process has taken the temporary file away.  _bootstrap ignores the
\* error, a request fails with it.
ReplaceFails(a) ==
  /\ step[a] = "replace" /\ tmp = Absent
  /\ step' = [step EXCEPT ![a] = IF a \in Editors /\ boot[a] THEN "read" ELSE "idle"]
  /\ boot' = [boot EXCEPT ![a] = FALSE] /\ at' = [at EXCEPT ![a] = "gone"]
  /\ UNCHANGED <<which, present, file, tmp, cache, edit, val, edits, alone, asked>>
-----------------------------------------------------------------------------
(* The cached settings. *)

\* Mutant of Cleared: the cache is not cleared.
ClearedNot == cache

\* clear_settings_cache.
Cleared == Absent

\* clear_settings_cache, after which the response is built from get_settings.
Clear(e) ==
  /\ step[e] = "clear" /\ cache' = Cleared
  /\ step' = [step EXCEPT ![e] = IF cache' = Absent THEN "load" ELSE "idle"]
  /\ UNCHANGED <<which, present, file, tmp, boot, edit, val, at, edits, alone, asked>>

\* The environment wins over the file, and the file over the defaults.
Effective(x) ==
  [f \in Fields |-> IF f \in DOMAIN Environment THEN Environment[f] ELSE Known(x)[f]]

\* Settings() raises on a value out of its range.
Loadable(x) == \A f \in Fields : Effective(x)[f] # OutOfRange

\* The settings are read outside the cache's lock, and kept unless another thread
\* has kept some meanwhile.
Load(a) ==
  /\ step[a] = "load" /\ Loadable(file) /\ step' = [step EXCEPT ![a] = "keep"]
  /\ val' = [val EXCEPT ![a] = Effective(file)]
  /\ UNCHANGED <<which, present, file, tmp, cache, boot, edit, at, edits, alone, asked>>

\* The request fails, a PUT after it has written the file; nothing is kept.
LoadFails(a) ==
  /\ step[a] = "load" /\ ~Loadable(file) /\ step' = [step EXCEPT ![a] = "idle"]
  /\ UNCHANGED <<which, present, file, tmp, cache, boot, edit, val, at, edits, alone, asked>>

Keep(a) ==
  /\ step[a] = "keep" /\ step' = [step EXCEPT ![a] = "idle"]
  /\ cache' = IF cache = Absent THEN val[a] ELSE cache
  /\ UNCHANGED <<which, present, file, tmp, boot, edit, val, at, edits, alone, asked>>

FileNext ==
  \/ \E v \in Viewers : ViewFlags(v) \/ ViewSettings(v)
  \/ \E e \in Editors : EditBegins(e) \/ Read(e) \/ Rejected(e) \/ Clear(e)
  \/ \E a \in Actors : Open(a) \/ Write(a) \/ Replace(a) \/ ReplaceFails(a)
                      \/ Load(a) \/ LoadFails(a) \/ Keep(a)
-----------------------------------------------------------------------------
(* Properties. *)

FileTypeOK ==
  /\ {file, tmp} \subseteq Contents \cup {Absent, Empty}
  /\ cache \in Contents \cup {Absent}
  /\ step \in [Actors -> {"idle", "read", "open", "write", "replace", "clear", "load", "keep"}]

\* When runtime.yaml was there from the start, what the bot reads in a cycle is
\* what the PATCHes so far asked for, field by field, and never a file half
\* written.
FlagsAsAsked == which = "flags" /\ present => file = asked

\* A PUT during which no other request ran changes the field it gives in the file
\* and no other.  It then answers with the settings this file and the environment
\* make, or fails because they are out of range.
LonePutIsSeen ==
  [][\A e \in Editors : which = "settings" /\ alone[e] =>
       /\ step[e] = "replace" /\ step'[e] = "clear" =>
            \A f \in Fields : file'[f] = IF f = edit[e].field THEN edit[e].value ELSE Known(file)[f]
       /\ step[e] \in {"clear", "load", "keep"} /\ step'[e] = "idle" =>
            cache' = Effective(file') \/ (cache' = Absent /\ ~Loadable(file'))]_fileVars
=============================================================================
