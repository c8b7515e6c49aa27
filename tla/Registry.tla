------------------------------ MODULE Registry ------------------------------
(***************************************************************************)
(* DeviceRegistry of server/auth.py: the device keys, from DEVICE_KEYS and *)
(* from a file that is read again when its mtime has changed.              *)
(*                                                                         *)
(* A lookup runs on the event loop of ingest and is not interrupted by     *)
(* other connections, but the file is edited by others at any moment: a    *)
(* step is one access to the file system.  Whoever saves the file gives it *)
(* the time of the clock as its mtime, whose resolution is the clock's     *)
(* unit.  A key is the number of the edit that wrote it; a key of          *)
(* DEVICE_KEYS is 0.                                                       *)
(***************************************************************************)
EXTENDS Integers

CONSTANTS
    Devices,    \* device ids
    Inline,     \* those with a key in DEVICE_KEYS
    Listings,   \* the sets of ids a file may list
    MaxEdits    \* bound: edits of the file

RegistryAssumption ==
    /\ Inline \subseteq Devices
    /\ Listings \subseteq SUBSET Devices
    /\ MaxEdits \in Nat

VARIABLES
    now,        \* the clock
    file,       \* what is in the file
    filetime,   \* its mtime
    edits,      \* edits so far
    keys,       \* _keys
    mtime,      \* _mtime, or Never
    step,       \* the next access to the file, or "idle" between lookups
    up,         \* has the process come through __init__?
    loaded,     \* ghost: has a reload gone through?
    history,    \* ghost: what the file has been when it parsed or was absent
    quiet,      \* ghost: no edit since the latest lookup or start began
    tied        \* ghost: edited since the latest read, with an equal mtime

fileVars == <<file, filetime, edits, history>>
cacheVars == <<keys, mtime, step, up, loaded>>
vars == <<now, fileVars, cacheVars, quiet, tied>>

Never == -1     \* no time of the clock

(* A file that parses, one that raises ValueError after the keys of `ids'  *)
(* are parsed, one that raises something else (no object, a key that is no *)
(* string), and no file.                                                   *)
Odd == [kind |-> "odd", ids |-> {}, edit |-> 0]
NoFile == [kind |-> "none", ids |-> {}, edit |-> 0]

Version(e) == [kind : {"good", "malformed"}, ids : Listings, edit : {e}] \union {Odd}
Contents == (UNION {Version(e) : e \in 0 .. MaxEdits}) \union {NoFile}

Parsing(c) == c.kind \in {"good", "none"}

(* The keys of DEVICE_KEYS, overridden by those of the file. *)
Merged(c) ==
    [d \in Inline \union c.ids |-> IF d \in c.ids THEN c.edit ELSE 0]

NoKeys == [d \in {} |-> 0]

\* variant: stat after the file has been read
StepAfterLate(s) ==
    CASE s = "exists" -> "read" [] s = "read" -> "stat" [] s = "stat" -> "idle"

(* The order of the accesses of reload(). *)
StepAfter(s) ==
    CASE s = "exists" -> "stat" [] s = "stat" -> "read" [] s = "read" -> "idle"

Init ==
    /\ now = 0
    /\ file \in Version(0) \union {NoFile}
    /\ filetime = 0
    /\ edits = 0
    /\ keys = NoKeys
    /\ mtime = Never
    /\ step = "exists"          \* __init__ ends with reload()
    /\ up = FALSE
    /\ loaded = FALSE
    /\ history = {c \in {file} : Parsing(c)}
    /\ quiet = TRUE
    /\ tied = FALSE

Tick ==
    /\ now' = now + 1
    /\ UNCHANGED <<fileVars, cacheVars, quiet, tied>>

-----------------------------------------------------------------------------
(* A save in place is two edits: half of the text, then all of it. *)
Edit(c) ==
    /\ edits < MaxEdits
    /\ edits' = edits + 1
    /\ file' = c
    /\ filetime' = now
    /\ history' = history \union {v \in {c} : Parsing(v)}
    /\ quiet' = FALSE
    /\ tied' = (tied \/ now = mtime)
    /\ UNCHANGED <<now, cacheVars>>

Save == \E c \in Version(edits + 1) : Edit(c)

Delete == file # NoFile /\ Edit(NoFile)

-----------------------------------------------------------------------------
Changed == file # NoFile /\ filetime # mtime

(* get() is called: maybe_reload() looks whether the file is there and its *)
(* mtime another one, and if not the lookup is over.                       *)
Look ==
    /\ step = "idle"
    /\ step' = IF Changed THEN "exists" ELSE "idle"
    /\ quiet' = TRUE
    /\ UNCHANGED <<now, fileVars, keys, mtime, up, loaded, tied>>

Advance(s) ==
    /\ step' = s
    /\ up' = (up \/ s = "idle")

(* reload() finds no file: only the keys of DEVICE_KEYS are left. *)
Absent ==
    /\ step = "exists"
    /\ file = NoFile
    /\ keys' = Merged(NoFile)
    /\ loaded' = TRUE
    /\ Advance("idle")
    /\ UNCHANGED <<now, fileVars, mtime, quiet, tied>>

Present ==
    /\ step = "exists"
    /\ file # NoFile
    /\ Advance(StepAfter(step))
    /\ UNCHANGED <<now, fileVars, keys, mtime, loaded, quiet, tied>>

Stat ==
    /\ step = "stat"
    /\ file # NoFile
    /\ mtime' = filetime
    /\ Advance(StepAfter(step))
    /\ UNCHANGED <<now, fileVars, keys, loaded, quiet, tied>>

\* variant: what is parsed of a malformed file is kept
ParsesPartly(c) == c.kind \in {"good", "malformed"}

Parses(c) == c.kind = "good"

Read ==
    /\ step = "read"
    /\ Parses(file)
    /\ keys' = Merged(file)
    /\ loaded' = TRUE
    /\ tied' = FALSE
    /\ Advance(StepAfter(step))
    /\ UNCHANGED <<now, fileVars, mtime, quiet>>

(* getmtime(), open() or the parser raises OSError or ValueError: the keys *)
(* stay as they are, at the start empty.                                   *)
KeepKeys ==
    /\ \/ step = "stat" /\ file = NoFile
       \/ step = "read" /\ file.kind \in {"none", "malformed"}
    /\ tied' = (tied /\ step = "stat")
    /\ Advance("idle")
    /\ UNCHANGED <<now, fileVars, keys, mtime, loaded, quiet>>

(* Any other exception ends the connection whose lookup it was; in         *)
(* __init__ it ends the process, which is started again.                   *)
Raise ==
    /\ step = "read"
    /\ file.kind = "odd"
    /\ Advance(IF up THEN "idle" ELSE "exists")
    /\ mtime' = IF up THEN mtime ELSE Never
    /\ tied' = FALSE
    /\ UNCHANGED <<now, fileVars, keys, loaded, quiet>>

Reload == Absent \/ Present \/ Stat \/ Read \/ KeepKeys \/ Raise

Next == Tick \/ Save \/ Delete \/ Look \/ Reload

Spec == Init /\ [][Next]_vars

-----------------------------------------------------------------------------
TypeOK ==
    /\ now \in Nat
    /\ file \in Contents
    /\ filetime \in Nat
    /\ edits \in 0 .. MaxEdits
    /\ \E D \in SUBSET Devices : keys \in [D -> 0 .. MaxEdits]
    /\ mtime \in Nat \union {Never}
    /\ step \in {"idle", "exists", "stat", "read"}
    /\ up \in BOOLEAN
    /\ loaded \in BOOLEAN
    /\ history \subseteq Contents
    /\ quiet \in BOOLEAN
    /\ tied \in BOOLEAN

(* The keys are always all of the keys of one version the file has had, or *)
(* of its absence, and none of a version that did not parse, however the   *)
(* file is edited between the accesses: a malformed edit takes no device's *)
(* key away.  Only until the first reload goes through there are none      *)
(* (auth.py:82-98).                                                        *)
Genuine ==
    \/ keys = NoKeys /\ ~loaded
    \/ \E c \in history : keys = Merged(c)

(* A lookup answers from the file as it is, if the file parses and was not *)
(* edited meanwhile; the exception is an edit so soon after a read that    *)
(* the file's mtime is still the same (auth.py:82-111).                    *)
KeysCurrent ==
    step = "idle" /\ quiet /\ ~tied /\ file.kind = "good"
        => keys = Merged(file)
=============================================================================
