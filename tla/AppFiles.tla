------------------------------ MODULE AppFiles ------------------------------
(* What one copy of the application keeps in its two files, and what crashes, *)
(* failed writes and unreadable files make of it. settings.json holds the     *)
(* saved connections, the OneKey library and the choices among its entries;   *)
(* session_state.enc holds which terminals were logged in, and is offered for *)
(* restoring after the next unlock.                                           *)
(*                                                                            *)
(* Every save reads the file, changes its part, writes a temporary file and   *)
(* renames it over the old one, all on the thread of the user interface: only *)
(* a crash or a failed write comes between its steps. The temporary file is   *)
(* never read, so it is a field of the save that writes it. There is one      *)
(* terminal per saved connection; the contents of entries and the settings    *)
(* that name none are left out.                                               *)
EXTENDS Naturals, FiniteSets

CONSTANTS
    Connections,    \* saved connections
    Keys,           \* entries of the OneKey library
    Missing,        \* a file that does not exist
    Torn,           \* a file that was written in part
    Nothing,        \* no save, no snapshot
    MaxStarts,      \* bound: runs of the application
    MaxFaults,      \* bound: how often a file becomes unreadable
    MaxChanges      \* bound: changes of settings by the user

ASSUME AppFilesAssumption ==
    /\ MaxStarts \in Nat \ {0} /\ {MaxFaults, MaxChanges} \subseteq Nat
    /\ Connections \cap Keys = {}

VARIABLES
    disk,           \* the two files
    health,         \* whether they can be read and understood
    writing,        \* the save in progress
    phase,          \* of the application: off, locked, ..., open
    memory,         \* AppState: connections, onekeys and onekey_preferences
    tab,            \* the terminal of each connection
    restore_pending,
    last_saved,     \* what the save loop wrote last
    starts, faults, changes,
    created,        \* entries that ever existed
    deleted,        \* entries the user deleted
    kept,           \* entries that were saved and that the user has not deleted
    letGo,          \* terminals of this run that the user closed or skipped
    forgiven        \* some failure was answered with defaults

vars == <<disk, health, writing, phase, memory, tab, restore_pending, last_saved,
          starts, faults, changes, created, deleted, kept, letGo, forgiven>>
fileVars == <<disk, health, faults, kept>>
history  == <<created, deleted, kept, letGo, forgiven>>

Files  == {"settings", "session"}
Ids    == 1..MaxStarts          \* step ids made in a run
Absent == MaxStarts + 1         \* no such key
Legacy == 0                     \* its steps have no id yet
KeyIds == 0..(MaxStarts + 1)

Contents == [conns : SUBSET Connections, keys : [Keys -> KeyIds],
             prefs : SUBSET (Keys \X Ids)]

\* The markers are no contents.
ASSUME MarkersAssumption ==
    \A m \in {Missing, Torn, Nothing} :
        m \notin Contents /\ \A s \in SUBSET Connections : s # m

default_config == [conns |-> {}, keys |-> [k \in Keys |-> Absent], prefs |-> {}]

KeysIn(f)  == {k \in Keys : f.keys[k] # Absent}
Entries(f) == IF f \in {Missing, Torn} THEN {} ELSE f.conns \cup KeysIn(f)
Sessions(f) == IF f \in {Missing, Torn} THEN {} ELSE f

\* The first start finds no files, or those of an older version.
FirstFiles ==
    \E old \in {Missing} \cup [conns : SUBSET Connections,
                               keys : [Keys -> {Absent, Legacy}], prefs : {{}}] :
        /\ disk = [settings |-> old, session |-> Missing]
        /\ created = Entries(old) /\ kept = Entries(old)

Init ==
    /\ FirstFiles
    /\ health = [f \in Files |-> "ok"]
    /\ writing = Nothing
    /\ phase = "off"
    /\ memory = default_config
    /\ tab = [c \in Connections |-> "none"]
    /\ restore_pending = Nothing /\ last_saved = Nothing
    /\ starts = 0 /\ faults = 0 /\ changes = 0
    /\ deleted = {} /\ letGo = {} /\ forgiven = FALSE

-----------------------------------------------------------------------------
(* The world around: files, crashes.                                       *)

\* A file cannot be read for a while, or holds what this version cannot parse.
Spoil(f) ==
    /\ disk[f] # Missing /\ health[f] = "ok" /\ faults < MaxFaults
    /\ \E h \in {"unreadable", "foreign"} : health' = [health EXCEPT ![f] = h]
    /\ faults' = faults + 1
    /\ UNCHANGED <<disk, writing, phase, memory, tab, restore_pending, last_saved,
                   starts, changes, history>>

Recover(f) ==
    /\ health' = [health EXCEPT ![f] = "ok"]
    /\ UNCHANGED <<disk, writing, phase, memory, tab, restore_pending, last_saved,
                   starts, faults, changes, history>>

Gone ==
    /\ phase' = "off" /\ writing' = Nothing
    /\ memory' = default_config
    /\ tab' = [c \in Connections |-> "none"]
    /\ restore_pending' = Nothing /\ last_saved' = Nothing

\* A crash, a kill, or a quit that closes no window.
Crash ==
    /\ phase # "off" /\ Gone
    /\ UNCHANGED <<fileVars, starts, changes, created, deleted, letGo, forgiven>>

Start ==
    /\ phase = "off" /\ starts < MaxStarts
    /\ phase' = "locked" /\ starts' = starts + 1 /\ letGo' = {}
    /\ UNCHANGED <<fileVars, writing, memory, tab, restore_pending, last_saved,
                   changes, created, deleted, forgiven>>

-----------------------------------------------------------------------------
(* A save: read the file, write the new one beside it, rename it.          *)

Understood(f) == disk[f] # Missing /\ health[f] = "ok"

\* A read that answers an error with the defaults.
Forgives(f) == disk[f] # Missing /\ health[f] # "ok"

read_persisted == IF Understood("settings") THEN disk["settings"] ELSE default_config

\* These answer it with an error of their own.
Strict == {"onekeys", "preferences", "templates"}

build_session_state == {c \in Connections : tab[c] = "connected"}

\* What the file is to hold.
NewContent(save, keys) ==
    CASE save = "connections" -> [read_persisted EXCEPT !.conns = memory.conns]
      [] save = "onekeys"     -> [read_persisted EXCEPT !.keys = keys]
      [] save = "preferences" -> [read_persisted EXCEPT !.prefs = memory.prefs]
      [] save = "session"     -> build_session_state
      [] OTHER                -> read_persisted

FileOf(save) == IF save = "session" THEN "session" ELSE "settings"

\* A save that begins, with the library to be saved and what its caller does when
\* it has ended.
Saves(save, keys, then) ==
    writing' = [save |-> save, keys |-> keys, then |-> then, content |-> Nothing,
                temp |-> Nothing]

Idle == writing = Nothing

\* Mutant: an empty snapshot is always written.
session_snapshot_writable_Always == TRUE

\* An empty snapshot is trusted only when no terminal is on its way.
session_snapshot_writable ==
    build_session_state # {} \/ \A c \in Connections : tab[c] \in {"none", "down"}

\* How the caller goes on. The sidebar is saved after the connections.
EndSave(ok) ==
    LET t == writing.then
    IN  IF t = "exit" THEN Gone /\ UNCHANGED forgiven
        ELSE /\ IF t = "sidebar" THEN Saves("appearance", memory.keys, "none")
                                 ELSE writing' = Nothing
             /\ memory' = CASE t = "migrate" /\ ~ok ->
                                 [memory EXCEPT !.keys = default_config.keys]
                            [] t = "adopt" /\ ok -> [memory EXCEPT !.keys = writing.keys]
                            [] OTHER -> memory
             /\ phase' = IF t = "migrate" THEN "loaded" ELSE phase
             /\ last_saved' = IF t = "tick" /\ ok THEN writing.content ELSE last_saved
             /\ forgiven' = (forgiven \/ (t = "migrate" /\ ~ok))
             /\ UNCHANGED <<tab, restore_pending>>

\* Mutant: the file itself is created anew.
ReadForSave_InPlace ==
    /\ ~Idle /\ writing.content = Nothing
    /\ writing.save \in Strict => ~Forgives("settings")
    /\ writing' = [writing EXCEPT !.content = NewContent(writing.save, writing.keys),
                                  !.temp = Torn]
    /\ disk' = [disk EXCEPT ![FileOf(writing.save)] = Torn]
    /\ forgiven' = (forgiven \/ (/\ writing.save \notin Strict \cup {"session"}
                                 /\ Forgives("settings")))
    /\ UNCHANGED <<health, faults, kept, phase, memory, tab, restore_pending, last_saved,
                   starts, changes, created, deleted, letGo>>

\* Mutant: every read answers an error with the defaults.
ReadForSave_Defaults ==
    /\ ~Idle /\ writing.content = Nothing
    /\ writing' = [writing EXCEPT !.content = NewContent(writing.save, writing.keys),
                                  !.temp = Torn]
    /\ forgiven' = (forgiven \/ (/\ writing.save \notin Strict \cup {"session"}
                                 /\ Forgives("settings")))
    /\ UNCHANGED <<fileVars, phase, memory, tab, restore_pending, last_saved, starts,
                   changes, created, deleted, letGo>>

\* The strict read refuses; the other one goes on with the defaults. The temporary
\* file is created.
ReadForSave ==
    /\ ~Idle /\ writing.content = Nothing
    /\ writing.save \in Strict => ~Forgives("settings")
    /\ writing' = [writing EXCEPT !.content = NewContent(writing.save, writing.keys),
                                  !.temp = Torn]
    /\ forgiven' = (forgiven \/ (/\ writing.save \notin Strict \cup {"session"}
                                 /\ Forgives("settings")))
    /\ UNCHANGED <<fileVars, phase, memory, tab, restore_pending, last_saved, starts,
                   changes, created, deleted, letGo>>

WriteTemp ==
    /\ ~Idle /\ writing.temp = Torn
    /\ writing' = [writing EXCEPT !.temp = writing.content]
    /\ UNCHANGED <<fileVars, phase, memory, tab, restore_pending, last_saved, starts,
                   changes, created, deleted, letGo, forgiven>>

Rename ==
    /\ ~Idle /\ writing.temp \notin {Nothing, Torn}
    /\ disk' = [disk EXCEPT ![FileOf(writing.save)] = writing.temp]
    /\ health' = [health EXCEPT ![FileOf(writing.save)] = "ok"]
    /\ kept' = IF writing.save = "session" THEN kept
               ELSE (kept \cup Entries(writing.temp)) \ deleted
    /\ EndSave(TRUE)
    /\ UNCHANGED <<starts, faults, changes, created, deleted, letGo>>

\* The strict read refuses, the disk is full, or the rename is refused.
SaveFails ==
    /\ ~Idle
    /\ EndSave(FALSE)
    /\ UNCHANGED <<fileVars, starts, changes, created, deleted, letGo>>

-----------------------------------------------------------------------------
(* Unlocking (MasterPasswordDialog::on_unlock).                            *)

\* The stored hash must be read, not understood: JSON of another version will do.
with_master_password ==
    /\ phase = "locked" /\ health["settings"] # "unreadable"
    /\ phase' = "checked"
    /\ UNCHANGED <<fileVars, writing, memory, tab, restore_pending, last_saved, starts,
                   changes, created, deleted, letGo, forgiven>>

\* Steps without an id get one.
Migrated(keys) == [k \in Keys |-> IF keys[k] = Legacy THEN starts ELSE keys[k]]

\* Mutant: the new ids are used and not saved.
LoadSettings_Unsaved ==
    /\ phase = "checked"
    /\ phase' = "loaded"
    /\ memory' = [read_persisted EXCEPT !.keys = Migrated(@)]
    /\ forgiven' = (forgiven \/ Forgives("settings"))
    /\ UNCHANGED <<fileVars, writing, tab, restore_pending, last_saved, starts, changes,
                   created, deleted, letGo>>

\* Each part that cannot be read is empty. A library that got new ids is saved
\* before it is used.
LoadSettings ==
    /\ phase = "checked"
    /\ memory' = [read_persisted EXCEPT !.keys = Migrated(@)]
    /\ IF memory'.keys # read_persisted.keys
       THEN phase' = "migrating" /\ Saves("onekeys", memory'.keys, "migrate")
       ELSE phase' = "loaded" /\ UNCHANGED writing
    /\ forgiven' = (forgiven \/ Forgives("settings"))
    /\ UNCHANGED <<fileVars, tab, restore_pending, last_saved, starts, changes, created, deleted,
                   letGo>>

startup_restore_candidate(snapshot) == IF snapshot = {} THEN Nothing ELSE snapshot

LoadSession ==
    /\ phase = "loaded"
    /\ phase' = "open"
    /\ restore_pending' = startup_restore_candidate(
                              IF Understood("session") THEN disk["session"] ELSE {})
    /\ forgiven' = (forgiven \/ Forgives("session"))
    /\ UNCHANGED <<fileVars, writing, memory, tab, last_saved, starts, changes, created, deleted,
                   letGo>>

-----------------------------------------------------------------------------
(* The user's changes. The restore dialog is modal, and so is the thread while *)
(* it saves.                                                                *)

Free == phase = "open" /\ Idle /\ restore_pending = Nothing

Change == Free /\ changes < MaxChanges /\ changes' = changes + 1

\* A new connection is saved, and opened.
AddConnection(c) ==
    /\ Change /\ c \notin created
    /\ created' = created \cup {c}
    /\ memory' = [memory EXCEPT !.conns = @ \cup {c}]
    /\ tab' = [tab EXCEPT ![c] = "connecting"]
    /\ Saves("connections", memory.keys, "none")
    /\ UNCHANGED <<fileVars, phase, restore_pending, last_saved, starts, deleted, letGo,
                   forgiven>>

\* Its terminal stays open. If it was hidden in the sidebar, that is saved too.
DeleteConnection(c) ==
    /\ Change /\ c \in memory.conns
    /\ memory' = [memory EXCEPT !.conns = @ \ {c}]
    /\ deleted' = deleted \cup {c} /\ kept' = kept \ {c}
    /\ \E then \in {"none", "sidebar"} : Saves("connections", memory.keys, then)
    /\ UNCHANGED <<disk, health, faults, phase, tab, restore_pending, last_saved, starts,
                   created, letGo, forgiven>>

\* The manager saves the library it shows; memory follows when that succeeded.
SaveLibrary(keys) ==
    /\ Change /\ keys # memory.keys
    /\ LET gone == {k \in Keys : keys[k] = Absent /\ memory.keys[k] # Absent}
           new  == {k \in Keys : keys[k] # Absent /\ memory.keys[k] = Absent}
       IN  /\ new \cap created = {}
           /\ \A k \in Keys : keys[k] \in {Absent, memory.keys[k], starts}
           /\ \A k \in Keys \ new : keys[k] \in {Absent, memory.keys[k]}
           /\ created' = created \cup new
           /\ deleted' = deleted \cup gone /\ kept' = kept \ gone
    /\ Saves("onekeys", keys, "adopt")
    /\ UNCHANGED <<disk, health, faults, phase, memory, tab, restore_pending, last_saved,
                   starts, letGo, forgiven>>

\* A credential saved from the prompt: memory has it whether it was saved or not.
on_onekey_save(k) ==
    /\ Change /\ k \notin created
    /\ created' = created \cup {k}
    /\ memory' = [memory EXCEPT !.keys[k] = starts]
    /\ Saves("onekeys", memory'.keys, "none")
    /\ UNCHANGED <<fileVars, phase, tab, restore_pending, last_saved, starts, deleted,
                   letGo, forgiven>>

\* The choice for a prompt is remembered, in place of the one before, or forgotten.
remember_onekey_preference(k) ==
    /\ Change /\ memory.keys[k] # Absent
    /\ memory' = [memory EXCEPT !.prefs = {<<k, memory.keys[k]>>}]
    /\ Saves("preferences", memory.keys, "none")
    /\ UNCHANGED <<fileVars, phase, tab, restore_pending, last_saved, starts, created,
                   deleted, letGo, forgiven>>

forget_onekey_preference ==
    /\ Change /\ memory.prefs # {}
    /\ memory' = [memory EXCEPT !.prefs = {}]
    /\ Saves("preferences", memory.keys, "none")
    /\ UNCHANGED <<fileVars, phase, tab, restore_pending, last_saved, starts, created,
                   deleted, letGo, forgiven>>

\* Any other setting: a strict saver's or a lenient one's.
SaveSetting ==
    /\ Change
    /\ \E save \in {"templates", "appearance"} : Saves(save, memory.keys, "none")
    /\ UNCHANGED <<fileVars, phase, memory, tab, restore_pending, last_saved, starts,
                   created, deleted, letGo, forgiven>>

-----------------------------------------------------------------------------
(* Terminals and their snapshot.                                           *)

otherVars == <<fileVars, writing, phase, memory, restore_pending, last_saved, starts,
             changes, created, deleted, forgiven>>

\* Opening a saved connection, or reconnecting its terminal.
open_connection(c) ==
    /\ Free
    /\ (tab[c] = "none" /\ c \in memory.conns) \/ tab[c] = "down"
    /\ tab' = [tab EXCEPT ![c] = "connecting"]
    /\ letGo' = letGo \ {c}
    /\ UNCHANGED otherVars

\* An attempt ends one way or the other; a connection is lost.
Settles(c) ==
    /\ phase = "open" /\ Idle
    /\ \/ tab[c] = "connecting" /\ tab' = [tab EXCEPT ![c] = "connected"]
       \/ tab[c] \in {"connecting", "connected"} /\ tab' = [tab EXCEPT ![c] = "down"]
    /\ UNCHANGED <<otherVars, letGo>>

close_session(c) ==
    /\ Free /\ tab[c] # "none"
    /\ tab' = [tab EXCEPT ![c] = "none"]
    /\ letGo' = letGo \cup {c}
    /\ UNCHANGED otherVars

\* Only connections that are still known are opened again.
restore_sessions ==
    /\ phase = "open" /\ Idle /\ restore_pending # Nothing
    /\ tab' = [c \in Connections |->
                 IF c \in restore_pending \cap memory.conns THEN "connecting" ELSE tab[c]]
    /\ restore_pending' = Nothing
    /\ UNCHANGED <<fileVars, writing, phase, memory, last_saved, starts, changes, created,
                   deleted, letGo, forgiven>>

Skip ==
    /\ phase = "open" /\ Idle /\ restore_pending # Nothing
    /\ letGo' = letGo \cup restore_pending
    /\ restore_pending' = Nothing
    /\ UNCHANGED <<fileVars, writing, phase, memory, tab, last_saved, starts, changes, created,
                   deleted, forgiven>>

SnapshotAllowed == phase = "open" /\ restore_pending = Nothing /\ session_snapshot_writable

\* The save loop writes what has changed since it last wrote.
SaveTick ==
    /\ Idle /\ SnapshotAllowed /\ build_session_state # last_saved
    /\ Saves("session", memory.keys, "tick")
    /\ UNCHANGED <<fileVars, phase, memory, tab, restore_pending, last_saved, starts,
                   changes, created, deleted, letGo, forgiven>>

\* The window is closed: the snapshot is saved on the way out.
CloseWindow ==
    /\ Idle /\ phase \in {"locked", "open"}
    /\ IF SnapshotAllowed
       THEN /\ Saves("session", memory.keys, "exit")
            /\ UNCHANGED <<phase, memory, tab, restore_pending, last_saved>>
       ELSE Gone
    /\ UNCHANGED <<fileVars, starts, changes, created, deleted, letGo, forgiven>>

-----------------------------------------------------------------------------
Next ==
    \/ \E f \in Files : Spoil(f) \/ Recover(f)
    \/ Crash \/ Start
    \/ ReadForSave \/ WriteTemp \/ Rename \/ SaveFails
    \/ with_master_password \/ LoadSettings \/ LoadSession
    \/ \E c \in Connections : \/ AddConnection(c) \/ DeleteConnection(c)
                              \/ open_connection(c) \/ Settles(c) \/ close_session(c)
    \/ \E keys \in [Keys -> KeyIds] : SaveLibrary(keys)
    \/ \E k \in Keys : on_onekey_save(k) \/ remember_onekey_preference(k)
    \/ forget_onekey_preference \/ SaveSetting
    \/ restore_sessions \/ Skip \/ SaveTick \/ CloseWindow

Spec == Init /\ [][Next]_vars

-----------------------------------------------------------------------------
IsSave(w) ==
    LET whole == IF w.save = "session" THEN SUBSET Connections ELSE Contents
    IN  /\ w.save \in {"connections", "onekeys", "preferences", "templates",
                      "appearance", "session"}
        /\ w.keys \in [Keys -> KeyIds]
        /\ w.then \in {"none", "migrate", "adopt", "sidebar", "tick", "exit"}
        /\ w.content = Nothing \/ w.content \in whole
        /\ w.temp \in {Nothing, Torn, w.content}

\* The types of the application's state; a file on disk is never torn.
TypeOK ==
    /\ disk["settings"] = Missing \/ disk["settings"] \in Contents
    /\ disk["session"] = Missing \/ disk["session"] \in SUBSET Connections
    /\ health \in [Files -> {"ok", "unreadable", "foreign"}]
    /\ Idle \/ IsSave(writing)
    /\ phase \in {"off", "locked", "checked", "migrating", "loaded", "open"}
    /\ memory \in Contents
    /\ tab \in [Connections -> {"none", "connecting", "connected", "down"}]
    /\ \A s \in {restore_pending, last_saved} : s = Nothing \/ s \in SUBSET Connections
    /\ starts \in 0..MaxStarts /\ faults \in 0..MaxFaults /\ changes \in 0..MaxChanges
    /\ created \cup deleted \cup kept \subseteq Connections \cup Keys
    /\ letGo \subseteq Connections /\ forgiven \in BOOLEAN

\* What was saved stays in the file until the user deletes it, through crashes,
\* failed writes and unreadable files, unless a failure was answered with defaults:
\* the strict read "must not turn a temporarily unreadable or malformed existing
\* file into defaults and overwrite the user's connections/credentials".
NothingIsLost == ~forgiven => kept \subseteq Entries(disk["settings"])

\* A remembered choice finds its entry by the ids in the file: ids given to old
\* entries are saved before they are used, since otherwise "a restart would
\* generate different IDs and make the new preference dangle" (load_onekeys).
PreferencesResolve ==
    disk["settings"] # Missing /\ ~forgiven =>
        \A p \in disk["settings"].prefs :
            p[1] \in kept => disk["settings"].keys[p[1]] = p[2]

\* A terminal that was logged in leaves the snapshot only when its connection has
\* ended or the user let it go, or when other terminals are logged in: an empty
\* snapshot never overwrites sessions nobody has decided about, across crashes,
\* restarts and reconnects (session_snapshot_writable, save_session_state_snapshot).
SessionsRemembered ==
    [][ ~forgiven' =>
          \A c \in kept \cap (Sessions(disk["session"]) \ Sessions(disk'["session"])) :
              c \in letGo \/ tab[c] = "down" \/ Sessions(disk'["session"]) # {} ]_vars
=============================================================================
