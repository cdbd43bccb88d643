---------------------------- MODULE AppFilesProofs ----------------------------
(***************************************************************************)
(* Proofs about AppFiles, for any connections, entries, numbers of runs,   *)
(* faults and changes.                                                     *)
(*                                                                         *)
(* What is kept is what the file holds and the user has not deleted. For   *)
(* a save to keep it, what the application has in memory must hold all of  *)
(* it too, and what is being written must be the file as it is with one    *)
(* part of memory in it.                                                   *)
(***************************************************************************)
EXTENDS AppFiles, TLAPS

Phases  == {"off", "locked", "checked", "migrating", "loaded", "open"}
TabStates == {"none", "connecting", "connected", "down"}
Loaded  == phase \in {"migrating", "loaded", "open"}

\* The types, in groups that steps change together.
DiskType ==
    /\ disk = [f \in Files |-> disk[f]]
    /\ disk["settings"] = Missing \/ disk["settings"] \in Contents
    /\ disk["session"] = Missing \/ disk["session"] \in SUBSET Connections
    /\ health \in [Files -> {"ok", "unreadable", "foreign"}]

MemoryType == memory \in Contents /\ \A k \in Keys : memory.keys[k] # Legacy

SaveType ==
    ~Idle =>
        /\ writing = [save |-> writing.save, keys |-> writing.keys, then |-> writing.then,
                      content |-> writing.content, temp |-> writing.temp]
        /\ IsSave(writing)
        /\ phase \in {"migrating", "open"}
        /\ writing.then \in {"migrate", "adopt"} => writing.save = "onekeys"
        /\ writing.then = "sidebar" => writing.save = "connections"
        /\ writing.then \in {"tick", "exit"} <=> writing.save = "session"
        /\ \A k \in Keys : writing.keys[k] # Legacy

ScreenType ==
    /\ phase \in Phases /\ tab \in [Connections -> TabStates]
    /\ restore_pending = Nothing \/ restore_pending \in SUBSET Connections
    /\ last_saved = Nothing \/ last_saved \in SUBSET Connections
    /\ phase # "off" => starts # 0

HistoryType ==
    /\ starts \in 0..MaxStarts /\ faults \in 0..MaxFaults /\ changes \in 0..MaxChanges
    /\ created \subseteq Connections \cup Keys /\ deleted \subseteq Connections \cup Keys
    /\ kept \subseteq Connections \cup Keys
    /\ letGo \subseteq Connections

Types ==
    DiskType /\ MemoryType /\ SaveType /\ ScreenType /\ HistoryType /\ forgiven \in BOOLEAN

\* The file, as a read that succeeds sees it.
Base == IF disk["settings"] = Missing THEN default_config ELSE disk["settings"]

KeysOf(keys) == {k \in Keys : keys[k] # Absent}
Held(f) == f.conns \cup KeysIn(f)

\* Each choice names an entry that has the id it names, or will never have one again.
Agree(prefs, keys, made, gone) ==
    \A p \in prefs : p[1] \in made /\ (p[1] \in gone \/ keys[p[1]] \in {p[2], Absent})
Agrees(prefs, keys) == Agree(prefs, keys, created, deleted)

FileOK ==
    /\ kept = Held(Base) \ deleted
    /\ Held(Base) \subseteq created
    /\ Agrees(Base.prefs, Base.keys)

MemoryOK ==
    Loaded =>
        /\ Held(memory) \subseteq created
        /\ kept \subseteq Held(memory)
        /\ Agrees(memory.prefs, memory.keys) /\ Agrees(memory.prefs, Base.keys)
        /\ Agrees(Base.prefs, memory.keys)
        /\ phase # "migrating" =>
             \A k \in Keys \ deleted : Base.keys[k] \in {memory.keys[k], Absent}

\* What the file becomes.
Planned(save, keys) ==
    CASE save = "connections" -> [Base EXCEPT !.conns = memory.conns]
      [] save = "onekeys"     -> [Base EXCEPT !.keys = keys]
      [] save = "preferences" -> [Base EXCEPT !.prefs = memory.prefs]
      [] OTHER                -> Base

\* A library about to be saved has all that is kept, and agrees with every choice.
LibraryOK(keys) ==
    /\ KeysOf(keys) \subseteq created /\ kept \cap Keys \subseteq KeysOf(keys)
    /\ Agrees(memory.prefs, keys) /\ Agrees(Base.prefs, keys)

SaveOK ==
    ~Idle =>
        /\ writing.save = "onekeys" =>
             LibraryOK(writing.keys) /\ (writing.then # "adopt" => writing.keys = memory.keys)
        /\ writing.save # "session" /\ writing.content # Nothing =>
             writing.content = Planned(writing.save, writing.keys)

\* A terminal of the snapshot is offered for restoring until it is decided about.
SessionOK ==
    /\ phase = "open" =>
         IF restore_pending = Nothing
         THEN \A c \in memory.conns \cap Sessions(disk["session"]) :
                tab[c] # "none" \/ c \in letGo
         ELSE Sessions(disk["session"]) \subseteq restore_pending
    /\ ~Idle /\ writing.save = "session" =>
         /\ phase = "open" /\ restore_pending = Nothing /\ session_snapshot_writable
         /\ writing.content # Nothing => writing.content = build_session_state

Good == FileOK /\ MemoryOK /\ SaveOK /\ SessionOK
FilesInv == ~forgiven => Good

IInv == Types /\ FilesInv

-----------------------------------------------------------------------------
(* Contents of the file.                                                   *)

LEMMA TypesFollow == Types => TypeOK
BY DEF Types, DiskType, MemoryType, SaveType, ScreenType, HistoryType, TypeOK, Phases, TabStates

\* Legacy, the ids of a run and Absent are three different things.
LEMMA Numbering ==
    /\ Absent \in KeyIds /\ Absent # Legacy
    /\ \A n \in Ids : n \in KeyIds /\ n # Legacy /\ n # Absent
    /\ \A n \in KeyIds : n \in Ids \/ n = Legacy \/ n = Absent
    /\ \A n \in 0..MaxStarts : n # 0 => n \in Ids
BY AppFilesAssumption DEF Ids, KeyIds, Absent, Legacy

LEMMA Defaults ==
    /\ default_config \in Contents
    /\ default_config.conns = {} /\ default_config.prefs = {}
    /\ \A k \in Keys : default_config.keys[k] = Absent
    /\ Held(default_config) = {}
BY Numbering DEF default_config, Contents, Held, KeysIn

\* One field of a file is replaced.
LEMMA Fields ==
    ASSUME NEW f \in Contents
    PROVE  /\ f.conns \in SUBSET Connections /\ f.keys \in [Keys -> KeyIds]
           /\ f.prefs \in SUBSET (Keys \X Ids)
           /\ KeysIn(f) = KeysOf(f.keys) /\ Held(f) \subseteq Connections \cup Keys
           /\ Entries(f) = Held(f) /\ f # Missing /\ f # Torn /\ f # Nothing
BY MarkersAssumption DEF Contents, KeysIn, KeysOf, Held, Entries

LEMMA Replaced ==
    ASSUME NEW f \in Contents, NEW cs \in SUBSET Connections, NEW ks \in [Keys -> KeyIds],
           NEW ps \in SUBSET (Keys \X Ids)
    PROVE  /\ [f EXCEPT !.conns = cs] \in Contents /\ [f EXCEPT !.keys = ks] \in Contents
           /\ [f EXCEPT !.prefs = ps] \in Contents
           /\ [f EXCEPT !.conns = cs].conns = cs /\ [f EXCEPT !.conns = cs].keys = f.keys
           /\ [f EXCEPT !.conns = cs].prefs = f.prefs
           /\ [f EXCEPT !.keys = ks].conns = f.conns /\ [f EXCEPT !.keys = ks].keys = ks
           /\ [f EXCEPT !.keys = ks].prefs = f.prefs
           /\ [f EXCEPT !.prefs = ps].conns = f.conns /\ [f EXCEPT !.prefs = ps].keys = f.keys
           /\ [f EXCEPT !.prefs = ps].prefs = ps
BY DEF Contents

LEMMA BaseIsFile ==
    ASSUME DiskType
    PROVE  /\ Base \in Contents /\ read_persisted \in Contents
           /\ (~Forgives("settings") => read_persisted = Base)
           /\ Entries(disk["settings"]) = Held(Base)
<1>1. Base \in Contents /\ read_persisted \in Contents
    BY Defaults DEF DiskType, Base, read_persisted, Understood
<1>2. ~Forgives("settings") => read_persisted = Base
    BY DEF Base, read_persisted, Forgives, Understood
<1>3. Entries(disk["settings"]) = Held(Base)
    BY Defaults, Fields DEF DiskType, Base, Entries
<1>4. QED
    BY <1>1, <1>2, <1>3

\* What the user adds or deletes leaves choices and entries in agreement.
LEMMA AgreeLater ==
    ASSUME NEW prefs, NEW keys, NEW made, NEW gone, Agree(prefs, keys, made, gone),
           NEW made2, made \subseteq made2, NEW gone2, gone \subseteq gone2
    PROVE  Agree(prefs, keys, made2, gone2)
BY DEF Agree

-----------------------------------------------------------------------------
(* Types.                                                                  *)

LEMMA Frames ==
    /\ DiskType /\ UNCHANGED <<disk, health>> => DiskType'
    /\ MemoryType /\ UNCHANGED memory => MemoryType'
    /\ SaveType /\ UNCHANGED <<writing, phase>> => SaveType'
    /\ ScreenType /\ UNCHANGED <<phase, tab, restore_pending, last_saved, starts>> => ScreenType'
    /\ HistoryType /\ UNCHANGED <<starts, faults, changes, created, deleted, kept, letGo>>
         => HistoryType'
<1>1. DiskType /\ UNCHANGED <<disk, health>> => DiskType'
    BY DEF DiskType
<1>2. MemoryType /\ UNCHANGED memory => MemoryType'
    BY DEF MemoryType
<1>3. SaveType /\ UNCHANGED <<writing, phase>> => SaveType'
    BY DEF SaveType, Idle
<1>4. ScreenType /\ UNCHANGED <<phase, tab, restore_pending, last_saved, starts>> => ScreenType'
    BY DEF ScreenType
<1>5. HistoryType /\ UNCHANGED <<starts, faults, changes, created, deleted, kept, letGo>>
         => HistoryType'
    BY DEF HistoryType
<1>6. QED
    BY <1>1, <1>2, <1>3, <1>4, <1>5

SaveNames == {"connections", "onekeys", "preferences", "templates", "appearance", "session"}
Callers == {"none", "migrate", "adopt", "sidebar", "tick", "exit"}

\* Which saves have which callers.
Fitting(save, then) ==
    /\ then \in {"migrate", "adopt"} => save = "onekeys"
    /\ then = "sidebar" => save = "connections"
    /\ then \in {"tick", "exit"} <=> save = "session"

LEMMA Begins ==
    ASSUME NEW save, NEW keys, NEW then, Saves(save, keys, then)
    PROVE  /\ writing'.save = save /\ writing'.keys = keys /\ writing'.then = then
           /\ writing'.content = Nothing /\ writing'.temp = Nothing
BY DEF Saves

LEMMA SaveBegins ==
    ASSUME NEW save \in SaveNames, NEW then \in Callers, Fitting(save, then),
           NEW keys \in [Keys -> KeyIds], \A k \in Keys : keys[k] # Legacy,
           phase' \in {"migrating", "open"}, Saves(save, keys, then)
    PROVE  SaveType'
<1>1. /\ writing'.save = save /\ writing'.keys = keys /\ writing'.then = then
      /\ writing'.content = Nothing /\ writing'.temp = Nothing
    BY Begins
<1>2. IsSave(writing')
    BY <1>1 DEF IsSave, SaveNames, Callers
<1>3. writing' = [save |-> save, keys |-> keys, then |-> then, content |-> Nothing,
                  temp |-> Nothing]
    BY DEF Saves
<1>4. QED
    BY <1>1, <1>2, <1>3 DEF SaveType, Fitting

\* The library in memory is one that can be saved.
LEMMA MemoryKeys ==
    ASSUME MemoryType
    PROVE  memory.keys \in [Keys -> KeyIds] /\ \A k \in Keys : memory.keys[k] # Legacy
BY DEF MemoryType, Contents

LEMMA GoneTypes ==
    ASSUME Gone
    PROVE  MemoryType' /\ SaveType' /\ ScreenType'
<1>1. MemoryType'
    BY Defaults, Numbering DEF Gone, MemoryType
<1>2. SaveType'
    BY DEF Gone, SaveType, Idle
<1>3. ScreenType'
    BY DEF Gone, ScreenType, Phases, TabStates
<1>4. QED
    BY <1>1, <1>2, <1>3

LEMMA WorldTypes ==
    ASSUME Types, (\E f \in Files : Spoil(f) \/ Recover(f)) \/ Crash \/ Start
    PROVE  Types'
<1>1. CASE \E f \in Files : Spoil(f) \/ Recover(f)
    <2>1. DiskType'
        BY <1>1 DEF Types, Spoil, Recover, DiskType
    <2>2. HistoryType' /\ forgiven' \in BOOLEAN
        BY <1>1, AppFilesAssumption DEF Types, HistoryType, Spoil, Recover, history
    <2>3. MemoryType' /\ SaveType' /\ ScreenType'
        BY <1>1, Frames DEF Types, Spoil, Recover
    <2>4. QED
        BY <2>1, <2>2, <2>3 DEF Types
<1>2. CASE Crash
    <2>1. DiskType' /\ HistoryType' /\ forgiven' \in BOOLEAN
        BY <1>2, Frames DEF Types, Crash, fileVars
    <2>2. QED
        BY <1>2, <2>1, GoneTypes DEF Types, Crash
<1>3. CASE Start
    <2>1. DiskType' /\ MemoryType' /\ forgiven' \in BOOLEAN
        BY <1>3, Frames DEF Types, Start, fileVars
    <2>2. SaveType'
        BY <1>3 DEF Types, Start, SaveType, Idle
    <2>3. ScreenType'
        BY <1>3 DEF Types, Start, ScreenType, Phases, HistoryType
    <2>4. HistoryType'
        BY <1>3, AppFilesAssumption DEF Types, Start, HistoryType, fileVars
    <2>5. QED
        BY <2>1, <2>2, <2>3, <2>4 DEF Types
<1>4. QED
    BY <1>1, <1>2, <1>3

Whole(save) == IF save = "session" THEN SUBSET Connections ELSE Contents

LEMMA ContentType ==
    ASSUME Types, NEW save \in SaveNames, NEW keys \in [Keys -> KeyIds]
    PROVE  NewContent(save, keys) \in Whole(save)
<1> DEFINE p == read_persisted
<1>1. p \in Contents
    BY BaseIsFile DEF Types
<1>2. memory \in Contents
    BY DEF Types, MemoryType
<1>3. memory.conns \in SUBSET Connections /\ memory.prefs \in SUBSET (Keys \X Ids)
    BY <1>2, Fields
<1> HIDE DEF p
<1>4. /\ [p EXCEPT !.conns = memory.conns] \in Contents /\ [p EXCEPT !.keys = keys] \in Contents
      /\ [p EXCEPT !.prefs = memory.prefs] \in Contents
    BY <1>1, <1>2, <1>3 DEF Contents
<1>5. build_session_state \in SUBSET Connections
    BY DEF build_session_state
<1>6. QED
    BY <1>1, <1>4, <1>5 DEF NewContent, Whole, SaveNames, p

\* What is known of a save in progress.
LEMMA Saving ==
    ASSUME Types, ~Idle
    PROVE  /\ writing.save \in SaveNames /\ writing.then \in Callers
           /\ writing.keys \in [Keys -> KeyIds] /\ \A k \in Keys : writing.keys[k] # Legacy
           /\ writing.content = Nothing \/ writing.content \in Whole(writing.save)
           /\ writing.temp \in {Nothing, Torn, writing.content}
           /\ Fitting(writing.save, writing.then) /\ phase \in {"migrating", "open"}
BY DEF Types, SaveType, IsSave, SaveNames, Callers, Fitting, Whole

\* The new content is made, or written beside the file.
LEMMA SaveGoesOn ==
    ASSUME Types, ~Idle, UNCHANGED phase, NEW x \in Whole(writing.save) \cup {Nothing},
           NEW t \in {Nothing, Torn, x},
           writing' = [writing EXCEPT !.content = x, !.temp = t]
    PROVE  /\ SaveType'
           /\ writing'.save = writing.save /\ writing'.keys = writing.keys
           /\ writing'.then = writing.then /\ writing'.content = x /\ writing'.temp = t
<1>1. writing = [save |-> writing.save, keys |-> writing.keys, then |-> writing.then,
                 content |-> writing.content, temp |-> writing.temp]
    BY DEF Types, SaveType
<1>2. writing' = [save |-> writing.save, keys |-> writing.keys, then |-> writing.then,
                  content |-> x, temp |-> t]
    BY <1>1
<1>3. /\ writing'.save = writing.save /\ writing'.keys = writing.keys
      /\ writing'.then = writing.then /\ writing'.content = x /\ writing'.temp = t
    BY <1>2
<1>4. IsSave(writing')
    BY <1>3, Saving DEF IsSave, SaveNames, Callers, Whole
<1>5. SaveType'
    BY <1>2, <1>3, <1>4, Saving DEF SaveType, Fitting
<1>6. QED
    BY <1>3, <1>5

LEMMA WritingTypes ==
    ASSUME Types, ReadForSave \/ WriteTemp
    PROVE  Types'
<1>1. DiskType' /\ MemoryType' /\ ScreenType' /\ HistoryType'
    <2>1. UNCHANGED <<disk, health, memory, phase, tab, restore_pending, last_saved, starts,
                      faults, changes, created, deleted, kept, letGo>>
        BY DEF ReadForSave, WriteTemp, fileVars
    <2>2. QED
        BY <2>1, Frames DEF Types
<1>2. forgiven' \in BOOLEAN
    BY DEF ReadForSave, WriteTemp, Types
<1>3. ~Idle /\ UNCHANGED phase
    BY DEF ReadForSave, WriteTemp
<1>4. SaveType'
    <2>1. CASE ReadForSave
        <3> DEFINE x == NewContent(writing.save, writing.keys)
        <3>1. x \in Whole(writing.save)
            BY <1>3, Saving, ContentType
        <3>2. writing' = [writing EXCEPT !.content = x, !.temp = Torn]
            BY <2>1 DEF ReadForSave
        <3> HIDE DEF x
        <3>3. QED
            BY <1>3, <3>1, <3>2, SaveGoesOn
    <2>2. CASE WriteTemp
        <3>1. writing' = [writing EXCEPT !.content = writing.content, !.temp = writing.content]
            BY <1>3, <2>2 DEF WriteTemp, Types, SaveType
        <3>2. QED
            BY <1>3, <3>1, Saving, SaveGoesOn
    <2>3. QED
        BY <2>1, <2>2
<1>5. QED
    BY <1>1, <1>2, <1>4 DEF Types

\* How a save ends that is not the last one.
LEMMA Ended ==
    ASSUME Types, ~Idle, NEW ok \in BOOLEAN, EndSave(ok), writing.then # "exit"
    PROVE  /\ memory' = CASE writing.then = "migrate" /\ ~ok ->
                                [memory EXCEPT !.keys = default_config.keys]
                           [] writing.then = "adopt" /\ ok ->
                                [memory EXCEPT !.keys = writing.keys]
                           [] OTHER -> memory
           /\ phase' = IF writing.then = "migrate" THEN "loaded" ELSE phase
           /\ last_saved' = IF writing.then = "tick" /\ ok THEN writing.content ELSE last_saved
           /\ forgiven' = (forgiven \/ (writing.then = "migrate" /\ ~ok))
           /\ UNCHANGED <<tab, restore_pending>>
           /\ IF writing.then = "sidebar" THEN Saves("appearance", memory.keys, "none")
                                          ELSE writing' = Nothing
BY DEF EndSave

LEMMA EndSaveTypes ==
    ASSUME Types, ~Idle, NEW ok \in BOOLEAN, EndSave(ok), ok => writing.content # Nothing,
           UNCHANGED starts
    PROVE  MemoryType' /\ SaveType' /\ ScreenType' /\ forgiven' \in BOOLEAN
<1>1. CASE writing.then = "exit"
    <2>1. Gone /\ forgiven' = forgiven
        BY <1>1 DEF EndSave
    <2>2. QED
        BY <2>1, GoneTypes DEF Types
<1>2. CASE writing.then # "exit"
    <2>0. /\ memory \in Contents /\ \A k \in Keys : memory.keys[k] # Legacy
          /\ default_config.keys \in [Keys -> KeyIds]
          /\ \A k \in Keys : default_config.keys[k] # Legacy
        BY Defaults, Fields, Numbering DEF Types, MemoryType
    <2>1. MemoryType'
        <3>1. CASE memory' = memory
            BY <2>0, <3>1 DEF MemoryType
        <3>2. CASE memory' = [memory EXCEPT !.keys = default_config.keys]
            BY <2>0, <3>2 DEF MemoryType, Contents
        <3>3. CASE memory' = [memory EXCEPT !.keys = writing.keys]
            BY <2>0, <3>3, Saving DEF MemoryType, Contents
        <3>4. QED
            BY <1>2, <3>1, <3>2, <3>3, Ended
    <2>2. SaveType'
        <3>1. CASE writing.then = "sidebar"
            <4>1. Saves("appearance", memory.keys, "none") /\ phase' \in {"migrating", "open"}
                BY <1>2, <3>1, Ended, Saving
            <4>2. Fitting("appearance", "none") /\ memory.keys \in [Keys -> KeyIds]
                BY <2>0, Fields DEF Fitting
            <4>3. QED
                BY <2>0, <4>1, <4>2, SaveBegins DEF SaveNames, Callers
        <3>2. CASE writing.then # "sidebar"
            BY <1>2, <3>2, Ended DEF SaveType, Idle
        <3>3. QED
            BY <3>1, <3>2
    <2>3. last_saved' = Nothing \/ last_saved' \in SUBSET Connections
        <3>1. CASE writing.then = "tick" /\ ok
            BY <1>2, <3>1, Ended, Saving DEF Fitting, Whole
        <3>2. CASE ~(writing.then = "tick" /\ ok)
            BY <1>2, <3>2, Ended DEF Types, ScreenType
        <3>3. QED
            BY <3>1, <3>2
    <2>4. phase' \in Phases \ {"off"} /\ phase # "off"
        BY <1>2, Ended, Saving DEF Phases
    <2>5. ScreenType'
        BY <1>2, <2>3, <2>4, Ended DEF Types, ScreenType
    <2>6. forgiven' \in BOOLEAN
        BY <1>2, Ended DEF Types
    <2>7. QED
        BY <2>1, <2>2, <2>5, <2>6
<1>3. QED
    BY <1>1, <1>2

\* What is renamed over the file is the whole of it.
LEMMA Renamed ==
    ASSUME Types, Rename
    PROVE  /\ ~Idle /\ writing.content \in Whole(writing.save) /\ writing.content # Nothing
           /\ writing.temp = writing.content /\ EndSave(TRUE)
           /\ disk' = [disk EXCEPT ![FileOf(writing.save)] = writing.content]
           /\ FileOf(writing.save) \in Files
           /\ UNCHANGED <<starts, faults, changes, created, deleted, letGo>>
BY Saving DEF Rename, FileOf, Files

LEMMA EndingTypes ==
    ASSUME Types, Rename \/ SaveFails
    PROVE  Types'
<1>1. CASE Rename
    <2>1. MemoryType' /\ SaveType' /\ ScreenType' /\ forgiven' \in BOOLEAN
        BY <1>1, Renamed, EndSaveTypes
    <2>2. DiskType'
        <3>1. health' \in [Files -> {"ok", "unreadable", "foreign"}]
            BY <1>1, Renamed DEF Types, DiskType, Rename
        <3>2. disk' = [disk EXCEPT ![FileOf(writing.save)] = writing.content]
              /\ disk = [f \in Files |-> disk[f]]
            BY <1>1, Renamed DEF Types, DiskType
        <3>3. disk' = [f \in Files |-> disk'[f]]
            BY <3>2
        <3>4. disk'["settings"] = Missing \/ disk'["settings"] \in Contents
            BY <1>1, <3>2, Renamed DEF Types, DiskType, Whole, FileOf, Files
        <3>5. disk'["session"] = Missing \/ disk'["session"] \in SUBSET Connections
            BY <1>1, <3>2, Renamed DEF Types, DiskType, Whole, FileOf, Files
        <3>6. QED
            BY <3>1, <3>3, <3>4, <3>5 DEF DiskType
    <2>3. HistoryType'
        <3>1. kept' \subseteq Connections \cup Keys
            <4>1. CASE writing.save = "session"
                BY <1>1, <4>1 DEF Rename, Types, HistoryType
            <4>2. CASE writing.save # "session"
                <5>1. Entries(writing.content) \subseteq Connections \cup Keys
                    BY <1>1, <4>2, Renamed, Fields DEF Whole
                <5>2. QED
                    BY <1>1, <4>2, <5>1, Renamed DEF Rename, Types, HistoryType
            <4>3. QED
                BY <4>1, <4>2
        <3>2. QED
            BY <1>1, <3>1, Renamed DEF Types, HistoryType, Rename
    <2>4. QED
        BY <2>1, <2>2, <2>3 DEF Types
<1>2. CASE SaveFails
    <2>1. ~Idle /\ EndSave(FALSE) /\ UNCHANGED starts
        BY <1>2 DEF SaveFails
    <2>2. MemoryType' /\ SaveType' /\ ScreenType' /\ forgiven' \in BOOLEAN
        BY <2>1, EndSaveTypes
    <2>3. DiskType' /\ HistoryType'
        BY <1>2, Frames DEF Types, SaveFails, fileVars
    <2>4. QED
        BY <2>2, <2>3 DEF Types
<1>3. QED
    BY <1>1, <1>2

\* The id of an old entry's steps is one of this run.
LEMMA MigratedKeys ==
    ASSUME NEW keys \in [Keys -> KeyIds], starts \in Ids
    PROVE  /\ Migrated(keys) \in [Keys -> KeyIds]
           /\ \A k \in Keys : Migrated(keys)[k] # Legacy
           /\ \A k \in Keys : keys[k] # Legacy => Migrated(keys)[k] = keys[k]
           /\ KeysOf(Migrated(keys)) = KeysOf(keys)
<1>1. starts \in KeyIds /\ starts # Legacy /\ starts # Absent /\ Absent # Legacy
    BY Numbering
<1>2. /\ Migrated(keys) \in [Keys -> KeyIds]
      /\ \A k \in Keys : Migrated(keys)[k] = IF keys[k] = Legacy THEN starts ELSE keys[k]
    BY <1>1 DEF Migrated
<1>3. QED
    BY <1>1, <1>2 DEF KeysOf

LEMMA StartsIsId ==
    ASSUME Types, phase # "off"
    PROVE  starts \in Ids
BY Numbering DEF Types, ScreenType, HistoryType

LEMMA UnlockTypes ==
    ASSUME Types, with_master_password \/ LoadSettings \/ LoadSession
    PROVE  Types'
<1>1. CASE with_master_password
    <2>1. DiskType' /\ MemoryType' /\ HistoryType' /\ forgiven' \in BOOLEAN
        BY <1>1, Frames DEF Types, with_master_password, fileVars
    <2>2. SaveType'
        BY <1>1 DEF Types, with_master_password, SaveType, Idle
    <2>3. ScreenType'
        BY <1>1 DEF Types, with_master_password, ScreenType, Phases
    <2>4. QED
        BY <2>1, <2>2, <2>3 DEF Types
<1>2. CASE LoadSettings
    <2>1. DiskType' /\ HistoryType'
        BY <1>2, Frames DEF Types, LoadSettings, fileVars
    <2>2. forgiven' \in BOOLEAN
        BY <1>2 DEF Types, LoadSettings
    <2>3. read_persisted \in Contents /\ read_persisted.keys \in [Keys -> KeyIds]
        BY BaseIsFile, Fields DEF Types
    <2>4. starts \in Ids /\ phase = "checked"
        BY <1>2, StartsIsId DEF LoadSettings
    <2>5. /\ Migrated(read_persisted.keys) \in [Keys -> KeyIds]
          /\ \A k \in Keys : Migrated(read_persisted.keys)[k] # Legacy
        BY <2>3, <2>4, MigratedKeys
    <2>6. memory' = [read_persisted EXCEPT !.keys = Migrated(read_persisted.keys)]
        BY <1>2 DEF LoadSettings
    <2>7. MemoryType' /\ memory'.keys = Migrated(read_persisted.keys)
        BY <2>3, <2>5, <2>6 DEF MemoryType, Contents
    <2>8. SaveType'
        <3>1. CASE phase' = "migrating" /\ Saves("onekeys", memory'.keys, "migrate")
            <4>1. Fitting("onekeys", "migrate")
                BY DEF Fitting
            <4>2. QED
                BY <2>5, <2>7, <3>1, <4>1, SaveBegins DEF SaveNames, Callers
        <3>2. CASE phase' = "loaded" /\ UNCHANGED writing
            BY <2>4, <3>2 DEF Types, SaveType, Idle
        <3>3. QED
            BY <1>2, <3>1, <3>2 DEF LoadSettings
    <2>9. ScreenType'
        BY <1>2, <2>4 DEF Types, LoadSettings, ScreenType, Phases
    <2>10. QED
        BY <2>1, <2>2, <2>7, <2>8, <2>9 DEF Types
<1>3. CASE LoadSession
    <2>1. DiskType' /\ MemoryType' /\ HistoryType'
        BY <1>3, Frames DEF Types, LoadSession, fileVars
    <2>2. forgiven' \in BOOLEAN
        BY <1>3 DEF Types, LoadSession
    <2>3. SaveType'
        BY <1>3 DEF Types, LoadSession, SaveType, Idle
    <2>4. restore_pending' = Nothing \/ restore_pending' \in SUBSET Connections
        BY <1>3 DEF Types, LoadSession, startup_restore_candidate, Understood, DiskType
    <2>5. ScreenType'
        BY <1>3, <2>4 DEF Types, LoadSession, ScreenType, Phases
    <2>6. QED
        BY <2>1, <2>2, <2>3, <2>5 DEF Types
<1>4. QED
    BY <1>1, <1>2, <1>3

LEMMA TerminalTypes ==
    ASSUME Types, NEW c \in Connections, open_connection(c) \/ Settles(c) \/ close_session(c)
    PROVE  Types'
<1>1. DiskType' /\ MemoryType' /\ SaveType' /\ forgiven' \in BOOLEAN
    BY Frames DEF Types, open_connection, Settles, close_session, otherVars, fileVars
<1>2. tab' \in [Connections -> TabStates]
    BY DEF Types, ScreenType, open_connection, Settles, close_session, TabStates
<1>3. ScreenType'
    BY <1>2 DEF Types, ScreenType, open_connection, Settles, close_session, otherVars
<1>4. HistoryType'
    BY DEF Types, HistoryType, open_connection, Settles, close_session, otherVars, fileVars
<1>5. QED
    BY <1>1, <1>3, <1>4 DEF Types

LEMMA RestoreTypes ==
    ASSUME Types, restore_sessions \/ Skip
    PROVE  Types'
<1>1. DiskType' /\ MemoryType' /\ SaveType' /\ forgiven' \in BOOLEAN
    BY Frames DEF Types, restore_sessions, Skip, fileVars
<1>2. tab' \in [Connections -> TabStates]
    BY DEF Types, ScreenType, restore_sessions, Skip, TabStates
<1>3. ScreenType'
    BY <1>2 DEF Types, ScreenType, restore_sessions, Skip
<1>4. HistoryType'
    BY DEF Types, HistoryType, ScreenType, restore_sessions, Skip, fileVars
<1>5. QED
    BY <1>1, <1>3, <1>4 DEF Types

\* A step of the user that begins a save of the file.
LEMMA ChangeTypes ==
    ASSUME Types, Change, UNCHANGED <<disk, health, phase, restore_pending, last_saved, starts,
                                      faults, forgiven>>,
           MemoryType', tab' \in [Connections -> TabStates],
           created' \subseteq Connections \cup Keys, deleted' \subseteq Connections \cup Keys,
           kept' \subseteq Connections \cup Keys, letGo' = letGo,
           NEW save \in SaveNames, NEW then \in Callers, Fitting(save, then),
           NEW keys \in [Keys -> KeyIds], \A k \in Keys : keys[k] # Legacy,
           Saves(save, keys, then)
    PROVE  Types'
<1>1. phase' = "open" /\ changes < MaxChanges /\ changes' = changes + 1
    BY DEF Change, Free
<1>2. SaveType'
    BY <1>1, SaveBegins
<1>3. DiskType'
    BY Frames DEF Types
<1>4. ScreenType'
    BY DEF Types, ScreenType
<1>5. HistoryType'
    BY <1>1, AppFilesAssumption DEF Types, HistoryType
<1>6. QED
    BY <1>2, <1>3, <1>4, <1>5 DEF Types

\* A set of connections or choices in memory is replaced, or the id of an entry.
LEMMA MemoryChanges ==
    ASSUME MemoryType
    PROVE  /\ \A cs \in SUBSET Connections :
                memory' = [memory EXCEPT !.conns = cs] =>
                    MemoryType' /\ memory'.keys = memory.keys /\ memory'.prefs = memory.prefs
                                /\ memory'.conns = cs
           /\ \A ps \in SUBSET (Keys \X Ids) :
                memory' = [memory EXCEPT !.prefs = ps] =>
                    MemoryType' /\ memory'.keys = memory.keys /\ memory'.conns = memory.conns
                                /\ memory'.prefs = ps
           /\ \A k \in Keys, n \in Ids :
                memory' = [memory EXCEPT !.keys[k] = n] =>
                    /\ MemoryType' /\ memory'.conns = memory.conns
                    /\ memory'.prefs = memory.prefs
                    /\ memory'.keys = [memory.keys EXCEPT ![k] = n]
<1>1. memory \in Contents /\ (\A k \in Keys : memory.keys[k] # Legacy)
    BY DEF MemoryType
<1>2. ASSUME NEW cs \in SUBSET Connections, memory' = [memory EXCEPT !.conns = cs]
      PROVE  MemoryType' /\ memory'.keys = memory.keys /\ memory'.prefs = memory.prefs
             /\ memory'.conns = cs
    BY <1>1, <1>2 DEF MemoryType, Contents
<1>3. ASSUME NEW ps \in SUBSET (Keys \X Ids), memory' = [memory EXCEPT !.prefs = ps]
      PROVE  MemoryType' /\ memory'.keys = memory.keys /\ memory'.conns = memory.conns
             /\ memory'.prefs = ps
    BY <1>1, <1>3 DEF MemoryType, Contents
<1>4. ASSUME NEW k \in Keys, NEW n \in Ids, memory' = [memory EXCEPT !.keys[k] = n]
      PROVE  /\ MemoryType' /\ memory'.conns = memory.conns
             /\ memory'.prefs = memory.prefs
             /\ memory'.keys = [memory.keys EXCEPT ![k] = n]
    <2>1. n \in KeyIds /\ n # Legacy
        BY Numbering
    <2>2. memory' = [memory EXCEPT !.keys = [memory.keys EXCEPT ![k] = n]]
        BY <1>4
    <2>3. memory.keys \in [Keys -> KeyIds]
        BY <1>1 DEF Contents
    <2>4. [memory.keys EXCEPT ![k] = n] \in [Keys -> KeyIds]
          /\ \A j \in Keys : [memory.keys EXCEPT ![k] = n][j] # Legacy
        BY <1>1, <2>1, <2>3
    <2>5. QED
        BY <1>1, <2>2, <2>4 DEF MemoryType, Contents
<1>5. QED
    BY <1>2, <1>3, <1>4

LEMMA ConnectionTypes ==
    ASSUME Types, NEW c \in Connections, AddConnection(c) \/ DeleteConnection(c)
    PROVE  Types'
<1>0. MemoryType /\ memory.keys \in [Keys -> KeyIds] /\ \A k \in Keys : memory.keys[k] # Legacy
    BY MemoryKeys DEF Types
<1>h. memory.conns \in SUBSET Connections
    BY <1>0, Fields DEF MemoryType
<1>f. Fitting("connections", "none") /\ Fitting("connections", "sidebar")
    BY DEF Fitting
<1>1. CASE AddConnection(c)
    <2>1. memory' = [memory EXCEPT !.conns = memory.conns \cup {c}]
          /\ memory.conns \cup {c} \in SUBSET Connections
        BY <1>1, <1>h DEF AddConnection
    <2>2. MemoryType'
        BY <1>0, <2>1, MemoryChanges
    <2>3. /\ Change /\ Saves("connections", memory.keys, "none")
          /\ UNCHANGED <<disk, health, phase, restore_pending, last_saved, starts, faults, forgiven>>
          /\ letGo' = letGo
        BY <1>1 DEF AddConnection, fileVars
    <2>4. tab' \in [Connections -> TabStates]
        BY <1>1 DEF AddConnection, Types, ScreenType, TabStates
    <2>5. /\ created' \subseteq Connections \cup Keys /\ deleted' \subseteq Connections \cup Keys
          /\ kept' \subseteq Connections \cup Keys
        BY <1>1 DEF AddConnection, Types, HistoryType, fileVars
    <2>6. QED
        BY <1>0, <1>f, <2>2, <2>3, <2>4, <2>5, ChangeTypes DEF SaveNames, Callers
<1>2. CASE DeleteConnection(c)
    <2>1. memory' = [memory EXCEPT !.conns = memory.conns \ {c}]
          /\ memory.conns \ {c} \in SUBSET Connections
        BY <1>2, <1>h DEF DeleteConnection
    <2>2. MemoryType'
        BY <1>0, <2>1, MemoryChanges
    <2>3. /\ Change
          /\ UNCHANGED <<disk, health, phase, restore_pending, last_saved, starts, faults, forgiven>>
          /\ letGo' = letGo
        BY <1>2 DEF DeleteConnection
    <2>4. tab' \in [Connections -> TabStates]
        BY <1>2 DEF DeleteConnection, Types, ScreenType
    <2>5. /\ created' \subseteq Connections \cup Keys /\ deleted' \subseteq Connections \cup Keys
          /\ kept' \subseteq Connections \cup Keys
        BY <1>2 DEF DeleteConnection, Types, HistoryType
    <2>6. PICK then \in {"none", "sidebar"} : Saves("connections", memory.keys, then)
        BY <1>2 DEF DeleteConnection
    <2>7. Fitting("connections", then) /\ then \in Callers /\ "connections" \in SaveNames
        BY <1>f, <2>6 DEF Callers, SaveNames
    <2>8. QED
        BY <1>0, <2>2, <2>3, <2>4, <2>5, <2>6, <2>7, ChangeTypes
<1>3. QED
    BY <1>1, <1>2

LEMMA LibraryTypes ==
    ASSUME Types, NEW keys \in [Keys -> KeyIds], SaveLibrary(keys)
    PROVE  Types' /\ \A k \in Keys : keys[k] # Legacy
<1>1. /\ Change /\ Saves("onekeys", keys, "adopt") /\ letGo' = letGo
      /\ UNCHANGED <<disk, health, phase, memory, tab, restore_pending, last_saved, starts, faults,
                      forgiven>>
    BY DEF SaveLibrary
<1>2. MemoryType' /\ tab' \in [Connections -> TabStates]
    BY <1>1, Frames DEF Types, ScreenType
<1>3. \A k \in Keys : keys[k] # Legacy
    <2>1. starts \in Ids
        BY <1>1, StartsIsId DEF Change, Free
    <2>2. \A k \in Keys : keys[k] \in {Absent, memory.keys[k], starts}
        BY DEF SaveLibrary
    <2>3. QED
        BY <2>1, <2>2, Numbering DEF Types, MemoryType
<1>4. /\ created' \subseteq Connections \cup Keys /\ deleted' \subseteq Connections \cup Keys
      /\ kept' \subseteq Connections \cup Keys
    BY DEF SaveLibrary, Types, HistoryType
<1>5. Fitting("onekeys", "adopt")
    BY DEF Fitting
<1>6. QED
    BY <1>1, <1>2, <1>3, <1>4, <1>5, ChangeTypes DEF SaveNames, Callers

LEMMA EntryTypes ==
    ASSUME Types, NEW k \in Keys, on_onekey_save(k) \/ remember_onekey_preference(k)
    PROVE  Types'
<1>0. MemoryType /\ memory.keys \in [Keys -> KeyIds] /\ \A j \in Keys : memory.keys[j] # Legacy
    BY MemoryKeys DEF Types
<1>1. /\ Change /\ letGo' = letGo
      /\ UNCHANGED <<disk, health, phase, tab, restore_pending, last_saved, starts, faults, forgiven>>
    BY DEF on_onekey_save, remember_onekey_preference, fileVars
<1>2. /\ created' \subseteq Connections \cup Keys /\ deleted' \subseteq Connections \cup Keys
      /\ kept' \subseteq Connections \cup Keys /\ tab' \in [Connections -> TabStates]
    BY <1>1 DEF on_onekey_save, remember_onekey_preference, fileVars, Types, HistoryType, ScreenType
<1>3. starts \in Ids
    BY <1>1, StartsIsId DEF Change, Free
<1>4. CASE on_onekey_save(k)
    <2>1. memory' = [memory EXCEPT !.keys[k] = starts] /\ Saves("onekeys", memory'.keys, "none")
        BY <1>4 DEF on_onekey_save
    <2>2. MemoryType'
        BY <1>0, <1>3, <2>1, MemoryChanges
    <2>3. memory'.keys \in [Keys -> KeyIds] /\ \A j \in Keys : memory'.keys[j] # Legacy
        BY <2>2 DEF MemoryType, Contents
    <2>4. Fitting("onekeys", "none")
        BY DEF Fitting
    <2>5. QED
        BY <1>1, <1>2, <2>1, <2>2, <2>3, <2>4, ChangeTypes DEF SaveNames, Callers
<1>5. CASE remember_onekey_preference(k)
    <2>1. /\ memory' = [memory EXCEPT !.prefs = {<<k, memory.keys[k]>>}]
          /\ Saves("preferences", memory.keys, "none") /\ memory.keys[k] # Absent
        BY <1>5 DEF remember_onekey_preference
    <2>2. memory.keys[k] \in Ids
        BY <1>0, <2>1, Numbering
    <2>3. MemoryType'
        BY <1>0, <2>1, <2>2, MemoryChanges
    <2>4. Fitting("preferences", "none")
        BY DEF Fitting
    <2>5. QED
        BY <1>0, <1>1, <1>2, <2>1, <2>3, <2>4, ChangeTypes DEF SaveNames, Callers
<1>6. QED
    BY <1>4, <1>5

LEMMA SettingTypes ==
    ASSUME Types, forget_onekey_preference \/ SaveSetting
    PROVE  Types'
<1>0. MemoryType /\ memory.keys \in [Keys -> KeyIds] /\ \A j \in Keys : memory.keys[j] # Legacy
    BY MemoryKeys DEF Types
<1>1. /\ Change /\ letGo' = letGo
      /\ UNCHANGED <<disk, health, phase, tab, restore_pending, last_saved, starts, faults, forgiven>>
    BY DEF forget_onekey_preference, SaveSetting, fileVars
<1>2. /\ created' \subseteq Connections \cup Keys /\ deleted' \subseteq Connections \cup Keys
      /\ kept' \subseteq Connections \cup Keys /\ tab' \in [Connections -> TabStates]
    BY <1>1 DEF forget_onekey_preference, SaveSetting, fileVars, Types, HistoryType, ScreenType
<1>3. MemoryType'
    <2>1. CASE memory' = memory
        BY <1>0, <2>1, Frames
    <2>2. CASE memory' = [memory EXCEPT !.prefs = {}]
        BY <1>0, <2>2, MemoryChanges
    <2>3. QED
        BY <2>1, <2>2 DEF forget_onekey_preference, SaveSetting
<1>4. PICK save \in {"preferences", "templates", "appearance"} : Saves(save, memory.keys, "none")
    BY DEF forget_onekey_preference, SaveSetting
<1>5. Fitting(save, "none") /\ save \in SaveNames /\ "none" \in Callers
    BY <1>4 DEF Fitting, SaveNames, Callers
<1>6. QED
    BY <1>0, <1>1, <1>2, <1>3, <1>4, <1>5, ChangeTypes

LEMMA SnapshotTypes ==
    ASSUME Types, SaveTick \/ CloseWindow
    PROVE  Types'
<1>1. DiskType' /\ HistoryType' /\ forgiven' \in BOOLEAN
    BY Frames DEF Types, SaveTick, CloseWindow, fileVars
<1>2. MemoryType' /\ SaveType' /\ ScreenType'
    <2>1. CASE Gone
        BY <2>1, GoneTypes
    <2>2. CASE ~Gone
        <3>1. PICK then \in {"tick", "exit"} : Saves("session", memory.keys, then)
            BY <2>2 DEF SaveTick, CloseWindow
        <3>2. phase = "open" /\ UNCHANGED <<phase, memory, tab, restore_pending, last_saved, starts>>
            BY <2>2 DEF SaveTick, CloseWindow, SnapshotAllowed
        <3>3. Fitting("session", then) /\ then \in Callers /\ "session" \in SaveNames
            BY <3>1 DEF Fitting, Callers, SaveNames
        <3>4. SaveType'
            BY <3>1, <3>2, <3>3, MemoryKeys, SaveBegins DEF Types
        <3>5. QED
            BY <3>2, <3>4, Frames DEF Types
    <2>3. QED
        BY <2>1, <2>2
<1>3. QED
    BY <1>1, <1>2 DEF Types

LEMMA InitTypes ==
    ASSUME Init
    PROVE  Types
<1>0. forgiven \in BOOLEAN
    BY DEF Init
<1>1. PICK old \in {Missing} \cup [conns : SUBSET Connections,
                                   keys : [Keys -> {Absent, Legacy}], prefs : {{}}] :
          /\ disk = [settings |-> old, session |-> Missing]
          /\ created = Entries(old) /\ kept = Entries(old)
    BY DEF Init, FirstFiles
<1>2. old = Missing \/ old \in Contents
    <2>1. Absent \in KeyIds /\ Legacy \in KeyIds
        BY Numbering, AppFilesAssumption DEF KeyIds, Legacy
    <2>2. [Keys -> {Absent, Legacy}] \subseteq [Keys -> KeyIds]
        BY <2>1
    <2>3. QED
        BY <2>2 DEF Contents
<1>3. DiskType
    <2>1. disk = [f \in Files |-> disk[f]]
        BY <1>1 DEF Files
    <2>2. QED
        BY <1>1, <1>2, <2>1 DEF Init, DiskType
<1>4. MemoryType
    BY Defaults, Numbering DEF Init, MemoryType
<1>5. SaveType
    BY DEF Init, SaveType, Idle
<1>6. ScreenType
    BY DEF Init, ScreenType, Phases, TabStates
<1>7. Entries(old) \subseteq Connections \cup Keys
    BY <1>2, Fields DEF Entries
<1>8. HistoryType
    <2>1. starts \in 0..MaxStarts /\ faults \in 0..MaxFaults /\ changes \in 0..MaxChanges
        BY AppFilesAssumption DEF Init
    <2>2. created \subseteq Connections \cup Keys /\ kept \subseteq Connections \cup Keys
        BY <1>1, <1>7
    <2>3. deleted = {} /\ letGo = {}
        BY DEF Init
    <2>4. QED
        BY <2>1, <2>2, <2>3 DEF HistoryType
<1>9. QED
    BY <1>0, <1>3, <1>4, <1>5, <1>6, <1>8 DEF Types

LEMMA NextTypes ==
    ASSUME Types, [Next]_vars
    PROVE  Types'
<1>1. CASE Next
    BY <1>1, WorldTypes, WritingTypes, EndingTypes, UnlockTypes, TerminalTypes, RestoreTypes,
       ConnectionTypes, LibraryTypes, EntryTypes, SettingTypes, SnapshotTypes DEF Next
<1>2. CASE UNCHANGED vars
    BY <1>2, Frames DEF Types, vars
<1>3. QED
    BY <1>1, <1>2

-----------------------------------------------------------------------------
(* The file, memory and what is being written, step by step.               *)

LEMMA Stays ==
    /\ FileOK /\ UNCHANGED <<disk, created, deleted, kept>> => FileOK'
    /\ MemoryOK /\ UNCHANGED <<disk, created, deleted, kept, memory, phase>> => MemoryOK'
    /\ SaveOK /\ UNCHANGED <<disk, created, deleted, kept, memory, writing>> => SaveOK'
    /\ SessionOK /\ UNCHANGED <<disk, memory, phase, tab, letGo, restore_pending, writing>>
         => SessionOK'
<1>1. FileOK /\ UNCHANGED <<disk, created, deleted, kept>> => FileOK'
    BY DEF FileOK, Base, Agrees
<1>2. MemoryOK /\ UNCHANGED <<disk, created, deleted, kept, memory, phase>> => MemoryOK'
    BY DEF MemoryOK, Base, Agrees, Loaded
<1>3. SaveOK /\ UNCHANGED <<disk, created, deleted, kept, memory, writing>> => SaveOK'
    BY DEF SaveOK, Base, Agrees, LibraryOK, Planned, Idle
<1>4. SessionOK /\ UNCHANGED <<disk, memory, phase, tab, letGo, restore_pending, writing>>
         => SessionOK'
    BY DEF SessionOK, Idle, session_snapshot_writable, build_session_state
<1>5. QED
    BY <1>1, <1>2, <1>3, <1>4

\* An application that is not running, or shows nothing yet, has nothing to keep.
LEMMA NothingLoaded ==
    /\ phase' \notin {"migrating", "loaded", "open"} => MemoryOK'
    /\ Idle' => SaveOK'
    /\ Idle' /\ phase' # "open" => SessionOK'
BY DEF MemoryOK, Loaded, SaveOK, SessionOK

LEMMA GoneStays ==
    ASSUME Good, Gone, UNCHANGED <<disk, created, deleted, kept>>
    PROVE  Good'
<1>1. Idle' /\ phase' = "off"
    BY DEF Gone, Idle
<1>2. QED
    BY <1>1, Stays, NothingLoaded DEF Good

\* Saves are made while the application migrates its library or is open.
LEMMA IdleElsewhere ==
    ASSUME Types, phase \notin {"migrating", "open"}
    PROVE  Idle
BY DEF Types, SaveType

LEMMA WorldStays ==
    ASSUME Types, Good, (\E f \in Files : Spoil(f) \/ Recover(f)) \/ Crash \/ Start
    PROVE  Good'
<1>1. CASE \E f \in Files : Spoil(f) \/ Recover(f)
    <2>1. UNCHANGED <<disk, created, deleted, kept, memory, phase, writing, tab, letGo,
                      restore_pending>>
        BY <1>1 DEF Spoil, Recover, history
    <2>2. QED
        BY <2>1, Stays DEF Good
<1>2. CASE Crash
    BY <1>2, GoneStays DEF Crash, fileVars
<1>3. CASE Start
    <2>1. UNCHANGED <<disk, created, deleted, kept>> /\ phase' = "locked" /\ Idle'
        BY <1>3, IdleElsewhere DEF Start, fileVars, Idle
    <2>2. QED
        BY <2>1, Stays, NothingLoaded DEF Good
<1>4. QED
    BY <1>1, <1>2, <1>3

LEMMA LoadSettingsStays ==
    ASSUME Types, Good, LoadSettings, ~forgiven'
    PROVE  Good'
<1>0. /\ phase = "checked" /\ ~Forgives("settings") /\ Idle
      /\ UNCHANGED <<disk, created, deleted, kept>>
    BY IdleElsewhere DEF LoadSettings, fileVars
<1> DEFINE b == Base
           ks == Migrated(Base.keys)
<1>1. Base' = b /\ b \in Contents /\ read_persisted = b
    BY <1>0, BaseIsFile DEF Types, Base
<1>2. /\ b.keys \in [Keys -> KeyIds] /\ KeysIn(b) = KeysOf(b.keys)
      /\ b.prefs \in SUBSET (Keys \X Ids)
    BY <1>1, Fields
<1>3. /\ ks \in [Keys -> KeyIds] /\ KeysOf(ks) = KeysOf(b.keys)
      /\ \A k \in Keys : b.keys[k] # Legacy => ks[k] = b.keys[k]
    BY <1>0, <1>2, StartsIsId, MigratedKeys
<1>4. memory' = [b EXCEPT !.keys = ks]
    BY <1>1 DEF LoadSettings
<1>f. /\ kept = Held(b) \ deleted /\ Held(b) \subseteq created
      /\ Agree(b.prefs, b.keys, created, deleted)
    BY DEF Good, FileOK, Agrees
<1> HIDE DEF b, ks
<1>5. memory'.conns = b.conns /\ memory'.keys = ks /\ memory'.prefs = b.prefs
      /\ memory' \in Contents
    BY <1>1, <1>3, <1>4 DEF Contents
<1>6. Held(memory') = Held(b)
    BY <1>2, <1>3, <1>5, Fields DEF Held
<1>7. Agree(b.prefs, ks, created, deleted)
    BY <1>2, <1>3, <1>f, Numbering DEF Agree
<1>8. /\ KeysOf(ks) \subseteq created /\ kept \cap Keys \subseteq KeysOf(ks)
    <2>1. KeysOf(ks) \subseteq Held(b)
        BY <1>2, <1>3 DEF Held
    <2>2. b.conns \subseteq Connections
        BY <1>1, Fields
    <2>3. Held(b) \cap Keys \subseteq KeysOf(ks)
        BY <1>2, <1>3, <2>2, AppFilesAssumption DEF Held
    <2>4. QED
        BY <1>f, <2>1, <2>3
<1>9. phase' # "migrating" => ks = b.keys
    BY <1>1, <1>5 DEF LoadSettings
<1>10. FileOK'
    BY <1>0, Stays DEF Good
<1>11. MemoryOK'
    BY <1>0, <1>1, <1>5, <1>6, <1>7, <1>9, <1>f DEF MemoryOK, Agrees
<1>12. SaveOK' /\ SessionOK'
    <2>1. CASE phase' = "migrating" /\ Saves("onekeys", memory'.keys, "migrate")
        <3>1. /\ writing'.save = "onekeys" /\ writing'.keys = ks /\ writing'.then = "migrate"
              /\ writing'.content = Nothing
            BY <1>5, <2>1, Begins
        <3>2. LibraryOK(writing.keys)'
            BY <1>0, <1>1, <1>5, <1>7, <1>8, <3>1 DEF LibraryOK, Agrees
        <3>3. SaveOK'
            BY <1>5, <3>1, <3>2 DEF SaveOK
        <3>4. SessionOK'
            BY <2>1, <3>1 DEF SessionOK
        <3>5. QED
            BY <3>3, <3>4
    <2>2. CASE phase' = "loaded" /\ UNCHANGED writing
        BY <1>0, <2>2, NothingLoaded DEF Idle
    <2>3. QED
        BY <2>1, <2>2 DEF LoadSettings
<1>13. QED
    BY <1>10, <1>11, <1>12 DEF Good

LEMMA UnlockStays ==
    ASSUME Types, Good, with_master_password \/ LoadSession, ~forgiven'
    PROVE  Good'
<1>1. CASE with_master_password
    <2>1. UNCHANGED <<disk, created, deleted, kept>> /\ phase' = "checked" /\ Idle'
        BY <1>1, IdleElsewhere DEF with_master_password, fileVars, Idle
    <2>2. QED
        BY <2>1, Stays, NothingLoaded DEF Good
<1>2. CASE LoadSession
    <2>1. /\ UNCHANGED <<disk, created, deleted, kept, memory>> /\ phase = "loaded"
          /\ phase' = "open" /\ Idle' /\ ~Forgives("session")
        BY <1>2, IdleElsewhere DEF LoadSession, fileVars, Idle
    <2>2. FileOK' /\ SaveOK'
        BY <2>1, Stays, NothingLoaded DEF Good
    <2>3. MemoryOK'
        BY <2>1 DEF Good, MemoryOK, Loaded, Base, Agrees
    <2>4. IF restore_pending' = Nothing THEN Sessions(disk["session"]) = {}
          ELSE Sessions(disk["session"]) \subseteq restore_pending'
        <3>1. CASE disk["session"] = Missing
            BY <3>1 DEF Sessions
        <3>2. CASE disk["session"] # Missing
            <4>1. disk["session"] \in SUBSET Connections /\ Understood("session")
                BY <2>1, <3>2 DEF Types, DiskType, Forgives, Understood
            <4>2. disk["session"] # Nothing /\ Sessions(disk["session"]) = disk["session"]
                BY <4>1, MarkersAssumption DEF Sessions
            <4>3. restore_pending' = startup_restore_candidate(disk["session"])
                BY <1>2, <4>1 DEF LoadSession
            <4>4. QED
                BY <4>2, <4>3 DEF startup_restore_candidate
        <3>3. QED
            BY <3>1, <3>2
    <2>5. SessionOK'
        BY <2>1, <2>4 DEF SessionOK
    <2>6. QED
        BY <2>2, <2>3, <2>5 DEF Good
<1>3. QED
    BY <1>1, <1>2

LEMMA TerminalStays ==
    ASSUME Types, Good, NEW c \in Connections,
           open_connection(c) \/ Settles(c) \/ close_session(c)
    PROVE  Good'
<1>1. /\ UNCHANGED <<disk, created, deleted, kept, memory, phase, writing, restore_pending>>
      /\ phase = "open" /\ Idle
    BY DEF open_connection, Settles, close_session, otherVars, fileVars, Free
<1>2. FileOK' /\ MemoryOK' /\ SaveOK'
    BY <1>1, Stays DEF Good
<1>3. \A d \in Connections :
         (tab[d] # "none" \/ d \in letGo) => (tab'[d] # "none" \/ d \in letGo')
    <2>1. tab \in [Connections -> TabStates]
        BY DEF Types, ScreenType
    <2>2. CASE open_connection(c)
        BY <2>1, <2>2 DEF open_connection
    <2>3. CASE Settles(c)
        BY <2>1, <2>3 DEF Settles
    <2>4. CASE close_session(c)
        BY <2>1, <2>4 DEF close_session
    <2>5. QED
        BY <2>2, <2>3, <2>4
<1>4. memory.conns \in SUBSET Connections
    BY Fields DEF Types, MemoryType
<1>5. SessionOK'
    BY <1>1, <1>3, <1>4 DEF Good, SessionOK, Idle
<1>6. QED
    BY <1>2, <1>5 DEF Good

LEMMA RestoreStays ==
    ASSUME Types, Good, restore_sessions \/ Skip
    PROVE  Good'
<1>1. /\ UNCHANGED <<disk, created, deleted, kept, memory, phase, writing>>
      /\ phase = "open" /\ Idle /\ restore_pending # Nothing /\ restore_pending' = Nothing
    BY DEF restore_sessions, Skip, fileVars
<1>2. FileOK' /\ MemoryOK' /\ SaveOK'
    BY <1>1, Stays DEF Good
<1>3. Sessions(disk["session"]) \subseteq restore_pending
    BY <1>1 DEF Good, SessionOK
<1>4. restore_pending \in SUBSET Connections /\ memory.conns \in SUBSET Connections
    BY <1>1, Fields DEF Types, ScreenType, MemoryType
<1>5. \A c \in memory.conns \cap Sessions(disk["session"]) : tab'[c] # "none" \/ c \in letGo'
    BY <1>3, <1>4 DEF restore_sessions, Skip
<1>6. SessionOK'
    BY <1>1, <1>5 DEF SessionOK, Idle
<1>7. QED
    BY <1>2, <1>6 DEF Good

\* The snapshot is saved, or the window closes without it.
LEMMA SnapshotStays ==
    ASSUME Types, Good, SaveTick \/ CloseWindow
    PROVE  Good'
<1>1. UNCHANGED <<disk, created, deleted, kept>>
    BY DEF SaveTick, CloseWindow, fileVars
<1>2. CASE Gone
    BY <1>1, <1>2, GoneStays
<1>3. CASE ~Gone
    <2>1. PICK then \in {"tick", "exit"} : Saves("session", memory.keys, then)
        BY <1>3 DEF SaveTick, CloseWindow
    <2>2. SnapshotAllowed /\ UNCHANGED <<phase, memory, tab, restore_pending, letGo>>
        BY <1>3 DEF SaveTick, CloseWindow
    <2>3. writing'.save = "session" /\ writing'.content = Nothing
        BY <2>1, Begins
    <2>4. FileOK' /\ MemoryOK'
        BY <1>1, <2>2, Stays DEF Good
    <2>5. SaveOK'
        BY <2>3 DEF SaveOK
    <2>6. session_snapshot_writable'
        BY <2>2 DEF SnapshotAllowed, session_snapshot_writable, build_session_state
    <2>7. SessionOK'
        BY <1>1, <2>2, <2>3, <2>6 DEF Good, SessionOK, SnapshotAllowed
    <2>8. QED
        BY <2>4, <2>5, <2>7 DEF Good
<1>4. QED
    BY <1>2, <1>3

-----------------------------------------------------------------------------
(* A save goes on.                                                         *)

\* What a save makes of a file that is not answered with defaults.
LEMMA ContentIsPlanned ==
    ASSUME Types, ~Idle, writing.save # "session", ~Forgives("settings")
    PROVE  NewContent(writing.save, writing.keys) = Planned(writing.save, writing.keys)
<1>1. read_persisted = Base
    BY BaseIsFile DEF Types
<1>2. writing.save \in SaveNames \ {"session"}
    BY Saving
<1>3. QED
    BY <1>1, <1>2 DEF NewContent, Planned, SaveNames

LEMMA ReadStays ==
    ASSUME Types, Good, ReadForSave, ~forgiven'
    PROVE  Good'
<1> DEFINE x == NewContent(writing.save, writing.keys)
<1>1. /\ ~Idle /\ UNCHANGED <<disk, created, deleted, kept, memory, phase, tab, letGo,
                               restore_pending>>
      /\ writing' = [writing EXCEPT !.content = x, !.temp = Torn]
    BY DEF ReadForSave, fileVars
<1>2. writing.save # "session" => x = Planned(writing.save, writing.keys)
    <2>1. writing.save # "session" => ~Forgives("settings")
        BY DEF ReadForSave
    <2>2. QED
        BY <1>1, <2>1, ContentIsPlanned
<1>3. x \in Whole(writing.save)
    BY <1>1, Saving, ContentType
<1>s. writing.save = "session" => x = build_session_state
    BY DEF NewContent
<1> HIDE DEF x
<1>4. /\ writing'.save = writing.save /\ writing'.keys = writing.keys
      /\ writing'.then = writing.then /\ writing'.content = x
    BY <1>1, <1>3, SaveGoesOn
<1>5. FileOK' /\ MemoryOK'
    BY <1>1, Stays DEF Good
<1>6. SaveOK'
    <2>1. writing.save = "onekeys" => LibraryOK(writing.keys)'
        BY <1>1, <1>4 DEF Good, SaveOK, LibraryOK, Agrees, Base
    <2>2. Planned(writing.save, writing.keys)' = Planned(writing.save, writing.keys)
        BY <1>1, <1>4 DEF Planned, Base
    <2>3. QED
        BY <1>1, <1>2, <1>4, <2>1, <2>2 DEF Good, SaveOK
<1>7. SessionOK'
    <2>1. build_session_state' = build_session_state
          /\ session_snapshot_writable' = session_snapshot_writable
        BY <1>1 DEF build_session_state, session_snapshot_writable
    <2>2. QED
        BY <1>1, <1>4, <1>s, <2>1 DEF Good, SessionOK
<1>8. QED
    BY <1>5, <1>6, <1>7 DEF Good

LEMMA WriteStays ==
    ASSUME Types, Good, WriteTemp
    PROVE  Good'
<1>1. /\ ~Idle /\ UNCHANGED <<disk, created, deleted, kept, memory, phase, tab, letGo,
                               restore_pending>>
    BY DEF WriteTemp, fileVars
<1>2. /\ writing'.save = writing.save /\ writing'.keys = writing.keys
      /\ writing'.then = writing.then /\ writing'.content = writing.content
    <2>1. writing' = [writing EXCEPT !.content = writing.content, !.temp = writing.content]
        BY <1>1 DEF WriteTemp, Types, SaveType
    <2>2. QED
        BY <1>1, <2>1, Saving, SaveGoesOn
<1>3. FileOK' /\ MemoryOK'
    BY <1>1, Stays DEF Good
<1>4. SaveOK'
    <2>1. writing.save = "onekeys" => LibraryOK(writing.keys)'
        BY <1>1, <1>2 DEF Good, SaveOK, LibraryOK, Agrees, Base
    <2>2. Planned(writing.save, writing.keys)' = Planned(writing.save, writing.keys)
        BY <1>1, <1>2 DEF Planned, Base
    <2>3. QED
        BY <1>1, <1>2, <2>1, <2>2 DEF Good, SaveOK
<1>5. SessionOK'
    <2>1. build_session_state' = build_session_state
          /\ session_snapshot_writable' = session_snapshot_writable
        BY <1>1 DEF build_session_state, session_snapshot_writable
    <2>2. QED
        BY <1>1, <1>2, <2>1 DEF Good, SessionOK
<1>6. QED
    BY <1>3, <1>4, <1>5 DEF Good

-----------------------------------------------------------------------------
(* A save ends.                                                            *)

LEMMA BaseStays ==
    /\ FileOK /\ Base' = Base /\ UNCHANGED <<created, deleted, kept>> => FileOK'
    /\ MemoryOK /\ Base' = Base /\ UNCHANGED <<created, deleted, kept, memory, phase>>
         => MemoryOK'
<1>1. FileOK /\ Base' = Base /\ UNCHANGED <<created, deleted, kept>> => FileOK'
    BY DEF FileOK, Agrees
<1>2. MemoryOK /\ Base' = Base /\ UNCHANGED <<created, deleted, kept, memory, phase>>
         => MemoryOK'
    BY DEF MemoryOK, Agrees, Loaded
<1>3. QED
    BY <1>1, <1>2

\* After a save nothing is being written, or the sidebar is about to be.
LEMMA AfterSave ==
    ASSUME Types, ~Idle, NEW ok \in BOOLEAN, EndSave(ok), writing.then # "exit"
    PROVE  SaveOK' /\ (~Idle' => writing'.save # "session")
<1>1. CASE writing.then = "sidebar"
    <2>1. Saves("appearance", memory.keys, "none")
        BY <1>1, Ended
    <2>2. writing'.save = "appearance" /\ writing'.content = Nothing
        BY <2>1, Begins
    <2>3. QED
        BY <2>2 DEF SaveOK
<1>2. CASE writing.then # "sidebar"
    <2>1. Idle'
        BY <1>2, Ended DEF Idle
    <2>2. QED
        BY <2>1, NothingLoaded
<1>3. QED
    BY <1>1, <1>2

LEMMA SaveFailsStays ==
    ASSUME Types, Good, SaveFails, ~forgiven'
    PROVE  Good'
<1>1. /\ ~Idle /\ EndSave(FALSE)
      /\ UNCHANGED <<disk, created, deleted, kept, letGo>>
    BY DEF SaveFails, fileVars
<1>2. CASE writing.then = "exit"
    BY <1>1, <1>2, GoneStays DEF EndSave
<1>3. CASE writing.then # "exit"
    <2>1. writing.then # "migrate" /\ UNCHANGED <<memory, phase, tab, restore_pending>>
        BY <1>1, <1>3, Ended
    <2>2. SaveOK' /\ (~Idle' => writing'.save # "session")
        BY <1>1, <1>3, AfterSave
    <2>3. FileOK' /\ MemoryOK'
        BY <1>1, <2>1, Stays DEF Good
    <2>4. SessionOK'
        BY <1>1, <2>1, <2>2 DEF Good, SessionOK
    <2>5. QED
        BY <2>2, <2>3, <2>4 DEF Good
<1>4. QED
    BY <1>2, <1>3

\* The snapshot replaces the one before.
LEMMA SnapshotSaved ==
    ASSUME Types, Good, Rename, writing.save = "session"
    PROVE  Good'
<1>1. /\ ~Idle /\ EndSave(TRUE) /\ writing.content \in SUBSET Connections
      /\ writing.content # Nothing /\ disk' = [disk EXCEPT !["session"] = writing.content]
      /\ UNCHANGED <<created, deleted, letGo>>
    BY Renamed DEF Whole, FileOf
<1>2. disk'["session"] = writing.content /\ disk'["settings"] = disk["settings"]
    BY <1>1 DEF Types, DiskType, Files
<1>3. Base' = Base /\ kept' = kept
    BY <1>2 DEF Base, Rename
<1>4. FileOK'
    BY <1>1, <1>3, BaseStays DEF Good
<1>5. CASE writing.then = "exit"
    <2>1. Gone
        BY <1>1, <1>5 DEF EndSave
    <2>2. Idle' /\ phase' = "off"
        BY <2>1 DEF Gone, Idle
    <2>3. QED
        BY <1>4, <2>2, NothingLoaded DEF Good
<1>6. CASE writing.then = "tick"
    <2>1. UNCHANGED <<memory, phase, tab, restore_pending>> /\ Idle'
        BY <1>1, <1>6, Ended DEF Idle
    <2>2. MemoryOK'
        BY <1>1, <1>3, <2>1, BaseStays DEF Good
    <2>3. phase = "open" /\ restore_pending = Nothing /\ writing.content = build_session_state
        BY <1>1 DEF Good, SessionOK
    <2>4. Sessions(disk'["session"]) = build_session_state
        BY <1>1, <1>2, <2>3, MarkersAssumption DEF Sessions
    <2>5. \A c \in build_session_state : tab[c] # "none"
        BY DEF build_session_state
    <2>6. SessionOK'
        BY <2>1, <2>3, <2>4, <2>5 DEF SessionOK
    <2>7. QED
        BY <1>4, <2>1, <2>2, <2>6, NothingLoaded DEF Good
<1>7. writing.then \in {"tick", "exit"}
    BY <1>1, Saving DEF Fitting
<1>8. QED
    BY <1>5, <1>6, <1>7

\* Connections and entries are told apart.
LEMMA Apart ==
    ASSUME NEW f \in Contents
    PROVE  /\ \A x \in Held(f) \cap Keys : x \in KeysIn(f)
           /\ \A x \in Held(f) \ Keys : x \in f.conns
           /\ \A x \in f.conns : x \notin Keys
BY AppFilesAssumption, Fields DEF Held, KeysIn

\* The file to be has all that is kept, and its choices agree with its entries.
PlanIsGood(f) ==
    /\ kept \subseteq Held(f) /\ Held(f) \subseteq created
    /\ Agrees(f.prefs, f.keys)

\* The memory to be has all that the file will have.
MemoryFits(m, f) ==
    /\ Held(m) \subseteq created /\ Held(f) \ deleted \subseteq Held(m)
    /\ Agrees(m.prefs, m.keys) /\ Agrees(m.prefs, f.keys) /\ Agrees(f.prefs, m.keys)

LEMMA PlanFits ==
    ASSUME Types, Good, ~Idle, writing.save # "session", NEW f \in Contents,
           f = Planned(writing.save, writing.keys), NEW m \in Contents,
           m = IF writing.then = "adopt" THEN [memory EXCEPT !.keys = writing.keys] ELSE memory
    PROVE  /\ PlanIsGood(f) /\ MemoryFits(m, f) /\ m.conns = memory.conns
           /\ phase # "migrating" \/ writing.then = "migrate" =>
                \A k \in Keys \ deleted : f.keys[k] \in {m.keys[k], Absent}
<1> DEFINE b == Base
           w == writing.keys
<1>1. /\ b \in Contents /\ memory \in Contents /\ w \in [Keys -> KeyIds]
      /\ writing.save \in SaveNames \ {"session"} /\ Fitting(writing.save, writing.then)
      /\ phase \in {"migrating", "open"}
    BY BaseIsFile, Saving DEF Types, MemoryType
<1>2. /\ kept = Held(b) \ deleted /\ Held(b) \subseteq created /\ Agrees(b.prefs, b.keys)
    BY DEF Good, FileOK
<1>3. /\ Held(memory) \subseteq created /\ kept \subseteq Held(memory)
      /\ Agrees(memory.prefs, memory.keys) /\ Agrees(memory.prefs, b.keys)
      /\ Agrees(b.prefs, memory.keys)
      /\ phase # "migrating" => \A k \in Keys \ deleted : b.keys[k] \in {memory.keys[k], Absent}
    BY <1>1 DEF Good, MemoryOK, Loaded
<1>4. writing.save = "onekeys" =>
         /\ KeysOf(w) \subseteq created /\ kept \cap Keys \subseteq KeysOf(w)
         /\ Agrees(memory.prefs, w) /\ Agrees(b.prefs, w)
         /\ writing.then # "adopt" => w = memory.keys
    BY DEF Good, SaveOK, LibraryOK
<1>5. /\ f.conns = IF writing.save = "connections" THEN memory.conns ELSE b.conns
      /\ f.keys = IF writing.save = "onekeys" THEN w ELSE b.keys
      /\ f.prefs = IF writing.save = "preferences" THEN memory.prefs ELSE b.prefs
    <2>1. memory.conns \in SUBSET Connections /\ memory.prefs \in SUBSET (Keys \X Ids)
        BY <1>1, Fields
    <2>2. f = CASE writing.save = "connections" -> [b EXCEPT !.conns = memory.conns]
                [] writing.save = "onekeys"     -> [b EXCEPT !.keys = w]
                [] writing.save = "preferences" -> [b EXCEPT !.prefs = memory.prefs]
                [] OTHER                        -> b
        BY DEF Planned
    <2> HIDE DEF b, w
    <2>3. QED
        BY <1>1, <2>1, <2>2, Replaced
<1>6. /\ m.conns = memory.conns /\ m.prefs = memory.prefs
      /\ m.keys = IF writing.then = "adopt" THEN w ELSE memory.keys
    <2> HIDE DEF w
    <2>1. m = IF writing.then = "adopt" THEN [memory EXCEPT !.keys = w] ELSE memory
        BY DEF w
    <2>3. CASE writing.then = "adopt"
        <3>1. m = [memory EXCEPT !.keys = w]
            BY <2>1, <2>3
        <3>2. m.conns = memory.conns /\ m.prefs = memory.prefs /\ m.keys = w
            BY ONLY <1>1, <3>1 DEF Contents
        <3>3. QED
            BY <2>3, <3>2
    <2>4. CASE writing.then # "adopt"
        BY <2>1, <2>4
    <2>5. QED
        BY <2>3, <2>4
<1> HIDE DEF b, w
<1>h. /\ Held(b) = b.conns \cup KeysOf(b.keys) /\ Held(f) = f.conns \cup KeysOf(f.keys)
      /\ Held(m) = m.conns \cup KeysOf(m.keys)
      /\ Held(memory) = memory.conns \cup KeysOf(memory.keys)
    BY <1>1, Fields DEF Held
<1>k. /\ KeysOf(b.keys) \subseteq Keys /\ KeysOf(f.keys) \subseteq Keys
      /\ KeysOf(m.keys) \subseteq Keys /\ KeysOf(memory.keys) \subseteq Keys
    BY DEF KeysOf
<1>c. /\ b.conns \cap Keys = {} /\ f.conns \cap Keys = {} /\ memory.conns \cap Keys = {}
    BY <1>1, Fields, AppFilesAssumption
<1>7. kept \subseteq Held(f) /\ Held(f) \subseteq created
    BY ONLY <1>2, <1>3, <1>4, <1>5, <1>h, <1>k, <1>c
<1>8. Agrees(f.prefs, f.keys)
    BY ONLY <1>1, <1>2, <1>3, <1>4, <1>5 DEF SaveNames
<1>9. Held(m) \subseteq created
    BY ONLY <1>1, <1>3, <1>4, <1>6, <1>h DEF Fitting
<1>10. Held(f) \ deleted \subseteq Held(m)
    <2>1. f.conns \ deleted \subseteq m.conns
        BY ONLY <1>2, <1>3, <1>5, <1>6, <1>h, <1>k, <1>c
    <2>2. KeysOf(f.keys) \ deleted \subseteq KeysOf(m.keys)
        <3>1. CASE writing.save = "onekeys"
            BY ONLY <1>4, <1>5, <1>6, <3>1
        <3>2. CASE writing.save # "onekeys"
            BY ONLY <1>1, <1>2, <1>3, <1>5, <1>6, <1>h, <1>k, <1>c, <3>2 DEF Fitting
        <3>3. QED
            BY <3>1, <3>2
    <2>3. QED
        BY <1>h, <2>1, <2>2
<1>11. Agrees(m.prefs, m.keys) /\ Agrees(m.prefs, f.keys)
    BY ONLY <1>1, <1>3, <1>4, <1>5, <1>6 DEF Fitting
<1>12. Agrees(f.prefs, m.keys)
    BY ONLY <1>1, <1>3, <1>4, <1>5, <1>6 DEF Fitting
<1>13. phase # "migrating" \/ writing.then = "migrate" =>
         \A k \in Keys \ deleted : f.keys[k] \in {m.keys[k], Absent}
    BY ONLY <1>1, <1>3, <1>4, <1>5, <1>6 DEF Fitting
<1>14. QED
    BY <1>6, <1>7, <1>8, <1>9, <1>10, <1>11, <1>12, <1>13 DEF PlanIsGood, MemoryFits

LEMMA SettingsSaved ==
    ASSUME Types, Good, Rename, writing.save # "session", ~forgiven'
    PROVE  Good'
<1> DEFINE f == writing.content
<1>1. /\ ~Idle /\ EndSave(TRUE) /\ f \in Contents /\ f # Nothing /\ writing.temp = f
      /\ disk' = [disk EXCEPT !["settings"] = f] /\ UNCHANGED <<created, deleted, letGo>>
    BY Renamed DEF Whole, FileOf
<1>2. disk'["settings"] = f /\ disk'["session"] = disk["session"]
    BY <1>1 DEF Types, DiskType, Files
<1>3. f = Planned(writing.save, writing.keys)
    BY <1>1 DEF Good, SaveOK
<1>4. f # Missing /\ Entries(f) = Held(f)
    BY <1>1, Fields
<1>5. Base' = f /\ kept' = (kept \cup Held(f)) \ deleted
    BY <1>1, <1>2, <1>4 DEF Base, Rename
<1>6. writing.then # "exit" /\ phase \in {"migrating", "open"}
    BY <1>1, Saving DEF Fitting
<1>7. /\ memory' = IF writing.then = "adopt" THEN [memory EXCEPT !.keys = writing.keys]
                   ELSE memory
      /\ phase' = IF writing.then = "migrate" THEN "loaded" ELSE phase
      /\ UNCHANGED <<tab, restore_pending>>
    BY <1>1, <1>6, Ended
<1>8. SaveOK' /\ (~Idle' => writing'.save # "session")
    BY <1>1, <1>6, AfterSave
<1>9. memory' \in Contents
    BY EndingTypes DEF Types, MemoryType
<1>10. /\ PlanIsGood(f) /\ MemoryFits(memory', f) /\ memory'.conns = memory.conns
       /\ phase # "migrating" \/ writing.then = "migrate" =>
            \A k \in Keys \ deleted : f.keys[k] \in {memory'.keys[k], Absent}
    <2> HIDE DEF f
    <2>1. QED
        BY <1>1, <1>3, <1>7, <1>9, PlanFits
<1> HIDE DEF f
<1>11. kept' = Held(f) \ deleted
    BY <1>5, <1>10 DEF PlanIsGood, Good, FileOK
<1>12. FileOK'
    BY <1>1, <1>5, <1>10, <1>11 DEF PlanIsGood, FileOK, Agrees
<1>13. MemoryOK'
    BY <1>1, <1>5, <1>7, <1>10, <1>11 DEF MemoryFits, MemoryOK, Agrees
<1>14. SessionOK'
    BY <1>1, <1>2, <1>6, <1>7, <1>8, <1>10 DEF Good, SessionOK
<1>15. QED
    BY <1>8, <1>12, <1>13, <1>14 DEF Good

LEMMA EndingStays ==
    ASSUME Types, Good, Rename \/ SaveFails, ~forgiven'
    PROVE  Good'
BY SaveFailsStays, SnapshotSaved, SettingsSaved

-----------------------------------------------------------------------------
(* The user's changes.                                                     *)

\* A change starts from an application that is open and shows no dialog, and begins a
\* save of the file.
LEMMA ChangeBegins ==
    ASSUME Types, Good, Change, NEW save, NEW keys, NEW then, Saves(save, keys, then),
           save # "session", UNCHANGED <<disk, phase, restore_pending>>
    PROVE  /\ Idle /\ Base' = Base /\ Base \in Contents /\ memory \in Contents
           /\ phase = "open" /\ phase' = "open"
           /\ restore_pending = Nothing /\ restore_pending' = Nothing
           /\ writing'.save = save /\ writing'.keys = keys /\ writing'.then = then
           /\ writing'.content = Nothing
           /\ save # "onekeys" => SaveOK'
           /\ (/\ \A c \in memory'.conns \cap Sessions(disk["session"]) :
                    \/ c \in memory.conns /\ tab'[c] = tab[c] /\ (c \in letGo => c \in letGo')
                    \/ tab'[c] # "none") => SessionOK'
<1>1. /\ writing'.save = save /\ writing'.keys = keys /\ writing'.then = then
      /\ writing'.content = Nothing
    BY Begins
<1>2. /\ Idle /\ Base' = Base /\ phase = "open" /\ phase' = "open"
      /\ restore_pending = Nothing /\ restore_pending' = Nothing
    BY DEF Change, Free, Base
<1>3. Base \in Contents /\ memory \in Contents
    BY BaseIsFile DEF Types, MemoryType
<1>4. save # "onekeys" => SaveOK'
    BY <1>1 DEF SaveOK
<1>5. ASSUME \A c \in memory'.conns \cap Sessions(disk["session"]) :
                \/ c \in memory.conns /\ tab'[c] = tab[c] /\ (c \in letGo => c \in letGo')
                \/ tab'[c] # "none"
      PROVE  SessionOK'
    BY <1>1, <1>2, <1>5 DEF Good, SessionOK
<1>6. QED
    BY <1>1, <1>2, <1>3, <1>4, <1>5

\* What Good says of an application that is open.
LEMMA OpenAndGood ==
    ASSUME Good, phase = "open"
    PROVE  /\ kept = Held(Base) \ deleted /\ Held(Base) \subseteq created
           /\ Agrees(Base.prefs, Base.keys)
           /\ Held(memory) \subseteq created /\ kept \subseteq Held(memory)
           /\ Agrees(memory.prefs, memory.keys) /\ Agrees(memory.prefs, Base.keys)
           /\ Agrees(Base.prefs, memory.keys)
           /\ \A k \in Keys \ deleted : Base.keys[k] \in {memory.keys[k], Absent}
BY DEF Good, FileOK, MemoryOK, Loaded

LEMMA AddConnectionStays ==
    ASSUME Types, Good, NEW c \in Connections, AddConnection(c)
    PROVE  Good'
<1>1. /\ Change /\ Saves("connections", memory.keys, "none")
      /\ UNCHANGED <<disk, phase, restore_pending, deleted, kept, letGo>>
      /\ created' = created \cup {c} /\ tab' = [tab EXCEPT ![c] = "connecting"]
    BY DEF AddConnection, fileVars
<1>2. /\ Base' = Base /\ phase = "open" /\ phase' = "open" /\ memory \in Contents /\ SaveOK'
    BY <1>1, ChangeBegins
<1>3. /\ memory'.keys = memory.keys /\ memory'.prefs = memory.prefs
      /\ memory'.conns = memory.conns \cup {c}
    <2>1. memory.conns \cup {c} \in SUBSET Connections
        BY <1>2, Fields
    <2>2. memory' = [memory EXCEPT !.conns = memory.conns \cup {c}]
        BY DEF AddConnection
    <2>3. QED
        BY <2>1, <2>2, MemoryChanges DEF Types
<1>4. Held(memory') = Held(memory) \cup {c}
    BY <1>3 DEF Held, KeysIn
<1>5. \A ps, ks : Agrees(ps, ks) => Agree(ps, ks, created', deleted')
    BY <1>1, AgreeLater DEF Agrees
<1>6. FileOK'
    BY <1>1, <1>2, <1>5, OpenAndGood DEF FileOK, Agrees
<1>7. MemoryOK'
    BY <1>1, <1>2, <1>3, <1>4, <1>5, OpenAndGood DEF MemoryOK, Agrees
<1>8. SessionOK'
    <2>1. \A d \in Connections \ {c} : tab'[d] = tab[d]
        BY <1>1 DEF Types, ScreenType
    <2>2. tab'[c] # "none"
        BY <1>1 DEF Types, ScreenType
    <2>3. memory.conns \subseteq Connections
        BY <1>2, Fields
    <2>4. QED
        BY <1>1, <1>3, <2>1, <2>2, <2>3, ChangeBegins
<1>9. QED
    BY <1>2, <1>6, <1>7, <1>8 DEF Good

LEMMA DeleteConnectionStays ==
    ASSUME Types, Good, NEW c \in Connections, DeleteConnection(c)
    PROVE  Good'
<1>1. /\ Change /\ UNCHANGED <<disk, phase, restore_pending, created, letGo, tab>>
      /\ deleted' = deleted \cup {c} /\ kept' = kept \ {c}
    BY DEF DeleteConnection
<1>2. PICK then \in {"none", "sidebar"} : Saves("connections", memory.keys, then)
    BY DEF DeleteConnection
<1>3. /\ Base' = Base /\ phase = "open" /\ phase' = "open" /\ memory \in Contents /\ SaveOK'
    BY <1>1, <1>2, ChangeBegins
<1>4. /\ memory'.keys = memory.keys /\ memory'.prefs = memory.prefs
      /\ memory'.conns = memory.conns \ {c}
    <2>1. memory.conns \ {c} \in SUBSET Connections
        BY <1>3, Fields
    <2>2. memory' = [memory EXCEPT !.conns = memory.conns \ {c}]
        BY DEF DeleteConnection
    <2>3. QED
        BY <2>1, <2>2, MemoryChanges DEF Types
<1>5. Held(memory) \ {c} \subseteq Held(memory') /\ Held(memory') \subseteq Held(memory)
    BY <1>4 DEF Held, KeysIn
<1>6. \A ps, ks : Agrees(ps, ks) => Agree(ps, ks, created', deleted')
    BY <1>1, AgreeLater DEF Agrees
<1>7. FileOK'
    BY <1>1, <1>3, <1>6, OpenAndGood DEF FileOK, Agrees
<1>8. MemoryOK'
    BY <1>1, <1>3, <1>4, <1>5, <1>6, OpenAndGood DEF MemoryOK, Agrees
<1>9. SessionOK'
    BY <1>1, <1>2, <1>4, ChangeBegins
<1>10. QED
    BY <1>3, <1>7, <1>8, <1>9 DEF Good

\* New entries were named by no choice, and the others keep their ids or are deleted.
LEMMA SaveLibraryStays ==
    ASSUME Types, Good, NEW keys \in [Keys -> KeyIds], SaveLibrary(keys)
    PROVE  Good'
<1> DEFINE gone == {k \in Keys : keys[k] = Absent /\ memory.keys[k] # Absent}
           new  == {k \in Keys : keys[k] # Absent /\ memory.keys[k] = Absent}
<1>1. /\ Change /\ Saves("onekeys", keys, "adopt")
      /\ UNCHANGED <<disk, phase, restore_pending, memory, letGo, tab>>
      /\ created' = created \cup new /\ deleted' = deleted \cup gone /\ kept' = kept \ gone
      /\ new \cap created = {}
      /\ \A k \in Keys \ new : keys[k] \in {Absent, memory.keys[k]}
    BY DEF SaveLibrary
<1>2. \A k \in Keys : (k \in gone <=> (keys[k] = Absent /\ memory.keys[k] # Absent))
                      /\ (k \in new <=> (keys[k] # Absent /\ memory.keys[k] = Absent))
    OBVIOUS
<1> HIDE DEF gone, new
<1>3. /\ Base' = Base /\ Base \in Contents /\ memory \in Contents
      /\ phase = "open" /\ phase' = "open"
      /\ writing'.save = "onekeys" /\ writing'.keys = keys /\ writing'.then = "adopt"
      /\ writing'.content = Nothing
    BY <1>1, ChangeBegins
<1>4. \A ps, ks : Agrees(ps, ks) => Agree(ps, ks, created', deleted')
    BY <1>1, AgreeLater DEF Agrees
<1>5. FileOK'
    BY <1>1, <1>3, <1>4, OpenAndGood DEF FileOK, Agrees
<1>6. MemoryOK'
    BY <1>1, <1>3, <1>4, OpenAndGood DEF MemoryOK, Agrees
<1>7. KeysOf(keys) \subseteq created'
    <2>1. KeysOf(memory.keys) \subseteq created
        BY <1>3, Fields, OpenAndGood DEF Held
    <2>2. QED
        BY <1>1, <1>2, <2>1 DEF KeysOf
<1>8. kept' \cap Keys \subseteq KeysOf(keys)
    <2>1. kept \cap Keys \subseteq KeysOf(memory.keys)
        BY <1>3, Apart, Fields, OpenAndGood
    <2>2. QED
        BY <1>1, <1>2, <2>1 DEF KeysOf
<1>9. ASSUME NEW ps \in SUBSET (Keys \X Ids), Agrees(ps, memory.keys)
      PROVE  Agree(ps, keys, created', deleted')
    <2> SUFFICES ASSUME NEW p \in ps
                 PROVE  p[1] \in created' /\ (p[1] \in deleted' \/ keys[p[1]] \in {p[2], Absent})
        BY DEF Agree
    <2>1. p[1] \in Keys
        OBVIOUS
    <2>2. p[1] \in created /\ (p[1] \in deleted \/ memory.keys[p[1]] \in {p[2], Absent})
        BY <1>9 DEF Agrees, Agree
    <2>3. p[1] \notin new
        BY <1>1, <2>2
    <2>4. keys[p[1]] \in {Absent, memory.keys[p[1]]}
        BY <1>1, <2>1, <2>3
    <2>5. QED
        BY <1>1, <2>2, <2>4
<1>10. SaveOK'
    <2>1. Base.prefs \in SUBSET (Keys \X Ids) /\ memory.prefs \in SUBSET (Keys \X Ids)
        BY <1>3, Fields
    <2>2. Agree(memory.prefs, keys, created', deleted') /\ Agree(Base.prefs, keys, created', deleted')
        BY <1>3, <1>9, <2>1, OpenAndGood
    <2>3. LibraryOK(writing.keys)'
        BY <1>1, <1>3, <1>7, <1>8, <2>2 DEF LibraryOK, Agrees
    <2>4. QED
        BY <1>3, <2>3 DEF SaveOK
<1>11. SessionOK'
    BY <1>1, ChangeBegins
<1>12. QED
    BY <1>5, <1>6, <1>10, <1>11 DEF Good

LEMMA EntrySavedStays ==
    ASSUME Types, Good, NEW k \in Keys, on_onekey_save(k)
    PROVE  Good'
<1>1. /\ Change /\ Saves("onekeys", memory'.keys, "none") /\ k \notin created
      /\ UNCHANGED <<disk, phase, restore_pending, deleted, kept, letGo, tab>>
      /\ created' = created \cup {k} /\ memory' = [memory EXCEPT !.keys[k] = starts]
    BY DEF on_onekey_save, fileVars
<1>2. /\ Base' = Base /\ Base \in Contents /\ memory \in Contents
      /\ phase = "open" /\ phase' = "open"
      /\ writing'.save = "onekeys" /\ writing'.keys = memory'.keys /\ writing'.then = "none"
      /\ writing'.content = Nothing
    BY <1>1, ChangeBegins
<1>3. starts \in Ids /\ starts # Absent
    BY <1>2, StartsIsId, Numbering
<1>4. /\ memory'.conns = memory.conns /\ memory'.prefs = memory.prefs
      /\ memory'.keys = [memory.keys EXCEPT ![k] = starts]
    BY <1>1, <1>3, MemoryChanges DEF Types
<1>5. memory.keys \in [Keys -> KeyIds] /\ Held(memory) = memory.conns \cup KeysOf(memory.keys)
    BY <1>2, Fields DEF Held
<1>6. \A j \in Keys : memory'.keys[j] = IF j = k THEN starts ELSE memory.keys[j]
    BY <1>4, <1>5
<1>7. /\ KeysOf(memory'.keys) = KeysOf(memory.keys) \cup {k}
      /\ Held(memory') = Held(memory) \cup {k}
    <2>1. KeysOf(memory'.keys) = KeysOf(memory.keys) \cup {k}
        BY <1>3, <1>6 DEF KeysOf
    <2>2. Held(memory') = memory'.conns \cup KeysOf(memory'.keys)
        BY DEF Held, KeysIn, KeysOf
    <2>3. QED
        BY <1>4, <1>5, <2>1, <2>2
<1>8. ASSUME NEW ps \in SUBSET (Keys \X Ids), Agrees(ps, memory.keys)
      PROVE  Agree(ps, memory'.keys, created', deleted')
    BY <1>1, <1>6, <1>8 DEF Agrees, Agree
<1>9. \A ps, ks : Agrees(ps, ks) => Agree(ps, ks, created', deleted')
    BY <1>1, AgreeLater DEF Agrees
<1>10. /\ Agree(memory'.prefs, memory'.keys, created', deleted')
       /\ Agree(Base.prefs, memory'.keys, created', deleted')
    BY <1>2, <1>4, <1>8, Fields, OpenAndGood
<1>11. FileOK'
    BY <1>1, <1>2, <1>9, OpenAndGood DEF FileOK, Agrees
<1>12. Base.keys[k] = Absent
    BY <1>1, <1>2, OpenAndGood DEF Held, KeysIn
<1>13. MemoryOK'
    <2>1. \A j \in Keys \ deleted' : Base.keys[j] \in {memory'.keys[j], Absent}
        BY <1>1, <1>2, <1>6, <1>12, OpenAndGood
    <2>2. Held(memory') \subseteq created' /\ kept' \subseteq Held(memory')
        BY <1>1, <1>2, <1>7, OpenAndGood
    <2>3. Agree(memory'.prefs, Base.keys, created', deleted')
        BY <1>2, <1>4, <1>9, OpenAndGood
    <2>4. QED
        BY <1>2, <1>10, <2>1, <2>2, <2>3 DEF MemoryOK, Agrees
<1>14. SaveOK'
    <2>1. kept' \cap Keys \subseteq KeysOf(memory'.keys)
        BY <1>1, <1>2, <1>7, Apart, Fields, OpenAndGood
    <2>2. KeysOf(memory'.keys) \subseteq created'
        BY <1>1, <1>2, <1>5, <1>7, OpenAndGood
    <2>3. LibraryOK(writing.keys)'
        BY <1>2, <1>10, <2>1, <2>2 DEF LibraryOK, Agrees
    <2>4. QED
        BY <1>2, <2>3 DEF SaveOK
<1>15. SessionOK'
    BY <1>1, <1>4, ChangeBegins
<1>16. QED
    BY <1>11, <1>13, <1>14, <1>15 DEF Good

\* A choice is remembered, in place of the others.
LEMMA ChoiceStays ==
    ASSUME Types, Good, NEW k \in Keys, remember_onekey_preference(k)
    PROVE  Good'
<1>1. /\ Change /\ Saves("preferences", memory.keys, "none") /\ memory.keys[k] # Absent
      /\ UNCHANGED <<disk, phase, restore_pending, created, deleted, kept, letGo, tab>>
      /\ memory' = [memory EXCEPT !.prefs = {<<k, memory.keys[k]>>}]
    BY DEF remember_onekey_preference, fileVars
<1>2. /\ Base' = Base /\ memory \in Contents /\ phase = "open" /\ phase' = "open" /\ SaveOK'
    BY <1>1, ChangeBegins
<1>3. memory.keys[k] \in Ids
    BY <1>1, <1>2, Fields, Numbering DEF Types, MemoryType
<1>4. /\ memory'.keys = memory.keys /\ memory'.conns = memory.conns
      /\ memory'.prefs = {<<k, memory.keys[k]>>}
    BY <1>1, <1>3, MemoryChanges DEF Types
<1>5. Held(memory') = Held(memory) /\ k \in created
    BY <1>1, <1>2, <1>4, OpenAndGood DEF Held, KeysIn
<1>6. Agrees(memory'.prefs, memory.keys) /\ Agrees(memory'.prefs, Base.keys)
    BY <1>2, <1>4, <1>5, OpenAndGood DEF Agrees, Agree
<1>7. FileOK'
    BY <1>1, <1>2, BaseStays DEF Good
<1>8. MemoryOK'
    BY <1>1, <1>2, <1>4, <1>5, <1>6, OpenAndGood DEF MemoryOK, Agrees
<1>9. SessionOK'
    BY <1>1, <1>4, ChangeBegins
<1>10. QED
    BY <1>2, <1>7, <1>8, <1>9 DEF Good

\* The choices are forgotten, or another setting changes.
LEMMA SettingStays ==
    ASSUME Types, Good, forget_onekey_preference \/ SaveSetting
    PROVE  Good'
<1>1. /\ Change
      /\ UNCHANGED <<disk, phase, restore_pending, created, deleted, kept, letGo, tab>>
    BY DEF forget_onekey_preference, SaveSetting, fileVars
<1>2. PICK save \in {"preferences", "templates", "appearance"} : Saves(save, memory.keys, "none")
    BY DEF forget_onekey_preference, SaveSetting
<1>3. Base' = Base /\ phase = "open" /\ phase' = "open" /\ SaveOK'
    BY <1>1, <1>2, ChangeBegins
<1>4. /\ memory'.keys = memory.keys /\ memory'.conns = memory.conns
      /\ memory'.prefs = memory.prefs \/ memory'.prefs = {}
    <2>1. CASE forget_onekey_preference
        BY <2>1, MemoryChanges DEF forget_onekey_preference, Types
    <2>2. CASE SaveSetting
        BY <2>2 DEF SaveSetting
    <2>3. QED
        BY <2>1, <2>2
<1>5. Held(memory') = Held(memory)
    BY <1>4 DEF Held, KeysIn
<1>6. Agrees(memory'.prefs, memory.keys) /\ Agrees(memory'.prefs, Base.keys)
    BY <1>3, <1>4, OpenAndGood DEF Agrees, Agree
<1>7. FileOK'
    BY <1>1, <1>3, BaseStays DEF Good
<1>8. MemoryOK'
    BY <1>1, <1>3, <1>4, <1>5, <1>6, OpenAndGood DEF MemoryOK, Agrees
<1>9. SessionOK'
    BY <1>1, <1>2, <1>4, ChangeBegins
<1>10. QED
    BY <1>3, <1>7, <1>8, <1>9 DEF Good

-----------------------------------------------------------------------------
(* The inductive invariant.                                                *)

LEMMA InitInv ==
    ASSUME Init
    PROVE  IInv
<1>1. Types
    BY InitTypes
<1>2. /\ kept = Entries(disk["settings"]) /\ created = kept /\ deleted = {}
      /\ Idle /\ phase = "off"
    BY DEF Init, FirstFiles, Idle
<1>3. kept = Held(Base)
    BY <1>1, <1>2, BaseIsFile DEF Types
<1>4. Base.prefs = {}
    <2>1. disk["settings"] # Missing => disk["settings"].prefs = {}
        BY DEF Init, FirstFiles
    <2>2. QED
        BY <2>1, Defaults DEF Base
<1>5. FileOK
    BY <1>2, <1>3, <1>4 DEF FileOK, Agrees, Agree
<1>6. MemoryOK /\ SaveOK /\ SessionOK
    BY <1>2 DEF MemoryOK, Loaded, SaveOK, SessionOK
<1>7. QED
    BY <1>1, <1>5, <1>6 DEF IInv, FilesInv, Good

\* A failure answered with defaults is never taken back.
LEMMA ForgivenStays ==
    ASSUME Types, Next, ~forgiven'
    PROVE  ~forgiven
<1>1. ASSUME NEW ok \in BOOLEAN, EndSave(ok)
      PROVE  ~forgiven
    BY <1>1 DEF EndSave, Types
<1>2. CASE Rename \/ SaveFails
    BY <1>1, <1>2 DEF Rename, SaveFails
<1>3. CASE \E f \in Files : Spoil(f) \/ Recover(f)
    BY <1>3 DEF Spoil, Recover, history
<1>4. CASE Crash \/ Start \/ ReadForSave \/ WriteTemp
    BY <1>4 DEF Crash, Start, ReadForSave, WriteTemp
<1>5. CASE with_master_password \/ LoadSettings \/ LoadSession
    BY <1>5 DEF with_master_password, LoadSettings, LoadSession
<1>6. CASE \E c \in Connections : AddConnection(c) \/ DeleteConnection(c)
    BY <1>6 DEF AddConnection, DeleteConnection
<1>7. CASE \E c \in Connections : open_connection(c) \/ Settles(c) \/ close_session(c)
    BY <1>7 DEF open_connection, Settles, close_session, otherVars
<1>8. CASE \E keys \in [Keys -> KeyIds] : SaveLibrary(keys)
    BY <1>8 DEF SaveLibrary
<1>9. CASE \E k \in Keys : on_onekey_save(k) \/ remember_onekey_preference(k)
    BY <1>9 DEF on_onekey_save, remember_onekey_preference
<1>10. CASE forget_onekey_preference \/ SaveSetting
    BY <1>10 DEF forget_onekey_preference, SaveSetting
<1>11. CASE restore_sessions \/ Skip \/ SaveTick \/ CloseWindow
    BY <1>11 DEF restore_sessions, Skip, SaveTick, CloseWindow
<1>12. QED
    BY <1>2, <1>3, <1>4, <1>5, <1>6, <1>7, <1>8, <1>9, <1>10, <1>11 DEF Next

LEMMA NextInv ==
    ASSUME IInv, [Next]_vars
    PROVE  IInv'
<1>1. Types /\ Types'
    BY NextTypes DEF IInv
<1>2. CASE Next
    <2>1. SUFFICES ASSUME ~forgiven' PROVE Good'
        BY <1>1 DEF IInv, FilesInv
    <2>2. Good
        BY <1>1, <1>2, <2>1, ForgivenStays DEF IInv, FilesInv
    <2>3. CASE (\E f \in Files : Spoil(f) \/ Recover(f)) \/ Crash \/ Start
        BY <1>1, <2>2, <2>3, WorldStays
    <2>4. CASE ReadForSave \/ WriteTemp \/ Rename \/ SaveFails
        BY <1>1, <2>1, <2>2, <2>4, ReadStays, WriteStays, EndingStays
    <2>5. CASE with_master_password \/ LoadSettings \/ LoadSession
        BY <1>1, <2>1, <2>2, <2>5, UnlockStays, LoadSettingsStays
    <2>6. CASE \E c \in Connections : AddConnection(c) \/ DeleteConnection(c)
        BY <1>1, <2>2, <2>6, AddConnectionStays, DeleteConnectionStays
    <2>7. CASE \E c \in Connections : open_connection(c) \/ Settles(c) \/ close_session(c)
        BY <1>1, <2>2, <2>7, TerminalStays
    <2>8. CASE \E keys \in [Keys -> KeyIds] : SaveLibrary(keys)
        BY <1>1, <2>2, <2>8, SaveLibraryStays
    <2>9. CASE \E k \in Keys : on_onekey_save(k) \/ remember_onekey_preference(k)
        BY <1>1, <2>2, <2>9, EntrySavedStays, ChoiceStays
    <2>10. CASE forget_onekey_preference \/ SaveSetting
        BY <1>1, <2>2, <2>10, SettingStays
    <2>11. CASE restore_sessions \/ Skip \/ SaveTick \/ CloseWindow
        BY <1>1, <2>2, <2>11, RestoreStays, SnapshotStays
    <2>12. QED
        BY <1>2, <2>3, <2>4, <2>5, <2>6, <2>7, <2>8, <2>9, <2>10, <2>11 DEF Next
<1>3. CASE UNCHANGED vars
    <2>1. UNCHANGED <<disk, created, deleted, kept, memory, phase, writing, tab, letGo,
                      restore_pending, forgiven>>
        BY <1>3 DEF vars
    <2>2. Good => Good'
        BY <2>1, Stays DEF Good
    <2>3. QED
        BY <1>1, <2>1, <2>2 DEF IInv, FilesInv
<1>4. QED
    BY <1>2, <1>3

\* The types, and that the file, memory, the save in progress and the snapshot agree,
\* in every state.
THEOREM AlwaysInv == Spec => []IInv
<1>1. Init => IInv
    BY InitInv
<1>2. IInv /\ [Next]_vars => IInv'
    BY NextInv
<1>3. QED
    BY <1>1, <1>2, PTL DEF Spec

-----------------------------------------------------------------------------
(* What the files promise.                                                 *)

\* The state of the application and its files has the types it should, whatever
\* crashes and fails, and no file is ever torn.
THEOREM TypeCorrect == Spec => []TypeOK
<1>1. IInv => TypeOK
    BY TypesFollow DEF IInv
<1>2. QED
    BY <1>1, AlwaysInv, PTL

\* Whatever was saved and not deleted is in the file, unless a failure was answered
\* with defaults: no order of saves, crashes, failed writes and unreadable files loses
\* a connection or an entry (save_connections, save_onekeys and the other saves).
THEOREM SavedIsKept == Spec => []NothingIsLost
<1>1. IInv => NothingIsLost
    <2>1. SUFFICES ASSUME Types, Good PROVE kept \subseteq Entries(disk["settings"])
        BY DEF IInv, FilesInv, NothingIsLost
    <2>2. Entries(disk["settings"]) = Held(Base)
        BY <2>1, BaseIsFile DEF Types
    <2>3. QED
        BY <2>1, <2>2 DEF Good, FileOK
<1>2. QED
    BY <1>1, AlwaysInv, PTL

\* A choice in the file names its entry by the id the file has for it, as long as the
\* entry is kept: no crash or failed save comes between an id and the choice that
\* names it (load_onekeys, remember_onekey_preference).
THEOREM ChoicesResolve == Spec => []PreferencesResolve
<1>1. IInv => PreferencesResolve
    <2>1. SUFFICES ASSUME Types, Good, disk["settings"] # Missing,
                          NEW p \in disk["settings"].prefs, p[1] \in kept
                   PROVE  disk["settings"].keys[p[1]] = p[2]
        BY DEF IInv, FilesInv, PreferencesResolve
    <2>2. Base = disk["settings"] /\ Base \in Contents
        BY <2>1, BaseIsFile DEF Types, Base
    <2>3. p[1] \in Keys
        BY <2>1, <2>2, Fields
    <2>4. p[1] \in Held(Base) /\ p[1] \notin deleted
        BY <2>1 DEF Good, FileOK
    <2>5. Base.keys[p[1]] # Absent
        BY <2>2, <2>3, <2>4, Apart DEF KeysIn
    <2>6. Base.keys[p[1]] \in {p[2], Absent}
        BY <2>1, <2>2, <2>4 DEF Good, FileOK, Agrees, Agree
    <2>7. QED
        BY <2>2, <2>5, <2>6
<1>2. QED
    BY <1>1, AlwaysInv, PTL

\* Nothing but the end of a save of the snapshot changes the snapshot.
LEMMA SnapshotFile ==
    ASSUME Types, [Next]_vars, disk'["session"] # disk["session"]
    PROVE  Rename /\ writing.save = "session"
<1>1. disk' # disk
    OBVIOUS
<1>2. Rename
    <2>1. CASE Next
        BY <1>1, <2>1 DEF Next, Spoil, Recover, Crash, Start, ReadForSave, WriteTemp, SaveFails,
            with_master_password, LoadSettings, LoadSession, AddConnection, DeleteConnection,
            open_connection, Settles, close_session, SaveLibrary, on_onekey_save,
            remember_onekey_preference, forget_onekey_preference, SaveSetting,
            restore_sessions, Skip, SaveTick, CloseWindow, otherVars, fileVars
    <2>2. QED
        BY <1>1, <2>1 DEF vars
<1>3. disk' = [disk EXCEPT ![FileOf(writing.save)] = writing.content]
    BY <1>2, Renamed
<1>4. QED
    BY <1>2, <1>3 DEF FileOf

\* An empty snapshot is written only when every terminal of the one before has ended
\* or was let go: that a snapshot is offered until it is decided about, and that none
\* is written while a terminal is on its way, is enough through crashes and restarts
\* (session_snapshot_writable, save_session_state_snapshot).
THEOREM SnapshotsRemember == Spec => SessionsRemembered
<1>1. ASSUME IInv, [Next]_vars, ~forgiven',
             NEW c \in kept \cap (Sessions(disk["session"]) \ Sessions(disk'["session"]))
      PROVE  c \in letGo \/ tab[c] = "down" \/ Sessions(disk'["session"]) # {}
    <2>0. Types
        BY <1>1 DEF IInv
    <2>1. Rename /\ writing.save = "session"
        BY <1>1, <2>0, SnapshotFile
    <2>2. Good
        BY <1>1, <2>0, <2>1, ForgivenStays DEF IInv, FilesInv, Next
    <2>3. /\ ~Idle /\ writing.content \in SUBSET Connections /\ writing.content # Nothing
          /\ disk'["session"] = writing.content
        BY <2>0, <2>1, Renamed DEF Whole, FileOf, Types, DiskType, Files
    <2>4. /\ phase = "open" /\ restore_pending = Nothing /\ session_snapshot_writable
          /\ writing.content = build_session_state
        BY <2>1, <2>2, <2>3 DEF Good, SessionOK
    <2>5. Sessions(disk'["session"]) = build_session_state
        BY <2>3, <2>4, MarkersAssumption DEF Sessions
    <2>6. c \in Connections
        BY <1>1, <2>0 DEF Sessions, Types, DiskType
    <2>7. c \in memory.conns
        <3>1. c \in Held(memory) /\ c \notin Keys /\ memory \in Contents
            BY <1>1, <2>0, <2>2, <2>4, <2>6, OpenAndGood, AppFilesAssumption
                DEF Types, MemoryType
        <3>2. QED
            BY <3>1, Apart
    <2>8. tab[c] # "none" \/ c \in letGo
        BY <1>1, <2>2, <2>4, <2>7 DEF Good, SessionOK
    <2>9. QED
        BY <2>4, <2>5, <2>6, <2>8 DEF session_snapshot_writable
<1>2. IInv /\ [Next]_vars =>
         [~forgiven' =>
            \A c \in kept \cap (Sessions(disk["session"]) \ Sessions(disk'["session"])) :
                c \in letGo \/ tab[c] = "down" \/ Sessions(disk'["session"]) # {}]_vars
    BY <1>1
<1>3. QED
    BY <1>2, AlwaysInv, PTL DEF Spec, SessionsRemembered
=============================================================================
