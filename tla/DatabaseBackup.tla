--------------------------- MODULE DatabaseBackup ---------------------------
(* The database file, its backups and its upgrades: storage/               *)
(* database_backup.py, automatic_backup.py, backup_location.py,            *)
(* sqlite_schema.py and the credentials of secret_store.py.                *)
(*                                                                         *)
(* A handler runs to its end on the event loop, and the store's lock keeps *)
(* the thread of the automatic backups out, so only a crash comes between  *)
(* the steps of a restore or of a start.  Names are compared as the code   *)
(* sorts them: by prefix, then by the moment in the name.                  *)
EXTENDS Integers, FiniteSets

CONSTANTS Folders,        \* the folders the author may choose for backups
          KeepManual,     \* backup(keep=12)
          KeepAuto,       \* AutomaticBackupService(keep=24)
          KeepSafety,     \* safety copies kept: 5
          MaxContents,    \* bound: states the library goes through
          MaxMoment       \* bound: files written

ASSUME KeepAssumption ==
    /\ {KeepManual, KeepAuto, KeepSafety} \subseteq Nat \ {0}
    /\ Folders # {}   \* there is always a backup folder, the default one

VARIABLES library,     \* the database file
          credential,  \* the key in the separate credential store
          copies,      \* the backup files of each folder
          upgradeCopies, \* the files in schema-backups
          location,    \* BackupLocation.path
          hourly,      \* folders whose newest automatic backup is fresh
          moment,      \* datetime.now() in the names
          named,       \* the file the last backup, deletion or restore named
          restoring,   \* restore_database_backup between its steps
          serving,     \* the process runs
          jobRuns      \* a director job is live
backupVars == <<library, credential, copies, upgradeCopies, location, hourly,
                moment, named, restoring, serving, jobRuns>>

CurrentSchema == 2
NoKey == "none"
NoFile == -1
NotRestoring == [step |-> "no"]

(* What a database file holds: the books' text, the text its search index   *)
(* was built for, its schema version, a key embedded by an old version.     *)
DatabaseFile == [text: 0..MaxContents, index: 0..MaxContents, schema: 1..3,
             key: {NoKey, "old"}, intact: BOOLEAN]

(* Files that older or newer versions left in the folder, or damaged ones.  *)
OldFile == [text |-> 0, index |-> 0, schema |-> 1, key |-> "old", intact |-> TRUE]
FoundFiles == {OldFile, [OldFile EXCEPT !.intact = FALSE],
               [OldFile EXCEPT !.schema = 3, !.key = NoKey]}

(* inspect_backup: integrity, readable books and a known schema version.    *)
Compatible(file) == file.intact /\ file.schema <= CurrentSchema

(* Mutant of Migrated: the embedded key stays.                              *)
MigratedWithKeys(file) ==
    [file EXCEPT !.index = file.text, !.schema = CurrentSchema]

(* _init: tables, index of books that changed, schema, embedded keys.       *)
Migrated(file) ==
    [file EXCEPT !.index = file.text, !.schema = CurrentSchema, !.key = NoKey]
Credential(file) == IF file.key = NoKey THEN credential ELSE file.key

(* Reverse order of the names: inkforge-before-restore-, inkforge-auto-,    *)
(* then inkforge-<moment>, each from the newest on.                         *)
SortsBefore(f, g) ==
    LET place == [safety |-> 3, auto |-> 2, manual |-> 1]
    IN \/ place[f.kind] > place[g.kind]
       \/ place[f.kind] = place[g.kind] /\ f.at > g.at
Pruned(files, kinds, keep) ==
    {f \in files : f.kind \notin kinds
        \/ Cardinality({g \in files : g.kind \in kinds /\ SortsBefore(g, f)}) < keep}
NewFile(kind) == [kind |-> kind, at |-> moment, holds |-> library]
Idle == serving /\ restoring = NotRestoring
AddFile(kind, kinds, keep) ==
    /\ moment < MaxMoment
    /\ moment' = moment + 1
    /\ copies' = [copies EXCEPT ![location] =
            Pruned(@ \cup {NewFile(kind)}, kinds, keep)]

BackupInit ==
    /\ library \in {OldFile, Migrated(OldFile)}
    /\ credential = NoKey
    /\ location = CHOOSE d \in Folders : TRUE   \* they are interchangeable
    /\ \E found \in SUBSET FoundFiles :
          copies = [d \in Folders |-> IF d = location
              THEN {[kind |-> "manual", at |-> 0, holds |-> f] : f \in found} ELSE {}]
    /\ upgradeCopies = {}
    /\ hourly = {}
    /\ moment = 1
    /\ named = NoFile
    /\ restoring = NotRestoring
    /\ serving = FALSE
    /\ jobRuns = FALSE

(* _backup_before_schema_upgrade, then _init.                               *)
OpenLibrary ==
    /\ ~serving
    /\ Compatible(library)
    /\ serving' = TRUE
    /\ upgradeCopies' = IF library.schema < CurrentSchema
                        THEN upgradeCopies \cup {library} ELSE upgradeCopies
    /\ library' = Migrated(library)
    /\ credential' = Credential(library)
    /\ UNCHANGED <<copies, location, hourly, moment, named, restoring, jobRuns>>

(* A start that is cut off: the key is in its own database before the books *)
(* are rewritten, and the version may be set before the key is taken out.   *)
OpeningCutOff ==
    /\ ~serving
    /\ Compatible(library)
    /\ library.schema < CurrentSchema
    /\ upgradeCopies' = upgradeCopies \cup {library}
    /\ library' \in {library, MigratedWithKeys(library)}
    /\ credential' \in {credential, Credential(library)}
    /\ UNCHANGED <<copies, location, hourly, moment, named, restoring, serving, jobRuns>>

(* ProjectStore.save, of the author or of a run: text and index together.   *)
Change ==
    /\ Idle
    /\ library.text < MaxContents
    /\ library' = [library EXCEPT !.text = @ + 1, !.index = library.text + 1]
    /\ UNCHANGED <<credential, copies, upgradeCopies, location, hourly, moment,
                   named, restoring, serving, jobRuns>>

SetCredential ==
    /\ Idle
    /\ credential' = "new"
    /\ credential # "new"
    /\ UNCHANGED <<library, copies, upgradeCopies, location, hourly, moment,
                   named, restoring, serving, jobRuns>>

JobStartsOrEnds ==
    /\ Idle
    /\ jobRuns' = ~jobRuns
    /\ UNCHANGED <<library, credential, copies, upgradeCopies, location, hourly,
                   moment, named, restoring, serving>>

(* database_backup and the start of a run; its pattern inkforge-*.db        *)
(* matches the automatic backups too.                                       *)
BackUpNow ==
    /\ Idle
    /\ AddFile("manual", {"manual", "auto"}, KeepManual)
    /\ named' = moment
    /\ UNCHANGED <<library, credential, upgradeCopies, location, hourly,
                   restoring, serving, jobRuns>>

(* project_delete: the backup first, then the book.                         *)
DeleteBook ==
    /\ Idle
    /\ library.text < MaxContents
    /\ AddFile("manual", {"manual", "auto"}, KeepManual)
    /\ named' = moment
    /\ library' = [library EXCEPT !.text = @ + 1, !.index = library.text + 1]
    /\ UNCHANGED <<credential, upgradeCopies, location, hourly, restoring,
                   serving, jobRuns>>

(* AutomaticBackupService.run_once.                                         *)
BackUpHourly ==
    /\ Idle
    /\ location \notin hourly
    /\ AddFile("auto", {"auto"}, KeepAuto)
    /\ hourly' = hourly \cup {location}
    /\ UNCHANGED <<library, credential, upgradeCopies, location, named,
                   restoring, serving, jobRuns>>
HourPasses ==
    /\ hourly # {}
    /\ hourly' = {}
    /\ UNCHANGED <<library, credential, copies, upgradeCopies, location, moment,
                   named, restoring, serving, jobRuns>>

(* BackupLocation.set_path.                                                 *)
ChooseFolder ==
    /\ Idle
    /\ location' \in Folders \ {location}
    /\ UNCHANGED <<library, credential, copies, upgradeCopies, hourly, moment,
                   named, restoring, serving, jobRuns>>

\* Mutant of BeginRestore: without the safety copy.
BeginUncopied ==
    /\ Idle
    /\ ~jobRuns
    /\ \E f \in copies[location] :
          /\ Compatible(f.holds)
          /\ restoring' = [step |-> "copied", source |-> f.holds, was |-> library,
                          copy |-> moment]
    /\ UNCHANGED <<library, credential, copies, upgradeCopies, location, hourly,
                   moment, named, serving, jobRuns>>

(* restore_database_backup: refused under a live job and for a file that is *)
(* not compatible.  The database as it is goes to a safety copy.            *)
BeginRestore ==
    /\ Idle
    /\ ~jobRuns
    /\ \E f \in copies[location] :
          /\ Compatible(f.holds)
          /\ restoring' = [step |-> "copied", source |-> f.holds, was |-> library,
                          copy |-> moment]
    /\ AddFile("safety", {}, KeepSafety)
    /\ UNCHANGED <<library, credential, upgradeCopies, location, hourly, named,
                   serving, jobRuns>>
(* _replace_database: SQLite's backup commits the whole file or nothing.    *)
ReplaceLibrary ==
    /\ serving
    /\ restoring.step = "copied"
    /\ library' = restoring.source
    /\ restoring' = [restoring EXCEPT !.step = "replaced"]
    /\ UNCHANGED <<credential, copies, upgradeCopies, location, hourly, moment,
                   named, serving, jobRuns>>

(* _init and the second inspection succeed; old safety copies go.           *)
FinishRestore ==
    /\ serving
    /\ restoring.step = "replaced"
    /\ library' = Migrated(library)
    /\ credential' = Credential(library)
    /\ copies' = [copies EXCEPT ![location] = Pruned(@, {"safety"}, KeepSafety)]
    /\ named' = restoring.copy
    /\ restoring' = NotRestoring
    /\ UNCHANGED <<upgradeCopies, location, hourly, moment, serving, jobRuns>>

(* An exception in either step: the safety copy is put back.  A key that    *)
(* _init has already taken over is in another database and stays.           *)
RollBack ==
    /\ serving
    /\ restoring # NotRestoring
    /\ restoring' = NotRestoring
    /\ library' = Migrated(restoring.was)
    /\ credential' \in {credential, Credential(library)}
    /\ UNCHANGED <<copies, upgradeCopies, location, hourly, moment, named, serving, jobRuns>>

PowerLoss ==
    /\ serving
    /\ serving' = FALSE
    /\ jobRuns' = FALSE
    /\ restoring' = NotRestoring
    /\ named' = NoFile
    /\ UNCHANGED <<library, credential, copies, upgradeCopies, location, hourly, moment>>

BackupNext ==
    \/ OpenLibrary \/ OpeningCutOff \/ Change \/ SetCredential \/ JobStartsOrEnds
    \/ BackUpNow \/ DeleteBook \/ BackUpHourly \/ HourPasses \/ ChooseFolder
    \/ BeginRestore \/ ReplaceLibrary \/ FinishRestore \/ RollBack \/ PowerLoss
BackupSpec == BackupInit /\ [][BackupNext]_backupVars

-----------------------------------------------------------------------------
HeldIn(files, text) == \E f \in files : f.kind = "safety" /\ f.holds.text = text

(* Nothing is replaced without a copy: a restore answered as done has the   *)
(* restored text in the database and the text of before in the safety copy  *)
(* it names; one that fails leaves the text of before; one cut off by a     *)
(* crash, either.  A start upgrades an old database only when the untouched *)
(* file is in schema-backups.                                               *)
NothingReplacedUncopied ==
    [][/\ restoring # NotRestoring /\ restoring' = NotRestoring =>
             \/ library'.text = restoring.was.text
             \/ /\ serving' => /\ named' = restoring.copy
                               /\ library'.text = restoring.source.text
                /\ HeldIn(copies'[location], restoring.was.text)
       /\ ~serving /\ library.schema < CurrentSchema
             /\ library'.schema = CurrentSchema => library \in upgradeCopies'
      ]_backupVars

(* While the program serves requests the database holds no key and its      *)
(* search index is of its text, so no backup it takes holds a key: found    *)
(* files, restored or not, and starts that were cut off included.           *)
BackupsHoldNoKey ==
    /\ Idle => library.key = NoKey /\ library.index = library.text
    /\ \A d \in Folders : \A f \in copies[d] : f.at > 0 => f.holds.key = NoKey

(* Over found files, cut-off starts and restores, no backup holds a key and *)
(* no text is replaced without a copy: the two parts above.                *)
LibraryIsGuarded ==
  /\ []BackupsHoldNoKey
  /\ NothingReplacedUncopied
=============================================================================
