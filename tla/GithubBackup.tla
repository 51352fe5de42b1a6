----------------------------- MODULE GithubBackup -----------------------------
(***************************************************************************)
(* The backup of the books into a GitHub repository (io/github_backup.py,  *)
(* github_backup_layout.py, github_client.py).  A sync reads a book and    *)
(* the manifest of its last sync, uploads what differs as one commit and   *)
(* then writes the new manifest; the branch and the settings may move in   *)
(* between.  project.json holds updated_at, so it differs in every version.*)
(***************************************************************************)
EXTENDS Integers, FiniteSets, FiniteSetsExt

CONSTANTS
  Novels,        \* books, all of one title
  Files,         \* the rendered files of a book beside project.json
  Targets,       \* what the settings may point to: repository and branch
  MaxWrites,     \* bound: saves of a book
  MaxTroubles    \* bound: commits of somebody else, syncs cut off after the
                 \* branch was moved, and changes of the settings, together

ASSUME BackupAssumption ==
  /\ IsFiniteSet(Novels) /\ Novels # {} /\ Targets # {} /\ "-" \notin Targets
  /\ {MaxWrites, MaxTroubles} \subseteq Nat

VARIABLES
  bookVersions,  \* per book its saved versions; the last one is the book
  remote,    \* per target [head, folders, notes]
  settings,  \* the target the settings name
  books,     \* the state file: per book [slug, files, synced]
  sync,      \* the sync in flight (_sync_lock lets one through)
  outside,   \* per target the commits of somebody else
  mishaps    \* [slips, retargets, swapped]: swapped, the target changed under a sync

githubVars == <<bookVersions, remote, settings, books, sync, outside, mishaps>>

\* a rendered file has a content, 0 if the version does not have the file
BookTexts == [Files -> 0..1]
NoFiles == [f \in Files |-> 0]
NoFolder == [files |-> NoFiles, json |-> 0]
RepoFolders == 1..Cardinality(Novels)
NoBook == [slug |-> 0, files |-> NoFiles, synced |-> 0]
NoSync == [phase |-> "idle"]

Latest(n) == Cardinality(DOMAIN bookVersions[n])
LastSynced(n) == bookVersions[n][Latest(n)]
Trouble == mishaps.slips + mishaps.retargets + MapThenSumSet(LAMBDA t : outside[t], Targets) < MaxTroubles

GithubInit ==
  /\ bookVersions = [n \in Novels |-> [v \in {1} |-> [f \in Files |-> 1]]]
  /\ remote = [t \in Targets |-> [head |-> 0, folders |-> [s \in RepoFolders |-> NoFolder], notes |-> 0]]
  /\ settings = CHOOSE t \in Targets : TRUE   \* they are interchangeable, as the books are
  /\ books = [n \in Novels |-> NoBook] /\ sync = NoSync
  /\ outside = [t \in Targets |-> 0] /\ mishaps = [slips |-> 0, retargets |-> 0, swapped |-> FALSE]

SaveNovel(n) ==
  /\ Latest(n) < MaxWrites
  /\ \E text \in BookTexts : bookVersions' = [bookVersions EXCEPT ![n] = [v \in 1..Latest(n) + 1 |-> IF v <= Latest(n) THEN bookVersions[n][v] ELSE text]]
  /\ UNCHANGED <<remote, settings, books, sync, outside, mishaps>>

----------------------------------------------------------------------------
(* sync_project: by the author, by sync_all or by the timer.               *)

\* Mutant of SlugOf: the folder is named for the title alone.
SlugTitle(n) == 1

\* _book_slug: the folder a book has had, or a name no other book has
SlugOf(n) ==
  IF books[n].slug # 0 THEN books[n].slug ELSE Min(RepoFolders \ {books[m].slug : m \in Novels \ {n}})

BeginSync(n) ==
  /\ sync = NoSync
  /\ IF books[n].synced = Latest(n)
     THEN UNCHANGED sync
     ELSE sync' = [phase |-> "read", novel |-> n, version |-> Latest(n), slug |-> SlugOf(n),
                   known |-> books[n].files, target |-> "-", base |-> 0, notes |-> 0, attempt |-> 0]
  /\ UNCHANGED <<bookVersions, remote, settings, books, outside, mishaps>>

\* _verified_repo, _head: the settings once, the head on each attempt
Base ==
  /\ sync.phase = "read"
  /\ LET t == IF sync.target = "-" THEN settings ELSE sync.target IN
     sync' = [sync EXCEPT !.phase = "built", !.target = t, !.base = remote[t].head, !.notes = remote[t].notes]
  /\ UNCHANGED <<bookVersions, remote, settings, books, outside, mishaps>>

\* Mutant of FolderAfter: what the new version does not have stays.
FolderKept(was, known, text, v) ==
  [files |-> [f \in Files |-> IF text[f] # known[f] /\ text[f] # 0 THEN text[f] ELSE was.files[f]], json |-> v]

\* the changed files are uploaded, those the manifest has and the version has
\* not are deleted, the others are left as they are
FolderAfter(was, known, text, v) ==
  [files |-> [f \in Files |-> IF text[f] # known[f] THEN text[f] ELSE was.files[f]], json |-> v]

SyncedText == bookVersions[sync.novel][sync.version]

\* Mutant of FastForward: the branch is set to the commit by force.
ForcedUpdate == TRUE

FastForward == remote[sync.target].head = sync.base

\* the commit of the base's tree and the changed files becomes the head
UpdateRef ==
  /\ sync.phase = "built" /\ FastForward
  /\ remote' = [remote EXCEPT ![sync.target].head = @ + 1, ![sync.target].notes = sync.notes,
                  ![sync.target].folders[sync.slug] = FolderAfter(@, sync.known, SyncedText, sync.version)]
  /\ sync' = [sync EXCEPT !.phase = "pushed"]
  /\ UNCHANGED <<bookVersions, settings, books, outside, mishaps>>

\* 422: once more on the new head
RefRefused ==
  /\ sync.phase = "built" /\ ~FastForward
  /\ sync' = IF sync.attempt = 0 THEN [sync EXCEPT !.phase = "read", !.attempt = 1] ELSE NoSync
  /\ UNCHANGED <<bookVersions, remote, settings, books, outside, mishaps>>

\* Mutant of SyncedAs: the book as it is now counts as stored.
SyncedAsNow == Latest(sync.novel)

SyncedAs == sync.version

RecordSync ==
  /\ sync.phase = "pushed"
  /\ books' = [books EXCEPT ![sync.novel] = [slug |-> sync.slug, files |-> SyncedText, synced |-> SyncedAs]]
  /\ sync' = NoSync
  /\ UNCHANGED <<bookVersions, remote, settings, outside, mishaps>>

\* a request fails after its retries before the branch is moved (_record_error)
SyncFailed ==
  /\ sync.phase \in {"read", "built"}
  /\ sync' = NoSync
  /\ UNCHANGED <<bookVersions, remote, settings, books, outside, mishaps>>

\* the branch was moved and the process ends, or the answer never comes
SyncCutOff ==
  /\ sync.phase = "pushed" /\ Trouble
  /\ sync' = NoSync /\ mishaps' = [mishaps EXCEPT !.slips = @ + 1]
  /\ UNCHANGED <<bookVersions, remote, settings, books, outside>>

----------------------------------------------------------------------------
(* Everything around a sync.                                               *)

\* of a manifest of another target the folder's name alone is kept
Forgotten(book) == [NoBook EXCEPT !.slug = book.slug]

\* update_settings does not wait for the sync in flight
Retarget ==
  /\ Trouble
  /\ \E t \in Targets \ {settings} : settings' = t
  /\ books' = [n \in Novels |-> Forgotten(books[n])]
  /\ mishaps' = [mishaps EXCEPT !.retargets = @ + 1, !.swapped = @ \/ sync # NoSync]
  /\ UNCHANGED <<bookVersions, remote, sync, outside>>

\* somebody else pushes a commit that leaves the books alone
OutsidePush(t) ==
  /\ Trouble
  /\ outside' = [outside EXCEPT ![t] = @ + 1]
  /\ remote' = [remote EXCEPT ![t].head = @ + 1, ![t].notes = @ + 1]
  /\ UNCHANGED <<bookVersions, settings, books, sync, mishaps>>

GithubNext ==
  \/ \E n \in Novels : SaveNovel(n) \/ BeginSync(n)
  \/ Base \/ UpdateRef \/ RefRefused \/ RecordSync \/ SyncFailed \/ SyncCutOff
  \/ Retarget \/ \E t \in Targets : OutsidePush(t)

GithubSpec == GithubInit /\ [][GithubNext]_githubVars

----------------------------------------------------------------------------
(* Properties.                                                             *)

\* A book that is not shown as pending can be restored as it is: its folder's
\* project.json is of its last version, also after crashes and lost answers,
\* unless the target was changed under a sync.
NotPendingIsRestorable ==
  ~mishaps.swapped =>
    \A n \in Novels : books[n].synced = Latest(n) => remote[settings].folders[books[n].slug].json = Latest(n)

\* A folder holds one version of one book, file for file, unless a sync was
\* cut off behind the branch, its target was changed under it, or the settings
\* may have come back to a target they had left: then what the manifest forgot stays.
FolderIsOneVersion ==
  mishaps.slips = 0 /\ ~mishaps.swapped /\ mishaps.retargets <= 1 =>
    \A t \in Targets : \A s \in RepoFolders :
      LET folder == remote[t].folders[s] IN
      folder # NoFolder =>
        \E n \in Novels : folder.json \in DOMAIN bookVersions[n] /\ folder.files = bookVersions[n][folder.json]

\* Two books never share a folder.
OneFolderEach ==
  \A n, m \in Novels : n # m /\ books[n].slug # 0 => books[n].slug # books[m].slug

\* What somebody else committed is never lost.
NothingOverwritten == \A t \in Targets : remote[t].notes = outside[t]

\* What lies behind the branch is one version of each book, the last one of those shown as done, beside
\* what others committed: the four parts above.
BackupIsRestorable == NotPendingIsRestorable /\ FolderIsOneVersion /\ OneFolderEach /\ NothingOverwritten
================================================================================
