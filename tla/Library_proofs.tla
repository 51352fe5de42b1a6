--------------------------- MODULE Library_proofs ----------------------------
(*****************************************************************************)
(* Theorems about what comes into a library and what is copied from it: the  *)
(* GitHub backup (GithubBackup), the database backups (DatabaseBackup) and   *)
(* the import of a manuscript (ImportJob), for every value of their          *)
(* constants.                                                                *)
(*****************************************************************************)
EXTENDS GithubBackup, DatabaseBackup, ImportJob, FiniteSetTheorems, SequenceTheorems, WellFoundedInduction, TLAPS

-----------------------------------------------------------------------------
(* GithubBackup: every finite set of books, every set of files and targets,  *)
(* and every number of saves and mishaps.                                    *)

Slugs == 0..Cardinality(Novels)
BookFolders == [files : BookTexts, json : Nat]
Remotes == [head : Nat, folders : [RepoFolders -> BookFolders], notes : Nat]
Manifests == [slug : Slugs, files : BookTexts, synced : Nat]
Syncs == [phase : {"read", "built", "pushed"}, novel : Novels, version : Nat \ {0}, slug : RepoFolders,
          known : BookTexts, target : Targets \cup {"-"}, base : Nat, notes : Nat, attempt : 0..1]

GithubType ==
  /\ bookVersions \in [Novels -> Seq(BookTexts)] /\ \A n \in Novels : Len(bookVersions[n]) > 0
  /\ remote \in [Targets -> Remotes] /\ settings \in Targets /\ books \in [Novels -> Manifests]
  /\ sync \in Syncs \cup {NoSync} /\ outside \in [Targets -> Nat]
  /\ mishaps \in [slips : Nat, retargets : Nat, swapped : BOOLEAN]

\* A manifest is of a version there is, it is empty for a book without a folder, and no two books have one folder.
ManifestsOk ==
  /\ \A n \in Novels : books[n].synced <= Len(bookVersions[n])
  /\ \A n \in Novels : books[n].slug = 0 => books[n].files = NoFiles /\ books[n].synced = 0
  /\ OneFolderEach

\* What a sync in flight knows: whose folder it writes, what its manifest said, and the target it asked.
SyncOk ==
  sync # NoSync =>
    /\ sync.version <= Len(bookVersions[sync.novel]) /\ books[sync.novel].synced <= sync.version
    /\ books[sync.novel].slug \in {0, sync.slug}
    /\ \A m \in Novels \ {sync.novel} : books[m].slug # sync.slug
    /\ sync.phase # "read" => sync.target # "-"
    /\ ~mishaps.swapped => sync.target \in {"-", settings} /\ sync.known = books[sync.novel].files

\* If the head still is the base, nobody else committed since the base was read.
BaseOk ==
  sync.phase = "built" =>
    /\ sync.base <= remote[sync.target].head
    /\ sync.base = remote[sync.target].head => remote[sync.target].notes = sync.notes

\* The folder of a synced book is of the version its manifest names, or of a later one, behind which a sync was cut off.
FoldersAhead ==
  ~mishaps.swapped =>
    /\ \A n \in Novels : books[n].synced # 0 =>
         LET json == remote[settings].folders[books[n].slug].json
         IN books[n].synced <= json /\ json <= Len(bookVersions[n])
    /\ sync.phase = "pushed" => remote[settings].folders[sync.slug].json = sync.version

\* No sync was cut off or had its target changed, and no target was come back to.
Quiet == mishaps.slips = 0 /\ ~mishaps.swapped /\ mishaps.retargets <= 1

\* A folder that holds anything holds one version of one book.
OneVersion(folder) ==
  folder # NoFolder => \E n \in Novels : folder.json \in DOMAIN bookVersions[n] /\ folder.files = bookVersions[n][folder.json]

\* What a folder of the present target holds, file by file: what was pushed last, or what its book's
\* manifest says, or nothing.
FilesKnown ==
  Quiet =>
    \A s \in RepoFolders :
      /\ sync.phase = "pushed" /\ sync.slug = s => remote[settings].folders[s].files = SyncedText
      /\ ~(sync.phase = "pushed" /\ sync.slug = s) =>
           /\ \A n \in Novels : books[n].slug = s => remote[settings].folders[s].files = books[n].files
           /\ (\A n \in Novels : books[n].slug # s) => remote[settings].folders[s].files = NoFiles

\* Until the settings change for the first time nothing is written elsewhere.
OthersEmpty ==
  mishaps.retargets = 0 /\ ~mishaps.swapped =>
    \A t \in Targets \ {settings} : \A s \in RepoFolders : remote[t].folders[s].files = NoFiles

GithubInv ==
  /\ GithubType /\ ManifestsOk /\ SyncOk /\ BaseOk /\ FoldersAhead /\ FilesKnown /\ OthersEmpty
  /\ NothingOverwritten /\ FolderIsOneVersion

----------------------------------------------------------------------------
(* The operators.                                                          *)

\* A nonempty set of natural numbers has the minimum that Min chooses.
LEMMA MinIsIn ==
  ASSUME NEW S \in SUBSET Nat, S # {}
  PROVE  Min(S) \in S
<1> DEFINE R == OpToRel(<, Nat)
<1>1. IsWellFoundedOn(R, Nat)
  BY NatLessThanWellFounded
<1>2. \A k, m \in S : k < m => <<k, m>> \in R
  BY DEF OpToRel
<1>3. PICK m \in S : \A k \in S : <<k, m>> \notin R
  <2> HIDE DEF R
  <2> QED BY <1>1, WFMin
<1>4. \A k \in S : ~(k < m)
  BY <1>2, <1>3
<1> HIDE DEF R
<1>5. \A k \in S : m <= k
  BY <1>4
<1> QED BY <1>5 DEF Min

\* The last version is the number of versions.
LEMMA LatestIsLength ==
  ASSUME GithubType, NEW n \in Novels
  PROVE  Latest(n) = Len(bookVersions[n]) /\ Latest(n) \in Nat \ {0}
<1>1. bookVersions[n] \in Seq(BookTexts) /\ Len(bookVersions[n]) > 0
  BY DEF GithubType
<1>2. DOMAIN bookVersions[n] = 1..Len(bookVersions[n]) /\ Len(bookVersions[n]) \in Nat
  BY <1>1
<1>3. Cardinality(1..Len(bookVersions[n])) = Len(bookVersions[n])
  BY <1>1, <1>2, FS_Interval
<1> QED BY <1>1, <1>2, <1>3 DEF Latest

\* There always is a folder for a book, and no other book has it.
LEMMA SlugIsFree ==
  ASSUME GithubType, ManifestsOk, NEW n \in Novels
  PROVE  /\ SlugOf(n) \in RepoFolders /\ books[n].slug \in {0, SlugOf(n)}
         /\ \A m \in Novels \ {n} : books[m].slug # SlugOf(n)
<1> DEFINE Others == Novels \ {n}
           Taken == {books[m].slug : m \in Others}
           N == Cardinality(Novels)
<1>0. books[n].slug \in Slugs /\ \A m \in Novels : books[m].slug \in Slugs
  BY DEF GithubType, Manifests
<1>1. N \in Nat /\ IsFiniteSet(Others) /\ Cardinality(Others) = N - 1
  BY BackupAssumption, FS_RemoveElement, FS_CardinalityType
<1>2. CASE books[n].slug # 0
  BY <1>0, <1>1, <1>2 DEF SlugOf, ManifestsOk, OneFolderEach, RepoFolders, Slugs
<1>3. CASE books[n].slug = 0
  <2>1. RepoFolders \ Taken # {}
    <3> SUFFICES ASSUME RepoFolders \subseteq Taken PROVE FALSE
      OBVIOUS
    <3> DEFINE f == [m \in Others |-> books[m].slug]
    <3>1. f \in Surjection(Others, Taken)
      BY DEF Surjection
    <3>2. IsFiniteSet(Taken) /\ Cardinality(Taken) <= N - 1
      BY <1>1, <3>1, FS_Surjection
    <3>3. Cardinality(RepoFolders) = N
      BY <1>1, FS_Interval DEF RepoFolders
    <3>4. Cardinality(Taken) \in Nat
      BY <3>2, FS_CardinalityType
    <3>5. Cardinality(RepoFolders) <= Cardinality(Taken)
      BY <3>2, FS_Subset
    <3> HIDE DEF Taken, N
    <3> QED BY <1>1, <3>2, <3>3, <3>4, <3>5
  <2>2. RepoFolders \ Taken \subseteq Nat
    BY DEF RepoFolders
  <2> HIDE DEF Taken
  <2>3. Min(RepoFolders \ Taken) \in RepoFolders \ Taken
    BY <2>1, <2>2, MinIsIn
  <2>4. SlugOf(n) = Min(RepoFolders \ Taken)
    BY <1>3 DEF SlugOf, Taken
  <2>5. SlugOf(n) \in RepoFolders /\ SlugOf(n) \notin Taken
    BY <2>3, <2>4
  <2> QED BY <1>3, <2>5 DEF Taken
<1> QED BY <1>2, <1>3

----------------------------------------------------------------------------
(* The steps.                                                              *)

LEMMA InitGithub == GithubInit => GithubInv
<1> SUFFICES ASSUME GithubInit PROVE GithubInv
  OBVIOUS
<1>1. Cardinality(Novels) \in Nat
  BY BackupAssumption, FS_CardinalityType
<1>2. [f \in Files |-> 1] \in BookTexts /\ NoFiles \in BookTexts
  BY DEF BookTexts, NoFiles
<1>3. \A n \in Novels : bookVersions[n] = [v \in 1..1 |-> [f \in Files |-> 1]]
  <2>1. {1} = 1..1
    OBVIOUS
  <2> QED BY <2>1 DEF GithubInit
<1>4. [v \in 1..1 |-> [f \in Files |-> 1]] \in Seq(BookTexts) /\ Len([v \in 1..1 |-> [f \in Files |-> 1]]) = 1
  <2> DEFINE q == [v \in 1..1 |-> [f \in Files |-> 1]]
  <2>1. q \in [1..1 -> BookTexts]
    BY <1>2
  <2> HIDE DEF q
  <2>2. q \in Seq(BookTexts)
    BY <2>1, SeqDef
  <2>3. Len(q) = 1
    BY <2>1, <2>2
  <2> QED BY <2>2, <2>3 DEF q
<1>5. bookVersions \in [Novels -> Seq(BookTexts)] /\ \A n \in Novels : Len(bookVersions[n]) = 1
  <2> DEFINE q == [v \in 1..1 |-> [f \in Files |-> 1]]
  <2>1. q \in Seq(BookTexts) /\ Len(q) = 1 /\ \A n \in Novels : bookVersions[n] = q
    BY <1>3, <1>4
  <2>2. bookVersions = [n \in Novels |-> bookVersions[n]]
    BY DEF GithubInit
  <2> HIDE DEF q
  <2> QED BY <2>1, <2>2
<1>6. NoFolder \in BookFolders
  BY <1>2 DEF BookFolders, NoFolder
<1>7. remote = [t \in Targets |-> [head |-> 0, folders |-> [s \in RepoFolders |-> NoFolder], notes |-> 0]]
      /\ remote \in [Targets -> Remotes]
  BY <1>6 DEF GithubInit, Remotes
<1>8. settings \in Targets
  BY BackupAssumption DEF GithubInit
<1>9. books \in [Novels -> Manifests] /\ \A n \in Novels : books[n] = NoBook
  <2>1. NoBook \in Manifests
    BY <1>1, <1>2 DEF NoBook, Manifests, Slugs
  <2> QED BY <2>1 DEF GithubInit
<1>10. sync = NoSync /\ sync.phase = "idle" /\ outside = [t \in Targets |-> 0]
       /\ mishaps = [slips |-> 0, retargets |-> 0, swapped |-> FALSE]
  BY DEF GithubInit, NoSync
<1>11. GithubType
  BY <1>5, <1>7, <1>8, <1>9, <1>10 DEF GithubType
<1>12. ManifestsOk
  BY <1>5, <1>9 DEF ManifestsOk, OneFolderEach, NoBook
<1>13. SyncOk /\ BaseOk
  BY <1>10 DEF SyncOk, BaseOk
<1>14. FoldersAhead
  BY <1>9, <1>10 DEF FoldersAhead, NoBook
<1>15. \A t \in Targets, s \in RepoFolders : remote[t].folders[s] = NoFolder /\ remote[t].folders[s].files = NoFiles
  BY <1>7 DEF NoFolder
<1>16. FilesKnown /\ OthersEmpty
  BY <1>8, <1>9, <1>10, <1>15 DEF FilesKnown, OthersEmpty, NoBook
<1>17. NothingOverwritten
  BY <1>7, <1>10 DEF NothingOverwritten
<1>18. FolderIsOneVersion
  BY <1>15 DEF FolderIsOneVersion
<1> QED BY <1>11, <1>12, <1>13, <1>14, <1>16, <1>17, <1>18 DEF GithubInv

\* A book only grows.
LEMMA SaveGrows ==
  ASSUME GithubType, NEW n \in Novels, SaveNovel(n)
  PROVE  /\ bookVersions' \in [Novels -> Seq(BookTexts)]
         /\ \A m \in Novels : /\ Len(bookVersions[m]) <= Len(bookVersions'[m])
                             /\ \A v \in 1..Len(bookVersions[m]) : bookVersions'[m][v] = bookVersions[m][v]
<1> DEFINE L == Len(bookVersions[n])
<1>1. Latest(n) = L /\ L \in Nat
  BY LatestIsLength
<1>2. PICK text \in BookTexts : bookVersions' =
        [bookVersions EXCEPT ![n] = [v \in 1..Latest(n) + 1 |-> IF v <= Latest(n) THEN bookVersions[n][v] ELSE text]]
  BY DEF SaveNovel
<1> DEFINE new == [v \in 1..L + 1 |-> IF v <= L THEN bookVersions[n][v] ELSE text]
<1>3. bookVersions' = [bookVersions EXCEPT ![n] = new]
  BY <1>1, <1>2
<1>4. new \in [1..L + 1 -> BookTexts] /\ \A v \in 1..L : new[v] = bookVersions[n][v]
  BY <1>1 DEF GithubType
<1>5. L + 1 \in Nat
  BY <1>1
<1> HIDE DEF new
<1>6. new \in Seq(BookTexts) /\ Len(new) = L + 1
  BY <1>4, <1>5, SeqDef
<1>7. ASSUME NEW m \in Novels
      PROVE  /\ bookVersions'[m] \in Seq(BookTexts) /\ Len(bookVersions[m]) <= Len(bookVersions'[m])
             /\ \A v \in 1..Len(bookVersions[m]) : bookVersions'[m][v] = bookVersions[m][v]
  <2>1. CASE m = n
    BY <1>1, <1>3, <1>4, <1>6, <2>1 DEF GithubType
  <2>2. CASE m # n
    <3>1. bookVersions'[m] = bookVersions[m] /\ bookVersions[m] \in Seq(BookTexts)
      BY <1>3, <2>2 DEF GithubType
    <3> QED BY <3>1
  <2> QED BY <2>1, <2>2
<1> QED BY <1>3, <1>6, <1>7 DEF GithubType

\* What is known stands while books grow.
LEMMA GrownStep ==
  ASSUME GithubInv, UNCHANGED <<remote, settings, books, sync, outside, mishaps>>,
         bookVersions' \in [Novels -> Seq(BookTexts)],
         \A m \in Novels : /\ Len(bookVersions[m]) <= Len(bookVersions'[m])
                         /\ \A v \in 1..Len(bookVersions[m]) : bookVersions'[m][v] = bookVersions[m][v]
  PROVE  GithubInv'
<1>0. \A m \in Novels : Len(bookVersions[m]) \in Nat \ {0} /\ Len(bookVersions'[m]) \in Nat
                       /\ DOMAIN bookVersions[m] = 1..Len(bookVersions[m]) /\ DOMAIN bookVersions'[m] = 1..Len(bookVersions'[m])
  BY DEF GithubInv, GithubType
<1>1. GithubType'
  BY <1>0 DEF GithubInv, GithubType
<1>2. ManifestsOk'
  BY <1>0 DEF GithubInv, GithubType, Manifests, ManifestsOk, OneFolderEach
<1>3. SyncOk' /\ BaseOk'
  <2>1. sync # NoSync => sync.novel \in Novels /\ sync.version \in Nat
    BY DEF GithubInv, GithubType, Syncs
  <2> QED BY <1>0, <2>1 DEF GithubInv, SyncOk, BaseOk
<1>4. FoldersAhead'
  <2>1. ASSUME ~mishaps.swapped, NEW n \in Novels, books[n].synced # 0
        PROVE  remote[settings].folders[books[n].slug].json <= Len(bookVersions'[n])
    <3>1. books[n].slug \in RepoFolders
      BY <2>1 DEF GithubInv, GithubType, ManifestsOk, Manifests, Slugs, RepoFolders
    <3>2. remote[settings].folders[books[n].slug].json \in Nat
      BY <3>1 DEF GithubInv, GithubType, Remotes, BookFolders
    <3>3. remote[settings].folders[books[n].slug].json <= Len(bookVersions[n])
      BY <2>1 DEF GithubInv, FoldersAhead
    <3> QED BY <1>0, <3>2, <3>3
  <2> QED BY <2>1 DEF GithubInv, FoldersAhead
<1>5. FilesKnown'
  <2>1. sync # NoSync => SyncedText' = SyncedText
    <3> SUFFICES ASSUME sync # NoSync PROVE SyncedText' = SyncedText
      OBVIOUS
    <3>1. sync.novel \in Novels /\ sync.version \in 1..Len(bookVersions[sync.novel])
      BY <1>0 DEF GithubInv, GithubType, Syncs, SyncOk
    <3> QED BY <3>1 DEF SyncedText
  <2>2. sync.phase = "pushed" => sync # NoSync
    BY DEF NoSync
  <2> QED BY <2>1, <2>2 DEF GithubInv, FilesKnown, Quiet
<1>6. OthersEmpty' /\ NothingOverwritten'
  BY DEF GithubInv, OthersEmpty, NothingOverwritten
<1>7. FolderIsOneVersion'
  <2>1. \A n \in Novels : \A v \in DOMAIN bookVersions[n] :
          v \in DOMAIN bookVersions'[n] /\ bookVersions'[n][v] = bookVersions[n][v]
    BY <1>0
  <2> QED BY <2>1 DEF GithubInv, FolderIsOneVersion
<1> QED BY <1>1, <1>2, <1>3, <1>4, <1>5, <1>6, <1>7 DEF GithubInv

\* Before the branch is moved a sync changes nothing but what it knows.
LEMMA SyncOnly ==
  ASSUME GithubInv, UNCHANGED <<bookVersions, remote, settings, books, outside, mishaps>>,
         sync.phase # "pushed", sync'.phase # "pushed", sync' \in Syncs \cup {NoSync}, SyncOk', BaseOk'
  PROVE  GithubInv'
<1>1. GithubType' /\ ManifestsOk'
  BY DEF GithubInv, GithubType, ManifestsOk, OneFolderEach
<1>2. FoldersAhead'
  BY DEF GithubInv, FoldersAhead
<1>3. FilesKnown'
  BY DEF GithubInv, FilesKnown, Quiet
<1>4. OthersEmpty' /\ NothingOverwritten' /\ FolderIsOneVersion'
  BY DEF GithubInv, OthersEmpty, NothingOverwritten, FolderIsOneVersion
<1> QED BY <1>1, <1>2, <1>3, <1>4 DEF GithubInv

LEMMA BeginStep ==
  ASSUME GithubInv, NEW n \in Novels, BeginSync(n)
  PROVE  GithubInv'
<1> DEFINE new == [phase |-> "read", novel |-> n, version |-> Latest(n), slug |-> SlugOf(n),
                   known |-> books[n].files, target |-> "-", base |-> 0, notes |-> 0, attempt |-> 0]
<1>1. sync = NoSync /\ UNCHANGED <<bookVersions, remote, settings, books, outside, mishaps>> /\ (sync' = sync \/ sync' = new)
  BY DEF BeginSync
<1>2. Latest(n) = Len(bookVersions[n]) /\ Latest(n) \in Nat \ {0}
  BY LatestIsLength DEF GithubInv
<1>3. /\ SlugOf(n) \in RepoFolders /\ books[n].slug \in {0, SlugOf(n)}
      /\ \A m \in Novels \ {n} : books[m].slug # SlugOf(n)
  BY SlugIsFree DEF GithubInv
<1>4. books[n].files \in BookTexts /\ books[n].synced <= Len(bookVersions[n])
  BY DEF GithubInv, GithubType, Manifests, ManifestsOk
<1>5. new \in Syncs
  BY <1>2, <1>3, <1>4 DEF Syncs
<1>6. /\ new.phase = "read" /\ new.novel = n /\ new.version = Len(bookVersions[n]) /\ new.slug = SlugOf(n)
      /\ new.known = books[n].files /\ new.target = "-"
  BY <1>2
<1>7. sync.phase = "idle"
  BY <1>1 DEF NoSync
<1>8. Len(bookVersions[n]) \in Nat
  BY <1>2
<1> HIDE DEF new
<1>9. CASE sync' = sync
  <2>1. SyncOk' /\ BaseOk'
    BY <1>1, <1>7, <1>9 DEF SyncOk, BaseOk, NoSync
  <2> QED BY <1>1, <1>7, <1>9, <2>1, SyncOnly
<1>10. CASE sync' = new
  <2>1. SyncOk'
    BY <1>1, <1>3, <1>4, <1>6, <1>8, <1>10 DEF SyncOk
  <2>2. BaseOk'
    BY <1>6, <1>10 DEF BaseOk
  <2> QED BY <1>1, <1>5, <1>6, <1>7, <1>10, <2>1, <2>2, SyncOnly
<1> QED BY <1>1, <1>9, <1>10

LEMMA BaseStep ==
  ASSUME GithubInv, Base
  PROVE  GithubInv'
<1> DEFINE t == IF sync.target = "-" THEN settings ELSE sync.target
           new == [sync EXCEPT !.phase = "built", !.target = t, !.base = remote[t].head, !.notes = remote[t].notes]
<1>1. sync.phase = "read" /\ sync' = new /\ UNCHANGED <<bookVersions, remote, settings, books, outside, mishaps>>
  BY DEF Base
<1>2. sync # NoSync
  BY <1>1 DEF NoSync
<1>3. sync \in Syncs
  BY <1>2 DEF GithubInv, GithubType
<1>4. t \in Targets
  BY <1>3 DEF GithubInv, GithubType, Syncs
<1>5. remote[t].head \in Nat /\ remote[t].notes \in Nat
  BY <1>4 DEF GithubInv, GithubType, Remotes
<1>6. ~mishaps.swapped => t = settings
  BY <1>2 DEF GithubInv, SyncOk
<1> HIDE DEF t
<1>7. /\ new \in Syncs /\ new.phase = "built" /\ new.target = t /\ new.base = remote[t].head /\ new.notes = remote[t].notes
      /\ new.novel = sync.novel /\ new.version = sync.version /\ new.slug = sync.slug /\ new.known = sync.known
  BY <1>3, <1>4, <1>5 DEF Syncs
<1> HIDE DEF new
<1>8. t # "-"
  BY <1>4, BackupAssumption
<1>9. SyncOk'
  BY <1>1, <1>2, <1>6, <1>7, <1>8 DEF GithubInv, SyncOk
<1>10. BaseOk'
  BY <1>1, <1>5, <1>7 DEF BaseOk
<1> QED BY <1>1, <1>7, <1>9, <1>10, SyncOnly

LEMMA BackStep ==
  ASSUME GithubInv, RefRefused \/ SyncFailed
  PROVE  GithubInv'
<1> DEFINE new == [sync EXCEPT !.phase = "read", !.attempt = 1]
<1>1. /\ sync.phase \in {"read", "built"} /\ (sync' = NoSync \/ sync' = new)
      /\ UNCHANGED <<bookVersions, remote, settings, books, outside, mishaps>>
  BY DEF RefRefused, SyncFailed
<1>2. sync # NoSync
  BY <1>1 DEF NoSync
<1>3. sync \in Syncs
  BY <1>2 DEF GithubInv, GithubType
<1>4. /\ new \in Syncs /\ new.phase = "read" /\ new.target = sync.target
      /\ new.novel = sync.novel /\ new.version = sync.version /\ new.slug = sync.slug /\ new.known = sync.known
  <2>1. "read" \in {"read", "built", "pushed"} /\ 1 \in 0..1
    OBVIOUS
  <2>2. new \in Syncs
    BY <1>3, <2>1 DEF Syncs
  <2>3. new.phase = "read" /\ new.target = sync.target /\ new.novel = sync.novel /\ new.version = sync.version
    BY <1>3 DEF Syncs
  <2>4. new.slug = sync.slug /\ new.known = sync.known
    BY <1>3 DEF Syncs
  <2> QED BY <2>2, <2>3, <2>4
<1> HIDE DEF new
<1>5. CASE sync' = NoSync
  <2>1. sync'.phase = "idle"
    BY <1>5 DEF NoSync
  <2>2. SyncOk' /\ BaseOk'
    BY <1>5, <2>1 DEF SyncOk, BaseOk, NoSync
  <2> QED BY <1>1, <1>5, <2>1, <2>2, SyncOnly
<1>6. CASE sync' = new
  <2>1. SyncOk'
    BY <1>1, <1>2, <1>4, <1>6 DEF GithubInv, SyncOk
  <2>2. BaseOk'
    BY <1>4, <1>6 DEF BaseOk
  <2> QED BY <1>1, <1>4, <1>6, <2>1, <2>2, SyncOnly
<1> QED BY <1>1, <1>5, <1>6

\* A commit moves the head.
LEMMA HeadMoves ==
  ASSUME NEW r \in Remotes
  PROVE  LET new == [r EXCEPT !.head = @ + 1, !.notes = @ + 1]
         IN new \in Remotes /\ new.head = r.head + 1 /\ new.notes = r.notes + 1 /\ new.folders = r.folders
<1> DEFINE new == [[r EXCEPT !.head = r.head + 1] EXCEPT !.notes = r.notes + 1]
<1>1. r.head + 1 \in Nat /\ r.notes + 1 \in Nat
  BY DEF Remotes
<1>2. new.head = r.head + 1 /\ new.notes = r.notes + 1 /\ new.folders = r.folders
  BY DEF Remotes
<1>3. new \in Remotes
  BY <1>1 DEF Remotes
<1>4. [r EXCEPT !.head = @ + 1, !.notes = @ + 1] = new
  BY DEF Remotes
<1> QED BY <1>2, <1>3, <1>4

\* A commit of somebody else leaves the folders alone.
LEMMA OutsideStep ==
  ASSUME GithubInv, NEW t \in Targets, OutsidePush(t)
  PROVE  GithubInv'
<1>1. /\ outside' = [outside EXCEPT ![t] = @ + 1] /\ remote' = [remote EXCEPT ![t].head = @ + 1, ![t].notes = @ + 1]
      /\ UNCHANGED <<bookVersions, settings, books, sync, mishaps>>
  BY DEF OutsidePush
<1>2. remote[t] \in Remotes
  BY DEF GithubInv, GithubType
<1> DEFINE new == [remote[t] EXCEPT !.head = @ + 1, !.notes = @ + 1]
<1>3. new \in Remotes /\ new.head = remote[t].head + 1 /\ new.notes = remote[t].notes + 1 /\ new.folders = remote[t].folders
  BY <1>2, HeadMoves
<1>4. remote' = [remote EXCEPT ![t] = new]
  BY <1>1 DEF GithubInv, GithubType
<1> HIDE DEF new
<1>5. \A u \in Targets :
        /\ remote'[u] \in Remotes /\ remote'[u].folders = remote[u].folders
        /\ remote'[u].head = IF u = t THEN remote[t].head + 1 ELSE remote[u].head
        /\ remote'[u].notes = IF u = t THEN remote[t].notes + 1 ELSE remote[u].notes
  BY <1>3, <1>4 DEF GithubInv, GithubType
<1>6. settings \in Targets /\ \A u \in Targets : remote[u].head \in Nat /\ remote[u].notes \in Nat /\ outside[u] \in Nat
  BY DEF GithubInv, GithubType, Remotes
<1>7. GithubType'
  BY <1>1, <1>4, <1>5 DEF GithubInv, GithubType
<1>8. ManifestsOk' /\ SyncOk'
  BY <1>1 DEF GithubInv, ManifestsOk, OneFolderEach, SyncOk
<1>9. BaseOk'
  <2> SUFFICES ASSUME sync.phase = "built" PROVE BaseOk'
    BY <1>1 DEF BaseOk
  <2>1. sync # NoSync
    BY DEF NoSync
  <2>2. sync \in Syncs /\ sync.target # "-"
    BY <2>1 DEF GithubInv, GithubType, SyncOk
  <2>3. sync.target \in Targets /\ sync.base \in Nat /\ sync.base <= remote[sync.target].head
    BY <2>2 DEF Syncs, GithubInv, BaseOk
  <2>4. sync.target = t \/ (remote'[sync.target].head = remote[sync.target].head /\ remote'[sync.target].notes = remote[sync.target].notes)
    BY <1>5, <2>3
  <2>5. CASE sync.target = t
    <3>1. sync.base <= remote'[t].head /\ sync.base # remote'[t].head
      BY <1>5, <1>6, <2>3, <2>5
    <3> QED BY <1>1, <2>5, <3>1 DEF BaseOk
  <2>6. CASE remote'[sync.target].head = remote[sync.target].head /\ remote'[sync.target].notes = remote[sync.target].notes
    BY <1>1, <2>6 DEF GithubInv, BaseOk
  <2> QED BY <2>4, <2>5, <2>6
<1>10. remote'[settings'].folders = remote[settings].folders
  BY <1>1, <1>5, <1>6
<1>13. FoldersAhead'
  BY <1>1, <1>10 DEF GithubInv, FoldersAhead
<1>14. FilesKnown'
  <2>1. SyncedText' = SyncedText /\ Quiet' = Quiet
    BY <1>1 DEF SyncedText, Quiet
  <2>2. FilesKnown
    BY DEF GithubInv
  <2>3. sync' = sync /\ books' = books
    BY <1>1
  <2> QED BY <1>10, <2>1, <2>2, <2>3 DEF FilesKnown
<1>15. OthersEmpty'
  <2> SUFFICES ASSUME mishaps.retargets = 0, ~mishaps.swapped, NEW u \in Targets \ {settings}, NEW s \in RepoFolders
               PROVE  remote'[u].folders[s].files = NoFiles
    BY <1>1 DEF OthersEmpty
  <2>1. remote[u].folders[s].files = NoFiles
    BY DEF GithubInv, OthersEmpty
  <2> QED BY <1>5, <2>1
<1>11. NothingOverwritten'
  BY <1>1, <1>5, <1>6 DEF GithubInv, NothingOverwritten, GithubType
<1>12. FolderIsOneVersion'
  <2> SUFFICES ASSUME Quiet, NEW u \in Targets, NEW s \in RepoFolders PROVE OneVersion(remote[u].folders[s])'
    BY <1>1 DEF FolderIsOneVersion, Quiet, OneVersion
  <2>1. OneVersion(remote[u].folders[s])
    BY DEF GithubInv, FolderIsOneVersion, Quiet, OneVersion
  <2> QED BY <1>1, <1>5, <2>1 DEF OneVersion
<1> QED BY <1>7, <1>8, <1>9, <1>13, <1>14, <1>15, <1>11, <1>12 DEF GithubInv

\* The new manifest names the folder, the text and the version that were pushed.
LEMMA RecordStep ==
  ASSUME GithubInv, RecordSync
  PROVE  GithubInv'
<1> DEFINE n == sync.novel
           s == sync.slug
           new == [slug |-> s, files |-> SyncedText, synced |-> sync.version]
<1>1. /\ sync.phase = "pushed" /\ books' = [books EXCEPT ![n] = new] /\ sync' = NoSync
      /\ UNCHANGED <<bookVersions, remote, settings, outside, mishaps>>
  BY DEF RecordSync, SyncedAs
<1>2. sync # NoSync
  BY <1>1 DEF NoSync
<1>3. /\ n \in Novels /\ s \in RepoFolders /\ sync.version \in Nat \ {0} /\ sync.version <= Len(bookVersions[n])
      /\ \A m \in Novels \ {n} : books[m].slug # s
      /\ books[n].slug \in {0, s}
  BY <1>2 DEF GithubInv, GithubType, Syncs, SyncOk
<1>4. SyncedText \in BookTexts
  BY <1>3 DEF GithubInv, GithubType, SyncedText
<1>5. /\ new \in Manifests /\ new.slug = s /\ new.files = SyncedText /\ new.synced = sync.version
      /\ s # 0
  BY <1>3, <1>4 DEF Manifests, Slugs, RepoFolders
<1>6. sync'.phase = "idle"
  BY <1>1 DEF NoSync
<1> DEFINE file == SyncedText
           version == sync.version
<1>7. file = SyncedText /\ version = sync.version /\ version # 0
  BY <1>3
<1> HIDE DEF new, n, s, file, version
<1>8. books' \in [Novels -> Manifests] /\ \A m \in Novels : books'[m] = IF m = n THEN new ELSE books[m]
  BY <1>1, <1>3, <1>5 DEF GithubInv, GithubType
<1>9. GithubType'
  BY <1>1, <1>8 DEF GithubInv, GithubType
<1>10. ManifestsOk'
  BY <1>1, <1>3, <1>5, <1>8 DEF GithubInv, ManifestsOk, OneFolderEach
<1>11. SyncOk' /\ BaseOk'
  BY <1>1, <1>6 DEF SyncOk, BaseOk
<1>12. FoldersAhead'
  <2> SUFFICES ASSUME ~mishaps.swapped, NEW m \in Novels, books'[m].synced # 0
               PROVE  /\ books'[m].synced <= remote[settings].folders[books'[m].slug].json
                      /\ remote[settings].folders[books'[m].slug].json <= Len(bookVersions[m])
    BY <1>1, <1>6 DEF FoldersAhead
  <2>1. CASE m = n
    <3>1. remote[settings].folders[s].json = version
      BY <1>1, <1>7 DEF GithubInv, FoldersAhead, s
    <3> QED BY <1>3, <1>5, <1>7, <1>8, <2>1, <3>1
  <2>2. CASE m # n
    BY <1>8, <2>2 DEF GithubInv, FoldersAhead
  <2> QED BY <2>1, <2>2
<1>13. FilesKnown'
  <2> SUFFICES ASSUME Quiet, NEW f \in RepoFolders
               PROVE  /\ \A m \in Novels : books'[m].slug = f => remote[settings].folders[f].files = books'[m].files
                      /\ (\A m \in Novels : books'[m].slug # f) => remote[settings].folders[f].files = NoFiles
    BY <1>1, <1>6 DEF FilesKnown, Quiet
  <2>1. CASE f = s
    <3>1. remote[settings].folders[s].files = file
      BY <1>1, <1>3, <1>7 DEF GithubInv, FilesKnown, s
    <3> QED BY <1>3, <1>5, <1>7, <1>8, <2>1, <3>1
  <2>2. CASE f # s
    <3>1. /\ \A m \in Novels : books[m].slug = f => remote[settings].folders[f].files = books[m].files
          /\ (\A m \in Novels : books[m].slug # f) => remote[settings].folders[f].files = NoFiles
      BY <2>2 DEF GithubInv, FilesKnown, s
    <3>2. f # 0
      BY DEF RepoFolders
    <3>3. \A m \in Novels : books'[m].slug = f => m # n /\ books'[m] = books[m]
      BY <1>5, <1>8, <2>2
    <3>4. (\A m \in Novels : books'[m].slug # f) => \A m \in Novels : books[m].slug # f
      BY <1>3, <1>8, <2>2, <3>2
    <3> QED BY <3>1, <3>3, <3>4
  <2> QED BY <2>1, <2>2
<1>14. OthersEmpty' /\ NothingOverwritten'
  BY <1>1 DEF GithubInv, OthersEmpty, NothingOverwritten
<1>15. FolderIsOneVersion'
  BY <1>1 DEF GithubInv, FolderIsOneVersion
<1> QED BY <1>9, <1>10, <1>11, <1>12, <1>13, <1>14, <1>15 DEF GithubInv

\* What was pushed without a new manifest is a slip.
LEMMA CutOffStep ==
  ASSUME GithubInv, SyncCutOff
  PROVE  GithubInv'
<1>1. /\ sync' = NoSync /\ mishaps' = [mishaps EXCEPT !.slips = @ + 1]
      /\ UNCHANGED <<bookVersions, remote, settings, books, outside>>
  BY DEF SyncCutOff
<1>2. mishaps' \in [slips : Nat, retargets : Nat, swapped : BOOLEAN] /\ mishaps'.slips # 0
      /\ mishaps'.retargets = mishaps.retargets /\ (mishaps'.swapped <=> mishaps.swapped)
  <2>1. mishaps \in [slips : Nat, retargets : Nat, swapped : BOOLEAN]
    BY DEF GithubInv, GithubType
  <2> DEFINE k == mishaps.slips + 1
  <2>2. k \in Nat /\ k # 0
    BY <2>1
  <2>3. mishaps' = [mishaps EXCEPT !.slips = k]
    BY <1>1
  <2> HIDE DEF k
  <2>4. mishaps' \in [slips : Nat, retargets : Nat, swapped : BOOLEAN]
    BY <2>1, <2>2, <2>3
  <2>5. mishaps'.slips = k /\ mishaps'.retargets = mishaps.retargets
    BY <2>1, <2>3
  <2>6. mishaps'.swapped <=> mishaps.swapped
    BY <2>1, <2>3, Zenon
  <2> QED BY <2>2, <2>4, <2>5, <2>6
<1>3. sync'.phase = "idle"
  BY <1>1 DEF NoSync
<1>4. GithubType' /\ ManifestsOk'
  BY <1>1, <1>2 DEF GithubInv, GithubType, ManifestsOk, OneFolderEach
<1>5. SyncOk' /\ BaseOk'
  BY <1>1, <1>3 DEF SyncOk, BaseOk
<1>6. FoldersAhead'
  BY <1>1, <1>2, <1>3 DEF GithubInv, FoldersAhead
<1>7. FilesKnown' /\ FolderIsOneVersion'
  BY <1>2 DEF FilesKnown, Quiet, FolderIsOneVersion
<1>8. OthersEmpty' /\ NothingOverwritten'
  BY <1>1, <1>2 DEF GithubInv, OthersEmpty, NothingOverwritten
<1> QED BY <1>4, <1>5, <1>6, <1>7, <1>8 DEF GithubInv

\* A new target knows nothing of what the manifests said.
LEMMA RetargetStep ==
  ASSUME GithubInv, Retarget
  PROVE  GithubInv'
<1>1. PICK t \in Targets \ {settings} : settings' = t
  BY DEF Retarget
<1>2. /\ books' = [n \in Novels |-> Forgotten(books[n])]
      /\ mishaps' = [mishaps EXCEPT !.retargets = @ + 1, !.swapped = @ \/ sync # NoSync]
      /\ UNCHANGED <<bookVersions, remote, sync, outside>>
  BY DEF Retarget
<1> DEFINE swapped == mishaps.swapped \/ sync # NoSync
<1>3. mishaps.retargets \in Nat /\ mishaps.slips \in Nat /\ swapped \in BOOLEAN
  BY DEF GithubInv, GithubType
<1>4. mishaps' = [mishaps EXCEPT !.retargets = mishaps.retargets + 1, !.swapped = swapped]
  BY <1>2 DEF GithubInv, GithubType
<1> HIDE DEF swapped
<1>5. /\ mishaps' \in [slips : Nat, retargets : Nat, swapped : BOOLEAN] /\ mishaps'.slips = mishaps.slips
      /\ mishaps'.retargets = mishaps.retargets + 1 /\ (mishaps'.swapped <=> swapped)
  <2>1. mishaps \in [slips : Nat, retargets : Nat, swapped : BOOLEAN]
    BY DEF GithubInv, GithubType
  <2> DEFINE k == mishaps.retargets + 1
  <2>2. k \in Nat
    BY <1>3
  <2>3. mishaps' = [mishaps EXCEPT !.retargets = k, !.swapped = swapped]
    BY <1>4
  <2> HIDE DEF k
  <2>4. mishaps' \in [slips : Nat, retargets : Nat, swapped : BOOLEAN]
    BY <1>3, <2>1, <2>2, <2>3
  <2>5. mishaps'.slips = mishaps.slips /\ mishaps'.retargets = k
    BY <2>1, <2>3
  <2>6. mishaps'.swapped <=> swapped
    BY <2>1, <2>3, Zenon
  <2> QED BY <2>4, <2>5, <2>6 DEF k
<1>6. \A n \in Novels : /\ books'[n].slug = books[n].slug /\ books'[n].files = NoFiles /\ books'[n].synced = 0
                       /\ books'[n] \in Manifests
  <2> TAKE n \in Novels
  <2>1. books[n].slug \in Slugs /\ NoFiles \in BookTexts
    BY DEF GithubInv, GithubType, Manifests, NoFiles, BookTexts
  <2> QED BY <1>2, <2>1 DEF Forgotten, NoBook, Manifests
<1>7. GithubType'
  BY <1>1, <1>2, <1>5, <1>6 DEF GithubInv, GithubType
<1>8. ManifestsOk'
  <2>1. \A n \in Novels : Len(bookVersions[n]) \in Nat
    BY DEF GithubInv, GithubType
  <2> QED BY <1>2, <1>6, <2>1 DEF GithubInv, ManifestsOk, OneFolderEach
<1>9. sync # NoSync => swapped
  BY DEF swapped
<1>10. SyncOk'
  <2>1. sync # NoSync => sync.novel \in Novels /\ sync.version \in Nat
    BY DEF GithubInv, GithubType, Syncs
  <2> QED BY <1>2, <1>5, <1>6, <1>9, <2>1 DEF GithubInv, SyncOk
<1>11. BaseOk' /\ NothingOverwritten'
  BY <1>2 DEF GithubInv, BaseOk, NothingOverwritten
<1>12. FoldersAhead'
  <2>1. ~mishaps'.swapped => sync' = NoSync
    BY <1>2, <1>5, <1>9
  <2>2. NoSync.phase # "pushed"
    BY DEF NoSync
  <2>3. \A n \in Novels : books'[n].synced = 0
    BY <1>6
  <2> QED BY <2>1, <2>2, <2>3 DEF FoldersAhead
<1>13. ~swapped => ~mishaps.swapped /\ sync.phase # "pushed"
  BY DEF swapped, NoSync
<1>14. FilesKnown'
  <2> SUFFICES ASSUME mishaps.retargets + 1 <= 1, ~swapped, NEW f \in RepoFolders
               PROVE  remote[t].folders[f].files = NoFiles
    BY <1>1, <1>2, <1>5, <1>6, <1>13 DEF FilesKnown, Quiet
  <2>1. mishaps.retargets = 0 /\ ~mishaps.swapped
    BY <1>3, <1>13
  <2> QED BY <2>1 DEF GithubInv, OthersEmpty
<1>15. OthersEmpty'
  <2>1. mishaps'.retargets # 0
    BY <1>3, <1>5
  <2> QED BY <2>1 DEF OthersEmpty
<1>16. FolderIsOneVersion'
  <2>1. mishaps'.slips = 0 /\ ~mishaps'.swapped /\ mishaps'.retargets <= 1 => mishaps.slips = 0 /\ ~mishaps.swapped /\ mishaps.retargets <= 1
    BY <1>3, <1>5, <1>13
  <2> QED BY <1>2, <2>1 DEF GithubInv, FolderIsOneVersion
<1> QED BY <1>7, <1>8, <1>10, <1>11, <1>12, <1>14, <1>15, <1>16 DEF GithubInv

\* What a push makes of a repository: one folder is written.
Pushed(r, s, notes, folder) ==
  [r EXCEPT !.head = r.head + 1, !.notes = notes, !.folders = [r.folders EXCEPT ![s] = folder]]

\* A push writes one folder.
LEMMA FolderWritten ==
  ASSUME NEW r \in Remotes, NEW s \in RepoFolders, NEW notes \in Nat, NEW folder \in BookFolders
  PROVE  /\ Pushed(r, s, notes, folder) \in Remotes /\ Pushed(r, s, notes, folder).notes = notes
         /\ \A f \in RepoFolders :
              Pushed(r, s, notes, folder).folders[f] = IF f = s THEN folder ELSE r.folders[f]
<1> DEFINE folders == [r.folders EXCEPT ![s] = folder]
           head == r.head + 1
<1>1. head \in Nat /\ folders \in [RepoFolders -> BookFolders]
      /\ \A f \in RepoFolders : folders[f] = IF f = s THEN folder ELSE r.folders[f]
  BY DEF Remotes
<1>2. Pushed(r, s, notes, folder) = [r EXCEPT !.head = head, !.notes = notes, !.folders = folders]
  BY DEF Pushed
<1> HIDE DEF head, folders
<1> DEFINE new == [r EXCEPT !.head = head, !.notes = notes, !.folders = folders]
<1>3. new \in Remotes /\ new.notes = notes /\ new.folders = folders
  <2>1. new.notes = notes /\ new.folders = folders
    BY DEF Remotes
  <2>2. new \in Remotes
    BY <1>1 DEF Remotes
  <2> QED BY <2>1, <2>2
<1> HIDE DEF new
<1>4. Pushed(r, s, notes, folder) = new
  BY <1>2 DEF new
<1> QED BY <1>1, <1>3, <1>4

LEMMA UpdateStep ==
  ASSUME GithubInv, UpdateRef
  PROVE  GithubInv'
<1> DEFINE T == sync.target
           s == sync.slug
           n == sync.novel
           version == sync.version
           was == remote[T].folders[s]
           folder == FolderAfter(was, sync.known, SyncedText, version)
           new == Pushed(remote[T], s, sync.notes, folder)
<1>1. /\ sync.phase = "built" /\ remote[T].head = sync.base /\ UNCHANGED <<bookVersions, settings, books, outside, mishaps>>
      /\ sync' = [sync EXCEPT !.phase = "pushed"]
  BY DEF UpdateRef, FastForward
<1>2. sync # NoSync
  BY <1>1 DEF NoSync
<1>3. sync \in Syncs
  BY <1>2 DEF GithubInv, GithubType
<1>4. /\ T \in Targets /\ s \in RepoFolders /\ n \in Novels /\ version \in Nat \ {0} /\ version <= Len(bookVersions[n])
      /\ books[n].synced <= version /\ books[n].slug \in {0, s} /\ \A m \in Novels \ {n} : books[m].slug # s
      /\ sync.notes \in Nat /\ sync.known \in BookTexts
      /\ ~mishaps.swapped => T = settings /\ sync.known = books[n].files
  BY <1>1, <1>2, <1>3 DEF GithubInv, SyncOk, Syncs
<1>5. remote[T] \in Remotes /\ was \in BookFolders /\ settings \in Targets
  BY <1>4 DEF GithubInv, GithubType, Remotes
<1>6. SyncedText \in BookTexts /\ SyncedText = bookVersions[n][version] /\ version \in DOMAIN bookVersions[n]
  BY <1>4 DEF GithubInv, GithubType, SyncedText
<1>7. /\ folder \in BookFolders /\ folder.json = version
      /\ was.files = sync.known => folder.files = SyncedText
  BY <1>4, <1>5, <1>6 DEF FolderAfter, BookFolders, BookTexts
<1>8. remote' = [remote EXCEPT ![T] = new]
  <2>1. remote \in [Targets -> Remotes] /\ T \in Targets
    BY <1>4 DEF GithubInv, GithubType
  <2>2. remote' = [remote EXCEPT ![T].head = @ + 1, ![T].notes = sync.notes, ![T].folders[s] = folder]
    BY DEF UpdateRef
  <2>3. remote' = [remote EXCEPT ![T] =
                     [remote[T] EXCEPT !.head = remote[T].head + 1, !.notes = sync.notes,
                                       !.folders = [remote[T].folders EXCEPT ![s] = folder]]]
    <3> HIDE DEF T, s, folder
    <3> QED BY <2>1, <2>2
  <2> QED BY <2>3 DEF Pushed
<1> HIDE DEF folder
<1>9. /\ new \in Remotes /\ new.notes = sync.notes
      /\ \A f \in RepoFolders : new.folders[f] = IF f = s THEN folder ELSE remote[T].folders[f]
  <2>1. remote[T] \in Remotes /\ s \in RepoFolders /\ sync.notes \in Nat /\ folder \in BookFolders
    BY <1>4, <1>5, <1>7
  <2> HIDE DEF T, s
  <2> QED BY <2>1, FolderWritten
<1> HIDE DEF new
<1>10. /\ remote' \in [Targets -> Remotes]
       /\ \A u \in Targets : u # T => remote'[u] = remote[u]
       /\ remote'[T].notes = sync.notes
       /\ \A f \in RepoFolders : remote'[T].folders[f] = IF f = s THEN folder ELSE remote[T].folders[f]
  BY <1>4, <1>8, <1>9 DEF GithubInv, GithubType
<1>11. /\ sync' \in Syncs /\ sync'.phase = "pushed" /\ sync'.novel = n /\ sync'.version = version /\ sync'.slug = s
       /\ sync'.known = sync.known /\ sync'.target = T
  <2>1. "pushed" \in {"read", "built", "pushed"}
    OBVIOUS
  <2>2. sync' \in Syncs
    BY <1>1, <1>3, <2>1 DEF Syncs
  <2> QED BY <1>1, <1>3, <2>2 DEF Syncs
<1>12. SyncedText' = SyncedText
  BY <1>1, <1>11 DEF SyncedText
<1> HIDE DEF T, s, n, version, was
<1>13. Quiet => T = settings /\ was.files = sync.known
  <2> SUFFICES ASSUME Quiet PROVE T = settings /\ was.files = sync.known
    OBVIOUS
  <2>1. T = settings /\ sync.known = books[n].files
    BY <1>4 DEF Quiet
  <2>2. CASE books[n].slug = s
    BY <1>1, <1>4, <2>1, <2>2 DEF GithubInv, FilesKnown, was
  <2>3. CASE books[n].slug = 0
    <3>1. s # 0
      BY <1>4 DEF RepoFolders
    <3>2. \A m \in Novels : books[m].slug # s
      BY <1>4, <2>3, <3>1
    <3>3. was.files = NoFiles /\ books[n].files = NoFiles
      BY <1>1, <1>4, <2>1, <2>3, <3>2 DEF GithubInv, FilesKnown, ManifestsOk, was
    <3> QED BY <2>1, <3>3
  <2> QED BY <1>4, <2>2, <2>3
<1>14. GithubType'
  BY <1>1, <1>10, <1>11 DEF GithubInv, GithubType
<1>15. ManifestsOk'
  BY <1>1 DEF GithubInv, ManifestsOk, OneFolderEach
<1>16. SyncOk' /\ BaseOk'
  <2>1. T # "-"
    BY <1>4, BackupAssumption
  <2> QED BY <1>1, <1>4, <1>11, <2>1 DEF SyncOk, BaseOk
<1>17. FoldersAhead'
  <2> SUFFICES ASSUME ~mishaps.swapped
               PROVE  /\ \A m \in Novels : books[m].synced # 0 =>
                           /\ books[m].synced <= remote'[settings].folders[books[m].slug].json
                           /\ remote'[settings].folders[books[m].slug].json <= Len(bookVersions[m])
                      /\ remote'[settings].folders[s].json = version
    BY <1>1, <1>11 DEF FoldersAhead
  <2>1. T = settings
    BY <1>4
  <2>2. remote'[settings].folders[s].json = version
    BY <1>4, <1>7, <1>10, <2>1
  <2>3. ASSUME NEW m \in Novels, books[m].synced # 0
        PROVE  /\ books[m].synced <= remote'[settings].folders[books[m].slug].json
               /\ remote'[settings].folders[books[m].slug].json <= Len(bookVersions[m])
    <3>1. books[m].slug \in RepoFolders
      BY <2>3 DEF GithubInv, GithubType, ManifestsOk, Manifests, Slugs, RepoFolders
    <3>2. CASE m = n
      <4>1. books[m].slug = s
        BY <1>4, <2>3, <3>2 DEF GithubInv, ManifestsOk
      <4> QED BY <1>4, <2>2, <3>2, <4>1
    <3>3. CASE m # n
      <4>1. remote'[settings].folders[books[m].slug] = remote[settings].folders[books[m].slug]
        BY <1>4, <1>10, <2>1, <3>1, <3>3
      <4> QED BY <2>3, <4>1 DEF GithubInv, FoldersAhead
    <3> QED BY <3>2, <3>3
  <2> QED BY <2>2, <2>3
<1>18. FilesKnown'
  <2> SUFFICES ASSUME Quiet, NEW f \in RepoFolders
               PROVE  /\ s = f => remote'[settings].folders[f].files = SyncedText
                      /\ s # f =>
                           /\ \A m \in Novels : books[m].slug = f => remote'[settings].folders[f].files = books[m].files
                           /\ (\A m \in Novels : books[m].slug # f) => remote'[settings].folders[f].files = NoFiles
    BY <1>1, <1>11, <1>12 DEF FilesKnown, Quiet
  <2>1. s = f => remote'[settings].folders[f].files = SyncedText
    BY <1>7, <1>10, <1>13
  <2>2. s # f => remote'[settings].folders[f] = remote[settings].folders[f]
    BY <1>10, <1>13
  <2> QED BY <1>1, <2>1, <2>2 DEF GithubInv, FilesKnown
<1>19. OthersEmpty'
  <2> SUFFICES ASSUME mishaps.retargets = 0, ~mishaps.swapped, NEW u \in Targets \ {settings}, NEW f \in RepoFolders
               PROVE  remote'[u].folders[f].files = NoFiles
    BY <1>1 DEF OthersEmpty
  <2>1. u # T
    BY <1>4
  <2> QED BY <1>10, <2>1 DEF GithubInv, OthersEmpty
<1>20. NothingOverwritten'
  <2>1. sync.notes = outside[T]
    BY <1>1, <1>4 DEF GithubInv, BaseOk, NothingOverwritten, T
  <2> QED BY <1>1, <1>4, <1>10, <2>1 DEF GithubInv, NothingOverwritten
<1>21. FolderIsOneVersion'
  <2> SUFFICES ASSUME Quiet, NEW u \in Targets, NEW f \in RepoFolders PROVE OneVersion(remote[u].folders[f])'
    BY <1>1 DEF FolderIsOneVersion, Quiet, OneVersion
  <2>1. CASE u = T /\ f = s
    <3>1. remote'[u].folders[f].json = version /\ remote'[u].folders[f].files = bookVersions[n][version]
      BY <1>4, <1>6, <1>7, <1>10, <1>13, <2>1
    <3> QED BY <1>1, <1>4, <1>6, <3>1 DEF OneVersion
  <2>2. CASE ~(u = T /\ f = s)
    <3>1. remote'[u].folders[f] = remote[u].folders[f]
      BY <1>10, <2>2
    <3>2. OneVersion(remote[u].folders[f])
      BY DEF GithubInv, FolderIsOneVersion, Quiet, OneVersion
    <3> QED BY <1>1, <3>1, <3>2 DEF OneVersion
  <2> QED BY <2>1, <2>2
<1> QED BY <1>14, <1>15, <1>16, <1>17, <1>18, <1>19, <1>20, <1>21 DEF GithubInv

LEMMA GithubStep ==
  ASSUME GithubInv, [GithubNext]_githubVars
  PROVE  GithubInv'
<1>1. ASSUME NEW n \in Novels, SaveNovel(n) PROVE GithubInv'
  <2>1. UNCHANGED <<remote, settings, books, sync, outside, mishaps>>
    BY <1>1 DEF SaveNovel
  <2> QED BY <1>1, <2>1, SaveGrows, GrownStep DEF GithubInv
<1>2. ASSUME UNCHANGED githubVars PROVE GithubInv'
  <2>1. /\ UNCHANGED <<remote, settings, books, sync, outside, mishaps>> /\ bookVersions' = bookVersions
        /\ \A m \in Novels : Len(bookVersions[m]) \in Nat
    BY <1>2 DEF githubVars, GithubInv, GithubType
  <2> QED BY <2>1, GrownStep DEF GithubInv, GithubType
<1> QED BY <1>1, <1>2, BeginStep, BaseStep, BackStep, UpdateStep, RecordStep, CutOffStep, RetargetStep, OutsideStep DEF GithubNext

----------------------------------------------------------------------------
\* However saves, cut-off syncs, pushes of others and changes of the target fall between the steps of a
\* sync: a book shown as done can be restored as it is, a folder is one version of one book, no two books
\* share a folder, and no commit of somebody else is lost (sync_project, GitHubClient.commit_files).
THEOREM BackupRestorable == GithubSpec => []BackupIsRestorable
<1>1. GithubInv => BackupIsRestorable
  <2> SUFFICES ASSUME GithubInv, ~mishaps.swapped, NEW n \in Novels, books[n].synced = Latest(n)
               PROVE  remote[settings].folders[books[n].slug].json = Latest(n)
    BY DEF BackupIsRestorable, NotPendingIsRestorable, GithubInv, ManifestsOk
  <2>1. Latest(n) = Len(bookVersions[n]) /\ Latest(n) \in Nat \ {0}
    BY LatestIsLength DEF GithubInv
  <2>2. books[n].slug \in RepoFolders
    BY <2>1 DEF GithubInv, GithubType, ManifestsOk, Manifests, Slugs, RepoFolders
  <2>3. remote[settings].folders[books[n].slug].json \in Nat
    BY <2>2 DEF GithubInv, GithubType, Remotes, BookFolders
  <2>4. books[n].synced <= remote[settings].folders[books[n].slug].json
        /\ remote[settings].folders[books[n].slug].json <= Len(bookVersions[n])
    BY <2>1 DEF GithubInv, FoldersAhead
  <2> QED BY <2>1, <2>3, <2>4
<1>2. GithubInv /\ [GithubNext]_githubVars => GithubInv'
  BY GithubStep
<1> QED BY <1>1, <1>2, InitGithub, PTL DEF GithubSpec

-----------------------------------------------------------------------------
(* DatabaseBackup: every set of folders, every number of copies kept.        *)

File == [text : Int, index : Int, schema : Int, key : {NoKey, "old"}, intact : BOOLEAN]
Copies == [kind : {"manual", "auto", "safety"}, at : Nat, holds : File]

BackupTypes ==
  /\ library \in File /\ location \in Folders /\ copies \in [Folders -> SUBSET Copies]
  /\ moment \in Nat \ {0}

\* A restore at work: the file it puts in, the database of before, and the safety copy of that, the newest
\* file there is.
AtWork ==
  restoring # NotRestoring =>
    /\ restoring = [step |-> restoring.step, source |-> restoring.source, was |-> restoring.was, copy |-> restoring.copy]
    /\ serving /\ restoring.step \in {"copied", "replaced"}
    /\ restoring.source \in File /\ restoring.was \in File
    /\ library = IF restoring.step = "copied" THEN restoring.was ELSE restoring.source
    /\ restoring.copy = moment - 1
    /\ \E f \in copies[location] : f.kind = "safety" /\ f.at = restoring.copy /\ f.holds.text = restoring.was.text

BackupInv ==
  /\ BackupTypes /\ AtWork /\ BackupsHoldNoKey
  /\ \A d \in Folders : \A f \in copies[d] : f.at < moment

----------------------------------------------------------------------------
(* The operators.                                                          *)

\* A database that was opened holds no key, and its search index is of its text.
LEMMA MigratedFile ==
  ASSUME NEW file \in File
  PROVE  /\ Migrated(file) \in File /\ Migrated(file).key = NoKey
         /\ Migrated(file).index = Migrated(file).text /\ Migrated(file).text = file.text
<1> DEFINE schema == CurrentSchema
           key == NoKey
           new == [file EXCEPT !.index = file.text, !.schema = schema, !.key = key]
<1>1. schema \in Int /\ key \in {NoKey, "old"} /\ key = NoKey /\ Migrated(file) = new
  BY DEF Migrated, CurrentSchema
<1> HIDE DEF schema, key
<1>2. new.key = key /\ new.index = file.text /\ new.text = file.text
  BY DEF File
<1>3. new \in File
  BY <1>1 DEF File
<1> QED BY <1>1, <1>2, <1>3

LEMMA WithKeysFile ==
  ASSUME NEW file \in File
  PROVE  MigratedWithKeys(file) \in File
<1> DEFINE schema == CurrentSchema
<1>1. schema \in Int /\ MigratedWithKeys(file) = [file EXCEPT !.index = file.text, !.schema = schema]
  BY DEF MigratedWithKeys, CurrentSchema
<1> HIDE DEF schema
<1> QED BY <1>1 DEF File

LEMMA FoundAreFiles == OldFile \in File /\ FoundFiles \subseteq File
<1>1. OldFile \in File
  BY DEF OldFile, File
<1>2. [OldFile EXCEPT !.intact = FALSE] \in File
  BY <1>1 DEF File
<1> DEFINE schema == 3
           key == NoKey
<1>3. schema \in Int /\ key \in {NoKey, "old"}
  OBVIOUS
<1> HIDE DEF schema, key
<1>4. [OldFile EXCEPT !.schema = schema, !.key = key] \in File
  BY <1>1, <1>3 DEF File
<1> QED BY <1>1, <1>2, <1>4 DEF FoundFiles, schema, key

\* A file that is put into a folder holds the database; nothing else is new.
LEMMA AddFileAdds ==
  ASSUME BackupTypes, NEW kind \in {"manual", "auto", "safety"}, NEW kinds, NEW keep, AddFile(kind, kinds, keep)
  PROVE  /\ moment' = moment + 1 /\ copies' \in [Folders -> SUBSET Copies]
         /\ \A d \in Folders : \A f \in copies'[d] :
              f \in copies[d] \/ (f.at = moment /\ f.holds = library)
<1> DEFINE new == NewFile(kind)
<1>1. new \in Copies /\ new.at = moment /\ new.holds = library
  BY DEF NewFile, Copies, BackupTypes
<1>2. moment' = moment + 1 /\ copies' = [copies EXCEPT ![location] = Pruned(copies[location] \cup {new}, kinds, keep)]
  BY DEF AddFile
<1>3. Pruned(copies[location] \cup {new}, kinds, keep) \subseteq copies[location] \cup {new}
  BY DEF Pruned
<1> HIDE DEF new
<1>4. copies[location] \subseteq Copies
  BY DEF BackupTypes
<1>5. \A d \in Folders : copies'[d] \subseteq copies[d] \cup {new}
  BY <1>2, <1>3 DEF BackupTypes
<1>6. copies' \in [Folders -> SUBSET Copies]
  BY <1>1, <1>2, <1>3, <1>4 DEF BackupTypes
<1> QED BY <1>1, <1>2, <1>5, <1>6

\* Of the safety copies the newest is kept.
LEMMA NewestStays ==
  ASSUME NEW files \in SUBSET Copies, NEW f \in files, f.kind = "safety", \A g \in files : g.at <= f.at
  PROVE  f \in Pruned(files, {"safety"}, KeepSafety)
<1> DEFINE newer == {g \in files : g.kind \in {"safety"} /\ SortsBefore(g, f)}
<1>1. newer = {}
  <2> SUFFICES ASSUME NEW g \in files, g.kind = "safety", SortsBefore(g, f) PROVE FALSE
    OBVIOUS
  <2>1. f.at \in Nat /\ g.at \in Nat /\ g.at <= f.at
    BY DEF Copies
  <2> QED BY <2>1 DEF SortsBefore
<1>2. Cardinality(newer) = 0
  BY <1>1, FS_EmptySet
<1>3. KeepSafety \in Nat \ {0}
  BY KeepAssumption
<1> HIDE DEF newer
<1>4. Cardinality(newer) < KeepSafety
  BY <1>2, <1>3
<1> QED BY <1>4 DEF Pruned, newer

----------------------------------------------------------------------------
(* The invariant.                                                          *)

LEMMA BackupInitInv == BackupInit => BackupInv
<1> SUFFICES ASSUME BackupInit PROVE BackupInv
  OBVIOUS
<1>1. OldFile \in File /\ FoundFiles \subseteq File
  BY FoundAreFiles
<1>2. library \in File
  BY <1>1, MigratedFile DEF BackupInit
<1>3. location \in Folders /\ moment = 1 /\ restoring = NotRestoring /\ serving = FALSE
  BY KeepAssumption DEF BackupInit
<1>4. PICK found \in SUBSET FoundFiles :
        copies = [d \in Folders |-> IF d = location THEN {[kind |-> "manual", at |-> 0, holds |-> f] : f \in found} ELSE {}]
  BY DEF BackupInit
<1>5. \A d \in Folders : \A f \in copies[d] : f \in Copies /\ f.at = 0
  BY <1>1, <1>4 DEF Copies
<1>6. copies \in [Folders -> SUBSET Copies]
  BY <1>4, <1>5
<1>7. BackupTypes
  BY <1>2, <1>3, <1>6 DEF BackupTypes
<1>8. BackupsHoldNoKey
  BY <1>3, <1>5 DEF BackupsHoldNoKey, Idle
<1> QED BY <1>3, <1>5, <1>7, <1>8 DEF BackupInv, AtWork

\* What puts a file into a folder while no restore is at work.
LEMMA AddKeeps ==
  ASSUME BackupInv, Idle, NEW kind \in {"manual", "auto", "safety"}, NEW kinds, NEW keep, AddFile(kind, kinds, keep)
  PROVE  /\ moment' = moment + 1 /\ moment' \in Nat \ {0} /\ copies' \in [Folders -> SUBSET Copies]
         /\ \A d \in Folders : \A f \in copies'[d] : (f.at > 0 => f.holds.key = NoKey) /\ f.at < moment'
<1>1. moment \in Nat \ {0} /\ library.key = NoKey
  BY DEF BackupInv, BackupTypes, BackupsHoldNoKey
<1>2. /\ moment' = moment + 1 /\ copies' \in [Folders -> SUBSET Copies]
      /\ \A d \in Folders : \A f \in copies'[d] : f \in copies[d] \/ (f.at = moment /\ f.holds = library)
  BY AddFileAdds DEF BackupInv
<1>3. \A d \in Folders : \A f \in copies[d] : f.at \in Nat /\ f.at < moment /\ (f.at > 0 => f.holds.key = NoKey)
  BY DEF BackupInv, BackupTypes, BackupsHoldNoKey, Copies
<1> QED BY <1>1, <1>2, <1>3

\* An idle program whose database changes by a save stays sound.
LEMMA SavedKeeps ==
  ASSUME BackupInv, Idle, library' = [library EXCEPT !.text = @ + 1, !.index = library.text + 1]
  PROVE  library' \in File /\ library'.key = NoKey /\ library'.index = library'.text
<1>1. library \in File /\ library.key = NoKey
  BY DEF BackupInv, BackupTypes, BackupsHoldNoKey
<1> DEFINE t == library.text + 1
<1>2. t \in Int /\ library' = [library EXCEPT !.text = t, !.index = t]
  BY <1>1 DEF File
<1> HIDE DEF t
<1>3. library' \in File
  BY <1>1, <1>2 DEF File
<1> QED BY <1>1, <1>2, <1>3 DEF File

LEMMA BackupStepInv ==
  ASSUME BackupInv, [BackupNext]_backupVars
  PROVE  BackupInv'
<1>a. /\ library \in File /\ location \in Folders /\ copies \in [Folders -> SUBSET Copies]
      /\ moment \in Nat \ {0}
  BY DEF BackupInv, BackupTypes
<1>b. \A d \in Folders : \A f \in copies[d] : (f.at > 0 => f.holds.key = NoKey) /\ f.at < moment
  BY DEF BackupInv, BackupsHoldNoKey
<1>c. Idle => library.key = NoKey /\ library.index = library.text
  BY DEF BackupInv, BackupsHoldNoKey
<1>d. restoring # NotRestoring => serving
  BY DEF BackupInv, AtWork
<1>1. ASSUME OpenLibrary PROVE BackupInv'
  <2>1. library' = Migrated(library) /\ UNCHANGED <<copies, location, moment, restoring>> /\ restoring = NotRestoring
    BY <1>1, <1>d DEF OpenLibrary
  <2> QED BY <1>a, <1>b, <2>1, MigratedFile DEF BackupInv, BackupTypes, AtWork, BackupsHoldNoKey, Idle
<1>2. ASSUME OpeningCutOff PROVE BackupInv'
  <2>1. library' \in {library, MigratedWithKeys(library)} /\ ~serving' /\ UNCHANGED <<copies, location, moment, restoring>>
        /\ restoring = NotRestoring
    BY <1>2, <1>d DEF OpeningCutOff
  <2>2. MigratedWithKeys(library) \in File
    BY <1>a, WithKeysFile
  <2> QED BY <1>a, <1>b, <2>1, <2>2 DEF BackupInv, BackupTypes, AtWork, BackupsHoldNoKey, Idle
<1>3. ASSUME Change PROVE BackupInv'
  <2>1. Idle /\ library' = [library EXCEPT !.text = @ + 1, !.index = library.text + 1]
        /\ UNCHANGED <<copies, location, moment, restoring, serving>>
    BY <1>3 DEF Change
  <2>2. library' \in File /\ library'.key = NoKey /\ library'.index = library'.text
    BY <2>1, SavedKeeps
  <2> QED BY <1>a, <1>b, <2>1, <2>2 DEF BackupInv, BackupTypes, AtWork, BackupsHoldNoKey, Idle
<1>4. ASSUME UNCHANGED <<library, copies, location, moment, restoring, serving>> PROVE BackupInv'
  BY <1>4 DEF BackupInv, BackupTypes, AtWork, BackupsHoldNoKey, Idle
<1>5. ASSUME NEW kind \in {"manual", "auto"}, NEW kinds, NEW keep, Idle, AddFile(kind, kinds, keep),
             UNCHANGED <<location, restoring, serving>>,
             \/ library' = library
             \/ library' = [library EXCEPT !.text = @ + 1, !.index = library.text + 1]
      PROVE  BackupInv'
  <2>1. /\ moment' \in Nat \ {0} /\ copies' \in [Folders -> SUBSET Copies]
        /\ \A d \in Folders : \A f \in copies'[d] : (f.at > 0 => f.holds.key = NoKey) /\ f.at < moment'
    BY <1>5, AddKeeps
  <2>2. library' \in File /\ library'.key = NoKey /\ library'.index = library'.text
    BY <1>5, <1>a, <1>c, SavedKeeps
  <2>3. restoring' = NotRestoring /\ location' \in Folders
    BY <1>5, <1>a DEF Idle
  <2> QED BY <2>1, <2>2, <2>3 DEF BackupInv, BackupTypes, AtWork, BackupsHoldNoKey
<1>6. ASSUME ChooseFolder PROVE BackupInv'
  <2>1. Idle /\ location' \in Folders /\ UNCHANGED <<library, copies, moment, restoring, serving>>
    BY <1>6 DEF ChooseFolder
  <2> QED BY <1>a, <1>b, <1>c, <2>1 DEF BackupInv, BackupTypes, AtWork, BackupsHoldNoKey, Idle
<1>7. ASSUME BeginRestore PROVE BackupInv'
  <2>1. Idle /\ AddFile("safety", {}, KeepSafety) /\ UNCHANGED <<library, location, serving>>
    BY <1>7 DEF BeginRestore
  <2>2. PICK f \in copies[location] :
          restoring' = [step |-> "copied", source |-> f.holds, was |-> library, copy |-> moment]
    BY <1>7 DEF BeginRestore
  <2>3. f.holds \in File
    BY <1>a DEF Copies
  <2>4. /\ moment' = moment + 1 /\ moment' \in Nat \ {0} /\ copies' \in [Folders -> SUBSET Copies]
        /\ \A d \in Folders : \A g \in copies'[d] : (g.at > 0 => g.holds.key = NoKey) /\ g.at < moment'
    BY <2>1, AddKeeps
  <2>5. NewFile("safety") \in copies'[location]
    <3>1. copies'[location] = Pruned(copies[location] \cup {NewFile("safety")}, {}, KeepSafety)
      BY <1>a, <2>1 DEF AddFile
    <3> QED BY <3>1 DEF Pruned
  <2>6. NewFile("safety").kind = "safety" /\ NewFile("safety").at = moment /\ NewFile("safety").holds = library
    BY DEF NewFile
  <2>7. serving' /\ restoring' # NotRestoring /\ moment = moment' - 1
    BY <1>a, <2>1, <2>2, <2>4 DEF Idle, NotRestoring
  <2>8. AtWork'
    BY <1>a, <2>1, <2>2, <2>3, <2>5, <2>6, <2>7 DEF AtWork
  <2>9. BackupTypes'
    BY <1>a, <2>1, <2>4 DEF BackupTypes
  <2>10. BackupsHoldNoKey'
    BY <2>4, <2>7 DEF BackupsHoldNoKey, Idle
  <2> QED BY <2>4, <2>8, <2>9, <2>10 DEF BackupInv
<1>8. ASSUME ReplaceLibrary PROVE BackupInv'
  <2>1. /\ serving /\ restoring.step = "copied" /\ library' = restoring.source
        /\ restoring' = [restoring EXCEPT !.step = "replaced"] /\ UNCHANGED <<copies, location, moment, serving>>
    BY <1>8 DEF ReplaceLibrary
  <2>2. restoring # NotRestoring
    BY <2>1 DEF NotRestoring
  <2>3. restoring = [step |-> restoring.step, source |-> restoring.source, was |-> restoring.was, copy |-> restoring.copy]
    BY <2>2 DEF BackupInv, AtWork
  <2>4. /\ restoring'.step = "replaced" /\ restoring'.source = restoring.source /\ restoring'.was = restoring.was
        /\ restoring'.copy = restoring.copy
        /\ restoring' = [step |-> restoring'.step, source |-> restoring'.source, was |-> restoring'.was,
                         copy |-> restoring'.copy]
    BY <2>1, <2>3
  <2>5. restoring' # NotRestoring
    BY <2>4 DEF NotRestoring
  <2>6. AtWork'
    BY <2>1, <2>2, <2>4 DEF BackupInv, AtWork
  <2>7. library' \in File
    BY <2>1, <2>2 DEF BackupInv, AtWork
  <2> QED BY <1>a, <1>b, <2>1, <2>5, <2>6, <2>7 DEF BackupInv, BackupTypes, BackupsHoldNoKey, Idle
<1>9. ASSUME FinishRestore PROVE BackupInv'
  <2>1. /\ library' = Migrated(library) /\ restoring' = NotRestoring /\ UNCHANGED <<location, moment, serving>>
        /\ copies' = [copies EXCEPT ![location] = Pruned(copies[location], {"safety"}, KeepSafety)]
    BY <1>9 DEF FinishRestore
  <2>2. Pruned(copies[location], {"safety"}, KeepSafety) \subseteq copies[location]
    BY DEF Pruned
  <2>3. copies' \in [Folders -> SUBSET Copies] /\ \A d \in Folders : copies'[d] \subseteq copies[d]
    BY <1>a, <2>1, <2>2
  <2> QED BY <1>a, <1>b, <2>1, <2>3, MigratedFile DEF BackupInv, BackupTypes, AtWork, BackupsHoldNoKey, Idle
<1>10. ASSUME RollBack PROVE BackupInv'
  <2>1. /\ restoring # NotRestoring /\ restoring' = NotRestoring /\ library' = Migrated(restoring.was)
        /\ UNCHANGED <<copies, location, moment, serving>>
    BY <1>10 DEF RollBack
  <2>2. restoring.was \in File
    BY <2>1 DEF BackupInv, AtWork
  <2> QED BY <1>a, <1>b, <2>1, <2>2, MigratedFile DEF BackupInv, BackupTypes, AtWork, BackupsHoldNoKey, Idle
<1>11. ASSUME PowerLoss PROVE BackupInv'
  <2>1. ~serving' /\ restoring' = NotRestoring /\ UNCHANGED <<library, copies, location, moment>>
    BY <1>11 DEF PowerLoss
  <2> QED BY <1>a, <1>b, <2>1 DEF BackupInv, BackupTypes, AtWork, BackupsHoldNoKey, Idle
<1>12. SetCredential \/ JobStartsOrEnds \/ HourPasses \/ UNCHANGED backupVars
         => UNCHANGED <<library, copies, location, moment, restoring, serving>>
  BY DEF SetCredential, JobStartsOrEnds, HourPasses, backupVars
<1>13. BackUpNow \/ DeleteBook \/ BackUpHourly => BackupInv'
  <2>1. BackUpNow => BackupInv'
    <3> SUFFICES ASSUME BackUpNow PROVE BackupInv'
      OBVIOUS
    <3>1. Idle /\ AddFile("manual", {"manual", "auto"}, KeepManual) /\ UNCHANGED <<library, location, restoring, serving>>
      BY DEF BackUpNow
    <3> QED BY <3>1, <1>5
  <2>2. DeleteBook => BackupInv'
    <3> SUFFICES ASSUME DeleteBook PROVE BackupInv'
      OBVIOUS
    <3>1. Idle /\ AddFile("manual", {"manual", "auto"}, KeepManual) /\ UNCHANGED <<location, restoring, serving>>
          /\ library' = [library EXCEPT !.text = @ + 1, !.index = library.text + 1]
      BY DEF DeleteBook
    <3> QED BY <3>1, <1>5
  <2>3. BackUpHourly => BackupInv'
    <3> SUFFICES ASSUME BackUpHourly PROVE BackupInv'
      OBVIOUS
    <3>1. Idle /\ AddFile("auto", {"auto"}, KeepAuto) /\ UNCHANGED <<library, location, restoring, serving>>
      BY DEF BackUpHourly
    <3> QED BY <3>1, <1>5
  <2> QED BY <2>1, <2>2, <2>3
<1> QED BY <1>1, <1>2, <1>3, <1>4, <1>6, <1>7, <1>8, <1>9, <1>10, <1>11, <1>12, <1>13 DEF BackupNext

----------------------------------------------------------------------------
(* The properties.                                                         *)

RestoreEndsWell ==
  restoring # NotRestoring /\ restoring' = NotRestoring =>
    \/ library'.text = restoring.was.text
    \/ /\ serving' => /\ named' = restoring.copy
                      /\ library'.text = restoring.source.text
       /\ HeldIn(copies'[location], restoring.was.text)

UpgradeKeepsCopy ==
  ~serving /\ library.schema < CurrentSchema /\ library'.schema = CurrentSchema => library \in upgradeCopies'

\* Only a finish, a roll back and a crash end a restore.
LEMMA WhoEndsRestore ==
  ASSUME BackupInv, [BackupNext]_backupVars, restoring # NotRestoring, restoring' = NotRestoring
  PROVE  FinishRestore \/ RollBack \/ PowerLoss
<1>1. restoring' # restoring /\ ~Idle
  BY DEF Idle
<1>2. ~OpenLibrary /\ ~OpeningCutOff /\ ~HourPasses /\ ~UNCHANGED backupVars
  BY <1>1 DEF OpenLibrary, OpeningCutOff, HourPasses, backupVars
<1>3. ~Change /\ ~SetCredential /\ ~JobStartsOrEnds /\ ~BackUpNow /\ ~DeleteBook /\ ~BackUpHourly /\ ~ChooseFolder /\ ~BeginRestore
  BY <1>1 DEF Change, SetCredential, JobStartsOrEnds, BackUpNow, DeleteBook, BackUpHourly, ChooseFolder, BeginRestore
<1>4. ~ReplaceLibrary
  <2> SUFFICES ASSUME ReplaceLibrary PROVE FALSE
    OBVIOUS
  <2>1. restoring' = [restoring EXCEPT !.step = "replaced"]
    BY DEF ReplaceLibrary
  <2>2. restoring = [step |-> restoring.step, source |-> restoring.source, was |-> restoring.was, copy |-> restoring.copy]
    BY DEF BackupInv, AtWork
  <2>3. restoring'.step = "replaced"
    BY <2>1, <2>2
  <2> QED BY <2>3 DEF NotRestoring
<1> QED BY <1>2, <1>3, <1>4 DEF BackupNext

LEMMA RestoreStep ==
  ASSUME BackupInv, [BackupNext]_backupVars
  PROVE  RestoreEndsWell
<1> SUFFICES ASSUME restoring # NotRestoring, restoring' = NotRestoring
             PROVE  \/ library'.text = restoring.was.text
                    \/ /\ serving' => /\ named' = restoring.copy
                                      /\ library'.text = restoring.source.text
                       /\ HeldIn(copies'[location], restoring.was.text)
  BY DEF RestoreEndsWell
<1>1. /\ restoring.step \in {"copied", "replaced"} /\ restoring.source \in File /\ restoring.was \in File
      /\ library = IF restoring.step = "copied" THEN restoring.was ELSE restoring.source
      /\ restoring.copy = moment - 1
  BY DEF BackupInv, AtWork
<1>2. PICK f \in copies[location] : f.kind = "safety" /\ f.at = restoring.copy /\ f.holds.text = restoring.was.text
  BY DEF BackupInv, AtWork
<1>3. location \in Folders /\ copies \in [Folders -> SUBSET Copies] /\ moment \in Nat
      /\ \A g \in copies[location] : g.at < moment
  BY DEF BackupInv, BackupTypes
<1>4. CASE FinishRestore
  <2>1. \A g \in copies[location] : g.at <= f.at
    <3> SUFFICES ASSUME NEW g \in copies[location] PROVE g.at <= f.at
      OBVIOUS
    <3>1. g.at \in Nat /\ g.at < moment
      BY <1>3 DEF Copies
    <3> QED BY <1>1, <1>2, <1>3, <3>1
  <2>2. f \in Pruned(copies[location], {"safety"}, KeepSafety)
    BY <1>2, <1>3, <2>1, NewestStays
  <2>3. f \in copies'[location]
    BY <1>3, <1>4, <2>2 DEF FinishRestore
  <2>4. library' = Migrated(restoring.source) /\ named' = restoring.copy
    BY <1>1, <1>4 DEF FinishRestore
  <2> QED BY <1>1, <1>2, <2>3, <2>4, MigratedFile DEF HeldIn
<1>5. CASE RollBack
  BY <1>1, <1>5, MigratedFile DEF RollBack
<1>6. CASE PowerLoss
  BY <1>1, <1>2, <1>6 DEF PowerLoss, HeldIn
<1> QED BY <1>4, <1>5, <1>6, WhoEndsRestore

LEMMA UpgradeStep ==
  ASSUME BackupInv, [BackupNext]_backupVars
  PROVE  UpgradeKeepsCopy
<1> SUFFICES ASSUME ~serving, library.schema < CurrentSchema, library'.schema = CurrentSchema PROVE library \in upgradeCopies'
  BY DEF UpgradeKeepsCopy
<1>1. library' # library
  BY DEF CurrentSchema
<1>2. ~Idle /\ ~FinishRestore /\ ~RollBack /\ ~PowerLoss /\ ~ReplaceLibrary /\ ~HourPasses /\ ~UNCHANGED backupVars
  BY <1>1 DEF Idle, FinishRestore, RollBack, PowerLoss, ReplaceLibrary, HourPasses, backupVars
<1>3. OpenLibrary \/ OpeningCutOff
  BY <1>2 DEF BackupNext, Change, SetCredential, JobStartsOrEnds, BackUpNow, DeleteBook, BackUpHourly, ChooseFolder, BeginRestore
<1> QED BY <1>3 DEF OpenLibrary, OpeningCutOff

\* Over found files, starts that were cut off and restores that failed: no backup holds a key, and no text is
\* replaced without a copy (storage/database_backup.py, automatic_backup.py, sqlite_schema.py).
THEOREM LibraryGuarded == BackupSpec => LibraryIsGuarded
<1>1. BackupInv /\ [BackupNext]_backupVars => BackupInv'
  BY BackupStepInv
<1>2. BackupInv /\ [BackupNext]_backupVars => [RestoreEndsWell /\ UpgradeKeepsCopy]_backupVars
  BY RestoreStep, UpgradeStep
<1>3. BackupInv => BackupsHoldNoKey
  BY DEF BackupInv
<1>4. BackupSpec => [][RestoreEndsWell /\ UpgradeKeepsCopy]_backupVars
  BY <1>1, <1>2, BackupInitInv, PTL DEF BackupSpec
<1>5. BackupSpec => []BackupsHoldNoKey
  BY <1>1, <1>3, BackupInitInv, PTL DEF BackupSpec
<1> QED BY <1>4, <1>5, PTL DEF LibraryIsGuarded, NothingReplacedUncopied, RestoreEndsWell, UpgradeKeepsCopy

-----------------------------------------------------------------------------
(* ImportJob: every book, number of batches, of attempts, of the author's    *)
(* steps and of launches.                                                    *)


Chapter == [id : Nat, v : Nat, lock : Nat, mem : Nat, stale : BOOLEAN]
ImportStatuses == {"imported", "analyzing", "awaiting_review", "settling", "paused", "failed", "completed"}
Record == [status : ImportStatuses, batches : [1..ReadBatches -> {"pending", "done", "failed"}], review : {"none", "pending", "confirmed"},
           index : Nat \ {0}, settled : SUBSET Nat, pause : BOOLEAN]
Reading == [at : {"memory"}, job : Record, id : Nat, v : Nat, attempt : Nat, stamp : Nat]

BookOk(book) ==
  /\ book \in Seq(Chapter)
  /\ \A p, q \in 1..Len(book) : book[p].id = book[q].id => p = q

\* The chapter need not be read: it has its memory, is marked stale or is not locked.
Settled(c) == LockedNow(c) => c.mem = c.v \/ c.stale
SettledTo(book, i) == \A p \in 1..Len(book) : p < i => Settled(book[p])
AllSettled(book) == \A p \in 1..Len(book) : Settled(book[p])

\* What the runner is reading: the chapter its index points at, unless what has moved there is settled; and
\* the present text, unless the project has moved on.
ReadsOn(book, h, stamp) ==
  /\ \A p \in 1..Len(book) : p = h.job.index => Settled(book[p]) \/ book[p].id = h.id
  /\ h.stamp <= stamp
  /\ h.stamp = stamp => \E p \in 1..Len(book) : book[p].id = h.id /\ book[p].v = h.v

JobOk(book, j) == j \in Record /\ SettledTo(book, j.index)

ImportInv ==
  /\ BookOk(manuscript) /\ staleAt \in Nat /\ stampNo \in Nat
  /\ JobOk(manuscript, importJob)
  /\ importJob.status = "completed" => AllSettled(manuscript)
  /\ hand.at # "none" => JobOk(manuscript, hand.job) /\ hand.job.status # "completed"
  /\ hand.at = "memory" => hand \in Reading /\ ReadsOn(manuscript, hand, stampNo)
  /\ roll \in [CastNames -> {0, 1}]

\* A nonempty set of places has a first one.
LEMMA FirstPlace ==
  ASSUME NEW S \in SUBSET Nat, S # {}
  PROVE  Min(S) \in S /\ \A y \in S : Min(S) <= y
<1> DEFINE R == OpToRel(<, Nat)
<1>1. IsWellFoundedOn(R, Nat)
  BY NatLessThanWellFounded
<1>2. \A k, m \in S : k < m => <<k, m>> \in R
  BY DEF OpToRel
<1>3. PICK m \in S : \A k \in S : <<k, m>> \notin R
  <2> HIDE DEF R
  <2> QED BY <1>1, WFMin
<1>4. \A k \in S : ~(k < m)
  BY <1>2, <1>3
<1>5. \A k \in S : m <= k
  BY <1>4
<1> QED BY <1>5 DEF Min

-----------------------------------------------------------------------------
(* Going on from a chapter.                                                *)

NextIs(j, book, stamp, r) ==
  /\ r.job \in Record /\ SettledTo(book, r.job.index)
  /\ r.job.status = "completed" => AllSettled(book)
  /\ r.hand.at # "none" =>
       /\ r.hand \in Reading /\ r.hand.job = r.job /\ r.job.status # "completed" /\ ReadsOn(book, r.hand, stamp)
  /\ r.hand.at \in {"none", "memory"} /\ (j.pause => r.hand.at = "none")

LEMMA StoppedIs == ASSUME NEW j PROVE Stopped(j).job = j /\ Stopped(j).hand.at = "none"
BY DEF Stopped, IdleTab

LEMMA NextSettles ==
  ASSUME NEW j \in Record, j.status # "completed", NEW book, BookOk(book), NEW stamp \in Nat, SettledTo(book, j.index),
         NEW r, r = NextChapter(j, book, stamp)
  PROVE  NextIs(j, book, stamp, r)
<1>1. PICK left : left = {p \in j.index..Len(book) : ~Skippable(j, book[p])}
  OBVIOUS
<1>2. PICK n : n = Len(book)
  OBVIOUS
<1>3. n \in Nat /\ j.index \in Nat \ {0}
  BY <1>2 DEF BookOk, Record
<1>4. \A p \in 1..n : j.index <= p /\ p \notin left => Settled(book[p])
  <2> SUFFICES ASSUME NEW p \in 1..n, j.index <= p, p \notin left PROVE Settled(book[p])
    OBVIOUS
  <2>1. Skippable(j, book[p])
    BY <1>1, <1>2, <1>3
  <2> QED BY <2>1 DEF Skippable, Settled
<1>5. \A p \in 1..n : p < j.index => Settled(book[p])
  BY <1>2 DEF SettledTo
<1>6. CASE j.index > n
  <2>1. PICK k : k = [j EXCEPT !.status = "completed"]
    OBVIOUS
  <2>2. k \in Record /\ k.index = j.index /\ k.status = "completed"
    BY <2>1 DEF Record, ImportStatuses
  <2>3. r = Stopped(k)
    BY <1>2, <1>6, <2>1 DEF NextChapter
  <2>4. AllSettled(book)
    BY <1>2, <1>3, <1>5, <1>6 DEF AllSettled
  <2> QED BY <2>2, <2>3, <2>4, StoppedIs DEF NextIs
<1>7. CASE ~(j.index > n) /\ j.pause
  <2>1. PICK k : k = [j EXCEPT !.status = "paused", !.pause = FALSE]
    OBVIOUS
  <2>2. k \in Record /\ k.index = j.index /\ k.status = "paused"
    BY <2>1 DEF Record, ImportStatuses
  <2>3. r = Stopped(k)
    BY <1>2, <1>7, <2>1 DEF NextChapter
  <2> QED BY <2>2, <2>3, StoppedIs DEF NextIs
<1>8. CASE ~(j.index > n) /\ ~j.pause /\ left = {}
  <2>1. PICK x \in Nat \ {0} : x = n + 1
    BY <1>3
  <2> PICK k : k = [j EXCEPT !.status = "completed", !.index = x]
    OBVIOUS
  <2>2. k \in Record /\ k.index = n + 1 /\ k.status = "completed"
    BY <2>1 DEF Record, ImportStatuses
  <2>3. r = Stopped(k)
    BY <1>1, <1>2, <1>8, <2>1 DEF NextChapter
  <2>4. \A p \in 1..n : Settled(book[p])
    BY <1>3, <1>4, <1>5, <1>8
  <2>5. AllSettled(book) /\ SettledTo(book, k.index)
    BY <1>2, <2>4 DEF AllSettled, SettledTo
  <2>6. r.job = k /\ r.hand.at = "none"
    BY <2>3, StoppedIs
  <2> QED BY <2>2, <2>5, <2>6 DEF NextIs
<1>9. CASE ~(j.index > n) /\ ~j.pause /\ left # {}
  <2>1. PICK m : m = Min(left)
    OBVIOUS
  <2>2. m \in left /\ \A p \in left : m <= p
    <3>1. left \in SUBSET Nat
      BY <1>1, <1>2, <1>3
    <3> QED BY <1>9, <2>1, <3>1, FirstPlace
  <2>3. m \in 1..n /\ j.index <= m
    BY <1>1, <1>2, <1>3, <2>2
  <2>4. PICK k : k = [j EXCEPT !.index = m]
    OBVIOUS
  <2>5. k \in Record /\ k.index = m /\ k.status = j.status
    BY <2>3, <2>4 DEF Record, ImportStatuses
  <2>6. PICK h : h = [at |-> "memory", job |-> k, id |-> book[m].id, v |-> book[m].v, attempt |-> 1, stamp |-> stamp]
    OBVIOUS
  <2>7. r = [job |-> k, hand |-> h]
    BY <1>1, <1>2, <1>9, <2>1, <2>4, <2>6 DEF NextChapter
  <2>8. book[m] \in Chapter
    BY <1>2, <2>3 DEF BookOk
  <2>9. h \in Reading
    BY <2>5, <2>6, <2>8 DEF Reading, Chapter
  <2>10. SettledTo(book, m)
    BY <1>2, <1>3, <1>4, <1>5, <2>2, <2>3 DEF SettledTo
  <2>11. h.job = k /\ h.id = book[m].id /\ h.v = book[m].v /\ h.stamp = stamp
    BY <2>6
  <2>12. ReadsOn(book, h, stamp)
    <3>1. h.job.index = m /\ m \in 1..Len(book) /\ h.stamp <= stamp
      BY <1>2, <2>3, <2>5, <2>11
    <3> QED BY <2>11, <3>1 DEF ReadsOn
  <2>13. r.job = k /\ r.hand = h /\ h.at = "memory"
    BY <2>6, <2>7
  <2> QED BY <1>9, <2>5, <2>9, <2>10, <2>11, <2>12, <2>13 DEF NextIs
<1> QED BY <1>6, <1>7, <1>8, <1>9

LEMMA BatchIs ==
  ASSUME NEW j \in Record, j.status # "completed", NEW from, NEW r, r = NextBatch(j, from)
  PROVE  /\ r.job \in Record /\ r.job.index = j.index /\ r.job.status # "completed"
         /\ r.hand.at # "none" => r.hand.job = j /\ r.job = j
         /\ r.hand.at \in {"none", "synthesis", "batch"} /\ (j.pause => r.hand.at # "batch")
<1>1. PICK left : left = {b \in from..ReadBatches : j.batches[b] # "done"}
  OBVIOUS
<1>2. PICK k : k = [j EXCEPT !.status = "failed"]
  OBVIOUS
<1>3. PICK l : l = [j EXCEPT !.status = "paused", !.pause = FALSE]
  OBVIOUS
<1>4. k \in Record /\ k.index = j.index /\ k.status = "failed" /\ l \in Record /\ l.index = j.index /\ l.status = "paused"
  BY <1>2, <1>3 DEF Record, ImportStatuses
<1>5. CASE left = {} /\ r = Stopped(k)
  BY <1>4, <1>5, StoppedIs
<1>6. CASE left = {} /\ r = [job |-> j, hand |-> [at |-> "synthesis", job |-> j]]
  BY <1>6
<1>7. CASE left # {} /\ j.pause /\ r = Stopped(l)
  BY <1>4, <1>7, StoppedIs
<1>8. CASE left # {} /\ ~j.pause /\ r = [job |-> j, hand |-> [at |-> "batch", job |-> j, b |-> Min(left)]]
  BY <1>8
<1>9. \/ left = {} /\ r = Stopped(k)
      \/ left = {} /\ r = [job |-> j, hand |-> [at |-> "synthesis", job |-> j]]
      \/ left # {} /\ j.pause /\ r = Stopped(l)
      \/ left # {} /\ ~j.pause /\ r = [job |-> j, hand |-> [at |-> "batch", job |-> j, b |-> Min(left)]]
  BY <1>1, <1>2, <1>3 DEF NextBatch
<1> QED BY <1>5, <1>6, <1>7, <1>8, <1>9

\* The pause of the stored record is taken over.
LEMMA MergedIs ==
  ASSUME NEW j \in Record, importJob \in Record
  PROVE  /\ MergedJob(j) \in Record /\ MergedJob(j).index = j.index /\ MergedJob(j).status = j.status
         /\ importJob.pause => MergedJob(j).pause
BY DEF MergedJob, Record

\* The job goes on over a book the author has left or changed.
LEMMA NextKeeps ==
  ASSUME NEW B, B = manuscript', BookOk(B), staleAt' \in Nat, NEW s \in Nat, s = stampNo', roll' \in [CastNames -> {0, 1}],
         NEW j, NEW r, NextIs(j, B, s, r), importJob' = r.job, hand' = r.hand
  PROVE  ImportInv'
<1>1. JobOk(B, r.job) /\ (r.job.status = "completed" => AllSettled(B))
  BY DEF NextIs, JobOk
<1>2. r.hand.at # "none" => JobOk(B, r.hand.job) /\ r.hand.job.status # "completed"
  BY <1>1 DEF NextIs
<1>3. r.hand.at = "memory" => r.hand \in Reading /\ ReadsOn(B, r.hand, s)
  BY DEF NextIs
<1>4. ImportInv' <=> /\ BookOk(manuscript') /\ staleAt' \in Nat /\ stampNo' \in Nat
                     /\ JobOk(manuscript', importJob')
                     /\ importJob'.status = "completed" => AllSettled(manuscript')
                     /\ hand'.at # "none" => JobOk(manuscript', hand'.job) /\ hand'.job.status # "completed"
                     /\ hand'.at = "memory" => hand' \in Reading /\ ReadsOn(manuscript', hand', stampNo')
                     /\ roll' \in [CastNames -> {0, 1}]
  BY DEF ImportInv
<1> QED BY <1>1, <1>2, <1>3, <1>4

-----------------------------------------------------------------------------
(* What happens to the book.                                               *)

\* A chapter that is not settled is where it was, and was not settled.
GoesOn(A, B) ==
  \A p \in 1..Len(B) : Settled(B[p]) \/ (p \in 1..Len(A) /\ B[p].id = A[p].id /\ ~Settled(A[p]))

LEMMA StillSettled ==
  ASSUME NEW A, NEW B, GoesOn(A, B)
  PROVE  /\ \A i : SettledTo(A, i) => SettledTo(B, i)
         /\ AllSettled(A) => AllSettled(B)
BY DEF GoesOn, SettledTo, AllSettled

LEMMA StillReads ==
  ASSUME NEW A, NEW B, GoesOn(A, B), NEW s \in Nat, NEW h, h.stamp \in Nat, ReadsOn(A, h, s)
  PROVE  ReadsOn(B, h, s + 1)
<1>1. h.stamp <= s /\ h.stamp # s + 1
  BY DEF ReadsOn
<1> QED BY <1>1 DEF GoesOn, ReadsOn

\* Whatever the author does, as long as what is not settled stays where it was.
LEMMA AuthorKeeps ==
  ASSUME ImportInv, NEW B, B = manuscript', BookOk(B), GoesOn(manuscript, B), staleAt' \in Nat, stampNo' = stampNo + 1,
         roll' \in [CastNames -> {0, 1}], importJob' = importJob, hand' = hand \/ hand'.at = "none"
  PROVE  ImportInv'
<1>1. PICK A : A = manuscript
  OBVIOUS
<1>2. PICK j : j = importJob
  OBVIOUS
<1>3. PICK h : h = hand'
  OBVIOUS
<1>4. PICK s \in Nat : s = stampNo
  BY DEF ImportInv
<1>5. JobOk(A, j) /\ (j.status = "completed" => AllSettled(A))
      /\ (h.at # "none" => JobOk(A, h.job) /\ h.job.status # "completed")
      /\ (h.at = "memory" => h \in Reading /\ ReadsOn(A, h, s))
  BY <1>1, <1>2, <1>3, <1>4 DEF ImportInv
<1>6. GoesOn(A, B)
  BY <1>1
<1>7. JobOk(B, j) /\ (j.status = "completed" => AllSettled(B)) /\ (h.at # "none" => JobOk(B, h.job))
  BY <1>5, <1>6, StillSettled DEF JobOk
<1>8. h.at = "memory" => ReadsOn(B, h, s + 1)
  BY <1>5, <1>6, StillReads DEF Reading
<1>9. ImportInv' <=> /\ BookOk(manuscript') /\ staleAt' \in Nat /\ stampNo' \in Nat
                     /\ JobOk(manuscript', importJob')
                     /\ importJob'.status = "completed" => AllSettled(manuscript')
                     /\ hand'.at # "none" => JobOk(manuscript', hand'.job) /\ hand'.job.status # "completed"
                     /\ hand'.at = "memory" => hand' \in Reading /\ ReadsOn(manuscript', hand', stampNo')
                     /\ roll' \in [CastNames -> {0, 1}]
  BY DEF ImportInv
<1>10. stampNo' \in Nat /\ stampNo' = s + 1
  BY <1>4
<1> QED BY <1>2, <1>3, <1>5, <1>7, <1>8, <1>9, <1>10

\* One chapter of a book is written anew.
Anew(A, p, c, B) == B = [A EXCEPT ![p] = c]

LEMMA OneAnew ==
  ASSUME NEW A, BookOk(A), NEW p \in 1..Len(A), NEW c \in Chapter, c.id = A[p].id, NEW B, Anew(A, p, c, B)
  PROVE  BookOk(B) /\ Len(B) = Len(A) /\ B[p] = c /\ \A q \in 1..Len(A) : q # p => B[q] = A[q]
<1>1. A \in Seq(Chapter)
  BY DEF BookOk
<1>2. B \in Seq(Chapter) /\ Len(B) = Len(A) /\ B[p] = c /\ \A q \in 1..Len(A) : q # p => B[q] = A[q]
  BY <1>1 DEF Anew
<1>3. \A q \in 1..Len(A) : B[q].id = A[q].id
  BY <1>2
<1> QED BY <1>2, <1>3 DEF BookOk

LEMMA OneRemoved ==
  ASSUME NEW A, BookOk(A), NEW p \in 1..Len(A), NEW B, B = RemoveAt(A, p)
  PROVE  BookOk(B) /\ \A q \in 1..Len(B) : q < p => q \in 1..Len(A) /\ B[q] = A[q]
<1>1. PICK n \in Nat : n = Len(A)
  BY DEF BookOk
<1>2. A \in Seq(Chapter) /\ p \in 1..n
  BY <1>1 DEF BookOk
<1>3. B = SubSeq(A, 1, p - 1) \o SubSeq(A, p + 1, n)
  BY <1>1 DEF RemoveAt
<1>4. PICK L : L = SubSeq(A, 1, p - 1)
  OBVIOUS
<1>5. PICK R : R = SubSeq(A, p + 1, n)
  OBVIOUS
<1>6. L \in Seq(Chapter) /\ Len(L) = p - 1 /\ \A q \in 1..p - 1 : L[q] = A[q]
  BY <1>1, <1>2, <1>4
<1>7. R \in Seq(Chapter) /\ Len(R) = n - p /\ \A q \in 1..n - p : R[q] = A[p + q]
  BY <1>1, <1>2, <1>5
<1>8. B \in Seq(Chapter) /\ Len(B) = n - 1
  BY <1>2, <1>3, <1>4, <1>5, <1>6, <1>7
<1>9. \A q \in 1..n - 1 : B[q] = IF q < p THEN A[q] ELSE A[q + 1]
  <2> SUFFICES ASSUME NEW q \in 1..n - 1 PROVE B[q] = IF q < p THEN A[q] ELSE A[q + 1]
    OBVIOUS
  <2>1. CASE q < p
    BY <1>2, <1>3, <1>4, <1>5, <1>6, <1>7, <2>1
  <2>2. CASE ~(q < p)
    <3>1. q - (p - 1) \in 1..n - p /\ p + (q - (p - 1)) = q + 1
      BY <1>2, <2>2
    <3>2. B = L \o R
      BY <1>3, <1>4, <1>5
    <3>3. q \in Len(L) + 1..Len(L) + Len(R)
      BY <1>2, <1>6, <1>7, <2>2
    <3>4. B[q] = R[q - Len(L)]
      BY <1>6, <1>7, <3>2, <3>3
    <3>5. B[q] = R[q - (p - 1)]
      BY <1>6, <3>4
    <3> QED BY <1>7, <2>2, <3>1, <3>5
  <2> QED BY <2>1, <2>2
<1>10. ASSUME NEW x \in 1..n - 1, NEW y \in 1..n - 1, B[x].id = B[y].id PROVE x = y
  <2>1. PICK u \in 1..n : B[x] = A[u] /\ u = IF x < p THEN x ELSE x + 1
    BY <1>9
  <2>2. PICK w \in 1..n : B[y] = A[w] /\ w = IF y < p THEN y ELSE y + 1
    BY <1>9
  <2>3. u = w
    BY <1>1, <1>10, <2>1, <2>2 DEF BookOk
  <2> QED BY <1>2, <2>1, <2>2, <2>3
<1>11. BookOk(B)
  BY <1>8, <1>10 DEF BookOk
<1>12. \A q \in 1..n - 1 : q < p => q \in 1..n /\ B[q] = A[q]
  BY <1>1, <1>9
<1> QED BY <1>1, <1>8, <1>11, <1>12

LEMMA FirstOfTwo == ASSUME NEW a \in Nat, NEW b \in Nat PROVE Min({a, b}) \in Nat /\ Min({a, b}) <= a
BY FirstPlace

LEMMA BoundaryIs == ASSUME NEW book, BookOk(book) PROVE Boundary(book) \in Nat
<1>1. Flagged(book) \in SUBSET Nat
  BY DEF BookOk, Flagged
<1> QED BY <1>1, FirstPlace DEF Boundary

\* From the change on the memory is stale.
LEMMA OutdateKeeps ==
  ASSUME NEW A, A = manuscript, BookOk(A), staleAt \in Nat, NEW book, BookOk(book), NEW from \in Nat,
         \A q \in 1..Len(book) : q < from => q \in 1..Len(A) /\ book[q] = A[q],
         Outdate(book, from), NEW B, B = manuscript'
  PROVE  BookOk(B) /\ GoesOn(A, B) /\ staleAt' \in Nat
<1>1. PICK n \in Nat : n = Len(book) /\ DOMAIN book = 1..n
  BY DEF BookOk
<1>2. CASE from > n
  <2>1. B = book /\ staleAt' = staleAt
    BY <1>1, <1>2 DEF Outdate
  <2> QED BY <1>1, <1>2, <2>1 DEF GoesOn
<1>3. CASE ~(from > n)
  <2>1. PICK first : first = IF staleAt = 0 THEN from ELSE Min({from, staleAt})
    OBVIOUS
  <2>2. first \in Nat /\ first <= from
    BY <2>1, FirstOfTwo
  <2>3. B = [p \in 1..n |-> [book[p] EXCEPT !.stale = @ \/ p >= first]] /\ staleAt' = first
    BY <1>1, <1>3, <2>1 DEF Outdate
  <2>4. \A p \in 1..n : book[p] \in Chapter
    BY <1>1 DEF BookOk
  <2>5. ASSUME NEW p \in 1..n
        PROVE  /\ B[p] \in Chapter /\ B[p].id = book[p].id /\ (p >= first => B[p].stale)
               /\ (p < first => B[p] = book[p])
    <3>1. PICK c \in Chapter : c = book[p]
      BY <2>4
    <3>2. PICK x \in BOOLEAN : x <=> (c.stale \/ p >= first)
      OBVIOUS
    <3>3. B[p] = [c EXCEPT !.stale = @ \/ p >= first]
      BY <2>3, <3>1
    <3>4. c.stale \in BOOLEAN
      BY DEF Chapter
    <3>5. B[p] \in Chapter /\ B[p].id = c.id /\ (B[p].stale <=> (c.stale \/ p >= first))
      BY <3>3, <3>4 DEF Chapter
    <3>6. p < first => (c.stale \/ p >= first) = c.stale
      BY <2>2, <3>4
    <3>7. p < first => B[p] = c
      BY <3>3, <3>6 DEF Chapter
    <3> QED BY <3>1, <3>5, <3>7
  <2>6. B \in Seq(Chapter) /\ Len(B) = n
    <3>1. B \in [1..n -> Chapter]
      BY <2>3, <2>5
    <3> QED BY <1>1, <3>1
  <2>7. BookOk(B)
    BY <1>1, <2>5, <2>6 DEF BookOk
  <2>8. GoesOn(A, B)
    <3> SUFFICES ASSUME NEW p \in 1..n, ~Settled(B[p]) PROVE p \in 1..Len(A) /\ B[p].id = A[p].id /\ ~Settled(A[p])
      BY <2>6 DEF GoesOn
    <3>1. ~(p >= first)
      BY <2>5 DEF Settled
    <3>2. p < first /\ p < from
      BY <2>2, <3>1
    <3> QED BY <1>1, <2>5, <3>2
  <2> QED BY <2>2, <2>3, <2>7, <2>8
<1> QED BY <1>2, <1>3

-----------------------------------------------------------------------------
(* Each operation keeps the job and the book.                              *)

LEMMA KeepAuthor == ImportInv /\ (EditChapter \/ DeleteChapter \/ SettleByHand) => ImportInv'
<1> SUFFICES ASSUME ImportInv, EditChapter \/ DeleteChapter \/ SettleByHand PROVE ImportInv'
  OBVIOUS
<1>1. PICK A : A = manuscript
  OBVIOUS
<1>2. PICK B : B = manuscript'
  OBVIOUS
<1>3. BookOk(A) /\ staleAt \in Nat
  BY <1>1 DEF ImportInv
<1>4. PICK n \in Nat : n = Len(A) /\ DOMAIN A = 1..n
  BY <1>3 DEF BookOk
<1>5. \A p \in 1..n : A[p] \in Chapter
  BY <1>3, <1>4 DEF BookOk
<1>6. stampNo' = stampNo + 1 /\ roll' \in [CastNames -> {0, 1}] /\ importJob' = importJob /\ hand' = hand
  BY DEF EditChapter, DeleteChapter, SettleByHand, Authors, ImportInv
<1>7. BookOk(B) /\ GoesOn(A, B) /\ staleAt' \in Nat
  <2>1. CASE EditChapter
    <3>1. PICK p \in 1..n : IF A[p].lock = 0
                            THEN B = [A EXCEPT ![p].v = @ + 1] /\ staleAt' = staleAt
                            ELSE Outdate([A EXCEPT ![p].v = @ + 1], p)
      BY <1>1, <1>2, <1>4, <2>1 DEF EditChapter
    <3>2. PICK c : c = [A[p] EXCEPT !.v = @ + 1]
      OBVIOUS
    <3>3. PICK a \in Chapter : a = A[p]
      BY <1>5
    <3>4. c \in Chapter /\ c.id = a.id /\ c.lock = a.lock /\ c.v = a.v + 1
      BY <3>2, <3>3 DEF Chapter
    <3>5. PICK C : C = [A EXCEPT ![p] = c]
      OBVIOUS
    <3>6. BookOk(C) /\ Len(C) = n /\ C[p] = c /\ \A q \in 1..n : q # p => C[q] = A[q]
      <4>1. p \in 1..Len(A) /\ c.id = A[p].id
        BY <1>4, <3>1, <3>3, <3>4
      <4>2. Len(A) = n
        BY <1>4
      <4>3. Anew(A, p, c, C)
        BY <3>5 DEF Anew
      <4> QED BY <1>3, <3>4, <4>1, <4>2, <4>3, OneAnew
    <3>7. CASE A[p].lock = 0
      <4>1. B = C /\ staleAt' = staleAt
        BY <3>1, <3>2, <3>5, <3>7
      <4>2. Settled(C[p])
        <5>1. a.lock = 0 /\ a.v \in Nat
          BY <3>3, <3>7 DEF Chapter
        <5> QED BY <3>4, <3>6, <5>1 DEF Settled, LockedNow
      <4> QED BY <1>3, <1>4, <3>6, <4>1, <4>2 DEF GoesOn
    <3>8. CASE A[p].lock # 0
      <4>1. Outdate(C, p)
        BY <3>1, <3>2, <3>5, <3>8
      <4>2. \A q \in 1..Len(C) : q < p => q \in 1..Len(A) /\ C[q] = A[q]
        BY <1>4, <3>6
      <4> QED BY <1>1, <1>2, <1>3, <3>6, <4>1, <4>2, OutdateKeeps
    <3> QED BY <3>7, <3>8
  <2>2. CASE DeleteChapter
    <3>1. PICK p \in 1..n : Outdate(RemoveAt(A, p), p)
      BY <1>1, <1>4, <2>2 DEF DeleteChapter
    <3>2. PICK C : C = RemoveAt(A, p)
      OBVIOUS
    <3>3. BookOk(C) /\ \A q \in 1..Len(C) : q < p => q \in 1..Len(A) /\ C[q] = A[q]
      BY <1>3, <1>4, <3>2, OneRemoved
    <3> QED BY <1>1, <1>2, <1>3, <3>1, <3>2, <3>3, OutdateKeeps
  <2>3. CASE SettleByHand
    <3>1. PICK p \in 1..n :
            /\ B = [A EXCEPT ![p].lock = A[p].v, ![p].mem = A[p].v, ![p].stale = FALSE]
            /\ staleAt' = IF staleAt = 0 THEN 0 ELSE Boundary(B)
      BY <1>1, <1>2, <1>4, <2>3 DEF SettleByHand
    <3>2. PICK a \in Chapter : a = A[p]
      BY <1>5
    <3>3. PICK c : c = [a EXCEPT !.lock = a.v, !.mem = a.v, !.stale = FALSE]
      OBVIOUS
    <3>4. c \in Chapter /\ c.id = a.id /\ c.mem = c.v
      BY <3>3 DEF Chapter
    <3>5. PICK C : C = [A EXCEPT ![p] = c]
      OBVIOUS
    <3>6. BookOk(C) /\ Len(C) = n /\ C[p] = c /\ \A q \in 1..n : q # p => C[q] = A[q]
      <4>1. p \in 1..Len(A) /\ c.id = A[p].id
        BY <1>4, <3>1, <3>2, <3>4
      <4>2. Len(A) = n
        BY <1>4
      <4>3. Anew(A, p, c, C)
        BY <3>5 DEF Anew
      <4> QED BY <1>3, <3>4, <4>1, <4>2, <4>3, OneAnew
    <3>7. B = C
      BY <1>4, <3>1, <3>2, <3>3, <3>5
    <3>8. Settled(C[p])
      BY <3>4, <3>6 DEF Settled
    <3>9. staleAt' \in Nat
      BY <3>1, <3>6, <3>7, BoundaryIs
    <3> QED BY <1>4, <3>6, <3>7, <3>8, <3>9 DEF GoesOn
  <2> QED BY <2>1, <2>2, <2>3
<1> QED BY <1>1, <1>2, <1>6, <1>7, AuthorKeeps

\* The memory of the chapter that was read is committed.
LEMMA CommitKeeps ==
  ASSUME ImportInv, hand.at = "memory", Fresh, Committed(hand.id), NEW A, A = manuscript, NEW B, B = manuscript'
  PROVE  /\ BookOk(B) /\ GoesOn(A, B) /\ staleAt' \in Nat /\ SettledTo(B, hand.job.index + 1)
         /\ \A p \in 1..Len(B) : B[p].mem # A[p].mem => B[p].mem = B[p].v
         /\ Len(B) = Len(A)
<1>1. PICK h \in Reading : h = hand
  BY DEF ImportInv
<1>2. BookOk(A) /\ ReadsOn(A, h, stampNo) /\ JobOk(A, h.job) /\ h.stamp = stampNo
  BY <1>1 DEF ImportInv, Fresh
<1>3. PICK n \in Nat : n = Len(A) /\ DOMAIN A = 1..n
  BY <1>2 DEF BookOk
<1>4. PICK p \in 1..n : A[p].id = h.id /\ A[p].v = h.v
  BY <1>2, <1>3 DEF ReadsOn
<1>5. PlaceOf(h.id) = {p}
  BY <1>2, <1>3, <1>4 DEF PlaceOf, BookOk
<1>6. B = [A EXCEPT ![p].mem = h.v, ![p].stale = FALSE] /\ staleAt' = IF staleAt = 0 THEN 0 ELSE Boundary(B)
  <2>1. (CHOOSE q \in PlaceOf(hand.id) : TRUE) = p
    BY <1>1, <1>5
  <2>2. ASSUME NEW q, q = CHOOSE x \in PlaceOf(hand.id) : TRUE
        PROVE  /\ manuscript' = [manuscript EXCEPT ![q].mem = hand.v, ![q].stale = FALSE]
               /\ staleAt' = IF staleAt = 0 THEN 0 ELSE Boundary(manuscript')
    BY <2>2 DEF Committed
  <2>3. /\ manuscript' = [manuscript EXCEPT ![p].mem = hand.v, ![p].stale = FALSE]
        /\ staleAt' = IF staleAt = 0 THEN 0 ELSE Boundary(manuscript')
    BY <2>1, <2>2
  <2> QED BY <1>1, <2>3
<1>7. PICK a \in Chapter : a = A[p]
  BY <1>2, <1>3 DEF BookOk
<1>8. PICK c : c = [a EXCEPT !.mem = h.v, !.stale = FALSE]
  OBVIOUS
<1>9. h.v \in Nat /\ h.job \in Record
  BY DEF Reading
<1>10. c \in Chapter /\ c.id = a.id /\ c.mem = h.v /\ c.v = a.v
  BY <1>8, <1>9 DEF Chapter
<1>11. PICK C : C = [A EXCEPT ![p] = c]
  OBVIOUS
<1>12. BookOk(C) /\ Len(C) = n /\ C[p] = c /\ \A q \in 1..n : q # p => C[q] = A[q]
  <2>1. p \in 1..Len(A) /\ c.id = A[p].id
    BY <1>3, <1>4, <1>7, <1>10
  <2>2. Len(A) = n
    BY <1>3
  <2>3. Anew(A, p, c, C)
    BY <1>11 DEF Anew
  <2> QED BY <1>2, <1>10, <2>1, <2>2, <2>3, OneAnew
<1>13. B = C
  BY <1>3, <1>6, <1>7, <1>8, <1>11
<1>14. Settled(C[p]) /\ C[p].mem = C[p].v
  BY <1>4, <1>7, <1>10, <1>12 DEF Settled
<1>15. staleAt' \in Nat
  BY <1>6, <1>12, <1>13, BoundaryIs
<1>16. GoesOn(A, C)
  BY <1>3, <1>12, <1>14 DEF GoesOn
<1>17. SettledTo(C, h.job.index + 1)
  <2>1. PICK i \in Nat : i = h.job.index
    BY <1>9 DEF Record
  <2> SUFFICES ASSUME NEW q \in 1..n, q < i + 1, q # p PROVE Settled(C[q])
    BY <1>12, <1>14, <2>1 DEF SettledTo
  <2>2. q < i \/ q = i
    BY <2>1
  <2>3. q < i => Settled(A[q])
    BY <1>2, <1>3, <2>1 DEF JobOk, SettledTo
  <2>4. q = i => Settled(A[q]) \/ A[q].id = h.id
    BY <1>2, <1>3, <2>1 DEF ReadsOn
  <2>5. A[q].id # h.id
    BY <1>2, <1>3, <1>4 DEF BookOk
  <2> QED BY <1>12, <2>2, <2>3, <2>4, <2>5
<1> QED BY <1>1, <1>12, <1>13, <1>14, <1>15, <1>16, <1>17, <1>3

\* The job goes on over the same book.
LEMMA KeepGoes ==
  ASSUME ImportInv, manuscript' = manuscript, staleAt' = staleAt, NEW s \in Nat, s = stampNo', roll' \in [CastNames -> {0, 1}],
         NEW j \in Record, j.status # "completed", SettledTo(manuscript, j.index), NEW r, r = NextChapter(j, manuscript, s),
         importJob' = r.job, hand' = r.hand
  PROVE  ImportInv'
<1>1. PICK A : A = manuscript
  OBVIOUS
<1>2. BookOk(A) /\ staleAt \in Nat
  BY <1>1 DEF ImportInv
<1>3. NextIs(j, A, s, r)
  BY <1>1, <1>2, NextSettles
<1> QED BY <1>1, <1>2, <1>3, NextKeeps

\* The runner stops, or its record is changed in what no chapter depends on.
LEMMA KeepRecord ==
  ASSUME ImportInv, manuscript' = manuscript, staleAt' = staleAt, stampNo' = stampNo, roll' = roll,
         NEW j, j = importJob', JobOk(manuscript, j), j.status # "completed" \/ j = importJob,
         NEW h, h = hand', h.at = "none" \/ h = hand
  PROVE  ImportInv'
<1>1. PICK A : A = manuscript
  OBVIOUS
<1>2. PICK s \in Nat : s = stampNo
  BY DEF ImportInv
<1>3. /\ BookOk(A) /\ staleAt \in Nat /\ JobOk(A, j) /\ (j.status = "completed" => AllSettled(A))
      /\ (h.at # "none" => JobOk(A, h.job) /\ h.job.status # "completed")
      /\ (h.at = "memory" => h \in Reading /\ ReadsOn(A, h, s)) /\ roll \in [CastNames -> {0, 1}]
  BY <1>1, <1>2 DEF ImportInv
<1>4. ImportInv' <=> /\ BookOk(manuscript') /\ staleAt' \in Nat /\ stampNo' \in Nat
                     /\ JobOk(manuscript', importJob')
                     /\ importJob'.status = "completed" => AllSettled(manuscript')
                     /\ hand'.at # "none" => JobOk(manuscript', hand'.job) /\ hand'.job.status # "completed"
                     /\ hand'.at = "memory" => hand' \in Reading /\ ReadsOn(manuscript', hand', stampNo')
                     /\ roll' \in [CastNames -> {0, 1}]
  BY DEF ImportInv
<1> QED BY <1>1, <1>2, <1>3, <1>4

\* The record with which a pass is launched.
LEMMA LaunchedIs ==
  ASSUME NEW j \in Record, NEW k,
         \/ k = [j EXCEPT !.status = "settling", !.pause = FALSE]
         \/ k = [j EXCEPT !.review = "confirmed", !.status = "settling", !.pause = FALSE]
         \/ k = [j EXCEPT !.status = "analyzing", !.pause = FALSE]
  PROVE  k \in Record /\ k.index = j.index /\ k.status \in {"settling", "analyzing"}
<1>1. CASE k = [j EXCEPT !.status = "settling", !.pause = FALSE]
  BY <1>1 DEF Record, ImportStatuses
<1>2. CASE k = [j EXCEPT !.review = "confirmed", !.status = "settling", !.pause = FALSE]
  BY <1>2 DEF Record, ImportStatuses
<1>3. CASE k = [j EXCEPT !.status = "analyzing", !.pause = FALSE]
  BY <1>3 DEF Record, ImportStatuses
<1> QED BY <1>1, <1>2, <1>3

\* A pass of the analysis goes on.
LEMMA KeepBatches ==
  ASSUME ImportInv, manuscript' = manuscript, staleAt' = staleAt, stampNo' = stampNo, roll' = roll,
         NEW j \in Record, j.status # "completed", SettledTo(manuscript, j.index), NEW from, NEW r, r = NextBatch(j, from),
         importJob' = r.job, hand' = r.hand
  PROVE  ImportInv'
<1>1. PICK A : A = manuscript
  OBVIOUS
<1>2. BookOk(A) /\ staleAt \in Nat /\ stampNo \in Nat /\ roll \in [CastNames -> {0, 1}]
  BY <1>1 DEF ImportInv
<1>3. /\ r.job \in Record /\ r.job.index = j.index /\ r.job.status # "completed"
      /\ r.hand.at # "none" => r.hand.job = j /\ r.job = j
      /\ r.hand.at # "memory"
  BY BatchIs
<1>4. JobOk(A, r.job) /\ (r.hand.at # "none" => JobOk(A, r.hand.job) /\ r.hand.job.status # "completed")
  BY <1>1, <1>3 DEF JobOk
<1>5. ImportInv' <=> /\ BookOk(manuscript') /\ staleAt' \in Nat /\ stampNo' \in Nat
                     /\ JobOk(manuscript', importJob')
                     /\ importJob'.status = "completed" => AllSettled(manuscript')
                     /\ hand'.at # "none" => JobOk(manuscript', hand'.job) /\ hand'.job.status # "completed"
                     /\ hand'.at = "memory" => hand' \in Reading /\ ReadsOn(manuscript', hand', stampNo')
                     /\ roll' \in [CastNames -> {0, 1}]
  BY DEF ImportInv
<1> QED BY <1>1, <1>2, <1>3, <1>4, <1>5

LEMMA KeepAnalyze == ImportInv /\ Analyze => ImportInv'
<1> SUFFICES ASSUME ImportInv, Analyze PROVE ImportInv'
  OBVIOUS
<1>1. PICK k : k = [importJob EXCEPT !.status = "analyzing", !.pause = FALSE]
  OBVIOUS
<1>2. importJob \in Record /\ SettledTo(manuscript, importJob.index)
  BY DEF ImportInv, JobOk
<1>3. k \in Record /\ k.index = importJob.index /\ k.status # "completed"
  BY <1>1, <1>2, LaunchedIs
<1>4. importJob' = NextBatch(k, 1).job /\ hand' = NextBatch(k, 1).hand
  BY <1>1 DEF Analyze, Goes
<1>5. manuscript' = manuscript /\ staleAt' = staleAt /\ stampNo' = stampNo /\ roll' = roll
  BY DEF Analyze, bookVars
<1> QED BY <1>2, <1>3, <1>4, <1>5, KeepBatches

\* The runner's copy of the record.
LEMMA HeldIs ==
  ASSUME ImportInv, hand.at # "none"
  PROVE  /\ hand.job \in Record /\ hand.job.status # "completed" /\ SettledTo(manuscript, hand.job.index)
         /\ importJob \in Record /\ SettledTo(manuscript, importJob.index)
BY DEF ImportInv, JobOk

Answered(j, b, x) == [j EXCEPT !.batches[b] = x]

LEMMA AnsweredIs ==
  ASSUME NEW j \in Record, NEW b, NEW x \in {"done", "failed"}, NEW k, k = Answered(j, b, x)
  PROVE  k \in Record /\ k.index = j.index /\ k.status = j.status
<1>1. PICK bs : bs = [j.batches EXCEPT ![b] = x]
  OBVIOUS
<1>2. j.batches \in [1..ReadBatches -> {"pending", "done", "failed"}]
  BY DEF Record
<1>3. bs \in [1..ReadBatches -> {"pending", "done", "failed"}]
  BY <1>1, <1>2
<1>4. k = [j EXCEPT !.batches = bs]
  BY <1>1 DEF Answered
<1> QED BY <1>3, <1>4 DEF Record

LEMMA KeepBatch == ImportInv /\ BatchAnswered => ImportInv'
<1> SUFFICES ASSUME ImportInv, BatchAnswered PROVE ImportInv'
  OBVIOUS
<1>1. PICK x \in {"done", "failed"} : Goes(NextBatch(MergedJob([hand.job EXCEPT !.batches[hand.b] = x]), hand.b + 1))
  BY DEF BatchAnswered
<1>2. hand.job \in Record /\ hand.job.status # "completed" /\ SettledTo(manuscript, hand.job.index) /\ importJob \in Record
  <2>1. hand.at # "none"
    BY DEF BatchAnswered
  <2> QED BY <2>1, HeldIs
<1>3. PICK k : k = Answered(hand.job, hand.b, x)
  OBVIOUS
<1>4. k \in Record /\ k.index = hand.job.index /\ k.status # "completed"
  BY <1>2, <1>3, AnsweredIs
<1>5. PICK m : m = MergedJob(k)
  OBVIOUS
<1>6. m \in Record /\ m.index = hand.job.index /\ m.status # "completed"
  BY <1>2, <1>4, <1>5, MergedIs
<1>7. importJob' = NextBatch(m, hand.b + 1).job /\ hand' = NextBatch(m, hand.b + 1).hand
  BY <1>1, <1>3, <1>5 DEF Goes, Answered
<1>8. manuscript' = manuscript /\ staleAt' = staleAt /\ stampNo' = stampNo /\ roll' = roll
  BY DEF BatchAnswered, bookVars
<1> QED BY <1>2, <1>6, <1>7, <1>8, KeepBatches

LEMMA KeepSynthesis == ImportInv /\ Synthesised => ImportInv'
<1> SUFFICES ASSUME ImportInv, Synthesised PROVE ImportInv'
  OBVIOUS
<1>1. hand.job \in Record /\ SettledTo(manuscript, hand.job.index)
  <2>1. hand.at # "none"
    BY DEF Synthesised
  <2> QED BY <2>1, HeldIs
<1>2. PICK k : k = [hand.job EXCEPT !.review = "pending", !.status = "awaiting_review"]
  OBVIOUS
<1>3. k \in Record /\ k.index = hand.job.index /\ k.status = "awaiting_review"
  BY <1>1, <1>2 DEF Record, ImportStatuses
<1>4. importJob' = k /\ hand'.at = "none"
  <2>1. importJob' = Stopped(k).job /\ hand' = Stopped(k).hand
    BY <1>2 DEF Synthesised, Goes
  <2> QED BY <2>1, StoppedIs
<1>5. manuscript' = manuscript /\ staleAt' = staleAt /\ stampNo' = stampNo /\ roll' = roll
  BY DEF Synthesised, bookVars
<1>6. JobOk(manuscript, k)
  BY <1>1, <1>3 DEF JobOk
<1> QED BY <1>3, <1>4, <1>5, <1>6, KeepRecord

LEMMA KeepSettle == ImportInv /\ Settle => ImportInv'
<1> SUFFICES ASSUME ImportInv, Settle PROVE ImportInv'
  OBVIOUS
<1>1. PICK k : k = [importJob EXCEPT !.status = "settling", !.pause = FALSE]
  OBVIOUS
<1>2. importJob \in Record /\ SettledTo(manuscript, importJob.index) /\ stampNo \in Nat /\ roll \in [CastNames -> {0, 1}]
  BY DEF ImportInv, JobOk
<1>3. k \in Record /\ k.index = importJob.index /\ k.status # "completed"
  BY <1>1, <1>2, LaunchedIs
<1>4. PICK s \in Nat : s = stampNo
  BY <1>2
<1>5. PICK r : r = NextChapter(k, manuscript, s)
  OBVIOUS
<1>6. importJob' = r.job /\ hand' = r.hand
  BY <1>1, <1>4, <1>5 DEF Settle, Goes
<1>7. manuscript' = manuscript /\ staleAt' = staleAt /\ s = stampNo' /\ roll' \in [CastNames -> {0, 1}]
  BY <1>2, <1>4 DEF Settle, bookVars
<1> QED BY <1>2, <1>3, <1>5, <1>6, <1>7, KeepGoes

LEMMA ReviewKeeps ==
  ASSUME ImportInv, NEW chosen, ApplyReview(chosen)
  PROVE  roll' \in [CastNames -> {0, 1}] /\ stampNo' = stampNo + 1 /\ stampNo \in Nat
<1>1. roll \in [CastNames -> {0, 1}] /\ stampNo \in Nat
  BY DEF ImportInv
<1>2. roll' = [n \in CastNames |-> IF n \in chosen THEN Joins(n) ELSE roll[n]] /\ stampNo' = stampNo + 1
  BY DEF ApplyReview
<1> QED BY <1>1, <1>2 DEF Joins

LEMMA KeepConfirm == ImportInv /\ (Confirm \/ ConfirmCutOff) => ImportInv'
<1> SUFFICES ASSUME ImportInv, Confirm \/ ConfirmCutOff PROVE ImportInv'
  OBVIOUS
<1>1. PICK chosen : ApplyReview(chosen)
  BY DEF Confirm, ConfirmCutOff
<1>2. roll' \in [CastNames -> {0, 1}] /\ stampNo' = stampNo + 1 /\ stampNo \in Nat
  BY <1>1, ReviewKeeps
<1>3. manuscript' = manuscript /\ staleAt' = staleAt /\ BookOk(manuscript) /\ staleAt \in Nat
  BY DEF Confirm, ConfirmCutOff, ImportInv
<1>4. importJob \in Record /\ SettledTo(manuscript, importJob.index)
  BY DEF ImportInv, JobOk
<1>5. CASE Confirm
  <2>1. PICK k : k = [importJob EXCEPT !.review = "confirmed", !.status = "settling", !.pause = FALSE]
    OBVIOUS
  <2>2. k \in Record /\ k.index = importJob.index /\ k.status # "completed"
    BY <1>4, <2>1, LaunchedIs
  <2>3. PICK s \in Nat : s = stampNo'
    BY <1>2
  <2>4. PICK r : r = NextChapter(k, manuscript, s)
    OBVIOUS
  <2>5. importJob' = r.job /\ hand' = r.hand
    BY <1>5, <2>1, <2>3, <2>4 DEF Confirm, Goes
  <2> QED BY <1>2, <1>3, <1>4, <2>2, <2>3, <2>4, <2>5, KeepGoes
<1>6. CASE ConfirmCutOff
  <2>1. PICK A : A = manuscript'
    OBVIOUS
  <2>2. BookOk(A) /\ GoesOn(manuscript, A)
    BY <1>3, <2>1 DEF GoesOn
  <2>3. importJob' = importJob /\ hand' = hand /\ staleAt' \in Nat
    BY <1>3, <1>6 DEF ConfirmCutOff
  <2> QED BY <1>2, <2>1, <2>2, <2>3, AuthorKeeps
<1> QED BY <1>5, <1>6

\* The record after a chapter is settled.
Counted(j, id) == [j EXCEPT !.settled = @ \cup {id}, !.index = @ + 1]

LEMMA CountedIs ==
  ASSUME NEW j \in Record, NEW id \in Nat
  PROVE  Counted(j, id) \in Record /\ Counted(j, id).index = j.index + 1 /\ Counted(j, id).status = j.status
<1>1. j.index \in Nat /\ j.settled \in SUBSET Nat
  BY DEF Record
<1>2. PICK i \in Nat \ {0} : i = j.index + 1
  BY <1>1
<1>3. PICK d \in SUBSET Nat : d = j.settled \cup {id}
  BY <1>1
<1>4. PICK k : k = [j EXCEPT !.settled = d, !.index = i]
  OBVIOUS
<1>5. k \in Record /\ k.index = i /\ k.status = j.status
  BY <1>4 DEF Record
<1>6. k = Counted(j, id)
  BY <1>2, <1>3, <1>4 DEF Counted
<1> QED BY <1>2, <1>5, <1>6

LEMMA KeepSettled == ImportInv /\ (ChapterSettled \/ SettledCutOff) => ImportInv'
<1> SUFFICES ASSUME ImportInv, ChapterSettled \/ SettledCutOff PROVE ImportInv'
  OBVIOUS
<1>1. PICK A : A = manuscript
  OBVIOUS
<1>2. PICK B : B = manuscript'
  OBVIOUS
<1>3. hand.at = "memory" /\ Fresh /\ Committed(hand.id)
  BY DEF ChapterSettled, SettledCutOff
<1>4. BookOk(B) /\ GoesOn(A, B) /\ staleAt' \in Nat /\ SettledTo(B, hand.job.index + 1)
  BY <1>1, <1>2, <1>3, CommitKeeps
<1>5. stampNo \in Nat /\ stampNo' = stampNo + 1 /\ roll' \in [CastNames -> {0, 1}]
  BY <1>3 DEF Committed, ChapterSettled, SettledCutOff, ImportInv
<1>6. CASE SettledCutOff
  <2>1. importJob' = importJob /\ hand'.at = "none"
    BY <1>6 DEF SettledCutOff, IdleTab
  <2> QED BY <1>1, <1>2, <1>4, <1>5, <2>1, AuthorKeeps
<1>7. CASE ChapterSettled
  <2>1. hand.job \in Record /\ hand.job.status # "completed" /\ importJob \in Record /\ hand.id \in Nat
    <3>1. hand \in Reading
      BY <1>3 DEF ImportInv
    <3>2. hand.id \in Nat /\ hand.at # "none"
      BY <1>3, <3>1 DEF Reading
    <3> QED BY <3>2, HeldIs
  <2>2. PICK k : k = Counted(hand.job, hand.id)
    OBVIOUS
  <2>3. k \in Record /\ k.index = hand.job.index + 1 /\ k.status # "completed"
    BY <2>1, <2>2, CountedIs
  <2>4. PICK m : m = MergedJob(k)
    OBVIOUS
  <2>5. m \in Record /\ m.index = hand.job.index + 1 /\ m.status # "completed"
    BY <2>1, <2>3, <2>4, MergedIs
  <2>6. PICK s \in Nat : s = stampNo'
    BY <1>5
  <2>7. PICK r : r = NextChapter(m, B, s)
    OBVIOUS
  <2>8. importJob' = r.job /\ hand' = r.hand
    BY <1>2, <1>7, <2>2, <2>4, <2>6, <2>7 DEF ChapterSettled, Goes, Counted
  <2>9. SettledTo(B, m.index)
    BY <1>4, <2>5
  <2>10. NextIs(m, B, s, r)
    BY <1>4, <2>5, <2>7, <2>9, NextSettles
  <2> QED BY <1>2, <1>4, <1>5, <2>6, <2>8, <2>10, NextKeeps
<1> QED BY <1>6, <1>7

\* The three ways of a failed reading.
GivesUp == importJob' = [hand.job EXCEPT !.status = "paused"] /\ hand'.at = "none"
ReadsAgain ==
  /\ importJob' = importJob
  /\ \E p \in PlaceOf(hand.id) : hand' = [hand EXCEPT !.attempt = @ + 1, !.stamp = stampNo, !.v = manuscript[p].v]
PassesOn == Goes(NextChapter(MergedJob(hand.job), manuscript, stampNo))

LEMMA FailedIs == ChapterFailed => GivesUp \/ ReadsAgain \/ PassesOn
<1> SUFFICES ASSUME ChapterFailed PROVE GivesUp \/ ReadsAgain \/ PassesOn
  OBVIOUS
<1>1. CASE hand.attempt = SettleAttempts
  <2>1. Goes(Stopped([hand.job EXCEPT !.status = "paused"]))
    BY <1>1, ImportAssumption DEF ChapterFailed
  <2>2. PICK k : k = [hand.job EXCEPT !.status = "paused"]
    OBVIOUS
  <2>3. importJob' = Stopped(k).job /\ hand' = Stopped(k).hand
    BY <2>1, <2>2 DEF Goes
  <2>4. importJob' = k /\ hand'.at = "none"
    BY <2>3, StoppedIs
  <2> QED BY <2>2, <2>4 DEF GivesUp
<1>2. CASE hand.attempt # SettleAttempts /\ hand.attempt < SettleAttempts /\ PlaceOf(hand.id) # {}
  <2>1. PICK q : q = CHOOSE p \in PlaceOf(hand.id) : TRUE
    OBVIOUS
  <2>2. q \in PlaceOf(hand.id)
    BY <1>2, <2>1
  <2>3. hand' = [hand EXCEPT !.attempt = @ + 1, !.stamp = stampNo, !.v = manuscript[q].v] /\ importJob' = importJob
    BY <1>2, <2>1 DEF ChapterFailed
  <2> QED BY <2>2, <2>3 DEF ReadsAgain
<1>3. CASE hand.attempt # SettleAttempts /\ ~(hand.attempt < SettleAttempts /\ PlaceOf(hand.id) # {})
  BY <1>3 DEF ChapterFailed, PassesOn
<1> QED BY <1>1, <1>2, <1>3

LEMMA ReadAgainIs ==
  ASSUME ImportInv, hand.at = "memory", ReadsAgain, NEW h, h = hand'
  PROVE  /\ h \in Reading /\ h.id = hand.id /\ h.job = hand.job /\ h.stamp = stampNo
         /\ \E p \in 1..Len(manuscript) : manuscript[p].id = h.id /\ manuscript[p].v = h.v
<1>1. PICK g \in Reading : g = hand
  BY DEF ImportInv
<1>2. PICK p \in PlaceOf(g.id) : h = [g EXCEPT !.attempt = @ + 1, !.stamp = stampNo, !.v = manuscript[p].v]
  BY <1>1 DEF ReadsAgain
<1>3. p \in 1..Len(manuscript) /\ manuscript[p].id = g.id /\ manuscript[p] \in Chapter
  BY <1>2 DEF PlaceOf, ImportInv, BookOk
<1>4. PICK v \in Nat : v = manuscript[p].v
  BY <1>3 DEF Chapter
<1>5. PICK s \in Nat : s = stampNo
  BY DEF ImportInv
<1>6. PICK a \in Nat : a = g.attempt + 1
  BY DEF Reading
<1>7. h = [g EXCEPT !.attempt = a, !.stamp = s, !.v = v]
  BY <1>2, <1>4, <1>5, <1>6
<1>8. h \in Reading /\ h.id = g.id /\ h.job = g.job /\ h.stamp = s /\ h.v = v
  BY <1>7 DEF Reading
<1> QED BY <1>1, <1>3, <1>4, <1>5, <1>8

LEMMA KeepFailed == ImportInv /\ ChapterFailed => ImportInv'
<1> SUFFICES ASSUME ImportInv, ChapterFailed PROVE ImportInv'
  OBVIOUS
<1>1. hand.at = "memory" /\ hand.at # "none"
  BY DEF ChapterFailed
<1>2. /\ hand.job \in Record /\ hand.job.status # "completed" /\ SettledTo(manuscript, hand.job.index)
      /\ importJob \in Record
  BY <1>1, HeldIs
<1>3. manuscript' = manuscript /\ staleAt' = staleAt /\ stampNo' = stampNo /\ roll' = roll
  BY DEF ChapterFailed, bookVars
<1>4. CASE GivesUp
  <2>1. PICK k : k = [hand.job EXCEPT !.status = "paused"]
    OBVIOUS
  <2>2. k \in Record /\ k.index = hand.job.index /\ k.status = "paused"
    BY <1>2, <2>1 DEF Record, ImportStatuses
  <2>3. importJob' = k /\ hand'.at = "none"
    BY <1>4, <2>1 DEF GivesUp
  <2>4. JobOk(manuscript, k)
    BY <1>2, <2>2 DEF JobOk
  <2> QED BY <1>3, <2>2, <2>3, <2>4, KeepRecord
<1>5. CASE ReadsAgain
  <2>1. PICK h : h = hand'
    OBVIOUS
  <2>2. PICK A : A = manuscript
    OBVIOUS
  <2>3. PICK s \in Nat : s = stampNo
    BY DEF ImportInv
  <2>4. /\ h \in Reading /\ h.id = hand.id /\ h.job = hand.job /\ h.stamp = s
        /\ \E p \in 1..Len(A) : A[p].id = h.id /\ A[p].v = h.v
    BY <1>1, <1>5, <2>1, <2>2, <2>3, ReadAgainIs
  <2>5. ReadsOn(A, h, s)
    <3>1. ReadsOn(A, hand, s)
      BY <1>1, <2>2, <2>3 DEF ImportInv
    <3>2. \A p \in 1..Len(A) : p = h.job.index => Settled(A[p]) \/ A[p].id = h.id
      BY <2>4, <3>1 DEF ReadsOn
    <3> QED BY <2>4, <3>2 DEF ReadsOn
  <2>6. JobOk(A, h.job) /\ h.job.status # "completed"
    BY <1>2, <2>2, <2>4 DEF JobOk
  <2>7. /\ BookOk(A) /\ staleAt \in Nat /\ JobOk(A, importJob) /\ (importJob.status = "completed" => AllSettled(A))
        /\ roll \in [CastNames -> {0, 1}]
    BY <2>2 DEF ImportInv
  <2>8. importJob' = importJob
    BY <1>5 DEF ReadsAgain
  <2>9. ImportInv' <=> /\ BookOk(manuscript') /\ staleAt' \in Nat /\ stampNo' \in Nat
                       /\ JobOk(manuscript', importJob')
                       /\ importJob'.status = "completed" => AllSettled(manuscript')
                       /\ hand'.at # "none" => JobOk(manuscript', hand'.job) /\ hand'.job.status # "completed"
                       /\ hand'.at = "memory" => hand' \in Reading /\ ReadsOn(manuscript', hand', stampNo')
                       /\ roll' \in [CastNames -> {0, 1}]
    BY DEF ImportInv
  <2> QED BY <1>3, <2>1, <2>2, <2>3, <2>4, <2>5, <2>6, <2>7, <2>8, <2>9
<1>6. CASE PassesOn
  <2>1. PICK m : m = MergedJob(hand.job)
    OBVIOUS
  <2>2. m \in Record /\ m.index = hand.job.index /\ m.status # "completed"
    BY <1>2, <2>1, MergedIs
  <2>3. PICK s \in Nat : s = stampNo
    BY DEF ImportInv
  <2>4. PICK r : r = NextChapter(m, manuscript, s)
    OBVIOUS
  <2>5. importJob' = r.job /\ hand' = r.hand
    BY <1>6, <2>1, <2>3, <2>4 DEF PassesOn, Goes
  <2>6. roll' \in [CastNames -> {0, 1}] /\ SettledTo(manuscript, m.index) /\ s = stampNo'
    BY <1>2, <1>3, <2>2, <2>3 DEF ImportInv
  <2> QED BY <1>3, <2>2, <2>4, <2>5, <2>6, KeepGoes
<1> QED BY <1>4, <1>5, <1>6, FailedIs

LEMMA KeepAsked == ImportInv /\ AskPause => ImportInv'
<1> SUFFICES ASSUME ImportInv, AskPause PROVE ImportInv'
  OBVIOUS
<1>1. importJob \in Record /\ SettledTo(manuscript, importJob.index) /\ importJob.status # "completed"
  BY DEF ImportInv, JobOk, AskPause
<1>2. PICK k : k = [importJob EXCEPT !.pause = TRUE]
  OBVIOUS
<1>3. k \in Record /\ k.index = importJob.index /\ k.status = importJob.status
  BY <1>1, <1>2 DEF Record
<1>4. importJob' = k /\ hand' = hand /\ manuscript' = manuscript /\ staleAt' = staleAt /\ stampNo' = stampNo /\ roll' = roll
  BY <1>2 DEF AskPause, bookVars
<1>5. JobOk(manuscript, k) /\ k.status # "completed"
  BY <1>1, <1>3 DEF JobOk
<1> QED BY <1>4, <1>5, KeepRecord

LEMMA KeepLost == ImportInv /\ ImportLost => ImportInv'
<1> SUFFICES ASSUME ImportInv, ImportLost PROVE ImportInv'
  OBVIOUS
<1>1. importJob \in Record /\ SettledTo(manuscript, importJob.index)
  BY DEF ImportInv, JobOk
<1>2. PICK k : k = [importJob EXCEPT !.status = "failed"]
  OBVIOUS
<1>3. k \in Record /\ k.index = importJob.index /\ k.status = "failed"
  BY <1>1, <1>2 DEF Record, ImportStatuses
<1>4. PICK j : j = importJob'
  OBVIOUS
<1>5. j = importJob \/ j = k
  BY <1>2, <1>4 DEF ImportLost
<1>6. JobOk(manuscript, j) /\ (j.status # "completed" \/ j = importJob)
  BY <1>1, <1>3, <1>5 DEF JobOk
<1>7. hand'.at = "none" /\ manuscript' = manuscript /\ staleAt' = staleAt /\ stampNo' = stampNo /\ roll' = roll
  BY DEF ImportLost, bookVars, IdleTab
<1> QED BY <1>4, <1>6, <1>7, KeepRecord

LEMMA KeepImportStutter == ImportInv /\ UNCHANGED importVars => ImportInv'
<1> SUFFICES ASSUME ImportInv, UNCHANGED importVars PROVE ImportInv'
  OBVIOUS
<1>1. /\ manuscript' = manuscript /\ staleAt' = staleAt /\ stampNo' = stampNo /\ roll' = roll
      /\ importJob' = importJob /\ hand' = hand
  BY DEF importVars, bookVars
<1>2. JobOk(manuscript, importJob)
  BY DEF ImportInv
<1> QED BY <1>1, <1>2, KeepRecord

LEMMA InitImport == ImportInit => ImportInv
<1> SUFFICES ASSUME ImportInit PROVE ImportInv
  OBVIOUS
<1>1. manuscript \in Seq(Chapter) /\ Len(manuscript) = BookSize /\ \A i \in 1..BookSize : manuscript[i].id = i
  <2>1. PICK n \in Nat : n = BookSize
    BY ImportAssumption
  <2>2. PICK A : A = manuscript
    OBVIOUS
  <2>3. A = [i \in 1..n |-> [id |-> i, v |-> 1, lock |-> IF i \in ShortOnes THEN 0 ELSE 1, mem |-> 0, stale |-> FALSE]]
    BY <2>1, <2>2 DEF ImportInit
  <2>4. \A i \in 1..n : A[i] \in Chapter /\ A[i].id = i
    BY <2>3 DEF Chapter
  <2>5. A \in [1..n -> Chapter]
    BY <2>3, <2>4
  <2>6. A \in Seq(Chapter) /\ Len(A) = n
    BY <2>5
  <2> QED BY <2>1, <2>2, <2>4, <2>6
<1>2. BookOk(manuscript)
  BY <1>1 DEF BookOk
<1>3. PICK b : b = [i \in 1..ReadBatches |-> "pending"]
  OBVIOUS
<1>4. b \in [1..ReadBatches -> {"pending", "done", "failed"}]
  BY <1>3
<1>5. importJob = [status |-> "imported", batches |-> b, review |-> "none", index |-> 1, settled |-> {}, pause |-> FALSE]
  BY <1>3 DEF ImportInit
<1>6. importJob \in Record /\ importJob.index = 1 /\ importJob.status = "imported"
  BY <1>4, <1>5 DEF Record, ImportStatuses
<1>7. SettledTo(manuscript, 1)
  BY <1>1 DEF SettledTo
<1>8. hand.at = "none" /\ staleAt \in Nat /\ stampNo \in Nat /\ roll \in [CastNames -> {0, 1}]
  BY DEF ImportInit, IdleTab
<1> QED BY <1>2, <1>6, <1>7, <1>8 DEF ImportInv, JobOk

LEMMA StepImport == ImportInv /\ [ImportNext]_importVars => ImportInv'
BY KeepAnalyze, KeepBatch, KeepSynthesis, KeepSettle, KeepSettled, KeepFailed, KeepAsked, KeepConfirm, KeepLost, KeepAuthor,
   KeepImportStutter DEF ImportNext

-----------------------------------------------------------------------------
(* What a step may never do.                                               *)

\* The count of the author's steps.
CountInv == authorSteps \in Nat

LEMMA StepCount == CountInv /\ [ImportNext]_importVars => CountInv'
<1> SUFFICES ASSUME CountInv, [ImportNext]_importVars PROVE CountInv'
  OBVIOUS
<1>1. authorSteps' = authorSteps \/ authorSteps' = authorSteps + 1
  BY DEF ImportNext, Analyze, BatchAnswered, Synthesised, Settle, ChapterSettled, ChapterFailed, AskPause, Confirm, ConfirmCutOff,
         SettledCutOff, ImportLost, EditChapter, DeleteChapter, SettleByHand, Authors, importVars
<1> QED BY <1>1 DEF CountInv

MemoryIsOfTheText ==
  authorSteps' = authorSteps =>
       \A p \in DOMAIN manuscript' :
         manuscript'[p].mem # manuscript[p].mem => manuscript'[p].mem = manuscript'[p].v

LEMMA StepSettles == ImportInv /\ CountInv /\ [ImportNext]_importVars => MemoryIsOfTheText
<1> SUFFICES ASSUME ImportInv, CountInv, [ImportNext]_importVars PROVE MemoryIsOfTheText
  OBVIOUS
<1>1. CASE manuscript' = manuscript
  BY <1>1 DEF MemoryIsOfTheText
<1>2. CASE EditChapter \/ DeleteChapter \/ SettleByHand
  <2>1. authorSteps' = authorSteps + 1 /\ authorSteps \in Nat
    BY <1>2 DEF EditChapter, DeleteChapter, SettleByHand, Authors, CountInv
  <2> QED BY <2>1 DEF MemoryIsOfTheText
<1>3. CASE ChapterSettled \/ SettledCutOff
  <2>1. PICK A : A = manuscript
    OBVIOUS
  <2>2. PICK B : B = manuscript'
    OBVIOUS
  <2>3. hand.at = "memory" /\ Fresh /\ Committed(hand.id)
    BY <1>3 DEF ChapterSettled, SettledCutOff
  <2>4. BookOk(B) /\ \A p \in 1..Len(B) : B[p].mem # A[p].mem => B[p].mem = B[p].v
    BY <2>1, <2>2, <2>3, CommitKeeps
  <2>5. DOMAIN B = 1..Len(B)
    BY <2>4 DEF BookOk
  <2> QED BY <2>1, <2>2, <2>4, <2>5 DEF MemoryIsOfTheText
<1>4. manuscript' = manuscript \/ (EditChapter \/ DeleteChapter \/ SettleByHand) \/ (ChapterSettled \/ SettledCutOff)
  BY DEF ImportNext, Analyze, BatchAnswered, Synthesised, Settle, ChapterFailed, AskPause, Confirm, ConfirmCutOff,
         ImportLost, importVars, bookVars
<1> QED BY <1>1, <1>2, <1>3, <1>4

PauseStopsHere ==
  (importJob.pause /\ IsRunning) =>
       ~ \/ hand'.at = "batch" /\ hand' # hand
         \/ hand'.at = "memory" /\ hand.at = "memory" /\ hand'.id # hand.id

LEMMA StepPauses == ImportInv /\ [ImportNext]_importVars => PauseStopsHere
<1> SUFFICES ASSUME ImportInv, [ImportNext]_importVars, importJob.pause, IsRunning PROVE PauseStopsHere
  BY DEF PauseStopsHere
<1>1. hand.at # "none"
  BY DEF IsRunning
<1>2. hand.job \in Record /\ hand.job.status # "completed" /\ SettledTo(manuscript, hand.job.index) /\ importJob \in Record
  BY <1>1, HeldIs
<1>3. CASE hand' = hand \/ hand'.at = "none"
  BY <1>3 DEF PauseStopsHere
<1>4. CASE BatchAnswered
  <2>1. PICK x \in {"done", "failed"} : Goes(NextBatch(MergedJob([hand.job EXCEPT !.batches[hand.b] = x]), hand.b + 1))
    BY <1>4 DEF BatchAnswered
  <2>2. PICK k : k = Answered(hand.job, hand.b, x)
    OBVIOUS
  <2>3. k \in Record /\ k.status # "completed"
    BY <1>2, <2>2, AnsweredIs
  <2>4. PICK m : m = MergedJob(k)
    OBVIOUS
  <2>5. m \in Record /\ m.pause /\ m.status # "completed"
    BY <1>2, <2>3, <2>4, MergedIs
  <2>6. PICK r : r = NextBatch(m, hand.b + 1)
    OBVIOUS
  <2>7. hand' = r.hand
    BY <2>1, <2>2, <2>4, <2>6 DEF Goes, Answered
  <2>8. hand'.at # "batch"
    BY <2>5, <2>6, <2>7, BatchIs
  <2>9. hand.at = "batch"
    BY <1>4 DEF BatchAnswered
  <2> QED BY <2>8, <2>9 DEF PauseStopsHere
<1>5. CASE ChapterSettled
  <2>1. PICK B : B = manuscript'
    OBVIOUS
  <2>2. hand.at = "memory" /\ Fresh /\ Committed(hand.id)
    BY <1>5 DEF ChapterSettled
  <2>3. BookOk(B) /\ SettledTo(B, hand.job.index + 1)
    BY <2>1, <2>2, CommitKeeps
  <2>4. PICK s \in Nat : s = stampNo'
    BY <2>2 DEF Committed, ImportInv
  <2>5. PICK k : k = Counted(hand.job, hand.id)
    OBVIOUS
  <2>6. hand.id \in Nat
    BY <2>2 DEF ImportInv, Reading
  <2>7. k \in Record /\ k.index = hand.job.index + 1 /\ k.status # "completed"
    BY <1>2, <2>5, <2>6, CountedIs
  <2>8. PICK m : m = MergedJob(k)
    OBVIOUS
  <2>9. m \in Record /\ m.index = hand.job.index + 1 /\ m.status # "completed" /\ m.pause
    BY <1>2, <2>7, <2>8, MergedIs
  <2>10. PICK r : r = NextChapter(m, B, s)
    OBVIOUS
  <2>11. hand' = r.hand
    BY <1>5, <2>1, <2>4, <2>5, <2>8, <2>10 DEF ChapterSettled, Goes, Counted
  <2>12. SettledTo(B, m.index)
    BY <2>3, <2>9
  <2>13. NextIs(m, B, s, r)
    BY <2>3, <2>9, <2>10, <2>12, NextSettles
  <2>14. hand'.at = "none"
    BY <2>9, <2>11, <2>13 DEF NextIs
  <2> QED BY <2>14 DEF PauseStopsHere
<1>6. CASE ChapterFailed
  <2>1. hand.at = "memory"
    BY <1>6 DEF ChapterFailed
  <2>2. CASE GivesUp
    BY <2>2 DEF GivesUp, PauseStopsHere
  <2>3. CASE ReadsAgain
    <3>1. PICK h : h = hand'
      OBVIOUS
    <3>2. h \in Reading /\ h.id = hand.id
      BY <2>1, <2>3, <3>1, ReadAgainIs
    <3>3. h.at = "memory"
      BY <3>2 DEF Reading
    <3> QED BY <3>1, <3>2, <3>3 DEF PauseStopsHere
  <2>4. CASE PassesOn
    <3>1. PICK m : m = MergedJob(hand.job)
      OBVIOUS
    <3>2. m \in Record /\ m.index = hand.job.index /\ m.status # "completed" /\ m.pause
      BY <1>2, <3>1, MergedIs
    <3>3. PICK s \in Nat : s = stampNo
      BY DEF ImportInv
    <3>4. PICK r : r = NextChapter(m, manuscript, s)
      OBVIOUS
    <3>5. hand' = r.hand
      BY <2>4, <3>1, <3>3, <3>4 DEF PassesOn, Goes
    <3>6. BookOk(manuscript) /\ SettledTo(manuscript, m.index)
      BY <1>2, <3>2 DEF ImportInv
    <3>7. NextIs(m, manuscript, s, r)
      BY <3>2, <3>4, <3>6, NextSettles
    <3>8. hand'.at = "none"
      BY <3>2, <3>5, <3>7 DEF NextIs
    <3> QED BY <3>8 DEF PauseStopsHere
  <2> QED BY <1>6, <2>2, <2>3, <2>4, FailedIs
<1>7. (hand' = hand \/ hand'.at = "none") \/ BatchAnswered \/ ChapterSettled \/ ChapterFailed
  <2>1. CASE Synthesised
    BY <2>1, StoppedIs DEF Synthesised, Goes
  <2>2. ~Analyze /\ ~Settle /\ ~Confirm /\ ~ConfirmCutOff
    BY DEF Analyze, Settle, Confirm, ConfirmCutOff, Confirmable
  <2>3. CASE AskPause \/ EditChapter \/ DeleteChapter \/ SettleByHand \/ UNCHANGED importVars
    BY <2>3 DEF AskPause, EditChapter, DeleteChapter, SettleByHand, importVars
  <2>4. CASE SettledCutOff \/ ImportLost
    BY <2>4 DEF SettledCutOff, ImportLost, IdleTab
  <2> QED BY <2>1, <2>2, <2>3, <2>4 DEF ImportNext
<1> QED BY <1>3, <1>4, <1>5, <1>6, <1>7

LEMMA ImportTells == ImportInv => NoneLeftOut /\ CastJoinsOnce
<1> SUFFICES ASSUME ImportInv PROVE NoneLeftOut /\ CastJoinsOnce
  OBVIOUS
<1>1. BookOk(manuscript) /\ (importJob.status = "completed" => AllSettled(manuscript)) /\ roll \in [CastNames -> {0, 1}]
  BY DEF ImportInv
<1>2. DOMAIN manuscript = 1..Len(manuscript)
  BY <1>1 DEF BookOk
<1>3. NoneLeftOut
  BY <1>1, <1>2 DEF NoneLeftOut, AllSettled, Settled
<1>4. CastJoinsOnce
  <2>1. \A n \in CastNames : roll[n] = 0 \/ roll[n] = 1
    BY <1>1
  <2> QED BY <2>1 DEF CastJoinsOnce
<1> QED BY <1>3, <1>4

\* An import of any size, paused, cut off and resumed any number of times beside an author who edits,
\* deletes and settles chapters, leaves out no locked chapter, commits no memory of an old text, hears
\* every pause and enters each candidate once (io/manuscript_import.py).
THEOREM ImportComplete == ImportSpec => ImportIsComplete
<1>1. ImportInit => ImportInv /\ CountInv
  BY InitImport DEF ImportInit, CountInv
<1>2. ImportInv /\ CountInv /\ [ImportNext]_importVars => (ImportInv /\ CountInv)'
  BY StepImport, StepCount
<1>3. ImportInv /\ CountInv /\ [ImportNext]_importVars => [MemoryIsOfTheText]_importVars /\ [PauseStopsHere]_importVars
  BY StepSettles, StepPauses
<1>4. ImportInv => NoneLeftOut /\ CastJoinsOnce
  BY ImportTells
<1>5. ImportSpec => [](NoneLeftOut /\ CastJoinsOnce) /\ [][MemoryIsOfTheText]_importVars /\ [][PauseStopsHere]_importVars
  BY <1>1, <1>2, <1>3, <1>4, PTL DEF ImportSpec
<1>6. [][MemoryIsOfTheText]_importVars => SettledAsItStands
  BY PTL DEF SettledAsItStands, MemoryIsOfTheText
<1>7. [][PauseStopsHere]_importVars => PauseIsHeard
  BY PTL DEF PauseIsHeard, PauseStopsHere
<1> QED BY <1>5, <1>6, <1>7 DEF ImportIsComplete
=============================================================================
