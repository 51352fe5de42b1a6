---------------------------- MODULE ProjectStore ----------------------------
(***************************************************************************)
(* One project in the SQLite repository (storage/project_store.py): the    *)
(* document, its version stamp, the revision list and the per-chapter      *)
(* versions, and what a save does to a submitted document before it        *)
(* replaces the stored one.  Every operation is one transaction.           *)
(*                                                                         *)
(* A document keeps what the operations tell apart: the text of each       *)
(* chapter and the text its memory was settled for, the authority fields   *)
(* (one kind of them, "plan") with their revision, the finalization        *)
(* receipts, and the chapter from which derived memory is stale (0: none). *)
(***************************************************************************)
EXTENDS Naturals, Sequences, FiniteSets, FiniteSetsExt

CONSTANTS
  N,                    \* number of chapters
  Texts, EmptyText,     \* chapter contents
  NoText,               \* "this chapter was never settled"
  Plans, EmptyPlan,     \* contents of the authority fields
  Receipts,             \* finalization receipt ids
  Bodies, NoBody,       \* what a receipt says
  KeepRevisions,        \* the newest revisions that are kept (40 in the code)
  KeepChapterVersions,  \* the newest versions kept of a chapter (20)
  MaxRev,               \* bound: authority revisions a client may claim
  MaxStamp              \* bound: writes of the repository on its own

ASSUME SizesAssumption ==
  N \in Nat \ {0} /\ KeepRevisions \in Nat /\ KeepChapterVersions \in Nat
  /\ MaxRev \in Nat /\ MaxStamp \in Nat
ASSUME ValuesAssumption ==
  EmptyText \in Texts /\ NoText \notin Texts /\ EmptyPlan \in Plans /\ NoBody \notin Bodies

VARIABLES
  exists,    \* the projects row exists
  doc,       \* projects.payload
  stamp,     \* projects.updated_at; the clock never repeats a value
  history,   \* the revisions table, oldest first
  versions   \* the chapter_versions table, oldest first, per chapter

storeVars == <<exists, doc, stamp, history, versions>>

Chapters == 1..N
Chapter == [text: Texts, settled: Texts \cup {NoText}]
Docs == [chapters: [Chapters -> Chapter], plan: Plans,
         receipts: [Receipts -> Bodies \cup {NoBody}], rev: Nat, stale: 0..N]

\* default_project
BlankDoc ==
  [chapters |-> [i \in Chapters |-> [text |-> EmptyText, settled |-> NoText]],
   plan |-> EmptyPlan, receipts |-> [r \in Receipts |-> NoBody], rev |-> 1, stale |-> 0]

\* The rows that the retention deletes of save leave
Newest(s, k) == IF Len(s) > k THEN SubSeq(s, Len(s) - k + 1, Len(s)) ELSE s

----------------------------------------------------------------------------
(* What save does to a submitted document.                                 *)

\* Mutant of ChangedFrom: the changed chapter itself is passed over.
ChangedFromNext(old, new) ==
  {k + 1 : k \in {i \in Chapters : /\ old.chapters[i].text # new.chapters[i].text
                                   /\ old.chapters[i].settled # NoText}}

\* invalidate_changed_manuscript: a settled chapter whose text changed makes
\* the memory stale from there on, or from the next one if the submitted
\* settlement already is for the new text.  A mark the submission still has
\* is kept; the mark of the stored document is not looked at.
ChangedFrom(old, new) ==
  {IF new.chapters[i].settled = new.chapters[i].text THEN i + 1 ELSE i :
     i \in {k \in Chapters : /\ old.chapters[k].text # new.chapters[k].text
                             /\ old.chapters[k].settled # NoText}}

Invalidated(old, new) ==
  LET changed == ChangedFrom(old, new) \cap Chapters
  IN  IF changed = {} THEN new.stale ELSE Min(changed \cup ({new.stale} \ {0}))

\* Mutant of Protected: the submission's receipts win.
ProtectedIncoming(old, new) ==
  [r \in Receipts |-> IF new.receipts[r] # NoBody THEN new.receipts[r] ELSE old.receipts[r]]

\* Receipts are append-only: a stored one is neither deleted nor rewritten.
Protected(old, new) ==
  [r \in Receipts |-> IF old.receipts[r] # NoBody THEN old.receipts[r] ELSE new.receipts[r]]

\* Mutant of Bumped: the submitted revision is taken as it is.
BumpedFromClient(old, new) ==
  IF new.plan # old.plan /\ new.rev = old.rev THEN new.rev + 1 ELSE new.rev

\* An authority revision never decreases, and increases when its fields change
Bumped(old, new) ==
  LET top == IF new.rev > old.rev THEN new.rev ELSE old.rev
  IN  IF new.plan # old.plan /\ top = old.rev THEN top + 1 ELSE top

Merged(old, new) ==
  [chapters |-> new.chapters, plan |-> new.plan, receipts |-> Protected(old, new),
   rev |-> Bumped(old, new), stale |-> Invalidated(old, new)]

\* Except for an autosave, every changed chapter gets a version of its own
WithVersions(old, new, autosave) ==
  [i \in Chapters |->
     IF autosave \/ old.chapters[i] = new.chapters[i] THEN versions[i]
     ELSE Newest(Append(versions[i], old.chapters[i]), KeepChapterVersions)]

\* Mutant of Write: only a manual save keeps the version it replaces.
WriteManualOnly(new, autosave) ==
  IF new = doc
  THEN UNCHANGED storeVars
  ELSE /\ doc' = new
       /\ stamp' = stamp + 1
       /\ history' = IF autosave THEN history ELSE Newest(Append(history, doc), KeepRevisions)
       /\ versions' = WithVersions(doc, new, autosave)
       /\ UNCHANGED exists

\* The write itself, once the version check has passed.  A save that changes
\* nothing writes nothing.
Write(new, autosave) ==
  IF new = doc
  THEN UNCHANGED storeVars
  ELSE /\ doc' = new
       /\ stamp' = stamp + 1
       /\ history' = Newest(Append(history, doc), KeepRevisions)
       /\ versions' = WithVersions(doc, new, autosave)
       /\ UNCHANGED exists

\* ProjectStore.save for a caller that names no version: it compares the
\* stored version with the one it has just read, so it is never refused.
SaveBlind(submitted, autosave) ==
  /\ exists
  /\ Write(Merged(doc, submitted), autosave)

\* Mutant of SaveVersioned: the update does not compare the version.
SaveUnversioned(submitted, autosave, expected) ==
  /\ exists
  /\ Write(Merged(doc, submitted), autosave)

\* ... and for one that does.  A stale caller gets ProjectConflictError.
SaveVersioned(submitted, autosave, expected) ==
  /\ exists /\ expected = stamp
  /\ Write(Merged(doc, submitted), autosave)

----------------------------------------------------------------------------
(* The repository's operations.                                            *)

\* A new project takes the place of a deleted one; its id is new, so no row
\* of the other tables refers to it.
Create ==
  /\ ~exists
  /\ exists' = TRUE /\ doc' = BlankDoc
  /\ stamp' = stamp + 1
  /\ history' = <<>> /\ versions' = [i \in Chapters |-> <<>>]

Delete ==
  /\ exists
  /\ exists' = FALSE /\ doc' = BlankDoc
  /\ history' = <<>> /\ versions' = [i \in Chapters |-> <<>>]
  /\ UNCHANGED stamp

\* restore: an old revision is saved like any other document
Restore(k) ==
  /\ k \in DOMAIN history
  /\ SaveBlind(history[k], FALSE)

\* restore_chapter_version: one chapter of the current document is replaced
RestoreChapter(i, k) ==
  /\ i \in Chapters /\ k \in DOMAIN versions[i]
  /\ SaveBlind([doc EXCEPT !.chapters[i] = versions[i][k]], FALSE)

StoreInit ==
  /\ exists = TRUE /\ doc = BlankDoc /\ stamp = 1
  /\ history = <<>> /\ versions = [i \in Chapters |-> <<>>]

----------------------------------------------------------------------------
(* The repository on its own: any client may submit any document.          *)

Submissions ==
  [chapters: [Chapters -> Chapter], plan: Plans,
   receipts: [Receipts -> Bodies \cup {NoBody}], rev: 0..MaxRev, stale: 0..N]

AnySave ==
  \E s \in Submissions, autosave \in BOOLEAN :
    \/ SaveBlind(s, autosave)
    \/ \E expected \in 1..stamp : SaveVersioned(s, autosave, expected)

StoreNext ==
  /\ stamp < MaxStamp
  /\ \/ AnySave
     \/ \E k \in 1..KeepRevisions : Restore(k)
     \/ \E i \in Chapters, k \in 1..KeepChapterVersions : RestoreChapter(i, k)
     \/ Create
     \/ Delete

StoreSpec == StoreInit /\ [][StoreNext]_storeVars

----------------------------------------------------------------------------
(* Properties.                                                             *)

\* The types of the tables, and their retention limits (the deletes of save).
StoreTypeOK ==
  /\ exists \in BOOLEAN /\ doc \in Docs /\ stamp \in Nat
  /\ history \in Seq(Docs) /\ Len(history) <= KeepRevisions
  /\ versions \in [Chapters -> Seq(Chapter)]
  /\ \A i \in Chapters : Len(versions[i]) <= KeepChapterVersions

\* A finalization receipt, once stored, is in every later version of the
\* project unchanged, whatever clients submit or restore (the "append-only
\* audit trail" of ProjectStore.save), until the project itself is deleted.
ReceiptsAppendOnly ==
  [][exists /\ exists' =>
       \A r \in Receipts : doc.receipts[r] # NoBody => doc'.receipts[r] = doc.receipts[r]]_storeVars

\* An authority revision names one state of its fields: two versions of the
\* project, stored or kept as revisions, that carry the same revision have the
\* same fields.  bump_authority and the dependency snapshots of the derived
\* assets compare nothing but revisions, so this is what makes "current" mean
\* current, also when clients submit revisions of their own and restores bring
\* old ones back.
RevisionIdentifiesPlan ==
  \A k \in DOMAIN history :
    /\ history[k].rev = doc.rev => history[k].plan = doc.plan
    /\ \A l \in DOMAIN history : history[k].rev = history[l].rev => history[k].plan = history[l].plan
=============================================================================
