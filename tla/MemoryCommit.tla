---------------------------- MODULE MemoryCommit ----------------------------
(***************************************************************************)
(* How a chapter accepted in the browser gets its memory                   *)
(* (story/memory_integrity.py, api/routers/editorial_memory.py,            *)
(* api/container.py and acceptAndRemember in                               *)
(* features/review/editorial.js): accepting locks the text and opens a     *)
(* commit named after it; extraction runs for minutes while other tabs     *)
(* save the book; applying settles the commit, once; a failure on the way  *)
(* marks it degraded.  A handler between two awaits is one step; any       *)
(* request may be refused, because the director is at work, and any answer *)
(* be lost.                                                                *)
(***************************************************************************)
EXTENDS Integers, Sequences, FiniteSets

CONSTANTS
  Tabs,          \* browsers that have the book open
  Versions,      \* texts the chapter may have
  MaxTyped,      \* bound: texts typed
  MaxAccepts,    \* bound: chapters accepted
  MaxOtherSaves  \* bound: saves of other chapters

VARIABLES
  stored,   \* the book: this chapter, its commits, the other chapters, updated_at
  tab,      \* what each browser holds and where its acceptance is
  reading,  \* the extraction each tab asked for: the book it read
  used      \* steps taken against the bounds

commitVars == <<stored, tab, reading, used>>

NoVersion == "none"
NotReading == [on |-> FALSE]
Commit(b, id) == b.commits[id]

ASSUME CommitAssumption ==
  /\ Versions # {} /\ NoVersion \notin Versions
  /\ {MaxTyped, MaxAccepts, MaxOtherSaves} \subseteq Nat

\* the texts are interchangeable
AnyVersion == CHOOSE v \in Versions : TRUE

CommitInit ==
  /\ stored =
       [text |-> AnyVersion, lock |-> NoVersion, locked |-> FALSE, stale |-> FALSE, settlement |-> NoVersion,
        status |-> "", commit |-> 0, commits |-> <<>>, memoryOf |-> NoVersion, others |-> 0, at |-> 0]
  /\ tab = [t \in Tabs |-> [book |-> stored, at |-> "idle", id |-> 0, whole |-> FALSE]]
  /\ reading = [t \in Tabs |-> NotReading]
  /\ used = [typed |-> 0, accepts |-> 0, others |-> 0]

----------------------------------------------------------------------------
(* The book: begin, validate and mark a commit; save.                      *)

\* the latest commit of this chapter for this text
ExistingCommits(b) == {id \in DOMAIN b.commits : b.commits[id].hash = b.text}
NewCommit(b) ==
  LET id == Len(b.commits) + 1
  IN [b EXCEPT !.commits = Append(@, [hash |-> b.text, status |-> "pending", applied |-> 0]),
               !.status = "pending", !.commit = id]
Reused(b, id) ==
  LET status == IF Commit(b, id).status = "degraded" THEN "pending" ELSE Commit(b, id).status
  IN [b EXCEPT !.commits[id].status = status, !.status = status, !.commit = id]
Begun(b) ==
  IF ExistingCommits(b) # {} /\ ~b.stale
  THEN Reused(b, CHOOSE id \in ExistingCommits(b) : \A k \in ExistingCommits(b) : id >= k)
  ELSE NewCommit(b)

Valid(b, id) == id \in DOMAIN b.commits /\ Commit(b, id).hash = b.text
Marked(b, id, status) ==
  [b EXCEPT !.commits[id].status = status, !.status = status, !.commit = id]
Locked(b) == b.locked /\ b.lock = b.text

\* Mutant of SaveInvalidated: the lock alone is void.
InvalidatedLock(b) == [b EXCEPT !.locked = @ /\ b.lock = b.text]
\* invalidate_changed_manuscript: derived memory of a changed text is stale, its lock void
SaveInvalidated(b) ==
  LET changed == b.text # stored.text /\ (stored.settlement # NoVersion \/ stored.lock # NoVersion)
                 /\ b.settlement # b.text
  IN [b EXCEPT !.stale = IF changed THEN TRUE ELSE @, !.locked = IF changed /\ b.lock # b.text THEN FALSE ELSE @]
Save(b) == stored' = [SaveInvalidated(b) EXCEPT !.at = stored.at + 1]

\* Mutant of MaySave: the version is not compared.
MaySaveOver(b) == TRUE

\* _persist_managed_project: not over another save, and, at any moment, not while
\* the director is at work on the book (a request may always be refused below)
MaySave(b) == b.at = stored.at

----------------------------------------------------------------------------
(* acceptAndRemember, one request after the other.                         *)

At(t, at) == tab' = [tab EXCEPT ![t].at = at]
Loaded(t, at) == tab' = [tab EXCEPT ![t].at = at, ![t].book = stored']

\* the author types, saves or reloads while no acceptance is under way
Type(t, v) ==
  /\ tab[t].at = "idle" /\ v # tab[t].book.text /\ used.typed < MaxTyped
  /\ tab' = [tab EXCEPT ![t].book.text = v]
  /\ used' = [used EXCEPT !.typed = @ + 1]
  /\ UNCHANGED <<stored, reading>>
SaveTab(t) ==
  /\ tab[t].at = "idle" /\ tab[t].book.text # stored.text /\ tab[t].book.at = stored.at
  /\ Save(tab[t].book) /\ Loaded(t, "idle")
  /\ UNCHANGED <<reading, used>>
ReloadTab(t) ==
  /\ tab[t].book # stored
  /\ tab' = [tab EXCEPT ![t] = [book |-> stored, at |-> "idle", id |-> 0, whole |-> FALSE]]
  /\ UNCHANGED <<stored, reading, used>>

\* /api/chapter/accept works on the browser's copy, with what was typed into it
Accept(t) ==
  /\ tab[t].at = "idle" /\ used.accepts < MaxAccepts
  /\ used' = [used EXCEPT !.accepts = @ + 1]
  /\ UNCHANGED <<reading>>
  /\ \/ /\ MaySave(tab[t].book)
        /\ LET b == Begun([tab[t].book EXCEPT !.lock = tab[t].book.text, !.locked = TRUE])
           IN /\ Save(b)
              /\ \/ tab' = [tab EXCEPT ![t] = [book |-> stored', id |-> b.commit, whole |-> FALSE,
                                               at |-> IF Commit(b, b.commit).status = "committed"
                                                      THEN "idle" ELSE "accepted"]]
                 \/ UNCHANGED tab                                   \* the answer is lost
     \/ UNCHANGED <<stored, tab>>                                   \* refused

\* /api/chapter/memory reads the latest book if it still has the commit
StartReading(t) ==
  /\ tab[t].at = "accepted" /\ ~reading[t].on
  /\ \/ /\ Valid(tab[t].book, tab[t].id) /\ Valid(stored, tab[t].id) /\ Locked(stored)
        /\ reading' = [reading EXCEPT ![t] = [on |-> TRUE, book |-> stored, id |-> tab[t].id]]
        /\ At(t, "reading")
     \/ /\ ~(Valid(tab[t].book, tab[t].id) /\ Valid(stored, tab[t].id) /\ Locked(stored))
        /\ At(t, "failed") /\ UNCHANGED reading
  /\ UNCHANGED <<stored, used>>

\* the model has answered, in full or in part, or the local summary stands in;
\* the tab that asked may be gone, the handler runs on
FinishReading(t, whole) ==
  LET r == reading[t]
      waits == tab[t].at = "reading" /\ tab[t].id = r.id
      answered == tab' = [tab EXCEPT ![t].at = IF waits THEN "extracted" ELSE @,
                                     ![t].whole = IF waits THEN whole ELSE @]
      failed == tab' = [tab EXCEPT ![t].at = IF waits THEN "failed" ELSE @]
  IN /\ r.on
     /\ reading' = [reading EXCEPT ![t] = NotReading]
     /\ \/ /\ Commit(r.book, r.id).status # "committed" /\ MaySave(r.book)
           /\ Save(Marked(r.book, r.id, "extracted"))
           /\ answered \/ failed
        \/ /\ Commit(r.book, r.id).status # "committed"
           /\ failed /\ UNCHANGED stored
        \/ /\ Commit(r.book, r.id).status = "committed"
           /\ answered \/ failed
           /\ UNCHANGED stored
     /\ UNCHANGED used

\* _apply_director_memory, then committed; a part of the stages leaves no settlement
CommitSettled(b, id, whole) ==
  [Marked(b, id, "committed") EXCEPT
     !.commits[id].applied = @ + 1, !.memoryOf = b.text, !.stale = FALSE,
     !.settlement = IF whole THEN b.text ELSE NoVersion]
\* Mutant of AppliedBook: a committed one is settled again.
ReappliedBook(b, id, whole) == CommitSettled(b, id, whole)
AppliedBook(b, id, whole) ==
  IF Commit(b, id).status = "committed" THEN b ELSE CommitSettled(b, id, whole)

\* /api/chapter/memory/apply on the latest book, a committed one as it is
ApplyMemory(t) ==
  /\ tab[t].at = "extracted"
  /\ LET id == tab[t].id
         ready == Valid(tab[t].book, id) /\ Valid(stored, id) /\ Locked(stored)
     IN \/ /\ ready
           /\ Save(AppliedBook(stored, id, tab[t].whole))
           /\ Loaded(t, "idle") \/ At(t, "failed")
        \/ At(t, "failed") /\ UNCHANGED stored
  /\ UNCHANGED <<reading, used>>

\* Mutant of DegradedBook: a committed one too.
DegradedBookAlways(b, id) == Marked(b, id, "degraded")

\* /api/chapter/memory/degrade: whatever failed, never a committed one
DegradedBook(b, id) == IF Commit(b, id).status = "committed" THEN b ELSE Marked(b, id, "degraded")
Degrade(t) ==
  /\ tab[t].at = "failed"
  /\ LET id == tab[t].id
         may == Valid(tab[t].book, id) /\ Valid(stored, id)
     IN \/ /\ may
           /\ Save(DegradedBook(stored, id))
           /\ Loaded(t, "idle") \/ At(t, "idle")
        \/ At(t, "idle") /\ UNCHANGED stored
  /\ UNCHANGED <<reading, used>>

OtherSave ==
  /\ used.others < MaxOtherSaves
  /\ stored' = [stored EXCEPT !.others = @ + 1, !.at = @ + 1]
  /\ used' = [used EXCEPT !.others = @ + 1]
  /\ UNCHANGED <<tab, reading>>

CommitNext ==
  \/ \E t \in Tabs : \/ \E v \in Versions : Type(t, v)
                     \/ SaveTab(t) \/ ReloadTab(t) \/ Accept(t) \/ StartReading(t)
                     \/ \E whole \in BOOLEAN : FinishReading(t, whole)
                     \/ ApplyMemory(t) \/ Degrade(t)
  \/ OtherSave
CommitSpec == CommitInit /\ [][CommitNext]_commitVars

----------------------------------------------------------------------------
(* What the author may rely on.                                            *)

\* A commit is settled once, however often a tab accepts again, retries a lost
\* request or degrades it (chapter_memory_apply, chapter_memory_degrade).
SettledOnce == \A id \in DOMAIN stored.commits : Commit(stored, id).applied <= 1

\* A chapter that says its memory is committed has the memory of its present text,
\* unless it is marked stale (begin_memory_commit, invalidate_changed_manuscript).
CommittedIsOfTheText ==
  (stored.status = "committed" /\ ~stored.stale) =>
    stored.memoryOf = stored.text /\ Valid(stored, stored.commit)

\* Minutes of extraction lose nothing another tab saved meanwhile
\* (_latest_managed_commit_project, _persist_managed_project).
OtherChaptersStand == [][stored'.others >= stored.others]_commitVars

\* A committed commit stays so, and so does the text it was opened for.
CommittedStays ==
  [][\A id \in DOMAIN stored.commits :
       /\ id \in DOMAIN stored'.commits
       /\ Commit(stored', id).hash = Commit(stored, id).hash
       /\ Commit(stored, id).status = "committed" => Commit(stored', id).status = "committed"]_commitVars

\* What several tabs do with the commits of a chapter leaves each settled once, for its own text, and
\* takes nothing from the other chapters: the four parts above.
CommitIsSound ==
  /\ [](SettledOnce /\ CommittedIsOfTheText)
  /\ OtherChaptersStand /\ CommittedStays
=============================================================================
