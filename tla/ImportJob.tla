------------------------------ MODULE ImportJob ------------------------------
(***************************************************************************)
(* The job that takes an existing manuscript in (io/manuscript_import.py,  *)
(* api/routers/manuscript_import.py): it reads the book in batches and     *)
(* proposes a cast, waits for the author's review, and settles the memory  *)
(* chapter by chapter.  The job is a record of the extension store; the    *)
(* runner works on a copy of it and writes the copy back, while requests   *)
(* flag the stored record, the author edits the book, and the process may  *)
(* end.  Code between two awaits is one step.                              *)
(***************************************************************************)
EXTENDS Integers, Sequences, FiniteSets, SequencesExt, FiniteSetsExt

CONSTANTS
  BookSize,        \* chapters of the manuscript
  ShortOnes,       \* those of less than 100 characters: accepted, not locked
  ReadBatches,     \* batches of the analysis
  CastNames,       \* names the batches propose
  SettleAttempts,  \* max_chapter_attempts
  MaxAuthorSteps,  \* bound: edits, deletions and settlements by the author
  MaxLaunches      \* bound: analyses and settlements launched

ASSUME ImportAssumption ==
  /\ BookSize \in Nat \ {0} /\ ReadBatches \in Nat \ {0} /\ SettleAttempts \in Nat \ {0}
  /\ ShortOnes \subseteq 1..BookSize
  /\ {MaxAuthorSteps, MaxLaunches} \subseteq Nat /\ IsFiniteSet(CastNames)

VARIABLES
  manuscript,   \* chapters: [id, v, lock, mem, stale], v the version of the text
  staleAt,      \* memory.stale_from_chapter, 0 if absent
  roll,         \* how often each name is in the project's cast
  stampNo,      \* updated_at of the project
  importJob,    \* the stored record
  hand,         \* the runner: its copy of the record and where it waits
  authorSteps, launches

bookVars == <<manuscript, staleAt, stampNo>>
importVars == <<bookVars, roll, importJob, hand, authorSteps, launches>>

IdleTab == [at |-> "none"]
IsRunning == hand.at # "none"
LockedNow(c) == c.lock = c.v
PlaceOf(id) == {p \in DOMAIN manuscript : manuscript[p].id = id}

ImportInit ==
  /\ manuscript = [i \in 1..BookSize |->
       [id |-> i, v |-> 1, lock |-> IF i \in ShortOnes THEN 0 ELSE 1, mem |-> 0, stale |-> FALSE]]
  /\ staleAt = 0 /\ stampNo = 0
  /\ roll = [n \in CastNames |-> 0]
  /\ importJob = [status |-> "imported", batches |-> [b \in 1..ReadBatches |-> "pending"],
                  review |-> "none", index |-> 1, settled |-> {}, pause |-> FALSE]
  /\ hand = IdleTab
  /\ authorSteps = 0 /\ launches = 0

----------------------------------------------------------------------------
(* The analysis.                                                           *)

Stopped(j) == [job |-> j, hand |-> IdleTab]

\* the next batch of this pass, a pause, or the end of the loop
NextBatch(j, from) ==
  LET left == {b \in from..ReadBatches : j.batches[b] # "done"} IN
  IF left = {}
  THEN IF \A b \in 1..ReadBatches : j.batches[b] # "done"
       THEN Stopped([j EXCEPT !.status = "failed"])
       ELSE [job |-> j, hand |-> [at |-> "synthesis", job |-> j]]
  ELSE IF j.pause THEN Stopped([j EXCEPT !.status = "paused", !.pause = FALSE])
  ELSE [job |-> j, hand |-> [at |-> "batch", job |-> j, b |-> Min(left)]]

Goes(next) == importJob' = next.job /\ hand' = next.hand

\* launch of run_import_analysis, up to its first await
Analyze ==
  /\ ~IsRunning /\ launches < MaxLaunches /\ launches' = launches + 1
  /\ Goes(NextBatch([importJob EXCEPT !.status = "analyzing", !.pause = FALSE], 1))
  /\ UNCHANGED <<bookVars, roll, authorSteps>>

\* Mutant of Merged: the copy of the runner replaces the record.
MergedBlindly(j) == j

\* _persist: a pause asked for meanwhile is taken over into the copy
MergedJob(j) == [j EXCEPT !.pause = @ \/ importJob.pause]

BatchAnswered ==
  /\ hand.at = "batch"
  /\ \E outcome \in {"done", "failed"} :
       Goes(NextBatch(MergedJob([hand.job EXCEPT !.batches[hand.b] = outcome]), hand.b + 1))
  /\ UNCHANGED <<bookVars, roll, authorSteps, launches>>

\* with or without an answer to the synthesis the candidates await review
Synthesised ==
  /\ hand.at = "synthesis"
  /\ Goes(Stopped([hand.job EXCEPT !.review = "pending", !.status = "awaiting_review"]))
  /\ UNCHANGED <<bookVars, roll, authorSteps, launches>>

----------------------------------------------------------------------------
(* The settlement.                                                         *)

Skippable(j, c) == ~LockedNow(c) \/ (c.mem = c.v /\ c.id \in j.settled)

\* the loop up to the next chapter that has to be read, over the book as it is
NextChapter(j, book, stamp) ==
  LET left == {p \in j.index..Len(book) : ~Skippable(j, book[p])} IN
  IF j.index > Len(book) THEN Stopped([j EXCEPT !.status = "completed"])
  ELSE IF j.pause THEN Stopped([j EXCEPT !.status = "paused", !.pause = FALSE])
  ELSE IF left = {} THEN Stopped([j EXCEPT !.status = "completed", !.index = Len(book) + 1])
  ELSE LET here == [j EXCEPT !.index = Min(left)] IN
       [job |-> here, hand |-> [at |-> "memory", job |-> here, id |-> book[Min(left)].id,
                                v |-> book[Min(left)].v, attempt |-> 1, stamp |-> stamp]]

\* launch of run_import_settlement: after the review, if there is one
Settle ==
  /\ ~IsRunning /\ launches < MaxLaunches /\ launches' = launches + 1
  /\ importJob.review # "pending"
  /\ Goes(NextChapter([importJob EXCEPT !.status = "settling", !.pause = FALSE], manuscript, stampNo))
  /\ UNCHANGED <<bookVars, roll, authorSteps>>

\* Mutant of Fresh: the project is saved whatever happened to it.
FreshOrNot == PlaceOf(hand.id) # {}

\* expected_updated_at, and the order the stale boundary asks for
Fresh == stampNo = hand.stamp /\ (staleAt = 0 \/ staleAt \in PlaceOf(hand.id))

Flagged(book) == {p \in DOMAIN book : book[p].stale}
Boundary(book) == IF Flagged(book) = {} THEN 0 ELSE Min(Flagged(book))

\* apply_memory, mark_memory_commit and the save
Committed(id) ==
  LET p == CHOOSE p \in PlaceOf(id) : TRUE IN
  /\ manuscript' = [manuscript EXCEPT ![p].mem = hand.v, ![p].stale = FALSE]
  /\ staleAt' = IF staleAt = 0 THEN 0 ELSE Boundary(manuscript')
  /\ stampNo' = stampNo + 1

ChapterSettled ==
  /\ hand.at = "memory" /\ Fresh
  /\ Committed(hand.id)
  /\ Goes(NextChapter(MergedJob([hand.job EXCEPT !.settled = @ \cup {hand.id}, !.index = @ + 1]),
                      manuscript', stampNo'))
  /\ UNCHANGED <<roll, authorSteps, launches>>

\* Mutant of ChapterFailed: a chapter that is given up does not stop the job.
ChapterGivenUp ==
  /\ hand.at = "memory"
  /\ IF hand.attempt < SettleAttempts /\ PlaceOf(hand.id) # {}
     THEN hand' = [hand EXCEPT !.attempt = @ + 1, !.stamp = stampNo] /\ UNCHANGED importJob
     ELSE Goes(NextChapter(MergedJob([hand.job EXCEPT !.index = @ + 1]), manuscript, stampNo))
  /\ UNCHANGED <<bookVars, roll, authorSteps, launches>>

\* the model fails, times out, or the project has changed: the chapter is read
\* again by its id, if it is still there, and given up after the last attempt
ChapterFailed ==
  /\ hand.at = "memory"
  /\ CASE hand.attempt = SettleAttempts -> Goes(Stopped([hand.job EXCEPT !.status = "paused"]))
       [] hand.attempt < SettleAttempts /\ PlaceOf(hand.id) # {} ->
            /\ hand' = [hand EXCEPT !.attempt = @ + 1, !.stamp = stampNo,
                         !.v = manuscript[CHOOSE p \in PlaceOf(hand.id) : TRUE].v]
            /\ UNCHANGED importJob
       [] OTHER -> Goes(NextChapter(MergedJob(hand.job), manuscript, stampNo))
  /\ UNCHANGED <<bookVars, roll, authorSteps, launches>>

----------------------------------------------------------------------------
(* Requests, the author, and the process.                                  *)

\* request_pause
AskPause ==
  /\ IsRunning /\ importJob.status \in {"analyzing", "settling"} /\ ~importJob.pause
  /\ importJob' = [importJob EXCEPT !.pause = TRUE]
  /\ UNCHANGED <<bookVars, roll, hand, authorSteps, launches>>

\* Mutant of Joins: whoever is chosen joins.
JoinsAgain(n) == roll[n] + 1

\* apply_review: a name that is known is left alone
Joins(n) == IF roll[n] = 0 THEN 1 ELSE roll[n]

Confirmable == ~IsRunning /\ importJob.review # "none" /\ launches < MaxLaunches

ApplyReview(chosen) ==
  /\ roll' = [n \in CastNames |-> IF n \in chosen THEN Joins(n) ELSE roll[n]]
  /\ stampNo' = stampNo + 1

\* import_confirm: the choices go into the project, then the job is marked
\* and the settlement launched
Confirm ==
  /\ Confirmable /\ launches' = launches + 1
  /\ \E chosen \in SUBSET CastNames : ApplyReview(chosen)
  /\ Goes(NextChapter([importJob EXCEPT !.review = "confirmed", !.status = "settling", !.pause = FALSE],
                      manuscript, stampNo'))
  /\ UNCHANGED <<manuscript, staleAt, authorSteps>>

\* the process ends between the save of the project and that of the job
ConfirmCutOff ==
  /\ Confirmable /\ launches' = launches + 1
  /\ \E chosen \in SUBSET CastNames : ApplyReview(chosen)
  /\ UNCHANGED <<manuscript, staleAt, importJob, hand, authorSteps>>

SettledCutOff ==
  /\ hand.at = "memory" /\ Fresh
  /\ Committed(hand.id)
  /\ hand' = IdleTab
  /\ UNCHANGED <<roll, importJob, authorSteps, launches>>

\* the process ends, or an error nobody expects stops the job
ImportLost ==
  /\ IsRunning /\ hand' = IdleTab
  /\ importJob' \in {importJob, [importJob EXCEPT !.status = "failed"]}
  /\ UNCHANGED <<bookVars, roll, authorSteps, launches>>

Authors == authorSteps < MaxAuthorSteps /\ authorSteps' = authorSteps + 1 /\ stampNo' = stampNo + 1

\* invalidate_changed_manuscript: the memory is stale from the change on
Outdate(book, from) ==
  IF from > Len(book) THEN manuscript' = book /\ UNCHANGED staleAt
  ELSE LET first == IF staleAt = 0 THEN from ELSE Min({from, staleAt}) IN
       /\ manuscript' = [p \in DOMAIN book |-> [book[p] EXCEPT !.stale = @ \/ p >= first]]
       /\ staleAt' = first

EditChapter ==
  /\ Authors
  /\ \E p \in DOMAIN manuscript :
       /\ IF manuscript[p].lock = 0
          THEN manuscript' = [manuscript EXCEPT ![p].v = @ + 1] /\ UNCHANGED staleAt
          ELSE Outdate([manuscript EXCEPT ![p].v = @ + 1], p)
  /\ UNCHANGED <<roll, importJob, hand, launches>>

DeleteChapter ==
  /\ Authors /\ Len(manuscript) > 1
  /\ \E p \in DOMAIN manuscript : Outdate(RemoveAt(manuscript, p), p)
  /\ UNCHANGED <<roll, importJob, hand, launches>>

\* the editor's own way: a chapter accepted, locked and settled by hand
SettleByHand ==
  /\ Authors
  /\ \E p \in DOMAIN manuscript :
       /\ staleAt \in {0, p} /\ manuscript[p].lock # 0
       /\ manuscript' = [manuscript EXCEPT ![p].lock = manuscript[p].v, ![p].mem = manuscript[p].v, ![p].stale = FALSE]
       /\ staleAt' = IF staleAt = 0 THEN 0 ELSE Boundary(manuscript')
  /\ UNCHANGED <<roll, importJob, hand, launches>>

ImportNext ==
  \/ Analyze \/ BatchAnswered \/ Synthesised \/ Settle \/ ChapterSettled \/ ChapterFailed
  \/ AskPause \/ Confirm \/ ConfirmCutOff \/ SettledCutOff \/ ImportLost
  \/ EditChapter \/ DeleteChapter \/ SettleByHand

ImportSpec == ImportInit /\ [][ImportNext]_importVars

----------------------------------------------------------------------------
(* Properties.                                                             *)

\* A committed memory is of the text the chapter has when it is committed,
\* whatever the author saved while the model was reading.
SettledAsItStands ==
  [][authorSteps' = authorSteps =>
       \A p \in DOMAIN manuscript' :
         manuscript'[p].mem # manuscript[p].mem => manuscript'[p].mem = manuscript'[p].v]_importVars

\* No chapter is silently left out: when the job is done, whatever was paused,
\* retried, cut off, edited or deleted on the way, every locked chapter has its
\* memory or is marked stale.
NoneLeftOut ==
  importJob.status = "completed" =>
    \A p \in DOMAIN manuscript :
      LockedNow(manuscript[p]) => manuscript[p].mem = manuscript[p].v \/ manuscript[p].stale

\* A pause that is asked for is not lost: no batch and no chapter is begun
\* while the stored job carries it.
PauseIsHeard ==
  [][(importJob.pause /\ IsRunning) =>
       ~ \/ hand'.at = "batch" /\ hand' # hand
         \/ hand'.at = "memory" /\ hand.at = "memory" /\ hand'.id # hand.id]_importVars

\* A candidate enters the cast once, though the review is confirmed again
\* after the process ended between the two saves.
CastJoinsOnce == \A n \in CastNames : roll[n] <= 1

\* An import that is paused, cut off and resumed beside the author's edits leaves out nothing, settles
\* nothing of an old text and adds nothing twice: the four parts above.
ImportIsComplete ==
  /\ [](NoneLeftOut /\ CastJoinsOnce)
  /\ SettledAsItStands /\ PauseIsHeard
=============================================================================
