----------------------------- MODULE Refinement -----------------------------
(***************************************************************************)
(* The refinement of chapters that are already written                     *)
(* (director/refinement.py, started by director_refine of                  *)
(* director/control.py) and the repair queue it works through              *)
(* (review/editorial_workflow.py), with the editor's own acceptances and   *)
(* resets between two rounds (api/routers/editorial_memory.py).            *)
(*                                                                         *)
(* A text is [n, whole]: its number among the texts of the chapter and     *)
(* whether it passes the gate on prose (no meta text, not cut off, not     *)
(* beyond its length).  Refusals of one kind have one wording, hence one   *)
(* issue.                                                                  *)
(***************************************************************************)
EXTENDS Integers, Sequences, FiniteSets, SequencesExt, FiniteSetsExt

CONSTANTS
  Targets,          \* chapters of the book
  WrittenAtFirst,   \* those that have a text at first
  RevisionAttempts, \* max_revision_attempts
  MaxCandidates,    \* bound: texts of a chapter
  MaxRounds,        \* bound: refinements started
  MaxMishaps        \* bound: pauses, memory extractions that fail as a whole
                    \* and steps of the editor, together

ASSUME RefineAssumption ==
  /\ IsFiniteSet(Targets) /\ Targets \subseteq Nat /\ WrittenAtFirst \subseteq Targets
  /\ {RevisionAttempts, MaxCandidates, MaxRounds, MaxMishaps} \subseteq Nat

VARIABLES
  content, locked,     \* content; the text the lock is for, NoText if unlocked
  execution,        \* [status, issues] of the chapter
  memoryOf,           \* "none", "committed" or "pending_rebuild"
  incomplete,          \* settlement.incomplete_stages is not empty
  queue,            \* repair_queue
  refineRow,              \* the task row
  desk,             \* what the runner holds of one chapter
  fit,              \* history: texts the runner has seen pass, per chapter
  mishaps           \* pauses, failed extractions and edits so far

chapterVars == <<content, locked, execution, memoryOf, incomplete>>
refineVars == <<chapterVars, queue, refineRow, desk, fit, mishaps>>

NoText == [n |-> -1, whole |-> FALSE]
NoDesk == [at |-> "idle"]
Open == {"queued", "in_progress"}
Short(t) == t.n = 0
Refining == refineRow.status = "running"
Running(place) == Refining /\ desk.at = place
Current == refineRow.targets[refineRow.index]
Mishap == mishaps < MaxMishaps /\ mishaps' = mishaps + 1

\* what an audit says of a text: one with a blocker does not pass, whatever
\* its score
Opinions == {o \in [passes : BOOLEAN, blockers : 0..1, score : 1..2] : o.passes => o.blockers = 0}

\* lock_chapter: the hash of this text is the locked and the accepted one
LockChapter(c, text) == locked' = [locked EXCEPT ![c] = text]

\* _remove_quality_debt
DebtRemoved(debts, c) == debts \ {c}

----------------------------------------------------------------------------
(* The repair queue.                                                       *)

Keyed(q, c, issue) == {x \in q : x.chapter = c /\ x.issue = issue}

NewItem(q, c, issue) ==
  [chapter |-> c, issue |-> issue, status |-> "queued", k |-> Cardinality(Keyed(q, c, issue)) + 1]

\* Mutant of IssueEnqueued: only what is still queued counts as known.
EnqueuedTwice(q, c, issue) ==
  IF \E x \in Keyed(q, c, issue) : x.status = "queued" THEN q ELSE q \cup {NewItem(q, c, issue)}

\* enqueue_repair: an item with the key is left as it is, resolved or not,
\* unless it was dismissed
IssueEnqueued(q, c, issue) ==
  IF \E x \in Keyed(q, c, issue) : x.status # "dismissed" THEN q ELSE q \cup {NewItem(q, c, issue)}

\* each issue has its own items, so their order does not matter
EnqueuedAll(q, c, issues) == q \cup UNION {IssueEnqueued(q, c, i) : i \in issues}

Resolved(q, Which(_)) == {IF x.status \in Open /\ Which(x) THEN [x EXCEPT !.status = "resolved"] ELSE x : x \in q}

\* Mutant of Synced: stages that failed again are left resolved.
SyncedOnce(q, c, isPartial) ==
  IF ~isPartial THEN Resolved(q, LAMBDA x : x.chapter = c /\ x.issue = "stages")
  ELSE IF \E x \in Keyed(q, c, "stages") : x.status \in Open \cup {"dismissed"} THEN q
  ELSE IssueEnqueued(q, c, "stages")

\* sync_memory_repair: one open item while stages are missing, none after;
\* a dismissed one stays dismissed, a resolved one is queued again
Synced(q, c, isPartial) ==
  IF ~isPartial THEN Resolved(q, LAMBDA x : x.chapter = c /\ x.issue = "stages")
  ELSE IF \E x \in Keyed(q, c, "stages") : x.status \in Open \cup {"dismissed"} THEN q
  ELSE {IF x.chapter = c /\ x.issue = "stages" THEN [x EXCEPT !.status = "queued"] ELSE x :
          x \in IssueEnqueued(q, c, "stages")}

\* rebuild_repair_queue, one chapter: an accepted and locked one keeps only
\* what concerns its memory
RebuiltFor(q, c) ==
  LET synced == Synced(q, c, incomplete[c])
      found == IF execution[c].status = "quality_debt" /\ execution[c].issues = {}
               THEN {"debt"} ELSE execution[c].issues IN
  IF execution[c].status = "accepted" /\ locked[c] # NoText
  THEN Resolved(synced, LAMBDA x : x.chapter = c /\ x.issue \notin {"memory", "stages"})
  ELSE EnqueuedAll(synced, c, found)

Rebuilt(q) == UNION {{x \in RebuiltFor(q, c) : x.chapter = c} : c \in Targets}

OpenFor(q) == {x.chapter : x \in {x \in q : x.status \in Open}}

----------------------------------------------------------------------------
(* A round.                                                                *)

RefineInit ==
  /\ content = [c \in Targets |-> [n |-> IF c \in WrittenAtFirst THEN 1 ELSE 0, whole |-> TRUE]]
  /\ locked = [c \in Targets |-> NoText]
  /\ execution \in [Targets -> [status : {"none", "quality_debt"}, issues : {{}}]]
  /\ memoryOf = [c \in Targets |-> "none"] /\ incomplete = [c \in Targets |-> FALSE]
  /\ queue = {} /\ desk = NoDesk /\ fit = [c \in Targets |-> {}]
  /\ refineRow = [status |-> "none", round |-> 0, targets |-> <<>>, index |-> 1, debts |-> {},
            focus |-> {}, kept |-> [c \in Targets |-> NoText],
            outcome |-> [c \in Targets |-> "none"]]
  /\ mishaps = 0

Written == {c \in Targets : ~Short(content[c])}

\* the chapters of base come first, in the order of the book
Leads(base, order) ==
  \A i, j \in 1..Len(order) : i < j /\ order[j] \in base => order[i] \in base /\ order[i] < order[j]

\* director_refine: the queue is rebuilt; the targets are the chapters the
\* author names, as they are named, or else those with open items or all that
\* have a text, and after them those a failing gate on the whole manuscript
\* points at; every target is a debt until it is accepted
StartRefine ==
  /\ ~Refining /\ refineRow.status # "paused" /\ refineRow.round < MaxRounds
  /\ queue' = Rebuilt(queue)
  /\ \E focus \in SUBSET Written, base \in SUBSET Targets :
       /\ focus \cup base # {}
       /\ \E order \in SetToSeqs(focus \cup base) :
            /\ \/ focus = {}
               \/ base \in {Written, OpenFor(queue')} /\ Leads(base, order)
            /\ refineRow' = [refineRow EXCEPT !.status = "running", !.round = @ + 1, !.focus = focus,
                           !.targets = order, !.index = 1, !.debts = focus \cup base,
                           !.outcome = [c \in Targets |-> "none"]]
  /\ UNCHANGED <<chapterVars, desk, fit, mishaps>>

\* a chapter without enough text is kept as it is, its item queued
SkipShort ==
  /\ Running("idle") /\ refineRow.index <= Len(refineRow.targets) /\ Short(content[Current])
  /\ queue' = IssueEnqueued(queue, Current, "missing")
  /\ refineRow' = [refineRow EXCEPT !.index = @ + 1, !.debts = @ \cup {Current}]
  /\ UNCHANGED <<chapterVars, desk, fit, mishaps>>

TakeChapter ==
  /\ Running("idle") /\ refineRow.index <= Len(refineRow.targets) /\ ~Short(content[Current])
  /\ desk' = [at |-> "audit", draft |-> content[Current], attempt |-> 0,
              best |-> NoText, rank |-> <<-1, 0, 0>>, passes |-> FALSE]
  /\ fit' = [fit EXCEPT ![Current] = {}]
  /\ UNCHANGED <<chapterVars, queue, refineRow, mishaps>>

\* Mutant of RefineRank: the score comes first.
RankByScore(t, o) == <<o.score, -o.blockers, IF o.passes THEN 1 ELSE 0>>

\* _refinement_candidate_rank: the gate on the prose counts as a blocker
RefineRank(t, o) ==
  <<IF o.passes THEN 1 ELSE 0, 0 - (o.blockers + (IF t.whole THEN 0 ELSE 1)), o.score>>

Above(r, s) ==
  \E i \in 1..3 : r[i] > s[i] /\ \A j \in 1..(i - 1) : r[j] = s[j]

\* chapter_audit and the contracts; the best of the attempts is kept, and a
\* chapter in focus is revised once though it passes
AuditDraft ==
  /\ Running("audit")
  /\ \E o \in Opinions :
       LET better == Above(RefineRank(desk.draft, o), desk.rank)
           enough == o.passes /\ ~(desk.attempt = 0 /\ Current \in refineRow.focus) IN
       /\ desk' = [desk EXCEPT
            !.best = IF better THEN desk.draft ELSE @,
            !.rank = IF better THEN RefineRank(desk.draft, o) ELSE @,
            !.passes = IF better THEN o.passes ELSE @,
            !.at = IF enough \/ desk.attempt = RevisionAttempts THEN "settle" ELSE "revise"]
       /\ fit' = [fit EXCEPT ![Current] =
                    @ \cup (IF o.passes /\ desk.draft.whole THEN {desk.draft} ELSE {})]
  /\ UNCHANGED <<chapterVars, queue, refineRow, mishaps>>

\* the candidate a former round ended with, or a new text: the excerpts
\* patched, or the whole chapter written again from the best so far
ReviseDraft ==
  /\ Running("revise")
  /\ \E t \in IF desk.attempt = 0 /\ refineRow.kept[Current].n > 0 /\ refineRow.kept[Current] # content[Current]
              THEN {refineRow.kept[Current]}
              ELSE [n : {Max({content[Current].n, desk.draft.n, desk.best.n, refineRow.kept[Current].n}) + 1},
                    whole : BOOLEAN] :
       /\ t.n <= MaxCandidates
       /\ desk' = [desk EXCEPT !.draft = t, !.attempt = @ + 1, !.at = "audit"]
  /\ UNCHANGED <<chapterVars, queue, refineRow, fit, mishaps>>

\* Mutant of AcceptedByRunner: the gate on the prose is not asked.
AcceptedUngated == desk.passes

AcceptedByRunner == desk.passes /\ desk.best.whole

\* the chapter is replaced, locked and its items resolved; then the memory is
\* extracted when the text changed or none was committed; one save for all
SettleAccepted ==
  /\ Running("settle") /\ AcceptedByRunner
  /\ LET resolved == Resolved(queue, LAMBDA x : x.chapter = Current)
         extract == desk.best # content[Current] \/ memoryOf[Current] # "committed" IN
     /\ content' = [content EXCEPT ![Current] = desk.best]
     /\ LockChapter(Current, desk.best)
     /\ \E issues \in SUBSET {"prose"} :
          execution' = [execution EXCEPT ![Current] = [status |-> "accepted", issues |-> issues]]
     /\ \/ /\ ~extract /\ queue' = resolved
           /\ UNCHANGED <<memoryOf, incomplete, mishaps>>
        \/ /\ extract /\ Mishap
           /\ memoryOf' = [memoryOf EXCEPT ![Current] = "pending_rebuild"]
           /\ queue' = IssueEnqueued(resolved, Current, "memory")
           /\ UNCHANGED incomplete
        \/ /\ extract
           /\ memoryOf' = [memoryOf EXCEPT ![Current] = "committed"]
           /\ \E missing \in BOOLEAN :
                /\ incomplete' = [incomplete EXCEPT ![Current] = missing]
                /\ queue' = Synced(resolved, Current, missing)
           /\ UNCHANGED mishaps
  /\ desk' = [desk EXCEPT !.at = "report"]
  /\ UNCHANGED <<refineRow, fit>>

\* the chapter stays as it is; what is wrong with the candidate is queued
SettleRefused ==
  /\ Running("settle") /\ ~AcceptedByRunner
  /\ queue' = EnqueuedAll(queue, Current,
                (IF desk.passes THEN {} ELSE {"prose"}) \cup (IF desk.best.whole THEN {} ELSE {"gate"}))
  /\ desk' = [desk EXCEPT !.at = "report"]
  /\ UNCHANGED <<chapterVars, refineRow, fit, mishaps>>

\* Mutant of ReportRefine: the row moves on before the chapter is saved.
ReportFirst ==
  /\ Refining /\ desk.at \in {"settle", "report"}
  /\ refineRow' = [refineRow EXCEPT !.index = @ + 1,
       !.debts = IF AcceptedByRunner THEN @ \ {Current} ELSE @ \cup {Current},
       !.outcome = [@ EXCEPT ![Current] = IF AcceptedByRunner THEN "accepted" ELSE "review"],
       !.kept = IF AcceptedByRunner THEN @ ELSE [@ EXCEPT ![Current] = desk.best]]
  /\ desk' = NoDesk
  /\ UNCHANGED <<chapterVars, queue, fit, mishaps>>

\* the row is saved after the project: the debt goes or stays, the candidate
\* that was refused is kept for a later round
ReportRefine ==
  /\ Running("report")
  /\ refineRow' = [refineRow EXCEPT !.index = @ + 1,
       !.debts = IF AcceptedByRunner THEN @ \ {Current} ELSE @ \cup {Current},
       !.outcome = [@ EXCEPT ![Current] = IF AcceptedByRunner THEN "accepted" ELSE "review"],
       !.kept = IF AcceptedByRunner THEN @ ELSE [@ EXCEPT ![Current] = desk.best]]
  /\ desk' = NoDesk
  /\ UNCHANGED <<chapterVars, queue, fit, mishaps>>

FinishRefine ==
  /\ Running("idle") /\ refineRow.index > Len(refineRow.targets)
  /\ refineRow' = [refineRow EXCEPT !.status = "completed"]
  /\ UNCHANGED <<chapterVars, queue, desk, fit, mishaps>>

\* a pause, an error or the end of the program: the desk is lost, the row
\* says which chapter comes next
StopRefine ==
  /\ Refining /\ Mishap
  /\ refineRow' = [refineRow EXCEPT !.status = "paused"] /\ desk' = NoDesk
  /\ UNCHANGED <<chapterVars, queue, fit>>

ResumeRefine ==
  /\ refineRow.status = "paused"
  /\ refineRow' = [refineRow EXCEPT !.status = "running"]
  /\ UNCHANGED <<chapterVars, queue, desk, fit, mishaps>>

----------------------------------------------------------------------------
(* The editor, between two runs.                                           *)

Editing == ~Refining /\ Mishap

\* chapter_accept with a lock, and the debt of the latest task
AcceptByHand ==
  /\ Editing
  /\ \E c \in Targets :
       /\ ~Short(content[c])
       /\ LockChapter(c, content[c])
       /\ execution' = [execution EXCEPT ![c].status = IF @ = "quality_debt" THEN "accepted" ELSE @]
       /\ refineRow' = [refineRow EXCEPT !.debts = DebtRemoved(@, c)]
  /\ UNCHANGED <<content, memoryOf, incomplete, queue, desk, fit>>

\* chapter_workflow_reset from a stage up to the lock
ResetByHand ==
  /\ Editing
  /\ \E c \in Targets : locked[c] # NoText /\ locked' = [locked EXCEPT ![c] = NoText]
  /\ UNCHANGED <<content, execution, memoryOf, incomplete, queue, refineRow, desk, fit>>

\* project_repair_status: the queue is rebuilt first
MarkItem ==
  /\ Editing
  /\ \E x \in Rebuilt(queue) : \E status \in {"in_progress", "resolved", "dismissed"} :
       /\ x.status \in Open
       /\ queue' = (Rebuilt(queue) \ {x}) \cup {[x EXCEPT !.status = status]}
  /\ UNCHANGED <<chapterVars, refineRow, desk, fit>>

\* chapter_memory_repair: the missing stages alone
RepairStages ==
  /\ Editing
  /\ \E c \in Targets : \E missing \in BOOLEAN :
       /\ incomplete[c] /\ memoryOf[c] = "committed"
       /\ incomplete' = [incomplete EXCEPT ![c] = missing]
       /\ queue' = Synced(queue, c, missing)
  /\ UNCHANGED <<content, locked, execution, memoryOf, refineRow, desk, fit>>

RefineNext ==
  \/ StartRefine \/ SkipShort \/ TakeChapter \/ AuditDraft \/ ReviseDraft
  \/ SettleAccepted \/ SettleRefused \/ ReportRefine \/ FinishRefine \/ StopRefine \/ ResumeRefine
  \/ AcceptByHand \/ ResetByHand \/ MarkItem \/ RepairStages

RefineSpec == RefineInit /\ [][RefineNext]_refineVars

----------------------------------------------------------------------------
(* Properties.                                                             *)

\* No acceptable text is wasted: a chapter is refused only when none of the
\* attempts, the original among them, passed the audit and the gate on prose.
FitIsUsed ==
  (desk.at = "report" /\ fit[Current] # {}) =>
    content[Current] \in fit[Current] /\ locked[Current] = content[Current]

\* A text is replaced only by one that passed both, and is locked as it is.
OnlyFitReplaces ==
  [][\A c \in Targets : content'[c] # content[c] => content'[c] \in fit[c] /\ locked'[c] = content'[c]]_refineVars

\* However a run was stopped and resumed, a chapter the row has passed as
\* accepted is the text of the project, locked until the editor unlocks it.
AcceptedIsStored ==
  [][\A c \in Targets :
       refineRow'.outcome[c] = "accepted" /\ refineRow.outcome[c] # "accepted" =>
         locked'[c] = content'[c] /\ execution'[c].status = "accepted"]_refineVars

\* At most one open item says the same thing of a chapter.
OneOpenItem ==
  \A x, y \in {z \in queue : z.status \in Open} :
    (x.chapter = y.chapter /\ x.issue = y.issue) => x = y

\* Missing memory stages are never forgotten: when the queue is rebuilt there
\* is an open item for them, or the author has dismissed it.
StagesAreQueued ==
  \A c \in Targets : incomplete[c] =>
    \E x \in Rebuilt(queue) : x.chapter = c /\ x.issue = "stages" /\ x.status \in Open \cup {"dismissed"}

\* Refinement keeps what it found: the parts above, over the rounds, the
\* stops and the editor's own steps between them.
RefinementIsSound ==
  /\ [](FitIsUsed /\ OneOpenItem /\ StagesAreQueued)
  /\ OnlyFitReplaces /\ AcceptedIsStored
=============================================================================
