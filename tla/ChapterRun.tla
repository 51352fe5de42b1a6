----------------------------- MODULE ChapterRun -----------------------------
(***************************************************************************)
(* The chapter phase of the automatic director (director/chapters.py,      *)
(* _run_chapters_phase): for every chapter plan, draft, audit and revise,  *)
(* lock, and settle the story memory.  The book (the project row) and the  *)
(* director's progress (the task row) are saved by separate statements, so *)
(* a crash may fall between any two saves, and an interruption (a pause,   *)
(* or a model call that fails) at any await.  While no run is active the   *)
(* author may edit, accept and settle chapters (editorial_memory.py).      *)
(*                                                                         *)
(* A text is known by how often the chapter's prose was replaced, which is *)
(* all that content hashes are compared for; 0 is an empty chapter.        *)
(* Chapters from staleFrom on carry memory_stale; N + 1 means that no      *)
(* stale_from_chapter is set (see finish_memory_rebuild: the flags always  *)
(* form a suffix of the book).                                             *)
(*                                                                         *)
(* pc is the place the runner has reached.  "plan", "draft", "audit",      *)
(* "revise", "extract", "repair" and "after" are awaits; "textSaved" and   *)
(* "index" lie between a save of the book and the save of the task.        *)
(***************************************************************************)
EXTENDS Naturals, FiniteSets

CONSTANTS
  N,               \* number of chapters
  MaxAttempts,     \* max_revision_attempts
  QualityLimit,    \* consecutive quality debts that trip the breaker (5)
  SystemicLimit,   \* consecutive systemic debts that trip it (3)
  HealthChapters,  \* chapters after which the manuscript gate is checked
  MaxTexts         \* bound: times a chapter's prose is replaced

ASSUME SizeAssumption == N \in Nat \ {0} /\ MaxAttempts \in Nat /\ MaxTexts \in Nat \ {0}
ASSUME LimitAssumption == QualityLimit \in Nat \ {0} /\ SystemicLimit \in Nat \ {0}
ASSUME HealthAssumption == HealthChapters \subseteq 1..N

VARIABLES
  text,       \* content of each chapter
  exec,       \* execution.status
  lock,       \* locked_content_hash: the text that was locked, 0 for none
  ledger,     \* the text whose deltas the story memory holds, 0 for none
  partial,    \* chapters whose settlement has incomplete_stages
  commit,     \* the editor's memory commit for the chapter's present text
  staleFrom,  \* memory.stale_from_chapter
  status,     \* the task row's status
  row,        \* the task row's progress
  mem,        \* the runner's in-memory copy of it
  pc, cur,    \* the runner's place and chapter
  attempt,    \* revisions made of the present draft
  fresh,      \* the chapter's text was written by this run
  strict,     \* not continue_on_quality_debt
  streak      \* history: debts written in succession by this run

memoryVars == <<ledger, partial, staleFrom>>
bookVars == <<text, exec, lock, commit, memoryVars>>
runVars == <<pc, cur, attempt, fresh, streak>>
vars == <<bookVars, status, row, mem, runVars, strict>>

Chapters == 1..N
Awaits == {"plan", "draft", "audit", "revise", "extract", "repair", "after"}
Places == Awaits \cup {"idle", "head", "textSaved", "index"}

\* index: chapters done; draft: the chapter of chapter_draft_checkpoint, 0
\* for none; sound: that draft passes _director_candidate_gate_failures
Progress == [index: 0..N, debts: SUBSET Chapters, quality: 0..QualityLimit,
             systemic: 0..SystemicLimit, draft: 0..N, sound: BOOLEAN]

TypeOK ==
  /\ text \in [Chapters -> 0..MaxTexts]
  /\ exec \in [Chapters -> {"never_run", "memory_pending", "accepted", "quality_debt"}]
  /\ lock \in [Chapters -> 0..MaxTexts]
  /\ ledger \in [Chapters -> 0..MaxTexts]
  /\ partial \subseteq Chapters
  /\ commit \in [Chapters -> {"none", "pending", "committed"}]
  /\ staleFrom \in 1..N + 1
  /\ status \in {"running", "paused", "completed"}
  /\ row \in Progress /\ mem \in Progress
  /\ pc \in Places /\ cur \in 1..N + 1
  /\ attempt \in 0..MaxAttempts
  /\ fresh \in BOOLEAN /\ strict \in BOOLEAN
  /\ streak \in [quality: Nat, systemic: Nat]

NoStreak == [quality |-> 0, systemic |-> 0]
NoProgress == [index |-> 0, debts |-> {}, quality |-> 0, systemic |-> 0,
               draft |-> 0, sound |-> TRUE]

Init ==
  /\ text = [c \in Chapters |-> 0]
  /\ exec = [c \in Chapters |-> "never_run"]
  /\ lock = text /\ ledger = text
  /\ partial = {} /\ commit = [c \in Chapters |-> "none"]
  /\ staleFrom = N + 1
  /\ status = "running" /\ row = NoProgress /\ mem = NoProgress
  /\ pc = "head" /\ cur = 1 /\ attempt = 0 /\ fresh = FALSE
  /\ strict \in BOOLEAN
  /\ streak = NoStreak

----------------------------------------------------------------------------
(* Saves of the task row, and the ways a run ends.                         *)

SaveTask(m) == mem' = m /\ row' = m

\* the coroutine ends and its locals with it: only what was saved remains
Gone ==
  /\ pc' = "idle" /\ cur' = 1 /\ attempt' = 0 /\ fresh' = FALSE
  /\ streak' = NoStreak /\ mem' = NoProgress

\* a return that leaves the task paused at its checkpoint m
PauseAt(m) == row' = m /\ status' = "paused" /\ Gone /\ UNCHANGED <<bookVars, strict>>

\* an exception or a cancellation: the saved row is paused as it is
Abandon == PauseAt(row)

NextChapter == pc' = "head" /\ cur' = cur + 1 /\ attempt' = 0 /\ fresh' = FALSE

----------------------------------------------------------------------------
(* The story memory (temporal_context.py, memory_settlement.py).           *)

\* Mutant of InOrder: any chapter from the boundary on may be settled.
FromBoundaryOn(c) == staleFrom = N + 1 \/ c >= staleFrom

\* prepare_memory_rebuild refuses every chapter but the first stale one
InOrder(c) == staleFrom \in {c, N + 1}

\* finish_memory_rebuild moves the boundary to the next flagged chapter
NextStale(c) == IF staleFrom = c THEN c + 1 ELSE staleFrom

\* _apply_director_memory: the first stale chapter's rebuild discards what
\* the memory holds of it and of all later chapters, then settles it
Settle(c, complete) ==
  /\ InOrder(c)
  /\ ledger' = [d \in Chapters |-> IF d = c THEN text[c]
                                   ELSE IF d > c /\ staleFrom = c THEN 0
                                   ELSE ledger[d]]
  /\ staleFrom' = NextStale(c)
  /\ partial' = IF complete THEN partial \ {c} ELSE partial \cup {c}

\* Mutant of Invalidated: the edited chapter is taken for freshly settled.
InvalidatedAfter(c) == IF lock[c] # 0 /\ c + 1 < staleFrom THEN c + 1 ELSE staleFrom

\* invalidate_changed_manuscript: prose that was locked or settled changed
Invalidated(c) == IF lock[c] # 0 /\ c < staleFrom THEN c ELSE staleFrom

----------------------------------------------------------------------------
(* One chapter, from the loop head to its judgement.                       *)

AtHead == pc = "head" /\ cur <= N

\* the chapter is behind the run; a debt whose chapter was accepted goes
Done(m) == [m EXCEPT !.index = cur,
                     !.debts = IF exec[cur] = "accepted" THEN @ \ {cur} ELSE @]

\* Mutant of BeginRecovery: a pending chapter is skipped like any other.
SkipPending ==
  /\ AtHead /\ text[cur] # 0 /\ exec[cur] = "memory_pending"
  /\ SaveTask(Done(mem))
  /\ NextChapter
  /\ UNCHANGED <<bookVars, status, streak, strict>>

\* content is there and execution.status is memory_pending: the run was cut
\* off between saving the text and settling it, so only the memory is redone
BeginRecovery ==
  /\ AtHead /\ text[cur] # 0 /\ exec[cur] = "memory_pending"
  /\ pc' = "extract"
  /\ UNCHANGED <<bookVars, status, row, mem, cur, attempt, fresh, streak, strict>>

\* any other chapter with content stays as it is
SkipWritten ==
  /\ AtHead /\ text[cur] # 0 /\ exec[cur] # "memory_pending"
  /\ SaveTask(Done(mem))
  /\ NextChapter
  /\ UNCHANGED <<bookVars, status, streak, strict>>

\* Mutant of BeginChapter: a chapter whose settlement is pending is redone.
BeginChapterAgain ==
  /\ AtHead /\ (text[cur] = 0 \/ exec[cur] = "memory_pending")
  /\ pc' = "plan"
  /\ UNCHANGED <<bookVars, status, row, mem, cur, attempt, fresh, streak, strict>>

BeginChapter ==
  /\ AtHead /\ text[cur] = 0
  /\ pc' = "plan"
  /\ UNCHANGED <<bookVars, status, row, mem, cur, attempt, fresh, streak, strict>>

\* the draft checkpoint is dropped
Unchecked(m) == [m EXCEPT !.draft = 0, !.sound = TRUE]

\* the plan is saved; a checkpointed draft of this chapter goes straight to
\* its audit, unless it breaks off mid-sentence and is dropped
PlanReady ==
  /\ pc = "plan"
  /\ \/ mem.draft = cur /\ pc' = "audit" /\ UNCHANGED <<row, mem>>
     \/ mem.draft = cur /\ pc' = "draft" /\ SaveTask(Unchecked(mem))
     \/ mem.draft # cur /\ pc' = "draft" /\ UNCHANGED <<row, mem>>
  /\ UNCHANGED <<bookVars, status, cur, attempt, fresh, streak, strict>>

Checkpointed(sound) == SaveTask([mem EXCEPT !.draft = cur, !.sound = sound])

DraftReady ==
  /\ pc = "draft"
  /\ \E sound \in BOOLEAN : Checkpointed(sound)
  /\ pc' = "audit"
  /\ UNCHANGED <<bookVars, status, cur, attempt, fresh, streak, strict>>

\* the audit failed and revisions are left
Revise ==
  /\ pc = "audit" /\ attempt < MaxAttempts
  /\ pc' = "revise"
  /\ UNCHANGED <<bookVars, status, row, mem, cur, attempt, fresh, streak, strict>>

RevisionReady ==
  /\ pc = "revise"
  /\ \E sound \in BOOLEAN : Checkpointed(sound)
  /\ attempt' = attempt + 1
  /\ pc' = "audit"
  /\ UNCHANGED <<bookVars, status, cur, fresh, streak, strict>>

----------------------------------------------------------------------------
(* The judgement.  A draft fails for good when its audit does with no      *)
(* revision left, or when the audit passes and the hard contracts do not:  *)
(* the passing audit has then already removed an older debt.               *)

Cleared(m) == [m EXCEPT !.debts = @ \ {cur}, !.quality = 0, !.systemic = 0]

\* bound: a counter stops at its limit, past which it keeps the breaker
\* tripped and does nothing else
CountTo(limit, k) == IF k < limit THEN k + 1 ELSE k

\* Mutant of Indebted: a retried chapter counts as none.
IndebtedAfresh(m, retry, near, systemic) ==
  [m EXCEPT !.debts = @ \cup {cur},
            !.quality = IF retry THEN 0 ELSE IF near THEN @ ELSE CountTo(QualityLimit, @),
            !.systemic = IF retry \/ ~systemic THEN 0 ELSE CountTo(SystemicLimit, @)]

Indebted(m, retry, near, systemic) ==
  [m EXCEPT !.debts = @ \cup {cur},
            !.quality = IF retry THEN 1 ELSE IF near THEN @ ELSE CountTo(QualityLimit, @),
            !.systemic = IF ~systemic THEN 0 ELSE IF retry THEN 1
                         ELSE CountTo(SystemicLimit, @)]

Tripped(m) == m.systemic >= SystemicLimit \/ m.quality >= QualityLimit

\* the text enters the book with the given execution.status
Write(state) ==
  /\ text' = [text EXCEPT ![cur] = @ + 1]
  /\ exec' = [exec EXCEPT ![cur] = state]
  /\ staleFrom' = Invalidated(cur)
  /\ commit' = [commit EXCEPT ![cur] = "none"]
  /\ fresh' = TRUE

\* the draft fails the text gate: paused, and the checkpoint stays
Blocked(m) == ~m.sound /\ PauseAt(m)

RejectDraft ==
  /\ pc = "audit"
  /\ \E contract, near, systemic \in BOOLEAN :
       /\ contract \/ attempt = MaxAttempts
       /\ LET m == Indebted(mem, cur \in mem.debts /\ ~contract, near, systemic) IN
          \/ (Tripped(m) \/ strict) /\ PauseAt(m)
          \/ ~Tripped(m) /\ ~strict /\ Blocked(m)
          \/ /\ ~Tripped(m) /\ ~strict /\ m.sound
             /\ Write("quality_debt")
             /\ mem' = m /\ pc' = "index"
             /\ streak' = [quality |-> IF near THEN streak.quality ELSE streak.quality + 1,
                           systemic |-> IF systemic THEN streak.systemic + 1 ELSE 0]
             /\ UNCHANGED <<lock, ledger, partial, status, row, cur, attempt, strict>>

AcceptDraft ==
  /\ pc = "audit"
  /\ \/ Blocked(Cleared(mem))
     \/ /\ mem.sound
        /\ Write("memory_pending")
        /\ lock' = [lock EXCEPT ![cur] = text'[cur]]
        /\ mem' = Cleared(mem) /\ pc' = "textSaved"
        /\ streak' = NoStreak
        /\ UNCHANGED <<ledger, partial, status, row, cur, attempt, strict>>

TextSaved ==
  /\ pc = "textSaved"
  /\ row' = mem
  /\ pc' = "extract"
  /\ UNCHANGED <<bookVars, status, mem, cur, attempt, fresh, streak, strict>>

----------------------------------------------------------------------------
(* Settlement.                                                             *)

\* _require_locked_memory_source: only the text that was locked is extracted
Extractable == lock[cur] = text[cur]

\* memory, hooks and execution.status "accepted" enter the book in one save
Settled(complete) ==
  /\ Settle(cur, complete)
  /\ exec' = [exec EXCEPT ![cur] = "accepted"]
  /\ pc' = "index"
  /\ UNCHANGED <<text, lock, commit>>

\* the extraction returns; with failed stages the repair is awaited first
MemoryReady ==
  /\ pc = "extract" /\ Extractable /\ InOrder(cur)
  /\ \/ Settled(TRUE)
     \/ pc' = "repair" /\ UNCHANGED bookVars
  /\ UNCHANGED <<status, row, mem, cur, attempt, fresh, streak, strict>>

\* the extraction is refused, or _apply_director_memory raises: paused
MemoryRefused ==
  /\ pc = "extract" /\ ~(Extractable /\ InOrder(cur))
  /\ Abandon

\* repair_incomplete_memory settles the chapter a second time, in memory:
\* refused while a later chapter is flagged, which the director tolerates
RepairReady ==
  /\ pc = "repair"
  /\ \E complete \in BOOLEAN :
       /\ complete => staleFrom = N + 1 \/ cur = N
       /\ Settled(complete)
  /\ UNCHANGED <<status, row, mem, cur, attempt, fresh, streak, strict>>

\* chapter_index moves on; a chapter this run wrote and settled is followed
\* by the rolling re-plan and the volume review
SaveIndex ==
  /\ pc = "index"
  /\ SaveTask(Unchecked(Done(mem)))
  /\ \/ fresh /\ pc' = "after" /\ UNCHANGED <<cur, attempt, fresh>>
     \/ ~fresh /\ NextChapter
  /\ UNCHANGED <<bookVars, status, streak, strict>>

\* the manuscript gate stops a strict run only
AfterChapter ==
  /\ pc = "after"
  /\ \/ NextChapter /\ UNCHANGED <<bookVars, status, row, mem, streak, strict>>
     \/ strict /\ cur \in HealthChapters /\ PauseAt(mem)

Complete ==
  /\ pc = "head" /\ cur = N + 1
  /\ row' = mem /\ status' = "completed" /\ Gone
  /\ UNCHANGED <<bookVars, strict>>

----------------------------------------------------------------------------
(* Interruptions, crashes and resumption.                                  *)

\* director_pause cancels the runner, or a model call raises
Interrupt == pc \in Awaits /\ Abandon

\* the process dies between any two saves; the row still says "running"
Crash ==
  /\ pc # "idle"
  /\ Gone
  /\ UNCHANGED <<bookVars, status, row, strict>>

\* _reconcile_orphaned_director_task at the next poll
Reconcile ==
  /\ pc = "idle" /\ status = "running"
  /\ status' = "paused"
  /\ UNCHANGED <<bookVars, row, mem, runVars, strict>>

Resume ==
  /\ status = "paused" /\ pc = "idle"
  /\ status' = "running" /\ pc' = "head"
  /\ mem' = row /\ cur' = row.index + 1
  /\ UNCHANGED <<bookVars, row, attempt, fresh, streak, strict>>

----------------------------------------------------------------------------
(* The author, whose saves are refused while the task is active.           *)

Free == status # "running"

AuthorRests == UNCHANGED <<status, mem, runVars, strict>>

Edit(c) ==
  /\ Free /\ text[c] < MaxTexts
  /\ text' = [text EXCEPT ![c] = @ + 1]
  /\ staleFrom' = Invalidated(c)
  /\ commit' = [commit EXCEPT ![c] = "none"]
  /\ AuthorRests /\ UNCHANGED <<exec, lock, ledger, partial, row>>

\* chapter_accept with lock: opens a memory commit, or reuses the one of an
\* unchanged chapter; a new one resets the director's counters
AcceptByEditor(c) ==
  /\ Free /\ text[c] # 0
  /\ lock' = [lock EXCEPT ![c] = text[c]]
  /\ exec' = [exec EXCEPT ![c] = IF @ = "quality_debt" THEN "accepted" ELSE @]
  /\ \/ commit[c] # "none" /\ c < staleFrom /\ UNCHANGED <<commit, row>>
     \/ /\ commit[c] = "none" \/ c >= staleFrom
        /\ commit' = [commit EXCEPT ![c] = "pending"]
        /\ row' = [row EXCEPT !.debts = @ \ {c}, !.quality = 0, !.systemic = 0]
  /\ AuthorRests /\ UNCHANGED <<text, memoryVars>>

\* chapter_memory_apply for a commit that is not committed yet
SettleByEditor(c) ==
  /\ Free /\ commit[c] = "pending" /\ lock[c] = text[c]
  /\ \E complete \in BOOLEAN : Settle(c, complete)
  /\ commit' = [commit EXCEPT ![c] = "committed"]
  /\ AuthorRests /\ UNCHANGED <<text, exec, lock, row>>

\* chapter_memory_repair: refused while any chapter is flagged
RepairByEditor(c) ==
  /\ Free /\ c \in partial /\ staleFrom = N + 1
  /\ Settle(c, TRUE)
  /\ AuthorRests /\ UNCHANGED <<text, exec, lock, commit, row>>

\* _reconcile_director_quality_debts when the task panel is polled
PollDebts ==
  /\ Free
  /\ row' = [row EXCEPT !.debts = {c \in @ : exec[c] # "accepted"}]
  /\ AuthorRests /\ UNCHANGED bookVars

----------------------------------------------------------------------------
RunnerStep ==
  \/ BeginRecovery \/ SkipWritten \/ BeginChapter \/ PlanReady \/ DraftReady
  \/ Revise \/ RevisionReady \/ RejectDraft \/ AcceptDraft \/ TextSaved
  \/ MemoryReady \/ MemoryRefused \/ RepairReady \/ SaveIndex \/ AfterChapter
  \/ Complete

AuthorStep ==
  \/ \E c \in Chapters : Edit(c) \/ AcceptByEditor(c) \/ SettleByEditor(c) \/ RepairByEditor(c)
  \/ PollDebts

Next == RunnerStep \/ AuthorStep \/ Interrupt \/ Crash \/ Reconcile \/ Resume

Spec == Init /\ [][Next]_vars

----------------------------------------------------------------------------
(* Properties.                                                             *)

\* What the memory holds of a chapter before the stale boundary comes from
\* the text the chapter has now, and that text was locked; nothing of a
\* chapter whose candidate was written as a quality debt is in it.  Edits,
\* rebuilds and recoveries may come in any order.
MemoryIsOfLockedText ==
  \A c \in Chapters :
    /\ ledger[c] # 0 /\ c < staleFrom => ledger[c] = text[c] /\ lock[c] = text[c]
    /\ exec[c] = "quality_debt" => ledger[c] = 0

\* chapter_index never passes a chapter that has no text, or whose text the
\* director saved and did not settle, whatever was cut off in between.
NothingPassedOver ==
  \A c \in 1..row.index : text[c] # 0 /\ exec[c] # "memory_pending"

\* The circuit breaker: no run writes QualityLimit debts (near misses apart)
\* or SystemicLimit systemic ones in succession into the book.
BreakerBoundsARun ==
  streak.quality < QualityLimit /\ streak.systemic < SystemicLimit

\* Prose that is in the book is never replaced by a run: after a crash or
\* a failed extraction only the settlement is redone.
WrittenTextIsKept ==
  [][\A c \in Chapters : text[c] # 0 /\ text'[c] # text[c] => status # "running"]_vars

\* Deltas of a chapter enter the memory only while it holds no deltas of a
\* text an earlier chapter no longer has.
SettledInOrder ==
  [][\A c \in Chapters : ledger'[c] \notin {0, ledger[c]} =>
        \A d \in 1..c - 1 : ledger[d] \in {0, text[d]}]_vars

\* A run is refused only with a request the author can follow: the chapter
\* named by "settle chapter N first" has a text to settle.
RefusalCanBeFollowed ==
  pc = "extract" /\ Extractable /\ ~InOrder(cur) => text[staleFrom] # 0
=============================================================================
