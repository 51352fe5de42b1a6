---------------------------- MODULE BranchTrials ----------------------------
(***************************************************************************)
(* Trial drafts of one chapter along several directions                    *)
(* (writing/branch_trials.py, api/routers/branches.py,                     *)
(* static/js/features/writing/branches.js): a background job per project   *)
(* whose record lives in the extension store, the branches a chapter has   *)
(* collected, and the adoption of one of them by the author.               *)
(*                                                                         *)
(* Chapters are numbered, later ones are planned.  A text is a branch      *)
(* <<job, direction>>, an author's text <<0, k>>, or Unwritten.  The modal *)
(* of the trials covers the editor: nothing is typed while a request of    *)
(* it is under way.                                                        *)
(***************************************************************************)
EXTENDS Integers, Sequences, FiniteSets, SequencesExt, FiniteSetsExt

CONSTANTS
  BookChapters,     \* chapters of the volume
  Directions,       \* directions of one trial
  KeepBranches,     \* MAX_BRANCHES_PER_CHAPTER
  MaxTrials,        \* bound: jobs started
  MaxTypedTexts,         \* bound: texts the author types
  MaxFailedSaves    \* bound: saves the server refuses or never gets

ASSUME TrialAssumption ==
  /\ {BookChapters, Directions, KeepBranches} \subseteq Nat \ {0}
  /\ {MaxTrials, MaxTypedTexts, MaxFailedSaves} \subseteq Nat

VARIABLES
  trial,      \* the record "branch_job", NoTrial before the first
  worker,     \* the task in memory: [at, n, mem], or NoWorker
  shelf,      \* chapter["branches"] of the browser's project
  prose,      \* the text of each chapter in the browser
  storedProse,     \* and in the project store
  versions,   \* chapter_versions
  stale,      \* chapters flagged plan_stale
  adopting,   \* the branch whose adoption the browser has sent, <<>> if none
  unsaved,    \* the browser's project differs from the stored one
  typed, failedSaves,
  thrown      \* history: branches discarded or adopted over

trialVars == <<trial, worker, shelf, prose, storedProse, versions, stale, adopting,
               unsaved, typed, failedSaves, thrown>>
editorVars == <<shelf, prose, storedProse, versions, stale, adopting, unsaved, typed, failedSaves, thrown>>

BookNumbers == 1..BookChapters
Unwritten == <<0, 0>>
NoWorker == [at |-> "none", n |-> 0, mem |-> <<>>]
NoTrial == [id |-> 0, chapter |-> 0, status |-> "none", branches |-> <<>>]
Fresh == [status |-> "pending", affected |-> {}]
TrialWorking == worker # NoWorker

TrialInit ==
  /\ trial = NoTrial /\ worker = NoWorker
  /\ shelf = [c \in BookNumbers |-> {}]
  /\ prose = [c \in BookNumbers |-> IF c = 1 THEN <<0, 1>> ELSE Unwritten]
  /\ storedProse = prose /\ versions = [c \in BookNumbers |-> {}]
  /\ stale = {} /\ adopting = <<>> /\ unsaved = FALSE
  /\ typed = 1 /\ failedSaves = 0 /\ thrown = {}

----------------------------------------------------------------------------
(* The job.                                                                *)

\* a new job takes the place of the record of the last one
StartTrial ==
  /\ ~TrialWorking /\ ~unsaved /\ adopting = <<>> /\ trial.id < MaxTrials
  /\ \E c \in BookNumbers :
       trial' = [id |-> trial.id + 1, chapter |-> c, status |-> "running",
                 branches |-> [d \in 1..Directions |-> Fresh]]
  /\ worker' = [at |-> "write", n |-> 1, mem |-> trial'.branches]
  /\ UNCHANGED editorVars

Ready(branches) == {d \in DOMAIN branches : branches[d].status = "draft"}

\* one draft, which may fail on its own; the record is patched after each
WriteBranch ==
  /\ TrialWorking /\ worker.at = "write"
  /\ \E outcome \in {"draft", "failed"} :
       LET mem == [worker.mem EXCEPT ![worker.n].status = outcome]
           last == worker.n = Directions IN
       /\ trial' = [trial EXCEPT !.branches = mem,
                      !.status = IF last /\ Ready(mem) = {} THEN "failed" ELSE @]
       /\ worker' = (IF ~last THEN [worker EXCEPT !.n = @ + 1, !.mem = mem]
                     ELSE IF Ready(mem) = {} THEN NoWorker
                     ELSE [at |-> "audit", n |-> 1, mem |-> mem])
  /\ UNCHANGED editorVars

\* audits of the drafts, each of which may fail, then the blind comparison of
\* every pair (CandidateChoice): both are shown to the author, nothing in the
\* job depends on what they say
AuditBranch ==
  /\ TrialWorking /\ worker.at = "audit"
  /\ worker' = (IF worker.n = Directions THEN [worker EXCEPT !.at = "judge", !.n = 1]
                ELSE [worker EXCEPT !.n = @ + 1])
  /\ UNCHANGED <<trial, editorVars>>

JudgeBranches ==
  /\ TrialWorking /\ worker.at = "judge"
  /\ worker' = [worker EXCEPT !.at = "impact"]
  /\ UNCHANGED <<trial, editorVars>>

\* plan_impact names later chapters of the volume; finish stores the verdicts
FinishTrial ==
  /\ TrialWorking /\ worker.at = "impact"
  /\ \E affected \in [Ready(worker.mem) -> SUBSET {c \in BookNumbers : c > trial.chapter}] :
       trial' = [trial EXCEPT !.status = "completed",
                   !.branches = [d \in DOMAIN @ |->
                      IF d \in Ready(worker.mem)
                      THEN [worker.mem[d] EXCEPT !.affected = affected[d]] ELSE @[d]]]
  /\ worker' = NoWorker
  /\ UNCHANGED editorVars

\* Mutant of CancelTrial: every branch of a cancelled job is given up.
CancelAllBranches ==
  /\ TrialWorking
  /\ trial' = [trial EXCEPT !.status = "cancelled",
                 !.branches = [d \in DOMAIN @ |-> [@[d] EXCEPT !.status = "cancelled"]]]
  /\ worker' = NoWorker
  /\ UNCHANGED editorVars

\* the author cancels: written branches stay
CancelTrial ==
  /\ TrialWorking
  /\ trial' = [trial EXCEPT !.status = "cancelled",
                 !.branches = [d \in DOMAIN @ |->
                    IF @[d].status = "pending" THEN [@[d] EXCEPT !.status = "cancelled"] ELSE @[d]]]
  /\ worker' = NoWorker
  /\ UNCHANGED editorVars

\* an error outside the steps that catch their own
BreakTrial ==
  /\ TrialWorking
  /\ trial' = [trial EXCEPT !.status = "failed"]
  /\ worker' = NoWorker
  /\ UNCHANGED editorVars

\* the program ends; the record still says "running" and is shown interrupted
LoseWorker == TrialWorking /\ worker' = NoWorker /\ UNCHANGED <<trial, editorVars>>

----------------------------------------------------------------------------
(* The chapter's branches, in the browser's project.                       *)

Older(a, b) == a.id[1] < b.id[1] \/ (a.id[1] = b.id[1] /\ a.id[2] < b.id[2])

\* Mutant of Pruned: whatever is oldest goes first.
PrunedByAge(branches) ==
  {b \in branches : Cardinality({a \in branches : Older(a, b)}) >= Cardinality(branches) - KeepBranches}

\* the oldest discarded go first, then the oldest drafts, an adopted one never
GoesBefore(a, b) ==
  \/ a.status = "discarded" /\ b.status = "draft"
  \/ a.status = b.status /\ Older(a, b)

\* prune_branches: what goes first, as many as there are too many
Pruned(branches) ==
  LET excess == Cardinality(branches) - KeepBranches IN
  {b \in branches : b.status = "adopted" \/ Cardinality({a \in branches : GoesBefore(a, b)}) >= excess}

\* Mutant of ShelfMerged: a branch the author has discarded counts as unknown.
MergedAgain(branches) ==
  LET kept == {b \in branches : b.status # "discarded"} IN
  Pruned(kept \cup {[id |-> <<trial.id, d>>, status |-> "draft",
                     affected |-> trial.branches[d].affected] :
            d \in {d \in Ready(trial.branches) : \A b \in kept : b.id # <<trial.id, d>>}})

\* merge_job_into_chapter: unknown drafts are added, known ones refreshed
ShelfMerged(branches) ==
  LET known == {b.id : b \in branches}
      new == {[id |-> <<trial.id, d>>, status |-> "draft", affected |-> trial.branches[d].affected] :
                d \in {d \in Ready(trial.branches) : <<trial.id, d>> \notin known}}
      Refreshed(b) == IF b.status = "draft" /\ b.id[1] = trial.id
                      THEN [b EXCEPT !.affected = trial.branches[b.id[2]].affected] ELSE b
  IN Pruned({Refreshed(b) : b \in branches} \cup new)

\* the browser collects when the job no longer runs; the result is autosaved
Collect ==
  /\ ~TrialWorking /\ trial.id > 0 /\ adopting = <<>> /\ ~unsaved
  /\ LET c == trial.chapter IN
     /\ shelf' = [shelf EXCEPT ![c] = ShelfMerged(@)]
     /\ shelf' # shelf
  /\ UNCHANGED <<trial, worker, prose, storedProse, versions, stale, adopting, unsaved, typed, failedSaves, thrown>>

DiscardBranch ==
  /\ adopting = <<>> /\ ~unsaved
  /\ \E c \in BookNumbers : \E b \in shelf[c] :
       /\ b.status = "draft"
       /\ shelf' = [shelf EXCEPT ![c] = Pruned((@ \ {b}) \cup {[b EXCEPT !.status = "discarded"]})]
       /\ thrown' = thrown \cup {b.id}
  /\ UNCHANGED <<trial, worker, prose, storedProse, versions, stale, adopting, unsaved, typed, failedSaves>>

----------------------------------------------------------------------------
(* The text.                                                               *)

\* the author writes a chapter, a later one perhaps for the first time
TypeText ==
  /\ adopting = <<>> /\ typed < MaxTypedTexts
  /\ typed' = typed + 1 /\ unsaved' = TRUE
  /\ \E c \in BookNumbers : prose' = [prose EXCEPT ![c] = <<0, typed'>>]
  /\ UNCHANGED <<trial, worker, shelf, storedProse, versions, stale, adopting, failedSaves, thrown>>

Autosave ==
  /\ unsaved /\ adopting = <<>>
  /\ storedProse' = prose /\ unsaved' = FALSE
  /\ UNCHANGED <<trial, worker, shelf, prose, versions, stale, adopting, typed, failedSaves, thrown>>

\* Mutant of AskAdoption: what the author typed last is not saved first.
AskUnflushed ==
  /\ adopting = <<>>
  /\ \E c \in BookNumbers : \E b \in shelf[c] : b.status = "draft" /\ adopting' = <<c, b.id>>
  /\ UNCHANGED <<trial, worker, shelf, prose, storedProse, versions, stale, unsaved, typed, failedSaves, thrown>>

\* branchMutation: the browser's project is saved before the server is asked
AskAdoption ==
  /\ adopting = <<>>
  /\ \E c \in BookNumbers : \E b \in shelf[c] : b.status = "draft" /\ adopting' = <<c, b.id>>
  /\ storedProse' = prose /\ unsaved' = FALSE
  /\ UNCHANGED <<trial, worker, shelf, prose, versions, stale, typed, failedSaves, thrown>>

\* Mutant of Outdated: the analysis decides, whatever has been written since.
OutdatedAll(b, c) == {d \in b.affected : d > c}

\* later chapters the branch changes, but for those that have a text by now
Outdated(b, c) == {d \in b.affected : d > c /\ prose[d] = Unwritten}

\* adopt_branch and the save with the reason "branch-adopt", which keeps the
\* stored chapter as a version; when it fails the browser keeps the new text
Adopt ==
  /\ adopting # <<>>
  /\ LET c == adopting[1]
         b == CHOOSE b \in shelf[c] : b.id = adopting[2] IN
     /\ prose' = [prose EXCEPT ![c] = b.id]
     /\ shelf' = [shelf EXCEPT ![c] = Pruned(
          {IF x = b THEN [x EXCEPT !.status = "adopted"]
           ELSE IF x.status = "draft" THEN [x EXCEPT !.status = "discarded"] ELSE x : x \in @})]
     /\ stale' = stale \cup Outdated(b, c)
     /\ thrown' = thrown \cup {x.id : x \in {x \in shelf[c] \ {b} : x.status = "draft"}}
     /\ \/ /\ storedProse' = prose' /\ unsaved' = FALSE
           /\ versions' = [versions EXCEPT ![c] = @ \cup ({storedProse[c]} \ {Unwritten})]
           /\ UNCHANGED failedSaves
        \/ /\ failedSaves < MaxFailedSaves
           /\ failedSaves' = failedSaves + 1 /\ unsaved' = TRUE
           /\ UNCHANGED <<storedProse, versions>>
  /\ adopting' = <<>>
  /\ UNCHANGED <<trial, worker, typed>>

TrialNext ==
  \/ StartTrial \/ WriteBranch \/ AuditBranch \/ JudgeBranches \/ FinishTrial
  \/ CancelTrial \/ BreakTrial \/ LoseWorker \/ Collect \/ DiscardBranch
  \/ TypeText \/ Autosave \/ AskAdoption \/ Adopt

TrialSpec == TrialInit /\ [][TrialNext]_trialVars

----------------------------------------------------------------------------
(* Properties.                                                             *)

\* What has been drafted outlives a cancelled, failed or interrupted job:
\* the record keeps it until another job begins.
DraftOutlivesJob ==
  [][\A d \in DOMAIN trial.branches :
       trial.branches[d].status = "draft" /\ trial'.id = trial.id
         => trial'.branches[d].status = "draft"]_trialVars

\* As long as the drafts of a job find room on the shelf beside the adopted branches.
HasRoom(c) == Cardinality({b \in shelf[c] : b.status = "adopted"}) + Directions <= KeepBranches

\* A branch the author has discarded does not come back, however often the
\* same job is collected and whatever is pruned, as long as there is room for
\* the drafts of a job.  Without room the merge, which adds what is not on the
\* shelf, brings back what the limit took, and takes the discarded for it.
ThrownStaysThrown ==
  \A c \in BookNumbers :
    HasRoom(c) => \A b \in shelf[c] : b.id \in thrown => b.status = "discarded"

\* A draft gives way to the limit only when nothing discarded is left to go,
\* and an adopted branch never does.
LimitTakesTheLeast ==
  [][\A c \in BookNumbers :
       \A b \in shelf[c] : (\A x \in shelf'[c] : x.id # b.id) =>
         /\ b.status # "adopted"
         /\ b.status = "draft" => \A x \in shelf'[c] : x.status # "discarded"]_trialVars

\* The text an adoption replaces, also when it was typed a moment before, is
\* a chapter version once the save of the adoption has stored the new one.  (If
\* that save fails, the next autosave stores it, which keeps no version.)
ReplacedIsVersioned ==
  [][\A c \in BookNumbers :
       adopting # <<>> /\ storedProse'[c] # storedProse[c] /\ prose[c] # Unwritten
         => storedProse[c] \in versions'[c] /\ prose[c] \in versions'[c]]_trialVars

\* The analysis may be older than the text: a chapter written since is not
\* flagged for a new plan, an unwritten one the branch changes is.
OnlyPlansGoStale ==
  [][\A c \in stale' \ stale : prose[c] = Unwritten]_trialVars

\* Between the author's edits, the tab's copy, the job and the limit of the shelf no draft is lost and
\* no text replaced without a version: the five parts above.
BranchesAreKept ==
  /\ []ThrownStaysThrown
  /\ DraftOutlivesJob /\ LimitTakesTheLeast /\ ReplacedIsVersioned /\ OnlyPlansGoStale
=============================================================================
