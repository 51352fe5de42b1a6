---------------------------- MODULE MCWriting ----------------------------
(***************************************************************************)
(* Writing a book, for TLC: the components that turn a planned chapter     *)
(* into a settled one.  They meet in the project's record and each has its *)
(* variables of its own here, so one run examines them side by side: a     *)
(* behaviour is a behaviour of one of them.                                *)
(***************************************************************************)
EXTENDS ChapterRun, ProseRun, ModelCall, CandidateChoice, BranchTrials,
        Refinement, MemoryCommit, MemoryStages, VolumeReview, FocusedCritics

VARIABLE part   \* the component this behaviour is of; the others stay as they begin

\* the breaker's limits are lowered to what a book of N chapters can reach; a book of one volume has its
\* manuscript gate after the last chapter
LastChapter == {N}
MCStages == <<"core", "facts", "relations">>
MCCaps == [s \in {"core", "facts", "relations"} |-> IF s = "facts" THEN 6 ELSE 3]
\* one pair of faults is told in nearly the same words
NearlySame(f, g) == f = g \/ {f, g} = {"slow", "slower"}

AnyCall == <<"json", 0, 0, TRUE, TRUE>>
AnyChecks == [d \in Drafts |-> [score |-> 1, truncated |-> FALSE]]
AnyTexts == [c \in VolumeChapters |-> ""]

Components == {"chapter", "prose", "call", "choice", "branches", "refine", "memory", "stages", "review", "critics"}
allVars == <<part, vars, proseVars, callVars, choiceVars, trialVars, refineVars, commitVars, stageVars, reviewVars, criticVars>>

\* a component that begins in one of several states begins in one of them where it is not the part
WritingInit ==
  /\ part \in Components
  /\ Init /\ (part = "chapter" \/ strict = TRUE)
  /\ ProseInit
  /\ CallInit /\ (part = "call" \/ <<kind, room, ceiling, schema, refused>> = AnyCall)
  /\ ChoiceInit /\ (part = "choice" \/ checks = AnyChecks)
  /\ TrialInit
  /\ RefineInit /\ (part = "refine" \/ \A c \in Targets : execution[c].status = "none")
  /\ CommitInit
  /\ StagesInit /\ (part = "stages" \/ only = Range(Stages))
  /\ ReviewInit /\ (part = "review" \/ work.text = AnyTexts)
  /\ CriticsInit

ChapterRunPart ==
  /\ part = "chapter" /\ Next
  /\ UNCHANGED <<part, proseVars, callVars, choiceVars, trialVars, refineVars, commitVars, stageVars,
                 reviewVars, criticVars>>
ProseRunPart ==
  /\ part = "prose" /\ ProseNext
  /\ UNCHANGED <<part, vars, callVars, choiceVars, trialVars, refineVars, commitVars, stageVars,
                 reviewVars, criticVars>>
ModelCallPart ==
  /\ part = "call" /\ CallNext
  /\ UNCHANGED <<part, vars, proseVars, choiceVars, trialVars, refineVars, commitVars, stageVars,
                 reviewVars, criticVars>>
CandidateChoicePart ==
  /\ part = "choice" /\ ChoiceNext
  /\ UNCHANGED <<part, vars, proseVars, callVars, trialVars, refineVars, commitVars, stageVars,
                 reviewVars, criticVars>>
BranchTrialsPart ==
  /\ part = "branches" /\ TrialNext
  /\ UNCHANGED <<part, vars, proseVars, callVars, choiceVars, refineVars, commitVars, stageVars,
                 reviewVars, criticVars>>
RefinementPart ==
  /\ part = "refine" /\ RefineNext
  /\ UNCHANGED <<part, vars, proseVars, callVars, choiceVars, trialVars, commitVars, stageVars,
                 reviewVars, criticVars>>
MemoryCommitPart ==
  /\ part = "memory" /\ CommitNext
  /\ UNCHANGED <<part, vars, proseVars, callVars, choiceVars, trialVars, refineVars, stageVars,
                 reviewVars, criticVars>>
MemoryStagesPart ==
  /\ part = "stages" /\ StagesNext
  /\ UNCHANGED <<part, vars, proseVars, callVars, choiceVars, trialVars, refineVars, commitVars,
                 reviewVars, criticVars>>
VolumeReviewPart ==
  /\ part = "review" /\ ReviewNext
  /\ UNCHANGED <<part, vars, proseVars, callVars, choiceVars, trialVars, refineVars, commitVars,
                 stageVars, criticVars>>
FocusedCriticsPart ==
  /\ part = "critics" /\ CriticsNext
  /\ UNCHANGED <<part, vars, proseVars, callVars, choiceVars, trialVars, refineVars, commitVars,
                 stageVars, reviewVars>>

WritingNext ==
  \/ ChapterRunPart \/ ProseRunPart \/ ModelCallPart \/ CandidateChoicePart \/ BranchTrialsPart
  \/ RefinementPart \/ MemoryCommitPart \/ MemoryStagesPart \/ VolumeReviewPart \/ FocusedCriticsPart

WritingSpec == WritingInit /\ [][WritingNext]_allVars
=============================================================================
