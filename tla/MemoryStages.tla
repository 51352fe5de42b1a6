---------------------------- MODULE MemoryStages ----------------------------
(***************************************************************************)
(* Extracting the memory of a chapter stage by stage                       *)
(* (story/memory_extraction.py) and what stands in when it fails           *)
(* (chapter_memory in api/routers/editorial_memory.py): each stage has     *)
(* three attempts with smaller caps, all stages one budget of time, and a  *)
(* stage without which there is no memory.  Time is counted in ticks.      *)
(***************************************************************************)
EXTENDS Integers, Sequences, FiniteSets, SequencesExt, FiniteSetsExt

CONSTANTS
  Stages,     \* names of the stages, in order
  Core,       \* the required one
  Caps,       \* Caps[s]: how many items a stage may report at first
  Budget,     \* ticks before the deadline, as memory_time_budget sets it
  LeastTime,  \* MIN_STAGE_SECONDS
  CallTime    \* the longest call, 180 s

ASSUME StagesAssumption ==
  /\ Stages \in Seq(Range(Stages)) /\ Stages # <<>> /\ IsInjective(Stages)
  /\ Core = Stages[1]   \* the required stage is the first of MEMORY_STAGES
  /\ Caps \in [Range(Stages) -> Nat \ {0}]
  /\ {Budget, LeastTime, CallTime} \subseteq Nat \ {0}

VARIABLES
  only,      \* the stages selected
  next,      \* the place of the stage at work, among all stages
  stageTries,     \* its attempts
  cap,       \* its present cap
  clock,     \* time spent
  calls,     \* calls of the model
  merged,    \* items of each stage that arrived
  outcomes,  \* extraction_stages
  extracted     \* what the request returns: the mode, or none yet

stageVars == <<only, next, stageTries, cap, clock, calls, merged, outcomes, extracted>>

Left == Budget - clock
HalfOf(n) == Max({1, n \div 2})
\* the selected stages are gone through in their order
SelectedFrom(i) == Min({j \in i..Len(Stages) : Stages[j] \in only} \cup {Len(Stages) + 1})
Stage == Stages[next]
Extracting == extracted = "none" /\ next <= Len(Stages)
FirstCap(i) == IF i <= Len(Stages) THEN Caps[Stages[i]] ELSE 1

\* the whole chapter, or the stages a repair selects
StagesInit ==
  /\ only \in (SUBSET Range(Stages)) \ {{}}
  /\ next = SelectedFrom(1) /\ stageTries = 0 /\ clock = 0 /\ calls = 0
  /\ cap = FirstCap(next)
  /\ merged = [s \in Range(Stages) |-> 0]
  /\ outcomes = [s \in Range(Stages) |-> "none"]
  /\ extracted = "none"

StageReported(outcome) == outcomes' = [outcomes EXCEPT ![Stage] = outcome]
MoveOn == next' = SelectedFrom(next + 1) /\ stageTries' = 0 /\ cap' = FirstCap(next')

\* an optional stage that could not finish in what is left
Skip ==
  /\ Extracting /\ stageTries = 0 /\ Left < LeastTime /\ Stage # Core
  /\ StageReported("skipped") /\ MoveOn
  /\ UNCHANGED <<only, clock, calls, merged, extracted>>

MayTry == stageTries < 3 /\ ~(Left <= 0 /\ stageTries > 0)
Starts == Extracting /\ MayTry /\ (stageTries > 0 \/ Left >= LeastTime \/ Stage = Core)
\* Mutant of TimeOf: a call may take its whole time.
WholeTimeOf(spent) == spent <= CallTime
TimeOf(spent) == spent <= Max({1, Min({CallTime, Left})})

\* an answer, cut to the cap
StageDone(items, spent) ==
  /\ Starts /\ TimeOf(spent)
  /\ merged' = [merged EXCEPT ![Stage] = Min({items, cap})]
  /\ StageReported("completed") /\ MoveOn
  /\ clock' = clock + spent /\ calls' = calls + 1
  /\ UNCHANGED <<only, extracted>>

\* Mutant of GiveUp: the required stage is passed over too.
PassOver == StageReported("failed") /\ MoveOn /\ UNCHANGED extracted
GiveUp == StageReported("failed") /\ IF Stage = Core
                              THEN extracted' = "raised" /\ UNCHANGED <<next, stageTries, cap>>
                              ELSE MoveOn /\ UNCHANGED extracted

\* Mutant of StageFailed: asked again without end.
StageFailedAnew(spent) ==
  /\ Starts /\ TimeOf(spent)
  /\ clock' = clock + spent /\ calls' = calls + 1
  /\ cap' = HalfOf(cap)
  /\ UNCHANGED <<only, next, stageTries, merged, outcomes, extracted>>
\* a call that failed or was too long: again with half the cap, if there is time
StageFailed(spent) ==
  /\ Starts /\ TimeOf(spent)
  /\ clock' = clock + spent /\ calls' = calls + 1
  /\ IF Left - spent < LeastTime \/ cap <= 1 \/ stageTries = 2
     THEN GiveUp
     ELSE /\ stageTries' = stageTries + 1 /\ cap' = HalfOf(cap)
          /\ UNCHANGED <<next, outcomes, extracted>>
  /\ UNCHANGED <<only, merged>>
\* no room in the model's context, or filtered: not asked again
StageRefused(spent) ==
  /\ Starts /\ TimeOf(spent)
  /\ clock' = clock + spent /\ calls' = calls + 1
  /\ GiveUp
  /\ UNCHANGED <<only, merged>>
\* an error that no retry repairs leaves the extraction at once
StageBroken ==
  /\ Starts /\ extracted' = "raised"
  /\ calls' = calls + 1
  /\ UNCHANGED <<only, next, stageTries, cap, clock, merged, outcomes>>

\* all stages are behind: what is missing is named
Missing == {s \in only : outcomes[s] # "completed"}
FinishStages ==
  /\ extracted = "none" /\ next > Len(Stages)
  /\ extracted' = IF Missing = {} THEN "staged" ELSE "staged_partial"
  /\ UNCHANGED <<only, next, stageTries, cap, clock, calls, merged, outcomes>>
\* chapter_memory: a smaller prompt, then the local summary; a repair has neither
StandIn ==
  /\ extracted = "raised" /\ only = Range(Stages)
  /\ extracted' \in {"compact", "local", "refused"}
  /\ UNCHANGED <<only, next, stageTries, cap, clock, calls, merged, outcomes>>

StagesNext ==
  \/ Skip \/ FinishStages \/ StandIn \/ StageBroken
  \/ \E spent \in 0..CallTime :
       \/ \E items \in 0..(cap + 1) : StageDone(items, spent)
       \/ StageFailed(spent) \/ StageRefused(spent)
StagesSpec == StagesInit /\ [][StagesNext]_stageVars

----------------------------------------------------------------------------
(* What the settlement may rely on.                                        *)

\* The extraction ends within its budget, so that the caller's own timeout, which is
\* only a little longer, never throws away stages that are done (memory_time_budget).
WithinBudget == clock <= Budget

\* However the model answers, a stage is asked three times at most.
CallsBounded == calls <= 3 * Cardinality(only)

\* Memory that is handed on as extracted holds the required stage, and holds no stage
\* that was given up: those are named for the repair (failed_stages).
CoreIsIn ==
  extracted \in {"staged", "staged_partial"} =>
    /\ Core \in only => outcomes[Core] = "completed"
    /\ \A s \in only : outcomes[s] # "completed" => merged[s] = 0 /\ extracted = "staged_partial"

\* However the model answers, the extraction ends within its budget of time and calls, and hands on only
\* what was extracted: the three parts above.
StagesAreBounded == WithinBudget /\ CallsBounded /\ CoreIsIn
=============================================================================
