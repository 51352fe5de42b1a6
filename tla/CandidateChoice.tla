--------------------------- MODULE CandidateChoice ---------------------------
(***************************************************************************)
(* Which of several drafts of a chapter is kept (select_best_candidate and *)
(* pairwise_judge, writing/candidate_selection.py): a deterministic score  *)
(* orders the drafts, truncated ones drop out when a whole one exists, and *)
(* a model compares the champion with each challenger, shown in both       *)
(* orders.                                                                 *)
(***************************************************************************)
EXTENDS Naturals, Sequences, FiniteSets, SequencesExt

CONSTANTS
  Rivals,      \* drafts to choose from
  Scores       \* what deterministic_score can say

ASSUME ChoiceAssumption == Rivals \in Nat \ {0} /\ Scores \subseteq Nat /\ Scores # {}

VARIABLES
  checks,      \* [1..Rivals -> [score, truncated]]
  ladder,      \* the viable drafts, the best score first, <<>> before
  champion, challenger,   \* the best so far, the place of the next in ladder
  shown,       \* answers about this pair, by presentation order
  opinions       \* history: every answer, <<first shown, second shown, answer>>

choiceVars == <<checks, ladder, champion, challenger, shown, opinions>>

Drafts == 1..Rivals

\* an answer names the place of the draft it prefers; a request may fail, or
\* the answer name neither
Answers == {"A", "B", "error"}

\* pairwise_judge: what the answers that came say about the left draft
\* Mutant of LeftWon: A is always taken for the left draft.
LeftWonAsShown(answer, swapped) == answer = "A"

LeftWon(answer, swapped) == (answer = "A") # swapped

Verdict(straight, swapped) ==
  LET said == {<<straight, FALSE>>, <<swapped, TRUE>>}
      outcomes == {LeftWon(s[1], s[2]) : s \in {t \in said : t[1] # "error"}} IN
  CASE outcomes = {} -> "error"
    [] outcomes = {TRUE} -> "left"
    [] outcomes = {FALSE} -> "right"
    [] OTHER -> "tie"

\* Mutant of Viable: a cut-off draft is only outranked, never dropped.
ViableAll(of) == Drafts

Viable(of) ==
  LET whole == {d \in Drafts : ~of[d].truncated} IN IF whole = {} THEN Drafts ELSE whole

\* sort by -score, stable
Ahead(of, a, b) == of[a].score > of[b].score \/ (of[a].score = of[b].score /\ a < b)

Ladders(of) == {s \in SetToSeqs(Viable(of)) : \A i, j \in DOMAIN s : i < j => Ahead(of, s[i], s[j])}

ChoiceInit ==
  /\ checks \in [Drafts -> [score : Scores, truncated : BOOLEAN]]
  /\ ladder = <<>> /\ champion = 0 /\ challenger = 0
  /\ shown = <<>> /\ opinions = {}

Rank ==
  /\ ladder = <<>>
  /\ ladder' \in Ladders(checks)
  /\ champion' = ladder'[1] /\ challenger' = 2
  /\ UNCHANGED <<checks, shown, opinions>>

Pending == ladder # <<>> /\ challenger <= Len(ladder)

\* one request: the champion first, then the challenger first
Show ==
  /\ Pending /\ Len(shown) < 2
  /\ LET rival == ladder[challenger]
         first == IF shown = <<>> THEN champion ELSE rival
         second == IF shown = <<>> THEN rival ELSE champion IN
     \E answer \in Answers :
       /\ shown' = Append(shown, answer)
       /\ opinions' = opinions \cup {<<first, second, answer>>}
  /\ UNCHANGED <<checks, ladder, champion, challenger>>

\* Mutant of Decide: a tie goes to the draft looked at last.
DecideTieMoves ==
  /\ Pending /\ Len(shown) = 2
  /\ champion' = (IF Verdict(shown[1], shown[2]) \in {"right", "tie"}
                  THEN ladder[challenger] ELSE champion)
  /\ challenger' = challenger + 1 /\ shown' = <<>>
  /\ UNCHANGED <<checks, ladder, opinions>>

\* a failed comparison keeps the champion, a tie the better score
Decide ==
  /\ Pending /\ Len(shown) = 2
  /\ LET rival == ladder[challenger]
         verdict == Verdict(shown[1], shown[2]) IN
     champion' = (IF \/ verdict = "right"
                     \/ verdict = "tie" /\ checks[rival].score > checks[champion].score
                  THEN rival ELSE champion)
  /\ challenger' = challenger + 1 /\ shown' = <<>>
  /\ UNCHANGED <<checks, ladder, opinions>>

ChoiceNext == Rank \/ Show \/ Decide

ChoiceSpec == ChoiceInit /\ [][ChoiceNext]_choiceVars

----------------------------------------------------------------------------
(* Properties.                                                             *)

Chosen == ladder # <<>> /\ ~Pending

\* A judge that has no preference of its own, only one for a place, decides
\* nothing: the best score wins, however many requests it answers that way.
PlaceDecidesNothing ==
  Chosen /\ (\E place \in {"A", "B"} : \A a \in opinions : a[3] = place)
    => \A d \in Viable(checks) : checks[d].score <= checks[champion].score

\* A draft that every answer about it prefers, in whichever place it stands,
\* is the one chosen, whatever it scores and whichever requests fail, as long
\* as one of each comparison is answered.
PreferredWins ==
  Chosen => \A d \in ToSet(ladder) :
    /\ \E a \in opinions : d \in {a[1], a[2]}
    /\ \A a \in opinions : d = a[1] => a[3] \in {"A", "error"}
    /\ \A a \in opinions : d = a[2] => a[3] \in {"B", "error"}
    /\ \A a \in opinions : d \in {a[1], a[2]} =>
         \E b \in opinions : {b[1], b[2]} = {a[1], a[2]} /\ b[3] # "error"
    => champion = d

\* A cut-off draft is chosen only when all of them are cut off.
WholeIsChosen ==
  Chosen /\ checks[champion].truncated => \A d \in Drafts : checks[d].truncated

\* The choice among the candidates follows what the judge says of the drafts, never the place they were
\* shown in nor the requests that failed: the three parts above.
ChoiceIsFair == PlaceDecidesNothing /\ PreferredWins /\ WholeIsChosen
=============================================================================
