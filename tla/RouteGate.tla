------------------------------- MODULE RouteGate -------------------------------
(***************************************************************************)
(* The route of one chapter (planning/director_planning.py,                *)
(* director_plan_chapter_route): the model is asked up to MaxRounds times, *)
(* each candidate goes through the checks of planning/validation.py and    *)
(* planning/route_validation.py, and the least repetitive one that was     *)
(* refused may be kept as a quality debt.  When the task is resumed,       *)
(* _audit_route_checkpoint_prefix checks the saved route again, with a     *)
(* list of checks of its own.  A candidate is the set of its faults.       *)
(***************************************************************************)
EXTENDS Integers, Sequences, FiniteSets, SequencesExt, FiniteSetsExt

CONSTANTS
  MaxRounds,    \* rounds of the model, 6 in the code
  VolumeSizes,  \* chapters of the volume
  TurnCounts    \* turning points of the volume

ASSUME GateAssumption ==
  /\ MaxRounds \in Nat \ {0}
  /\ VolumeSizes \subseteq Nat \ {0} /\ IsFiniteSet(VolumeSizes)
  /\ TurnCounts \subseteq Nat /\ IsFiniteSet(TurnCounts)

VARIABLES
  place,      \* the chapter: its position, the size and the turns of the volume
  rules,      \* a seed of the author's, the legacy profile, an outcome the turn may tell
  gateChecks, \* the checks that apply, worked out before the first round
  gateRound,  \* rounds answered
  bestRoute,  \* the refused candidate with the least score: [faults, score, issue]
  routeResult \* "asked", or what became of the route

gateVars == <<place, rules, gateChecks, gateRound, bestRoute, routeResult>>

----------------------------------------------------------------------------
(* Where the chapter stands in its volume.                                 *)

\* Python's round: a half goes to the even number
Rounded(a, b) ==
  LET q == a \div b
      twice == 2 * (a % b) IN
  IF twice > b \/ (twice = b /\ q % 2 = 1) THEN q + 1 ELSE q

\* Mutant of TurnAt: the turns are spread over the chapters from the first on.
TurnFromFirst(size, turns, t) == Rounded((t - 1) * size, turns)

TurnAt(size, turns, t) == Rounded(t * (size - 1), turns)

\* _director_assigned_turn: 0 if the chapter carries none
AssignedTurn(p) ==
  LET here == {t \in 1..p.turns : TurnAt(p.size, p.turns, t) = p.position} IN
  IF here = {} THEN 0 ELSE Min(here)

IsFinal(p) == p.position = p.size - 1
LaterTurns(p) == {t \in 1..p.turns : \E k \in p.position + 1..p.size - 1 :
                    AssignedTurn([p EXCEPT !.position = k]) = t}

\* _director_chapter_job: the twelve jobs of a volume, 0 to 11
JobOf(p) == Rounded(p.position * 11, IF p.size > 1 THEN p.size - 1 ELSE 1)

----------------------------------------------------------------------------
(* The checks.                                                             *)

\* in the order in which a candidate meets them
GateOrder == <<"same title", "template", "image", "repeat", "early", "role", "bridge", "era",
               "modern", "turn", "future", "domain", "seed", "term", "stage">>
Faults == Range(GateOrder)

BatchChecks == {"same title", "template", "image", "repeat"}
AuthorChecks(r) == {"term", "stage"} \cup (IF r.seeded THEN {"seed"} ELSE {})

\* what a seed of the author's replaces
StoryChecks(p, r) ==
  IF r.seeded THEN {}
  ELSE {"domain"}
    \cup (IF r.legacy THEN {"role"} ELSE {})
    \cup (IF p.position = p.size - 2 THEN {"bridge"} ELSE {})
    \cup (IF AssignedTurn(p) # 0 THEN {"turn"} ELSE {})
    \cup (IF LaterTurns(p) # {} THEN {"future"} ELSE {})

ChecksOnce(p, r) ==
  BatchChecks \cup {"era", "modern"} \cup AuthorChecks(r) \cup StoryChecks(p, r)
    \cup (IF IsFinal(p) \/ (r.reserved /\ AssignedTurn(p) # 0) THEN {} ELSE {"early"})

\* Mutant of ChecksAgain: a seed of the author's is forgotten.
ChecksUnseeded(p, r) ==
  BatchChecks \cup {"era", "modern"} \cup AuthorChecks(r) \cup StoryChecks(p, [r EXCEPT !.seeded = FALSE])
    \cup (IF IsFinal(p) THEN {} ELSE {"early"})

\* the recheck does not know of outcomes a turn may tell
ChecksAgain(p, r) ==
  BatchChecks \cup {"era", "modern"} \cup AuthorChecks(r) \cup StoryChecks(p, r)
    \cup (IF IsFinal(p) THEN {} ELSE {"early"})

\* the checks stop at the first fault
IssueOf(faults, checks) ==
  LET found == faults \cap checks IN
  IF found = {} THEN "none" ELSE GateOrder[Min({i \in DOMAIN GateOrder : GateOrder[i] \in found})]

\* Mutant of Tolerable: a turn that belongs to a later chapter is a soft risk.
TolerableMore(issue) == issue \in {"template", "era", "future"}

\* the issues that are not among the markers of what is unacceptable
Tolerable(issue) == issue \in {"template", "era"}

Penalty(issue) == CASE issue = "modern" -> 75 [] issue = "early" -> 65 [] issue = "role" -> 55 [] OTHER -> 0

Candidates == {{}} \cup {{f, g} : f \in Faults, g \in {"template", "era"}} \cup {{f} : f \in Faults}

NoRoute == [faults |-> {}, score |-> 1000, issue |-> "none"]

----------------------------------------------------------------------------

GateInit ==
  /\ place \in {p \in [position : 0..Max(VolumeSizes) - 1, size : VolumeSizes, turns : TurnCounts] :
                  p.position < p.size}
  /\ rules \in [seeded : BOOLEAN, legacy : BOOLEAN, reserved : BOOLEAN]
  /\ gateChecks = ChecksOnce(place, rules)
  /\ gateRound = 0 /\ bestRoute = NoRoute /\ routeResult = "asked"

Asked == routeResult = "asked" /\ gateRound < MaxRounds

\* the call fails or the answer is no route: the next round
Malformed ==
  /\ Asked /\ gateRound' = gateRound + 1
  /\ UNCHANGED <<place, rules, gateChecks, bestRoute, routeResult>>

RouteAccepted ==
  /\ Asked
  /\ \E faults \in Candidates :
       /\ IssueOf(faults, gateChecks) = "none"
       /\ bestRoute' = [faults |-> faults, score |-> 0, issue |-> "none"]
  /\ routeResult' = "accepted" /\ gateRound' = gateRound + 1
  /\ UNCHANGED <<place, rules, gateChecks>>

\* Mutant of Better: the last candidate is kept.
BetterLast(new, old) == TRUE

Better(new, old) == new.score < old.score

RouteRefused ==
  /\ Asked
  /\ \E faults \in Candidates, alike \in {10, 80} :
       LET issue == IssueOf(faults, gateChecks)
           new == [faults |-> faults, score |-> alike + Penalty(issue), issue |-> issue] IN
       /\ issue # "none"
       /\ bestRoute' = IF Better(new, bestRoute) THEN new ELSE bestRoute
  /\ gateRound' = gateRound + 1
  /\ UNCHANGED <<place, rules, gateChecks, routeResult>>

\* the rounds are used up
RoundsOver ==
  /\ routeResult = "asked" /\ gateRound = MaxRounds
  /\ routeResult' = IF bestRoute = NoRoute THEN "failed"
                    ELSE IF Tolerable(bestRoute.issue) THEN "debt" ELSE "blocked"
  /\ UNCHANGED <<place, rules, gateChecks, gateRound, bestRoute>>

\* the task is resumed: the saved route is kept or asked for anew
Recheck ==
  /\ routeResult \in {"accepted", "debt"}
  /\ routeResult' = IF IssueOf(bestRoute.faults, ChecksAgain(place, rules)) = "none" THEN "rechecked" ELSE "thrown"
  /\ UNCHANGED <<place, rules, gateChecks, gateRound, bestRoute>>

GateNext == Malformed \/ RouteAccepted \/ RouteRefused \/ RoundsOver \/ Recheck

GateSpec == GateInit /\ [][GateNext]_gateVars

----------------------------------------------------------------------------
(* Properties.                                                             *)

\* A volume with more chapters than turning points has a chapter for each of
\* them: none is lost to rounding, the opening carries none, and the last one
\* falls into the last chapter.
EveryTurnHasItsChapter ==
  gateRound = 0 /\ place.turns > 0 /\ place.size > place.turns =>
    LET carriers(t) == {k \in 0..place.size - 1 : AssignedTurn([place EXCEPT !.position = k]) = t} IN
    /\ \A t \in 1..place.turns : Cardinality(carriers(t)) = 1
    /\ carriers(place.turns) = {place.size - 1}
    /\ AssignedTurn([place EXCEPT !.position = 0]) = 0

\* The two lists of checks agree: what the gate accepted, without the leave a
\* turn has to tell the outcome, is not thrown away when the task is resumed.
RecheckAgrees ==
  [][routeResult = "accepted" /\ routeResult' = "thrown" =>
       rules.reserved /\ AssignedTurn(place) # 0 /\ bestRoute.faults \cap Faults \cap {"early"} # {}]_gateVars

\* A route kept with a fault nobody tolerates has a tolerable one that the
\* checks met first and stopped at.
HiddenBehindTolerable ==
  routeResult = "debt" =>
    \A i \in DOMAIN GateOrder :
      GateOrder[i] \in (bestRoute.faults \cap gateChecks) \ {"template", "era"}
        => \E j \in 1..i : GateOrder[j] \in bestRoute.faults \cap {"template", "era"}

\* The candidate that is kept does not get worse from round to round.
KeptGetsBetter == [][routeResult' = "asked" => bestRoute'.score <= bestRoute.score]_gateVars

\* The gate and the later recheck agree on what a route may be, each turn of the volume has a chapter,
\* and a failed round loses nothing: the four parts above.
GateIsSound ==
  /\ [](EveryTurnHasItsChapter /\ HiddenBehindTolerable)
  /\ RecheckAgrees /\ KeptGetsBetter
================================================================================
