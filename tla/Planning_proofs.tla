--------------------------- MODULE Planning_proofs ---------------------------
(*****************************************************************************)
(* Theorems about planning: the rolling replan (RollingReplan), the planning *)
(* desk (PlanningDesk), the gate of a volume's route (RouteGate), the ledger *)
(* of ending hooks (HookLedger) and the way from an idea to routes           *)
(* (PlanningRun), for every value of their constants.                        *)
(*****************************************************************************)
EXTENDS RollingReplan, PlanningDesk, RouteGate, HookLedger, PlanningRun, FiniteSetTheorems, SequenceTheorems, WellFoundedInduction, TLAPS

-----------------------------------------------------------------------------
(* RollingReplan: every number of chapters, window, set of goals and number  *)
(* of edits.                                                                 *)

Routes == [goal : RouteGoals, author : BOOLEAN]
RouteBooks == [route : [Numbers -> Routes], planned : [Numbers -> Routes], prose : SUBSET Numbers, stale : SUBSET Numbers]

\* What the director knows while it asks: the volume goes on with the next chapter, and the book it asks
\* about is the stored one unless that has moved.
Knows ==
  replan.asking =>
    /\ RouteVolume(replan.at + 1) = RouteVolume(replan.at)
    /\ ~replan.moved => replan.book = plannedBook

ReplanInv ==
  /\ plannedBook \in RouteBooks /\ asOf \in RouteBooks
  /\ replan \in [at : 0..RouteCount, asking : BOOLEAN, book : RouteBooks, moved : BOOLEAN]
  /\ Knows

----------------------------------------------------------------------------
(* The operators.                                                          *)

\* What changes are applied to a book is a book again; only routes that are free change, their plans
\* become stale, and no prose.
LEMMA WithChangesBook ==
  ASSUME NEW copy \in RouteBooks, NEW changes,
         \A c \in DOMAIN changes : changes[c].after \in RouteGoals, DOMAIN changes \subseteq Numbers
  PROVE  LET new == WithChanges(copy, changes)
         IN /\ new \in RouteBooks /\ new.prose = copy.prose
            /\ \A c \in Numbers : new.route[c] # copy.route[c] =>
                 c \in DOMAIN changes /\ ~RouteLocked(copy, c) /\ c \in new.stale
<1> DEFINE at == StillApply(copy, changes)
           routes == [c \in Numbers |-> IF c \in at THEN [copy.route[c] EXCEPT !.goal = changes[c].after] ELSE copy.route[c]]
<1>1. at \subseteq DOMAIN changes /\ \A c \in at : ~RouteLocked(copy, c)
  BY DEF StillApply
<1>2. routes \in [Numbers -> Routes]
  BY <1>1 DEF RouteBooks, Routes
<1>3. \A c \in Numbers : routes[c] # copy.route[c] => c \in at
  OBVIOUS
<1>4. WithChanges(copy, changes) =
        IF at = {} THEN copy ELSE [copy EXCEPT !.route = routes, !.planned = routes, !.stale = @ \cup at]
  BY DEF WithChanges
<1> HIDE DEF at, routes
<1>5. CASE at = {}
  BY <1>4, <1>5
<1>6. CASE at # {}
  <2> DEFINE new == [copy EXCEPT !.route = routes, !.planned = routes, !.stale = @ \cup at]
  <2>1. /\ new.route = routes /\ new.planned = routes /\ new.stale = copy.stale \cup at /\ new.prose = copy.prose
        /\ at \subseteq Numbers
    BY <1>1 DEF RouteBooks
  <2>2. new \in RouteBooks
    BY <1>2, <2>1 DEF RouteBooks
  <2> HIDE DEF new
  <2> QED BY <1>1, <1>3, <1>4, <1>6, <2>1, <2>2 DEF new
<1> QED BY <1>5, <1>6

\* No change, no other book.
LEMMA NoChanges ==
  ASSUME NEW copy, NEW changes
  PROVE  WithChanges(copy, Only(changes, {})) = copy
BY DEF WithChanges, StillApply, Only

LEMMA SoundFinite ==
  ASSUME NEW copy, NEW v
  PROVE  Cardinality(SoundRoutes(copy, v)) \in Nat
<1>1. IsFiniteSet(Numbers)
  BY FS_Interval, ReplanAssumption DEF Numbers
<1> QED BY <1>1, FS_Subset, FS_CardinalityType DEF SoundRoutes

\* What is accepted is some of what was asked,
LEMMA AcceptedOnly ==
  ASSUME NEW copy, NEW changes, NEW v
  PROVE  LET some == Accepted(copy, changes, v)
         IN /\ DOMAIN some \subseteq DOMAIN changes
            /\ \A c \in DOMAIN some : some[c] = changes[c]
<1> DEFINE before == SoundRoutes(copy.planned, v)
<1>1. Accepted(copy, changes, v) \in {Only(changes, before), Only(changes, {})}
  BY DEF Accepted
<1> QED BY <1>1 DEF Only

\* and the check of the routes reaches as far as before.
LEMMA AcceptedReaches ==
  ASSUME NEW copy, NEW changes, NEW v
  PROVE  Cardinality(SoundRoutes(copy.planned, v))
           <= Cardinality(SoundRoutes(WithChanges(copy, Accepted(copy, changes, v)).planned, v))
<1> DEFINE before == SoundRoutes(copy.planned, v)
           valid == Only(changes, before)
           after == SoundRoutes(WithChanges(copy, valid).planned, v)
<1>1. Accepted(copy, changes, v) =
        IF DOMAIN valid # {} /\ Cardinality(after) < Cardinality(before) THEN Only(changes, {}) ELSE valid
  BY DEF Accepted
<1>2. Cardinality(before) \in Nat /\ Cardinality(after) \in Nat
  BY SoundFinite
<1>3. DOMAIN valid = {} => WithChanges(copy, valid) = copy
  BY DEF WithChanges, StillApply
<1>4. WithChanges(copy, Only(changes, {})) = copy
  BY NoChanges
<1>5. DOMAIN valid = {} => after = before
  BY <1>3
<1> HIDE DEF valid
<1>6. CASE DOMAIN valid # {} /\ Cardinality(after) < Cardinality(before)
  <2>1. WithChanges(copy, Accepted(copy, changes, v)) = copy
    BY <1>1, <1>4, <1>6
  <2> QED BY <2>1, <1>2
<1>7. CASE ~(DOMAIN valid # {} /\ Cardinality(after) < Cardinality(before))
  <2>1. SoundRoutes(WithChanges(copy, Accepted(copy, changes, v)).planned, v) = after
    BY <1>1, <1>7
  <2>2. Cardinality(before) <= Cardinality(after)
    <3>1. CASE DOMAIN valid = {}
      BY <1>2, <1>5, <3>1
    <3>2. CASE ~(Cardinality(after) < Cardinality(before))
      <4>1. PICK a, b \in Nat : a = Cardinality(after) /\ b = Cardinality(before)
        BY <1>2
      <4> QED BY <3>2, <4>1
    <3> QED BY <1>7, <3>1, <3>2, Zenon
  <2> QED BY <2>1, <2>2
<1> QED BY <1>6, <1>7

\* A change proposed is one of a target.
LEMMA ProposalsAreTargets ==
  ASSUME NEW copy, NEW at, NEW changes \in Proposals(copy, at)
  PROVE  /\ DOMAIN changes \subseteq ReplanTargets(copy, at)
         /\ \A c \in DOMAIN changes : changes[c].after \in RouteGoals
<1>1. PICK chosen \in SUBSET ReplanTargets(copy, at), goals \in [ReplanTargets(copy, at) -> RouteGoals] :
        changes = [c \in chosen |-> [before |-> copy.route[c].goal, after |-> goals[c]]]
  BY DEF Proposals
<1> QED BY <1>1

\* A volume a target lies in goes on with the next chapter.
LEMMA TargetsGoOn ==
  ASSUME NEW copy, NEW at \in Nat, ReplanTargets(copy, at) # {}
  PROVE  RouteVolume(at + 1) = RouteVolume(at)
<1>1. PICK c \in ReplanTargets(copy, at) : TRUE
  OBVIOUS
<1>2. c \in Nat /\ at + 1 <= c /\ RouteVolume(c) = RouteVolume(at)
  BY <1>1, ReplanAssumption DEF ReplanTargets, Numbers
<1>3. FirstVolume \in Nat
  BY ReplanAssumption
<1> QED BY <1>2, <1>3 DEF RouteVolume

----------------------------------------------------------------------------
(* The invariant.                                                          *)

LEMMA InitInv == ReplanInit => ReplanInv
<1> SUFFICES ASSUME ReplanInit PROVE ReplanInv
  OBVIOUS
<1>1. [c \in Numbers |-> FirstRoute(c)] \in [Numbers -> Routes]
  BY ReplanAssumption DEF Numbers, FirstRoute, Routes
<1>2. plannedBook \in RouteBooks /\ asOf \in RouteBooks
  BY <1>1 DEF ReplanInit, RouteBooks
<1>3. replan \in [at : 0..RouteCount, asking : BOOLEAN, book : RouteBooks, moved : BOOLEAN] /\ ~replan.asking
  BY <1>2, ReplanAssumption DEF ReplanInit
<1> QED BY <1>2, <1>3 DEF ReplanInv, Knows

\* The answer is applied to the stored book, whether it moved or not.
LEMMA AnsweredOnStored ==
  ASSUME ReplanInv, ReplanAnswered
  PROVE  \E changes \in Proposals(replan.book, replan.at) :
           LET agreed == Accepted(replan.book, changes, RouteVolume(replan.at))
           IN /\ plannedBook' = WithChanges(plannedBook, agreed)
              /\ DOMAIN agreed \subseteq ReplanTargets(replan.book, replan.at)
              /\ \A c \in DOMAIN agreed : agreed[c].after \in RouteGoals
<1>1. PICK changes \in Proposals(replan.book, replan.at) :
        /\ replan.asking
        /\ plannedBook' = WithChanges(IF replan.moved THEN plannedBook ELSE replan.book,
                                      Accepted(replan.book, changes, RouteVolume(replan.at + 1)))
  BY DEF ReplanAnswered
<1>2. /\ RouteVolume(replan.at + 1) = RouteVolume(replan.at)
      /\ (IF replan.moved THEN plannedBook ELSE replan.book) = plannedBook
  BY <1>1 DEF ReplanInv, Knows
<1> QED BY <1>1, <1>2, AcceptedOnly, ProposalsAreTargets

LEMMA StepInv ==
  ASSUME ReplanInv, [ReplanNext]_replanVars
  PROVE  ReplanInv'
<1>1. ASSUME NEW settled \in BOOLEAN, ChapterSaved(settled) PROVE ReplanInv'
  <2> DEFINE c == replan.at + 1
             copy == [plannedBook EXCEPT !.prose = @ \cup {c}]
             asks == (settled /\ c < RouteCount) /\ ReplanTargets(copy, c) # {}
  <2>1. c \in Numbers /\ plannedBook' = copy /\ asOf' = asOf /\ replan' = [at |-> c, asking |-> asks, book |-> copy, moved |-> FALSE]
    BY <1>1 DEF ChapterSaved
  <2>2. copy \in RouteBooks
    BY <2>1 DEF ReplanInv, RouteBooks
  <2>3. c \in Nat /\ c \in 0..RouteCount
    BY <2>1, ReplanAssumption DEF Numbers
  <2>4. asks \in BOOLEAN /\ (asks => RouteVolume(c + 1) = RouteVolume(c))
    BY <2>3, TargetsGoOn
  <2> HIDE DEF c, copy, asks
  <2> QED BY <2>1, <2>2, <2>3, <2>4 DEF ReplanInv, Knows
<1>2. ASSUME ReplanFails PROVE ReplanInv'
  BY <1>2 DEF ReplanFails, ReplanInv, Knows
<1>3. ASSUME ReplanAnswered PROVE ReplanInv'
  <2>1. PICK changes \in Proposals(replan.book, replan.at) :
          LET agreed == Accepted(replan.book, changes, RouteVolume(replan.at))
          IN /\ plannedBook' = WithChanges(plannedBook, agreed)
             /\ DOMAIN agreed \subseteq ReplanTargets(replan.book, replan.at)
             /\ \A c \in DOMAIN agreed : agreed[c].after \in RouteGoals
    BY <1>3, AnsweredOnStored
  <2>2. plannedBook' \in RouteBooks
    BY <2>1, WithChangesBook DEF ReplanInv, ReplanTargets
  <2>3. asOf' = asOf /\ replan' = [replan EXCEPT !.asking = FALSE, !.moved = FALSE, !.book = plannedBook']
    BY <1>3 DEF ReplanAnswered
  <2> QED BY <2>2, <2>3 DEF ReplanInv, Knows
<1>4. ASSUME NEW c \in Numbers, NEW g \in RouteGoals, AuthorEditsRoute(c, g) PROVE ReplanInv'
  <2>1. plannedBook' = [plannedBook EXCEPT !.planned[c] = [goal |-> g, author |-> TRUE]]
        /\ asOf' = plannedBook /\ replan' = replan /\ ~replan.asking
    BY <1>4 DEF AuthorEditsRoute, Saved
  <2>2. plannedBook' \in RouteBooks
    BY <2>1 DEF ReplanInv, RouteBooks, Routes
  <2> QED BY <2>1, <2>2 DEF ReplanInv, Knows
<1>5. ASSUME NEW v \in {1, 2}, VolumeApplied(v) PROVE ReplanInv'
  <2>1. plannedBook' = [plannedBook EXCEPT !.route =
          [c \in Numbers |-> IF RouteVolume(c) = v THEN plannedBook.planned[c] ELSE plannedBook.route[c]]]
        /\ asOf' = plannedBook /\ replan' = replan /\ ~replan.asking
    BY <1>5 DEF VolumeApplied, Saved
  <2>2. plannedBook' \in RouteBooks
    BY <2>1 DEF ReplanInv, RouteBooks
  <2> QED BY <2>1, <2>2 DEF ReplanInv, Knows
<1>6. ASSUME RevisionRestored PROVE ReplanInv'
  BY <1>6 DEF RevisionRestored, Saved, ReplanInv, Knows
<1>7. ASSUME UNCHANGED replanVars PROVE ReplanInv'
  BY <1>7 DEF replanVars, ReplanInv, Knows
<1> QED BY <1>1, <1>2, <1>3, <1>4, <1>5, <1>6, <1>7 DEF ReplanNext

----------------------------------------------------------------------------
(* What an answer may do.                                                  *)

\* Only the failure and the answer end the question.
LEMMA WhoAnswers ==
  ASSUME ReplanInv, ReplanNext, Answering
  PROVE  \/ plannedBook' = plannedBook
         \/ ReplanAnswered
<1>1. ASSUME NEW settled \in BOOLEAN, ChapterSaved(settled) PROVE FALSE
  BY <1>1 DEF ChapterSaved, Answering
<1>2. ASSUME RevisionRestored PROVE FALSE
  BY <1>2 DEF RevisionRestored, Answering, ReplanInv
<1>3. ASSUME NEW c \in Numbers, NEW g \in RouteGoals, AuthorEditsRoute(c, g) PROVE FALSE
  BY <1>3 DEF AuthorEditsRoute, Answering
<1>4. ASSUME NEW v \in {1, 2}, VolumeApplied(v) PROVE FALSE
  BY <1>4 DEF VolumeApplied, Answering
<1>5. ReplanFails => plannedBook' = plannedBook
  BY DEF ReplanFails
<1> QED BY <1>1, <1>2, <1>3, <1>4, <1>5 DEF ReplanNext

OnlyFree(c) ==
  plannedBook'.route[c] # plannedBook.route[c] =>
    /\ c \in replan.at+1..replan.at+ReplanWindow /\ RouteVolume(c) = RouteVolume(replan.at)
    /\ c \notin plannedBook.prose
    /\ ~plannedBook.planned[c].author /\ plannedBook.planned[c].goal = plannedBook.route[c].goal
    /\ plannedBook'.prose = plannedBook.prose /\ c \in plannedBook'.stale

LEMMA StepFree ==
  ASSUME ReplanInv, ReplanNext, Answering, NEW c \in Numbers
  PROVE  OnlyFree(c)
<1>1. CASE plannedBook' = plannedBook
  BY <1>1 DEF OnlyFree
<1>2. CASE ReplanAnswered
  <2>1. PICK changes \in Proposals(replan.book, replan.at) :
          LET agreed == Accepted(replan.book, changes, RouteVolume(replan.at))
          IN /\ plannedBook' = WithChanges(plannedBook, agreed)
             /\ DOMAIN agreed \subseteq ReplanTargets(replan.book, replan.at)
             /\ \A k \in DOMAIN agreed : agreed[k].after \in RouteGoals
    BY <1>2, AnsweredOnStored
  <2> DEFINE agreed == Accepted(replan.book, changes, RouteVolume(replan.at))
  <2>2. DOMAIN agreed \subseteq Numbers
    BY <2>1 DEF ReplanTargets
  <2>3. plannedBook'.prose = plannedBook.prose
        /\ (plannedBook'.route[c] # plannedBook.route[c] =>
              c \in DOMAIN agreed /\ ~RouteLocked(plannedBook, c) /\ c \in plannedBook'.stale)
    BY <2>1, <2>2, WithChangesBook DEF ReplanInv
  <2> HIDE DEF agreed
  <2>4. c \in DOMAIN agreed => c \in replan.at+1..replan.at+ReplanWindow /\ RouteVolume(c) = RouteVolume(replan.at)
    BY <2>1 DEF ReplanTargets, agreed
  <2> QED BY <2>3, <2>4 DEF OnlyFree, RouteLocked
<1> QED BY <1>1, <1>2, WhoAnswers

LEMMA StepReaches ==
  ASSUME ReplanInv, ReplanNext, Answering, ~replan.moved
  PROVE  Cardinality(SoundRoutes(plannedBook.planned, RouteVolume(replan.at)))
           <= Cardinality(SoundRoutes(plannedBook'.planned, RouteVolume(replan.at)))
<1>1. CASE plannedBook' = plannedBook
  BY <1>1, SoundFinite
<1>2. CASE ReplanAnswered
  <2>1. replan.book = plannedBook
    BY DEF ReplanInv, Knows, Answering
  <2>2. PICK changes : plannedBook' = WithChanges(plannedBook, Accepted(plannedBook, changes, RouteVolume(replan.at)))
    BY <1>2, <2>1, AnsweredOnStored
  <2> QED BY <2>2, AcceptedReaches
<1> QED BY <1>1, <1>2, WhoAnswers

\* Whatever was saved while the model was asked, its answer changes only free routes of the next chapters,
\* and unless the book moved, the check of the routes reaches as far as before (rolling_replan,
\* apply_replan_changes).
THEOREM ReplanBounded == ReplanSpec => ReplanIsBounded
<1>1. ReplanInv /\ [ReplanNext]_replanVars => ReplanInv'
  BY StepInv
<1>2. ReplanInv /\ [ReplanNext]_replanVars =>
        [Answering =>
           \A c \in Numbers :
             plannedBook'.route[c] # plannedBook.route[c] =>
               /\ c \in replan.at+1..replan.at+ReplanWindow /\ RouteVolume(c) = RouteVolume(replan.at)
               /\ c \notin plannedBook.prose
               /\ ~plannedBook.planned[c].author /\ plannedBook.planned[c].goal = plannedBook.route[c].goal
               /\ plannedBook'.prose = plannedBook.prose /\ c \in plannedBook'.stale]_replanVars
  BY StepFree DEF OnlyFree
<1>3. ReplanInv /\ [ReplanNext]_replanVars =>
        [Answering /\ ~replan.moved =>
           LET v == RouteVolume(replan.at)
           IN Cardinality(SoundRoutes(plannedBook.planned, v)) <= Cardinality(SoundRoutes(plannedBook'.planned, v))]_replanVars
  BY StepReaches
<1> QED BY <1>1, <1>2, <1>3, InitInv, PTL DEF ReplanSpec, ReplanIsBounded, OnlyFreeRoutesChange, ChecksReachAsFar

-----------------------------------------------------------------------------
(* PlanningDesk: every set of books and volumes, every number of answers.    *)

Routed == [Parts -> Seq(Events)]
Contents == [master : Int, routes : Routed, bound : Routed, plan : Int]
\* A tab shows a project of the library; the library of no projects shows whatever CHOOSE finds.
Somewhere == Books \cup {NoneOpen, CHOOSE b \in Books : TRUE}
Wants == [kind : {"none", "master", "split"}, book : Somewhere, master : Int, part : Parts \cup {0},
          batch : Nat, tries : Int, routes : Seq(Events)]

\* A volume has no routes or whole ones.
SoundParts(routes) == routes # <<>> => WholeRoutes(routes)
SoundContent(content) == \A v \in Parts : SoundParts(content.routes[v]) /\ SoundParts(content.bound[v])

\* The routes the server has so far: no two alike, the ending in none of them but those of the last batch.
RoutesSoFar ==
  wanted.kind = "split" =>
    /\ IsInjective(wanted.routes)
    /\ wanted.batch <= BatchCount => \A i \in 1..Len(wanted.routes) : wanted.routes[i] # Outcome
    /\ wanted.batch = BatchCount + 1 =>
         \A i \in 1..Len(wanted.routes) :
           wanted.routes[i] = Outcome => i > Len(wanted.routes) - BatchLength(BatchCount)

DeskTypes ==
  /\ stored \in [Books -> Contents] /\ desk \in Contents /\ requests \in Int
  /\ open \in Somewhere
  /\ wanted \in Wants
  /\ applying # NotApplying =>
       /\ applying = [book |-> applying.book, copy |-> applying.copy, left |-> applying.left]
       /\ applying.book \in Somewhere /\ applying.copy \in Contents

DeskInv ==
  /\ DeskTypes /\ RoutesSoFar
  /\ SoundContent(desk) /\ (\A b \in Books : SoundContent(stored[b]))
  /\ applying # NotApplying => SoundContent(applying.copy)

----------------------------------------------------------------------------
(* The operators.                                                          *)

\* A number that is not less than another divides by it at least once.
LEMMA DivAtLeastOnce ==
  ASSUME NEW a \in Nat, NEW b \in Nat \ {0}, a >= b
  PROVE  a \div b \in Nat /\ a \div b >= 1
<1>1. a \div b \in Int
  OBVIOUS
<1>2. a = b * (a \div b) + (a % b) /\ a % b \in 0..b-1
  OBVIOUS
<1>3. ~(a \div b <= 0)
  <2> DEFINE q == a \div b
             r == a % b
  <2>1. q \in Int /\ r \in Int /\ a = b * q + r /\ r < b
    BY <1>1, <1>2
  <2> HIDE DEF q, r
  <2>2. SUFFICES ASSUME q <= 0 PROVE FALSE
    BY DEF q
  <2>3. b * q <= 0
    BY <2>1, <2>2
  <2>4. b * q \in Int
    BY <2>1
  <2> DEFINE p == b * q
  <2>5. p \in Int /\ p <= 0 /\ a = p + r
    BY <2>1, <2>3, <2>4
  <2> HIDE DEF p
  <2> QED BY <2>1, <2>5
<1> QED BY <1>1, <1>3

LEMMA BatchNumbers ==
  /\ BatchCount \in Nat \ {0}
  /\ \A i \in Nat : BatchLength(i) \in Nat
<1>1. PartLength \in Nat \ {0} /\ CallSize \in Nat \ {0}
  BY DeskAssumption
<1>2. PartLength + CallSize - 1 \in Nat /\ PartLength + CallSize - 1 >= CallSize
  BY <1>1
<1>3. BatchCount \in Nat /\ BatchCount >= 1
  BY <1>1, <1>2, DivAtLeastOnce DEF BatchCount
<1>4. PartLength \div BatchCount \in Nat
  BY <1>1, <1>3
<1> QED BY <1>3, <1>4 DEF BatchLength

\* Routes whose joining to earlier ones repeats none.
LEMMA JoinedRoutes ==
  ASSUME NEW prior \in Seq(Events), NEW n \in Nat, NEW batch \in [1..n -> Events]
  PROVE  /\ prior \o batch \in Seq(Events) /\ Len(prior \o batch) = Len(prior) + n
         /\ \A i \in 1..Len(prior)+n :
              \/ i <= Len(prior) /\ (prior \o batch)[i] = prior[i]
              \/ i > Len(prior) /\ i - Len(prior) \in 1..n /\ (prior \o batch)[i] = batch[i - Len(prior)]
<1>1. batch \in Seq(Events) /\ Len(batch) = n
  OBVIOUS
<1>2. Len(prior) \in Nat
  BY LenProperties
<1>3. /\ prior \o batch \in Seq(Events) /\ Len(prior \o batch) = Len(prior) + n
      /\ \A i \in 1..Len(prior)+n : (prior \o batch)[i] = IF i <= Len(prior) THEN prior[i] ELSE batch[i - Len(prior)]
  BY <1>1, ConcatProperties
<1> QED BY <1>2, <1>3

\* A route put into a content.
LEMMA ContentKept ==
  ASSUME NEW content \in Contents, SoundContent(content), NEW v, NEW routes \in Seq(Events), SoundParts(routes)
  PROVE  LET new == [content EXCEPT !.routes[v] = routes]
         IN new \in Contents /\ SoundContent(new)
BY DEF Contents, Routed, SoundContent

LEMMA BoundKept ==
  ASSUME NEW content \in Contents, SoundContent(content), NEW v
  PROVE  LET new == [content EXCEPT !.bound[v] = content.routes[v]]
         IN new \in Contents /\ SoundContent(new)
<1> DEFINE new == [content EXCEPT !.bound[v] = content.routes[v]]
<1>1. new.routes = content.routes /\ new.master = content.master /\ new.plan = content.plan
      /\ new.bound = [content.bound EXCEPT ![v] = content.routes[v]]
      /\ new = [master |-> new.master, routes |-> new.routes, bound |-> new.bound, plan |-> new.plan]
  BY DEF Contents
<1>2. new.bound \in Routed /\ \A u \in Parts : new.bound[u] \in {content.bound[u], content.routes[u]}
  BY <1>1 DEF Contents, Routed
<1> HIDE DEF new
<1>3. new \in Contents
  BY <1>1, <1>2 DEF Contents
<1> QED BY <1>1, <1>2, <1>3 DEF SoundContent, new

LEMMA NoRoutesSound == NoRoutes \in Routed /\ \A v \in Parts : SoundParts(NoRoutes[v])
BY DEF NoRoutes, Routed, SoundParts

LEMMA NothingWantedType == NothingWanted \in Wants /\ NothingWanted.kind = "none"
<1>1. <<>> \in Seq(Events)
  BY EmptySeq
<1> QED BY <1>1 DEF NothingWanted, Wants, Somewhere

LEMMA SavedOrNotKeeps ==
  ASSUME NEW content \in Contents, SoundContent(content), SavedOrNot(content), DeskInv
  PROVE  /\ desk' \in Contents /\ SoundContent(desk') /\ stored' \in [Books -> Contents]
         /\ \A b \in Books : SoundContent(stored'[b])
BY DEF SavedOrNot, DeskInv, DeskTypes

----------------------------------------------------------------------------
(* The invariant.                                                          *)

LEMMA DeskInitInv == DeskInit => DeskInv
<1> SUFFICES ASSUME DeskInit PROVE DeskInv
  OBVIOUS
<1>1. BlankBook \in Contents /\ SoundContent(BlankBook)
  BY NoRoutesSound DEF BlankBook, Contents, SoundContent
<1>2. wanted \in Wants /\ wanted.kind = "none"
  BY NothingWantedType DEF DeskInit
<1>3. stored \in [Books -> Contents] /\ open \in Somewhere /\ applying = NotApplying /\ requests \in Int
  BY <1>1 DEF DeskInit, Somewhere
<1>4. desk = BlankBook /\ \A b \in Books : stored[b] = BlankBook
  BY DEF DeskInit
<1> QED BY <1>1, <1>2, <1>3, <1>4 DEF DeskInv, DeskTypes, RoutesSoFar

LEMMA BatchKeepsRoutes ==
  ASSUME DeskInv, NEW batch \in [1..BatchLength(wanted.batch) -> Events], DeskBatchAnswered(batch)
  PROVE  wanted' \in Wants /\ RoutesSoFar'
<1>1. /\ wanted.kind = "split" /\ wanted.batch <= BatchCount /\ wanted.batch \in Nat
      /\ wanted \in Wants /\ wanted.routes \in Seq(Events) /\ wanted.tries \in Int
  BY DEF DeskBatchAnswered, DeskInv, DeskTypes, Wants
<1>2. BatchCount \in Nat \ {0} /\ BatchLength(wanted.batch) \in Nat
  BY <1>1, BatchNumbers
<1> DEFINE final == wanted.batch = BatchCount
           more == wanted.routes \o batch
           n == BatchLength(wanted.batch)
<1>3. /\ more \in Seq(Events) /\ Len(more) = Len(wanted.routes) + n /\ Len(wanted.routes) \in Nat
      /\ \A i \in 1..Len(wanted.routes)+n :
           \/ i <= Len(wanted.routes) /\ more[i] = wanted.routes[i]
           \/ i > Len(wanted.routes) /\ i - Len(wanted.routes) \in 1..n /\ more[i] = batch[i - Len(wanted.routes)]
  BY <1>1, <1>2, JoinedRoutes, LenProperties
<1>4. CASE Passes(batch, wanted.routes, final)
  <2>1. wanted' = [wanted EXCEPT !.routes = more, !.batch = @ + 1, !.tries = 0]
    BY <1>4 DEF DeskBatchAnswered
  <2>2. IsInjective(more) /\ (final \/ Outcome \notin ToSet(batch))
    BY <1>4 DEF Passes
  <2>3. \A i \in 1..Len(wanted.routes) : wanted.routes[i] # Outcome
    BY <1>1 DEF DeskInv, RoutesSoFar
  <2> HIDE DEF more
  <2>4. /\ wanted' \in Wants /\ wanted'.kind = "split" /\ wanted'.routes = more /\ wanted'.batch = wanted.batch + 1
    <3> DEFINE b == wanted.batch + 1
               t == 0
    <3>1. wanted' = [wanted EXCEPT !.routes = more, !.batch = b, !.tries = t]
      BY <2>1
    <3>2. b \in Nat /\ t \in Int /\ more \in Seq(Events) /\ wanted \in Wants
      BY <1>1, <1>3
    <3> HIDE DEF b, t
    <3>3. wanted' \in Wants
      BY <3>1, <3>2 DEF Wants
    <3>4. wanted'.kind = wanted.kind /\ wanted'.routes = more /\ wanted'.batch = b
      BY <3>1, <3>2 DEF Wants
    <3>5. wanted'.batch = wanted.batch + 1
      BY <3>4 DEF b
    <3>6. wanted.kind = "split"
      BY <1>1
    <3> QED BY <3>3, <3>4, <3>5, <3>6
  <2>5. ~final => \A i \in 1..Len(more) : more[i] # Outcome
    <3> SUFFICES ASSUME ~final, NEW i \in 1..Len(more) PROVE more[i] # Outcome
      OBVIOUS
    <3>1. \A j \in 1..n : batch[j] # Outcome
      BY <2>2 DEF ToSet
    <3> HIDE DEF n
    <3>2. i \in 1..Len(wanted.routes)+n /\ Len(wanted.routes) \in Nat
      BY <1>3
    <3>3. CASE i <= Len(wanted.routes) /\ more[i] = wanted.routes[i]
      <4>1. i \in 1..Len(wanted.routes)
        BY <3>2, <3>3
      <4> QED BY <2>3, <3>3, <4>1
    <3>4. CASE i - Len(wanted.routes) \in 1..n /\ more[i] = batch[i - Len(wanted.routes)]
      BY <3>1, <3>4
    <3> QED BY <1>3, <3>2, <3>3, <3>4
  <2>6. final => \A i \in 1..Len(more) : more[i] = Outcome => i > Len(more) - BatchLength(BatchCount)
    <3> SUFFICES ASSUME final, NEW i \in 1..Len(more), more[i] = Outcome PROVE i > Len(wanted.routes)
      BY <1>2, <1>3
    <3> QED BY <1>3, <2>3
  <2> QED BY <1>1, <1>2, <2>2, <2>4, <2>5, <2>6 DEF RoutesSoFar
<1>5. CASE ~Passes(batch, wanted.routes, final)
  <2>1. wanted' = [wanted EXCEPT !.tries = @ + 1, !.batch = IF wanted.tries = 1 THEN BatchCount + 2 ELSE @]
    BY <1>5 DEF DeskBatchAnswered
  <2>2. /\ wanted' \in Wants /\ wanted'.kind = "split" /\ wanted'.routes = wanted.routes
        /\ wanted'.batch \in {wanted.batch, BatchCount + 2}
    <3> DEFINE b == IF wanted.tries = 1 THEN BatchCount + 2 ELSE wanted.batch
               t == wanted.tries + 1
    <3>1. wanted' = [wanted EXCEPT !.tries = t, !.batch = b]
      BY <2>1
    <3>2. b \in {wanted.batch, BatchCount + 2} /\ b \in Nat /\ t \in Int /\ wanted \in Wants
      BY <1>1, <1>2
    <3> HIDE DEF b, t
    <3>3. wanted' \in Wants
      BY <3>1, <3>2 DEF Wants
    <3>4. wanted'.kind = wanted.kind /\ wanted'.routes = wanted.routes /\ wanted'.batch = b
      BY <3>1, <3>2 DEF Wants
    <3> QED BY <1>1, <3>2, <3>3, <3>4
  <2> QED BY <1>1, <1>2, <2>2 DEF RoutesSoFar, DeskInv
<1> QED BY <1>4, <1>5

\* What the server answers as complete is whole.
LEMMA CompleteIsWhole ==
  ASSUME DeskInv, wanted.kind = "split", IsComplete
  PROVE  wanted.routes \in Seq(Events) /\ SoundParts(wanted.routes)
<1>1. wanted.routes \in Seq(Events) /\ wanted.batch = BatchCount + 1 /\ Len(wanted.routes) = PartLength
  BY DEF DeskInv, DeskTypes, Wants, IsComplete
<1>2. BatchCount \in Nat
  BY BatchNumbers
<1> QED BY <1>1, <1>2 DEF SoundParts, WholeRoutes, DeskInv, RoutesSoFar

LEMMA DeskStepInv ==
  ASSUME DeskInv, [DeskNext]_deskVars
  PROVE  DeskInv'
<1> USE DEF DeskInv
<1>1. ASSUME NEW b \in Books \ {open}, Switches(b) PROVE DeskInv'
  <2>1. desk' = stored[b] /\ open' = b /\ UNCHANGED <<stored, wanted, plan, applying, requests>>
    BY <1>1 DEF Switches
  <2>2. desk' \in Contents /\ SoundContent(desk') /\ open' \in Somewhere
    BY <2>1 DEF DeskTypes, Somewhere
  <2> QED BY <2>1, <2>2 DEF DeskTypes, RoutesSoFar
<1>2. ASSUME AskMaster PROVE DeskInv'
  <2>1. wanted' \in Wants /\ wanted'.kind = "master"
    BY <1>2, NothingWantedType DEF AskMaster, Wants, DeskTypes
  <2> QED BY <1>2, <2>1 DEF AskMaster, Asks, DeskTypes, RoutesSoFar
<1>3. ASSUME NEW v \in Parts, AskSplit(v) PROVE DeskInv'
  <2>1. desk.master \in Int
    BY DEF DeskTypes, Contents
  <2>2. wanted' \in Wants /\ wanted'.routes = <<>> /\ wanted'.batch = 1
    <3>1. wanted' = [kind |-> "split", book |-> open, master |-> desk.master, part |-> v, batch |-> 1, tries |-> 0,
                     routes |-> <<>>]
      BY <1>3 DEF AskSplit, NothingWanted
    <3>2. <<>> \in Seq(Events)
      BY EmptySeq
    <3> QED BY <2>1, <3>1, <3>2 DEF Wants, DeskTypes
  <2>3. RoutesSoFar'
    BY <2>2, BatchNumbers DEF RoutesSoFar, IsInjective
  <2> QED BY <1>3, <2>2, <2>3 DEF AskSplit, Asks, DeskTypes
<1>4. ASSUME AskPlan PROVE DeskInv'
  BY <1>4 DEF AskPlan, Asks, DeskTypes, RoutesSoFar
<1>5. ASSUME NEW batch \in [1..BatchLength(wanted.batch) -> Events], DeskBatchAnswered(batch) PROVE DeskInv'
  <2>1. wanted' \in Wants /\ RoutesSoFar'
    BY <1>5, BatchKeepsRoutes
  <2> QED BY <1>5, <2>1 DEF DeskBatchAnswered, DeskTypes
<1>6. ASSUME MasterAnswer PROVE DeskInv'
  <2> DEFINE content == [desk EXCEPT !.master = requests + 1, !.routes = NoRoutes]
  <2>1. content \in Contents /\ SoundContent(content)
    <3>1. requests + 1 \in Int
      BY DEF DeskTypes
    <3> DEFINE m == requests + 1
    <3>3. m \in Int /\ desk \in Contents /\ content = [desk EXCEPT !.master = m, !.routes = NoRoutes]
      BY <3>1 DEF DeskTypes
    <3> HIDE DEF content, m
    <3>2. content.routes = NoRoutes /\ content.bound = desk.bound
      BY <3>3 DEF Contents
    <3>4. NoRoutes \in Routed
      BY NoRoutesSound
    <3>5. content \in Contents
      BY <3>3, <3>4 DEF Contents
    <3> QED BY <3>2, <3>5, NoRoutesSound DEF SoundContent, DeskInv
  <2>2. wanted' \in Wants /\ wanted'.kind = "none"
    BY <1>6, NothingWantedType DEF MasterAnswer
  <2>3. /\ desk' \in Contents /\ SoundContent(desk') /\ stored' \in [Books -> Contents]
        /\ \A b \in Books : SoundContent(stored'[b])
    <3>1. SavedOrNot(content) \/ UNCHANGED <<stored, desk>>
      BY <1>6 DEF MasterAnswer
    <3> HIDE DEF content
    <3> QED BY <2>1, <3>1, SavedOrNotKeeps DEF DeskTypes
  <2> QED BY <1>6, <2>2, <2>3 DEF MasterAnswer, DeskTypes, RoutesSoFar
<1>7. ASSUME SplitAnswer PROVE DeskInv'
  <2> DEFINE content == [desk EXCEPT !.routes[wanted.part] = wanted.routes]
  <2>1. IsComplete => content \in Contents /\ SoundContent(content)
    BY <1>7, CompleteIsWhole, ContentKept DEF DeskTypes, SplitAnswer
  <2>2. wanted' \in Wants /\ wanted'.kind = "none"
    BY <1>7, NothingWantedType DEF SplitAnswer
  <2>3. /\ desk' \in Contents /\ SoundContent(desk') /\ stored' \in [Books -> Contents]
        /\ \A b \in Books : SoundContent(stored'[b])
    <3>1. (IsComplete /\ SavedOrNot(content)) \/ UNCHANGED <<stored, desk>>
      BY <1>7 DEF SplitAnswer
    <3> HIDE DEF content
    <3> QED BY <2>1, <3>1, SavedOrNotKeeps DEF DeskTypes
  <2> QED BY <1>7, <2>2, <2>3 DEF SplitAnswer, DeskTypes, RoutesSoFar
<1>8. ASSUME RequestFails PROVE DeskInv'
  <2>1. wanted' \in Wants /\ wanted'.kind = "none"
    BY <1>8, NothingWantedType DEF RequestFails
  <2> QED BY <1>8, <2>1 DEF RequestFails, DeskTypes, RoutesSoFar
<1>9. ASSUME PlanAnswer PROVE DeskInv'
  <2> DEFINE content == [desk EXCEPT !.plan = requests]
  <2>1. content \in Contents /\ SoundContent(content)
    BY DEF DeskTypes, Contents, SoundContent
  <2>2. /\ desk' \in Contents /\ SoundContent(desk') /\ stored' \in [Books -> Contents]
        /\ \A b \in Books : SoundContent(stored'[b])
    <3>1. SavedOrNot(content) \/ UNCHANGED <<stored, desk>>
      BY <1>9 DEF PlanAnswer
    <3> HIDE DEF content
    <3> QED BY <2>1, <3>1, SavedOrNotKeeps DEF DeskTypes
  <2> QED BY <1>9, <2>2 DEF PlanAnswer, DeskTypes, RoutesSoFar
<1>10. ASSUME NEW parts, AskApply(parts) PROVE DeskInv'
  <2>1. applying' = [book |-> open, copy |-> desk, left |-> parts] /\ stored' = [stored EXCEPT ![open] = desk]
        /\ requests' = requests + 1 /\ UNCHANGED <<open, desk, wanted, plan>>
    BY <1>10 DEF AskApply, Asks
  <2>2. applying'.book \in Somewhere /\ applying'.copy = desk
        /\ applying' = [book |-> applying'.book, copy |-> applying'.copy, left |-> applying'.left]
    BY <2>1 DEF DeskTypes
  <2>3. stored' \in [Books -> Contents] /\ \A b \in Books : SoundContent(stored'[b])
    BY <2>1 DEF DeskTypes
  <2> QED BY <2>1, <2>2, <2>3 DEF DeskTypes, RoutesSoFar
<1>11. ASSUME ApplyAnswer PROVE DeskInv'
  <2> DEFINE v == Head(applying.left)
             next == [applying.copy EXCEPT !.bound[v] = applying.copy.routes[v]]
  <2>1. applying # NotApplying /\ UNCHANGED <<wanted, plan, requests>>
    BY <1>11 DEF ApplyAnswer
  <2>2. next \in Contents /\ SoundContent(next)
    BY <2>1, BoundKept DEF DeskTypes
  <2>3. \/ applying' = NotApplying /\ UNCHANGED <<stored, open, desk>>
        \/ applying' = [applying EXCEPT !.copy = next, !.left = Tail(@)] /\ UNCHANGED <<stored, open, desk>>
        \/ /\ applying' = NotApplying /\ open' = applying.book /\ desk' = next
           /\ stored' \in {stored, [stored EXCEPT ![applying.book] = next]}
    BY <1>11 DEF ApplyAnswer
  <2> HIDE DEF v, next
  <2>4. applying' = NotApplying
        \/ /\ applying' = [book |-> applying'.book, copy |-> applying'.copy, left |-> applying'.left]
           /\ applying'.book = applying.book /\ applying'.copy = next
    BY <2>1, <2>3 DEF DeskTypes
  <2>5. /\ desk' \in Contents /\ SoundContent(desk') /\ stored' \in [Books -> Contents] /\ open' \in Somewhere
        /\ \A b \in Books : SoundContent(stored'[b])
    BY <2>1, <2>2, <2>3 DEF DeskTypes
  <2>6. RoutesSoFar'
    BY <2>1 DEF RoutesSoFar
  <2>7. applying' # NotApplying => applying'.copy \in Contents /\ SoundContent(applying'.copy) /\ applying'.book \in Somewhere
    BY <2>1, <2>2, <2>4 DEF DeskTypes
  <2> QED BY <2>1, <2>4, <2>5, <2>6, <2>7 DEF DeskTypes
<1>12. ASSUME UNCHANGED deskVars PROVE DeskInv'
  BY <1>12 DEF deskVars, DeskTypes, RoutesSoFar
<1> QED BY <1>1, <1>2, <1>3, <1>4, <1>5, <1>6, <1>7, <1>8, <1>9, <1>10, <1>11, <1>12 DEF DeskNext

----------------------------------------------------------------------------
(* The properties.                                                         *)

LEMMA InvWhole == DeskInv => RoutesAreWhole
BY DEF DeskInv, SoundContent, SoundParts, RoutesAreWhole

\* What an answer to a planning request may do.
WantedStaysHome ==
  wanted.kind # "none" /\ wanted'.kind = "none" =>
    /\ \A b \in Books \ {wanted.book} : stored'[b] = stored[b]
    /\ open # wanted.book => desk' = desk
    /\ desk'.plan = desk.plan /\ desk'.bound = desk.bound
    /\ wanted.kind = "split" =>
         /\ desk'.master = desk.master /\ (desk' # desk => desk.master = wanted.master)
         /\ \A v \in Parts \ {wanted.part} : desk'.routes[v] = desk.routes[v]

PlanStaysHome ==
  plan # NoneOpen /\ plan' = NoneOpen =>
    /\ \A b \in Books \ {plan} : stored'[b] = stored[b]
    /\ open # plan => desk' = desk
    /\ desk'.routes = desk.routes /\ desk'.bound = desk.bound

\* Only the answers and the failure end a request.
LEMMA WhoEndsWanted ==
  ASSUME DeskInv, [DeskNext]_deskVars, wanted.kind # "none", wanted'.kind = "none"
  PROVE  MasterAnswer \/ SplitAnswer \/ RequestFails
<1>1. wanted' # wanted
  OBVIOUS
<1>2. \A batch \in [1..BatchLength(wanted.batch) -> Events] : ~DeskBatchAnswered(batch)
  <2> SUFFICES ASSUME NEW batch \in [1..BatchLength(wanted.batch) -> Events], DeskBatchAnswered(batch) PROVE FALSE
    OBVIOUS
  <2>1. wanted.kind = "split" /\ wanted'.kind = wanted.kind
    BY DEF DeskBatchAnswered, DeskInv, DeskTypes, Wants
  <2> QED BY <2>1
<1>3. ~AskMaster /\ ~(\E v \in Parts : AskSplit(v)) /\ ~AskPlan
  BY <1>1 DEF AskMaster, AskSplit, AskPlan
<1>4. ~(\E b \in Books \ {open} : Switches(b)) /\ ~PlanAnswer /\ ~ApplyAnswer /\ (\A parts : ~AskApply(parts))
  BY <1>1 DEF Switches, PlanAnswer, ApplyAnswer, AskApply
<1>5. ~UNCHANGED deskVars
  BY <1>1 DEF deskVars
<1> QED BY <1>2, <1>3, <1>4, <1>5 DEF DeskNext

LEMMA WhoEndsPlan ==
  ASSUME [DeskNext]_deskVars, plan # NoneOpen, plan' = NoneOpen
  PROVE  PlanAnswer
<1>1. plan' # plan
  OBVIOUS
<1>2. \A batch \in [1..BatchLength(wanted.batch) -> Events] : ~DeskBatchAnswered(batch)
  BY <1>1 DEF DeskBatchAnswered
<1>3. ~AskMaster /\ ~(\E v \in Parts : AskSplit(v)) /\ ~AskPlan
  BY <1>1 DEF AskMaster, AskSplit, AskPlan
<1>4. ~(\E b \in Books \ {open} : Switches(b)) /\ ~ApplyAnswer /\ (\A parts : ~AskApply(parts))
  BY <1>1 DEF Switches, ApplyAnswer, AskApply
<1>5. ~MasterAnswer /\ ~SplitAnswer /\ ~RequestFails /\ ~UNCHANGED deskVars
  BY <1>1 DEF MasterAnswer, SplitAnswer, RequestFails, deskVars
<1> QED BY <1>2, <1>3, <1>4, <1>5 DEF DeskNext

LEMMA WantedStepHome ==
  ASSUME DeskInv, [DeskNext]_deskVars
  PROVE  WantedStaysHome
<1> SUFFICES ASSUME wanted.kind # "none", wanted'.kind = "none"
             PROVE  /\ \A b \in Books \ {wanted.book} : stored'[b] = stored[b]
                    /\ open # wanted.book => desk' = desk
                    /\ desk'.plan = desk.plan /\ desk'.bound = desk.bound
                    /\ wanted.kind = "split" =>
                         /\ desk'.master = desk.master /\ (desk' # desk => desk.master = wanted.master)
                         /\ \A v \in Parts \ {wanted.part} : desk'.routes[v] = desk.routes[v]
  BY DEF WantedStaysHome
<1>1. stored \in [Books -> Contents] /\ desk \in Contents
  BY DEF DeskInv, DeskTypes
<1>2. CASE UNCHANGED <<stored, desk>>
  BY <1>2
<1>3. CASE MasterAnswer /\ ~UNCHANGED <<stored, desk>>
  <2>1. /\ wanted.kind = "master" /\ open = wanted.book
        /\ SavedOrNot([desk EXCEPT !.master = requests + 1, !.routes = NoRoutes])
    BY <1>3 DEF MasterAnswer
  <2> QED BY <1>1, <2>1 DEF SavedOrNot, Contents
<1>4. CASE SplitAnswer /\ ~UNCHANGED <<stored, desk>>
  <2>1. /\ open = wanted.book /\ desk.master = wanted.master
        /\ SavedOrNot([desk EXCEPT !.routes[wanted.part] = wanted.routes])
    BY <1>4 DEF SplitAnswer
  <2> QED BY <1>1, <2>1 DEF SavedOrNot, Contents, Routed
<1>5. RequestFails => UNCHANGED <<stored, desk>>
  BY DEF RequestFails
<1> QED BY <1>2, <1>3, <1>4, <1>5, WhoEndsWanted

LEMMA PlanStepHome ==
  ASSUME DeskInv, [DeskNext]_deskVars
  PROVE  PlanStaysHome
<1> SUFFICES ASSUME plan # NoneOpen, plan' = NoneOpen
             PROVE  /\ \A b \in Books \ {plan} : stored'[b] = stored[b]
                    /\ open # plan => desk' = desk
                    /\ desk'.routes = desk.routes /\ desk'.bound = desk.bound
  BY DEF PlanStaysHome
<1>1. stored \in [Books -> Contents] /\ desk \in Contents
  BY DEF DeskInv, DeskTypes
<1>2. PlanAnswer
  BY WhoEndsPlan
<1>3. IF open = plan THEN SavedOrNot([desk EXCEPT !.plan = requests]) ELSE UNCHANGED <<stored, desk>>
  BY <1>2 DEF PlanAnswer
<1> QED BY <1>1, <1>3 DEF SavedOrNot, Contents

\* Whatever is opened, refused, retried or fails to save meanwhile: a volume has no routes or whole ones, and
\* an answer changes only the plan it was asked for in the project it was asked for (planning.js
\* generateMasterPlan, splitVolume, planChapter over volume_batches and validate_route_batch).
THEOREM DeskSound == DeskSpec => DeskIsSound
<1>1. DeskInv /\ [DeskNext]_deskVars => DeskInv'
  BY DeskStepInv
<1>2. DeskInv /\ [DeskNext]_deskVars => [WantedStaysHome /\ PlanStaysHome]_deskVars
  BY WantedStepHome, PlanStepHome
<1>3. DeskSpec => []RoutesAreWhole
  BY <1>1, DeskInitInv, InvWhole, PTL DEF DeskSpec
<1>4. DeskSpec => [][WantedStaysHome /\ PlanStaysHome]_deskVars
  BY <1>1, <1>2, DeskInitInv, PTL DEF DeskSpec
<1> QED BY <1>3, <1>4, PTL DEF DeskIsSound, AnswersStayHome, WantedStaysHome, PlanStaysHome

-----------------------------------------------------------------------------
(* RouteGate: every volume, window and set of refusals.                      *)


\* The rounding is at most a half away, and exact for a multiple.
LEMMA RoundedIs ==
  ASSUME NEW a \in Nat, NEW b \in Nat \ {0}
  PROVE  /\ Rounded(a, b) \in Nat
         /\ 2 * (Rounded(a, b) * b) - 2 * a <= b /\ 2 * a - 2 * (Rounded(a, b) * b) <= b
<1>1. PICK q : q = a \div b
  OBVIOUS
<1>2. PICK r : r = a % b
  OBVIOUS
<1>3. q \in Nat /\ r \in Nat /\ r < b
  BY <1>1, <1>2
<1>4. a = b * q + r
  BY <1>1, <1>2
<1>5. PICK R : R = IF 2 * r > b \/ (2 * r = b /\ (q % 2) = 1) THEN q + 1 ELSE q
  OBVIOUS
<1>6. Rounded(a, b) = R
  BY <1>1, <1>2, <1>5 DEF Rounded
<1>7. PICK e \in Nat : e = b * q
  BY <1>3
<1>8. a = e + r
  BY <1>4, <1>7
<1>9. CASE R = q + 1
  <2>1. 2 * r >= b
    BY <1>3, <1>5, <1>9
  <2>2. R * b = e + b
    BY <1>3, <1>7, <1>9
  <2> QED BY <1>3, <1>6, <1>7, <1>8, <1>9, <2>1, <2>2
<1>10. CASE R = q /\ ~(2 * r > b)
  <2>1. R * b = e
    BY <1>3, <1>7, <1>10
  <2> QED BY <1>3, <1>6, <1>7, <1>8, <1>10, <2>1
<1> QED BY <1>3, <1>5, <1>9, <1>10

\* Of a volume with more chapters than turns.
LEMMA TurnPlaces ==
  ASSUME NEW size \in Nat, NEW count \in Nat \ {0}, size > count, NEW t \in 1..count
  PROVE  /\ TurnAt(size, count, t) \in 1..size - 1
         /\ t = count => TurnAt(size, count, t) = size - 1
<1>1. PICK m : m = size - 1
  OBVIOUS
<1>2. m \in Nat \ {0} /\ count <= m /\ t \in Nat /\ 1 <= t /\ t <= count
  BY <1>1
<1>3. PICK a \in Nat : a = t * m
  BY <1>2
<1>4. PICK R : R = Rounded(a, count)
  OBVIOUS
<1>5. PICK e \in Nat : e = R * count
  BY <1>4, RoundedIs
<1>6. R \in Nat /\ 2 * e - 2 * a <= count /\ 2 * a - 2 * e <= count
  BY <1>4, <1>5, RoundedIs
<1>7. TurnAt(size, count, t) = R
  BY <1>1, <1>3, <1>4 DEF TurnAt
<1>8. m <= a
  BY <1>2, <1>3
<1>9. PICK b \in Nat : b = count * m
  BY <1>2
<1>10. a <= b
  BY <1>2, <1>3, <1>9
<1>11. R # 0
  <2>1. R = 0 => e = 0
    BY <1>5
  <2> QED BY <1>2, <1>6, <1>8, <2>1
<1>12. R <= m
  <2>1. R >= m + 1 => e >= b + count
    <3> SUFFICES ASSUME R >= m + 1 PROVE e >= b + count
      OBVIOUS
    <3>1. PICK d \in Nat : R = m + 1 + d
      BY <1>2, <1>6
    <3>2. e = m * count + count + d * count
      BY <1>2, <1>5, <3>1
    <3>3. d * count \in Nat /\ m * count = b
      BY <1>2, <1>9, <3>1
    <3> QED BY <1>2, <1>9, <3>2, <3>3
  <2>2. ~(e >= b + count)
    BY <1>2, <1>6, <1>10
  <2> QED BY <1>2, <1>6, <2>1, <2>2
<1>13. t = count => R >= m
  <2> SUFFICES ASSUME t = count, R <= m - 1 PROVE FALSE
    BY <1>2, <1>6
  <2>1. a = b
    BY <1>3, <1>9
  <2>2. PICK d \in Nat : m = R + 1 + d
    BY <1>2, <1>6
  <2>3. b = count * R + count + count * d
    BY <1>2, <1>6, <1>9, <2>2
  <2>4. count * d \in Nat /\ count * R = e
    BY <1>2, <1>5, <1>6, <2>2
  <2> QED BY <1>2, <1>6, <2>1, <2>3, <2>4
<1> QED BY <1>1, <1>2, <1>6, <1>7, <1>11, <1>12, <1>13

\* No two turns fall into the same chapter.
LEMMA TurnsApart ==
  ASSUME NEW size \in Nat, NEW count \in Nat \ {0}, size > count, NEW t \in 1..count, NEW u \in 1..count, t < u
  PROVE  TurnAt(size, count, t) # TurnAt(size, count, u)
<1>1. PICK m : m = size - 1
  OBVIOUS
<1>2. m \in Nat \ {0} /\ count <= m /\ t \in Nat /\ u \in Nat
  BY <1>1
<1>3. PICK a \in Nat, c \in Nat : a = t * m /\ c = u * m
  BY <1>2
<1> SUFFICES ASSUME Rounded(a, count) = Rounded(c, count) PROVE FALSE
  BY <1>1, <1>3 DEF TurnAt
<1>4. PICK R : R = Rounded(a, count) /\ R = Rounded(c, count)
  OBVIOUS
<1>5. PICK e \in Nat : e = R * count
  BY <1>4, RoundedIs
<1>6. R \in Nat /\ 2 * e - 2 * a <= count /\ 2 * c - 2 * e <= count
  BY <1>4, <1>5, RoundedIs
<1>7. PICK d \in Nat : u = t + 1 + d
  BY <1>2
<1>8. PICK g \in Nat : g = d * m
  BY <1>2, <1>7
<1>9. c = a + m + g
  BY <1>2, <1>3, <1>7, <1>8
<1>10. c - a <= count
  BY <1>3, <1>6
<1>11. m = count /\ g = 0
  BY <1>2, <1>3, <1>8, <1>9, <1>10
<1>12. 2 * (e - a) = count
  BY <1>2, <1>3, <1>5, <1>6, <1>9, <1>11
<1>13. a = t * count
  BY <1>3, <1>11
<1>14. PICK k \in Int : k = R - t
  BY <1>2, <1>6
<1>15. k * count = e - a
  BY <1>2, <1>5, <1>6, <1>13, <1>14
<1>16. k >= 1 => k * count >= count
  BY <1>14
<1>17. k <= 0 => k * count <= 0
  BY <1>14
<1>18. e - a \in Int /\ e - a > 0 /\ e - a < count
  BY <1>3, <1>5, <1>12
<1> QED BY <1>14, <1>15, <1>16, <1>17, <1>18

\* A nonempty set of naturals has a least member.
LEMMA LeastOf ==
  ASSUME NEW S \in SUBSET Nat, S # {}
  PROVE  Min(S) \in S /\ \A y \in S : Min(S) <= y
<1> DEFINE R == OpToRel(<, Nat)
<1>1. IsWellFoundedOn(R, Nat)
  BY NatLessThanWellFounded
<1>2. \A k, m \in S : k < m => <<k, m>> \in R
  BY DEF OpToRel
<1>3. PICK m \in S : \A k \in S : <<k, m>> \notin R
  <2> HIDE DEF R
  <2> QED BY <1>1, WFMin
<1>4. \A k \in S : ~(k < m)
  BY <1>2, <1>3
<1>5. \A k \in S : m <= k
  BY <1>4
<1> QED BY <1>5 DEF Min

LEMMA AssignedIs ==
  ASSUME NEW p, p.size \in Nat, p.turns \in Nat \ {0}, p.size > p.turns, NEW t \in 1..p.turns
  PROVE  AssignedTurn(p) = t <=> TurnAt(p.size, p.turns, t) = p.position
<1>1. PICK here : here = {u \in 1..p.turns : TurnAt(p.size, p.turns, u) = p.position}
  OBVIOUS
<1>2. AssignedTurn(p) = IF here = {} THEN 0 ELSE Min(here)
  BY <1>1 DEF AssignedTurn
<1>3. here \in SUBSET Nat /\ t \in Nat /\ t # 0
  BY <1>1
<1>4. ASSUME AssignedTurn(p) = t PROVE t \in here
  <2>1. here # {}
    BY <1>2, <1>3, <1>4
  <2> QED BY <1>2, <1>3, <1>4, <2>1, LeastOf
<1>5. ASSUME t \in here PROVE AssignedTurn(p) = t
  <2>1. \A u \in here : u = t
    <3> SUFFICES ASSUME NEW u \in here, u # t PROVE FALSE
      OBVIOUS
    <3>1. u \in 1..p.turns /\ TurnAt(p.size, p.turns, u) = TurnAt(p.size, p.turns, t)
      BY <1>1, <1>5
    <3>2. t < u \/ u < t
      BY <3>1
    <3> QED BY <3>1, <3>2, TurnsApart
  <2>2. Min(here) \in here
    BY <1>3, <1>5, LeastOf
  <2> QED BY <1>2, <1>5, <2>1, <2>2
<1> QED BY <1>1, <1>4, <1>5

\* Every turn has its chapter, the last one the last chapter.
LEMMA TurnsFall ==
  ASSUME NEW p, NEW q, p = [position |-> q, size |-> p.size, turns |-> p.turns],
         p.size \in Nat, p.turns \in Nat \ {0}, p.size > p.turns
  PROVE  LET carriers(t) == {k \in 0..p.size - 1 : AssignedTurn([p EXCEPT !.position = k]) = t} IN
         /\ \A t \in 1..p.turns : Cardinality(carriers(t)) = 1
         /\ carriers(p.turns) = {p.size - 1}
         /\ AssignedTurn([p EXCEPT !.position = 0]) = 0
<1> DEFINE carriers(t) == {k \in 0..p.size - 1 : AssignedTurn([p EXCEPT !.position = k]) = t}
<1>1. ASSUME NEW k PROVE /\ [p EXCEPT !.position = k].size = p.size /\ [p EXCEPT !.position = k].turns = p.turns
                         /\ [p EXCEPT !.position = k].position = k
  OBVIOUS
<1>2. ASSUME NEW k, NEW t \in 1..p.turns
      PROVE  AssignedTurn([p EXCEPT !.position = k]) = t <=> TurnAt(p.size, p.turns, t) = k
  <2>1. PICK o : o = [p EXCEPT !.position = k]
    OBVIOUS
  <2>2. o.size = p.size /\ o.turns = p.turns /\ o.position = k
    BY <1>1, <2>1
  <2>3. AssignedTurn(o) = t <=> TurnAt(o.size, o.turns, t) = o.position
    BY <2>2, AssignedIs
  <2> QED BY <2>1, <2>2, <2>3
<1>3. ASSUME NEW t \in 1..p.turns
      PROVE  carriers(t) = {TurnAt(p.size, p.turns, t)} /\ Cardinality(carriers(t)) = 1
  <2>1. TurnAt(p.size, p.turns, t) \in 1..p.size - 1
    BY TurnPlaces
  <2>2. carriers(t) = {TurnAt(p.size, p.turns, t)}
    BY <1>2, <2>1
  <2> QED BY <2>2, FS_Singleton
<1>4. p.turns \in 1..p.turns /\ TurnAt(p.size, p.turns, p.turns) = p.size - 1
  BY TurnPlaces
<1>5. AssignedTurn([p EXCEPT !.position = 0]) = 0
  <2>1. PICK o : o = [p EXCEPT !.position = 0]
    OBVIOUS
  <2>2. o.size = p.size /\ o.turns = p.turns /\ o.position = 0
    BY <1>1, <2>1
  <2>3. {u \in 1..o.turns : TurnAt(o.size, o.turns, u) = o.position} = {}
    BY <2>2, TurnPlaces
  <2>4. AssignedTurn(o) = 0
    BY <2>3 DEF AssignedTurn
  <2> QED BY <2>1, <2>4
<1> QED BY <1>3, <1>4, <1>5

-----------------------------------------------------------------------------
(* The checks.                                                             *)

LEMMA OrderIs ==
  DOMAIN GateOrder = 1..15 /\ (\A i \in 1..15 : GateOrder[i] # "none") /\ \A f \in Faults : \E i \in 1..15 : GateOrder[i] = f
<1>1. DOMAIN GateOrder = 1..15 /\ \A i \in 1..15 : GateOrder[i] # "none"
  BY DEF GateOrder
<1> QED BY <1>1 DEF Faults, Range

LEMMA FaultsHave == "template" \in Faults /\ "era" \in Faults
<1>1. GateOrder[2] = "template" /\ GateOrder[8] = "era" /\ 2 \in 1..15 /\ 8 \in 1..15
  BY DEF GateOrder
<1>2. DOMAIN GateOrder = 1..15
  BY OrderIs
<1> QED BY <1>1, <1>2 DEF Faults, Range

\* The issue of a candidate is its first fault in the order of the checks.
LEMMA IssueIs ==
  ASSUME NEW faults \in SUBSET Faults, NEW checks
  PROVE  /\ IssueOf(faults, checks) = "none" <=> faults \cap checks = {}
         /\ faults \cap checks # {} =>
              \E m \in 1..15 : /\ IssueOf(faults, checks) = GateOrder[m] /\ GateOrder[m] \in faults \cap checks
                               /\ \A i \in 1..15 : GateOrder[i] \in faults \cap checks => m <= i
<1>1. PICK found : found = faults \cap checks
  OBVIOUS
<1>2. CASE found = {}
  BY <1>1, <1>2 DEF IssueOf
<1>3. CASE found # {}
  <2>1. PICK S : S = {i \in DOMAIN GateOrder : GateOrder[i] \in found}
    OBVIOUS
  <2>2. S \in SUBSET Nat /\ S \subseteq 1..15
    BY <2>1, OrderIs
  <2>3. S # {}
    <3>1. PICK f : f \in faults /\ f \in found
      BY <1>1, <1>3
    <3>2. PICK i \in 1..15 : GateOrder[i] = f
      BY <3>1, OrderIs
    <3>3. i \in DOMAIN GateOrder
      BY <3>2, OrderIs
    <3> QED BY <2>1, <3>1, <3>2, <3>3
  <2>4. PICK m : m = Min(S)
    OBVIOUS
  <2>5. m \in S /\ \A i \in S : m <= i
    BY <2>2, <2>3, <2>4, LeastOf
  <2>6. IssueOf(faults, checks) = GateOrder[m]
    BY <1>1, <1>3, <2>1, <2>4 DEF IssueOf
  <2>7. m \in 1..15 /\ GateOrder[m] \in found /\ \A i \in 1..15 : GateOrder[i] \in found => m <= i
    BY <2>1, <2>2, <2>5, OrderIs
  <2>8. IssueOf(faults, checks) # "none"
    BY <2>6, <2>7, OrderIs
  <2> QED BY <1>1, <1>3, <2>6, <2>7, <2>8
<1> QED BY <1>2, <1>3

\* The recheck only adds the early fault, where a turn may tell the outcome.
LEMMA ChecksAgree ==
  ASSUME NEW p, NEW r, NEW f, f \in ChecksAgain(p, r), f \notin ChecksOnce(p, r)
  PROVE  f = "early" /\ r.reserved /\ AssignedTurn(p) # 0
<1>1. PICK base : base = BatchChecks \cup {"era", "modern"} \cup AuthorChecks(r) \cup StoryChecks(p, r)
  OBVIOUS
<1>2. ChecksAgain(p, r) = base \cup (IF IsFinal(p) THEN {} ELSE {"early"})
  BY <1>1 DEF ChecksAgain
<1>3. ChecksOnce(p, r) = base \cup (IF IsFinal(p) \/ (r.reserved /\ AssignedTurn(p) # 0) THEN {} ELSE {"early"})
  BY <1>1 DEF ChecksOnce
<1> QED BY <1>2, <1>3

-----------------------------------------------------------------------------
(* The gate.                                                               *)

\* What is kept was refused for its first fault.
GateKept ==
  /\ bestRoute.score \in Nat /\ bestRoute.faults \in SUBSET Faults
  /\ routeResult \in {"asked", "debt"} =>
       bestRoute = NoRoute \/ (bestRoute.issue = IssueOf(bestRoute.faults, gateChecks) /\ bestRoute.issue # "none")
  /\ routeResult = "debt" => bestRoute # NoRoute /\ bestRoute.issue \in {"template", "era"}

GateInv ==
  /\ GateKept
  /\ \E q : place = [position |-> q, size |-> place.size, turns |-> place.turns]
  /\ place.size \in Nat /\ place.turns \in Nat
  /\ gateChecks = ChecksOnce(place, rules)
  /\ routeResult = "accepted" => IssueOf(bestRoute.faults, gateChecks) = "none"

\* Candidates have the faults of the list.
LEMMA CandidatesAre == Candidates \subseteq SUBSET Faults
<1>1. "template" \in Faults /\ "era" \in Faults
  BY FaultsHave
<1> QED BY <1>1 DEF Candidates

LEMMA InitGate == GateInit => GateInv
<1> SUFFICES ASSUME GateInit PROVE GateInv
  OBVIOUS
<1>1. GateKept
  BY DEF GateInit, GateKept, NoRoute
<1>2. PICK p \in [position : 0..Max(VolumeSizes) - 1, size : VolumeSizes, turns : TurnCounts] : p = place
  BY DEF GateInit
<1>3. p = [position |-> p.position, size |-> p.size, turns |-> p.turns]
  OBVIOUS
<1>4. p.size \in Nat /\ p.turns \in Nat
  BY GateAssumption
<1>5. \E q : place = [position |-> q, size |-> place.size, turns |-> place.turns]
  BY <1>2, <1>3
<1> QED BY <1>1, <1>2, <1>4, <1>5 DEF GateInit, GateInv

\* The score of a candidate.
LEMMA PenaltyIs == ASSUME NEW issue PROVE Penalty(issue) \in Nat
BY DEF Penalty

LEMMA RefusedKept ==
  ASSUME GateInv, RouteRefused
  PROVE  GateKept' /\ bestRoute'.score <= bestRoute.score
<1>1. PICK faults \in Candidates, alike \in {10, 80} :
        LET issue == IssueOf(faults, gateChecks)
            new == [faults |-> faults, score |-> alike + Penalty(issue), issue |-> issue] IN
        issue # "none" /\ bestRoute' = IF Better(new, bestRoute) THEN new ELSE bestRoute
  BY DEF RouteRefused
<1>2. PICK issue : issue = IssueOf(faults, gateChecks)
  OBVIOUS
<1>3. PICK n : n = alike + Penalty(issue)
  OBVIOUS
<1>4. PICK new : new = [faults |-> faults, score |-> n, issue |-> issue]
  OBVIOUS
<1>5. issue # "none" /\ bestRoute' = IF new.score < bestRoute.score THEN new ELSE bestRoute
  BY <1>1, <1>2, <1>3, <1>4 DEF Better
<1>6. n \in Nat
  <2>1. Penalty(issue) \in Nat
    BY PenaltyIs
  <2> QED BY <1>3, <2>1
<1>7. new.score = n /\ new.faults \in SUBSET Faults /\ new.issue = issue /\ new.faults = faults
  BY <1>4, CandidatesAre
<1>8. routeResult = "asked" /\ routeResult' = "asked" /\ gateChecks' = gateChecks
  BY DEF RouteRefused, Asked
<1>9. bestRoute.score \in Nat /\ bestRoute.faults \in SUBSET Faults
      /\ (bestRoute = NoRoute \/ (bestRoute.issue = IssueOf(bestRoute.faults, gateChecks) /\ bestRoute.issue # "none"))
  BY <1>8 DEF GateInv, GateKept
<1>10. CASE bestRoute' = new /\ new.score < bestRoute.score
  <2>1. bestRoute'.score \in Nat /\ bestRoute'.faults \in SUBSET Faults /\ bestRoute'.score <= bestRoute.score
    BY <1>6, <1>7, <1>9, <1>10
  <2>2. bestRoute'.issue = IssueOf(bestRoute'.faults, gateChecks) /\ bestRoute'.issue # "none"
    BY <1>2, <1>5, <1>7, <1>10
  <2> QED BY <1>8, <2>1, <2>2 DEF GateKept
<1>11. CASE bestRoute' = bestRoute
  BY <1>8, <1>9, <1>11 DEF GateKept
<1> QED BY <1>5, <1>10, <1>11

LEMMA StepGate == GateInv /\ [GateNext]_gateVars => GateInv'
<1> SUFFICES ASSUME GateInv, [GateNext]_gateVars PROVE GateInv'
  OBVIOUS
<1>1. place' = place /\ rules' = rules /\ gateChecks' = gateChecks
  BY DEF GateNext, gateVars, Malformed, RouteAccepted, RouteRefused, RoundsOver, Recheck
<1>2. GateKept' /\ (routeResult' = "accepted" => IssueOf(bestRoute'.faults, gateChecks) = "none")
  <2>1. CASE Malformed \/ UNCHANGED gateVars
    BY <2>1 DEF GateInv, GateKept, Malformed, gateVars
  <2>2. CASE RouteAccepted
    <3>1. PICK faults \in Candidates : /\ IssueOf(faults, gateChecks) = "none"
                                       /\ bestRoute' = [faults |-> faults, score |-> 0, issue |-> "none"]
      BY <2>2 DEF RouteAccepted
    <3>2. routeResult' = "accepted" /\ bestRoute'.faults = faults /\ bestRoute'.score = 0
      BY <2>2, <3>1 DEF RouteAccepted
    <3>3. faults \in SUBSET Faults
      BY CandidatesAre
    <3> QED BY <3>1, <3>2, <3>3 DEF GateKept
  <2>3. CASE RouteRefused
    <3>1. routeResult' = "asked"
      BY <2>3 DEF RouteRefused, Asked
    <3> QED BY <2>3, <3>1, RefusedKept
  <2>4. CASE RoundsOver
    <3>1. bestRoute' = bestRoute /\ routeResult = "asked" /\ routeResult' \in {"failed", "debt", "blocked"}
          /\ (routeResult' = "debt" => bestRoute # NoRoute /\ bestRoute.issue \in {"template", "era"})
      BY <2>4 DEF RoundsOver, Tolerable
    <3> QED BY <1>1, <3>1 DEF GateInv, GateKept
  <2>5. CASE Recheck
    <3>1. bestRoute' = bestRoute /\ routeResult' \in {"rechecked", "thrown"}
      BY <2>5 DEF Recheck
    <3> QED BY <3>1 DEF GateInv, GateKept
  <2> QED BY <2>1, <2>2, <2>3, <2>4, <2>5 DEF GateNext
<1> QED BY <1>1, <1>2 DEF GateInv

\* What the invariant says of the volume and of a route that is kept.
LEMMA GateTells == GateInv => EveryTurnHasItsChapter /\ HiddenBehindTolerable
<1> SUFFICES ASSUME GateInv PROVE EveryTurnHasItsChapter /\ HiddenBehindTolerable
  OBVIOUS
<1>1. EveryTurnHasItsChapter
  <2> SUFFICES ASSUME place.turns > 0, place.size > place.turns
               PROVE  LET carriers(t) == {k \in 0..place.size - 1 : AssignedTurn([place EXCEPT !.position = k]) = t} IN
                      /\ \A t \in 1..place.turns : Cardinality(carriers(t)) = 1
                      /\ carriers(place.turns) = {place.size - 1}
                      /\ AssignedTurn([place EXCEPT !.position = 0]) = 0
    BY DEF EveryTurnHasItsChapter
  <2>1. PICK q : place = [position |-> q, size |-> place.size, turns |-> place.turns]
    BY DEF GateInv
  <2>2. place.size \in Nat /\ place.turns \in Nat \ {0} /\ place.size > place.turns
    BY DEF GateInv
  <2>3. PICK p : p = place
    OBVIOUS
  <2>4. p = [position |-> q, size |-> p.size, turns |-> p.turns] /\ p.size \in Nat /\ p.turns \in Nat \ {0} /\ p.size > p.turns
    BY <2>1, <2>2, <2>3
  <2>5. LET carriers(t) == {k \in 0..p.size - 1 : AssignedTurn([p EXCEPT !.position = k]) = t} IN
        /\ \A t \in 1..p.turns : Cardinality(carriers(t)) = 1
        /\ carriers(p.turns) = {p.size - 1}
        /\ AssignedTurn([p EXCEPT !.position = 0]) = 0
    BY <2>4, TurnsFall
  <2> QED BY <2>3, <2>5
<1>2. HiddenBehindTolerable
  <2> SUFFICES ASSUME routeResult = "debt", NEW i \in DOMAIN GateOrder, GateOrder[i] \in bestRoute.faults \cap gateChecks
               PROVE  \E j \in 1..i : GateOrder[j] \in bestRoute.faults \cap {"template", "era"}
    BY DEF HiddenBehindTolerable
  <2>1. /\ bestRoute.faults \in SUBSET Faults
        /\ bestRoute.issue = IssueOf(bestRoute.faults, gateChecks) /\ bestRoute.issue \in {"template", "era"}
    BY DEF GateInv, GateKept
  <2>2. PICK m \in 1..15 : /\ IssueOf(bestRoute.faults, gateChecks) = GateOrder[m] /\ GateOrder[m] \in bestRoute.faults
                           /\ \A k \in 1..15 : GateOrder[k] \in bestRoute.faults \cap gateChecks => m <= k
    <3>1. bestRoute.faults \cap gateChecks # {}
      OBVIOUS
    <3> QED BY <2>1, <3>1, IssueIs
  <2>3. i \in 1..15
    BY OrderIs
  <2>4. m \in 1..i
    BY <2>2, <2>3
  <2> QED BY <2>1, <2>2, <2>4
<1> QED BY <1>1, <1>2

\* What was accepted is only thrown away for an outcome the turn was allowed to tell.
LEMMA RecheckStep ==
  ASSUME GateInv, [GateNext]_gateVars, routeResult = "accepted", routeResult' = "thrown"
  PROVE  rules.reserved /\ AssignedTurn(place) # 0 /\ bestRoute.faults \cap Faults \cap {"early"} # {}
<1>1. IssueOf(bestRoute.faults, ChecksAgain(place, rules)) # "none"
  BY DEF GateNext, gateVars, Malformed, RouteAccepted, RouteRefused, RoundsOver, Recheck, Asked
<1>2. bestRoute.faults \in SUBSET Faults /\ IssueOf(bestRoute.faults, ChecksOnce(place, rules)) = "none"
  BY DEF GateInv, GateKept
<1>3. PICK f \in bestRoute.faults : f \in ChecksAgain(place, rules)
  BY <1>1, <1>2, IssueIs
<1>4. f \notin ChecksOnce(place, rules)
  BY <1>2, IssueIs
<1>5. f = "early" /\ rules.reserved /\ AssignedTurn(place) # 0
  BY <1>3, <1>4, ChecksAgree
<1> QED BY <1>2, <1>5

\* For volumes of every size: each turn has its chapter, the gate and the recheck agree, and what is kept of
\* the rounds gets better and hides a fault only behind a tolerable one (director_plan_chapter_route,
\* _audit_route_checkpoint_prefix).
THEOREM GateSound == GateSpec => GateIsSound
<1>1. GateSpec => []GateInv
  BY InitGate, StepGate, PTL DEF GateSpec
<1>2. GateInv /\ [GateNext]_gateVars =>
        [routeResult = "accepted" /\ routeResult' = "thrown" =>
           rules.reserved /\ AssignedTurn(place) # 0 /\ bestRoute.faults \cap Faults \cap {"early"} # {}]_gateVars
  BY RecheckStep
<1>3. GateInv /\ [GateNext]_gateVars => [routeResult' = "asked" => bestRoute'.score <= bestRoute.score]_gateVars
  <2> SUFFICES ASSUME GateInv, GateNext, routeResult' = "asked" PROVE bestRoute'.score <= bestRoute.score
    OBVIOUS
  <2>1. CASE RouteRefused
    BY <2>1, RefusedKept
  <2>2. CASE ~RouteRefused
    <3>1. bestRoute' = bestRoute
      BY <2>2 DEF GateNext, Malformed, RouteAccepted, RoundsOver, Recheck
    <3>2. bestRoute.score \in Nat
      BY DEF GateInv, GateKept
    <3> QED BY <3>1, <3>2
  <2> QED BY <2>1, <2>2
<1> QED BY <1>1, <1>2, <1>3, GateTells, PTL DEF GateSpec, GateIsSound, RecheckAgrees, KeptGetsBetter

-----------------------------------------------------------------------------
(* HookLedger: every book, set of promises, window, lifetime and size of the *)
(* ledger, and any number of changes.                                        *)

----------------------------------------------------------------------------
(* The fold of a record's verdicts.                                        *)

Fresh(p) == [status |-> "open", anchor |-> p]
FoldBody(p, a, f, m) == [n \in 0..m |-> IF n <= p THEN Fresh(p) ELSE Judged(f[n - 1], n, a[n])]

\* There is such a fold, of any number of verdicts.
LEMMA FoldThere ==
  ASSUME NEW p \in Nat, NEW a
  PROVE  \A m \in Nat : \E f : f = FoldBody(p, a, f, m)
<1>1. PICK bad \in SUBSET Nat : bad = {m \in Nat : ~\E f : f = FoldBody(p, a, f, m)}
  OBVIOUS
<1>2. SUFFICES ASSUME bad # {} PROVE FALSE
  BY <1>1
<1>3. PICK m \in bad : \A y \in bad : m <= y
  BY <1>2, LeastOf
<1>4. CASE m = 0
  <2>1. PICK f : f = [n \in 0..0 |-> Fresh(p)]
    OBVIOUS
  <2>2. \A n \in 0..0 : n <= p
    OBVIOUS
  <2>3. f = FoldBody(p, a, f, 0)
    BY <2>1, <2>2 DEF FoldBody
  <2> QED BY <1>1, <1>3, <1>4, <2>3
<1>5. CASE m # 0
  <2>1. PICK j \in Nat : m = j + 1
    BY <1>5
  <2>2. j \notin bad
    BY <1>3, <2>1
  <2>3. PICK g : g = FoldBody(p, a, g, j)
    BY <1>1, <2>2
  <2>4. PICK f : f = [n \in 0..m |-> IF n <= j THEN g[n] ELSE IF m <= p THEN Fresh(p) ELSE Judged(g[j], m, a[m])]
    OBVIOUS
  <2>5. ASSUME NEW n \in 0..m
        PROVE  f[n] = IF n <= p THEN Fresh(p) ELSE Judged(f[n - 1], n, a[n])
    <3>1. CASE n <= j
      <4>1. f[n] = g[n] /\ n \in 0..j
        BY <2>4, <3>1
      <4>2. g[n] = IF n <= p THEN Fresh(p) ELSE Judged(g[n - 1], n, a[n])
        BY <2>3, <4>1 DEF FoldBody
      <4>3. ~(n <= p) => f[n - 1] = g[n - 1]
        BY <2>1, <2>4, <3>1
      <4> QED BY <4>1, <4>2, <4>3
    <3>2. CASE ~(n <= j)
      <4>1. n = m /\ n - 1 = j
        BY <2>1, <3>2
      <4>2. f[n] = IF m <= p THEN Fresh(p) ELSE Judged(g[j], m, a[m])
        BY <2>4, <3>2
      <4>3. f[n - 1] = g[j]
        BY <2>1, <2>4, <4>1
      <4> QED BY <4>1, <4>2, <4>3
    <3> QED BY <3>1, <3>2
  <2>6. f = [n \in 0..m |-> f[n]]
    BY <2>4
  <2>7. f = FoldBody(p, a, f, m)
    BY <2>5, <2>6 DEF FoldBody
  <2> QED BY <1>1, <2>7
<1> QED BY <1>4, <1>5

LEMMA FoldedAt ==
  ASSUME NEW p \in Nat, NEW a, Len(a) \in Nat, NEW n \in 0..Len(a)
  PROVE  Folded(p, a)[n] = IF n <= p THEN Fresh(p) ELSE Judged(Folded(p, a)[n - 1], n, a[n])
<1>1. PICK f : f = FoldBody(p, a, f, Len(a))
  BY FoldThere
<1>2. Folded(p, a) = CHOOSE g : g = FoldBody(p, a, g, Len(a))
  BY DEF Folded, FoldBody, Fresh
<1>3. PICK h : h = Folded(p, a)
  OBVIOUS
<1>4. h = FoldBody(p, a, h, Len(a))
  BY <1>1, <1>2, <1>3
<1>5. h[n] = IF n <= p THEN Fresh(p) ELSE Judged(h[n - 1], n, a[n])
  BY <1>4 DEF FoldBody
<1> QED BY <1>3, <1>5

\* It depends on no later verdict.
LEMMA FoldAgrees ==
  ASSUME NEW p \in Nat, NEW a, NEW b, Len(a) \in Nat, Len(b) = Len(a), NEW m \in 0..Len(a),
         \A n \in 1..m : a[n] = b[n]
  PROVE  Folded(p, a)[m] = Folded(p, b)[m]
<1>1. PICK f, g : f = Folded(p, a) /\ g = Folded(p, b)
  OBVIOUS
<1>2. \A n \in 0..Len(a) : /\ f[n] = IF n <= p THEN Fresh(p) ELSE Judged(f[n - 1], n, a[n])
                           /\ g[n] = IF n <= p THEN Fresh(p) ELSE Judged(g[n - 1], n, b[n])
  BY <1>1, FoldedAt
<1>3. PICK bad : bad = {n \in 0..m : f[n] # g[n]}
  OBVIOUS
<1>n. bad \in SUBSET Nat
  BY <1>3
<1>4. SUFFICES ASSUME bad # {} PROVE FALSE
  BY <1>1, <1>3
<1>5. PICK n \in bad : \A y \in bad : n <= y
  BY <1>4, <1>n, LeastOf
<1>6. n \in 0..m /\ n \in 0..Len(a) /\ f[n] # g[n]
  BY <1>3
<1>7. ~(n <= p)
  BY <1>2, <1>6
<1>8. n - 1 \in 0..m /\ n - 1 \notin bad
  BY <1>5, <1>6, <1>7
<1>9. f[n - 1] = g[n - 1] /\ a[n] = b[n]
  BY <1>3, <1>6, <1>7, <1>8
<1> QED BY <1>2, <1>6, <1>9

\* Where nothing is said, nothing changes.
LEMMA FoldQuiet ==
  ASSUME NEW p \in Nat, NEW a, Len(a) \in Nat, NEW m \in p..Len(a), NEW j \in m..Len(a),
         \A n \in (m + 1)..j : a[n] = "-"
  PROVE  Folded(p, a)[j] = Folded(p, a)[m]
<1>1. PICK f : f = Folded(p, a)
  OBVIOUS
<1>2. \A n \in 0..Len(a) : f[n] = IF n <= p THEN Fresh(p) ELSE Judged(f[n - 1], n, a[n])
  BY <1>1, FoldedAt
<1>3. PICK bad : bad = {n \in m..j : f[n] # f[m]}
  OBVIOUS
<1>n. bad \in SUBSET Nat
  BY <1>3
<1>4. SUFFICES ASSUME bad # {} PROVE FALSE
  BY <1>1, <1>3
<1>5. PICK n \in bad : \A y \in bad : n <= y
  BY <1>4, <1>n, LeastOf
<1>6. n \in m..j /\ f[n] # f[m] /\ n \in Nat
  BY <1>3
<1>7. n # m
  BY <1>6
<1>8. n \in (m + 1)..j /\ n \in 0..Len(a) /\ ~(n <= p)
  BY <1>6, <1>7
<1>9. n - 1 \in m..j /\ n - 1 \notin bad /\ n - 1 \in Nat
  BY <1>5, <1>8
<1>10. f[n - 1] = f[m] /\ a[n] = "-"
  BY <1>3, <1>8, <1>9
<1>11. f[n] = Judged(f[n - 1], n, "-")
  BY <1>2, <1>8, <1>10
<1>12. Judged(f[n - 1], n, "-") = f[n - 1]
  BY DEF Judged
<1> QED BY <1>6, <1>10, <1>11, <1>12

----------------------------------------------------------------------------
(* How a hook is asked about while the book is written in order.           *)

Span == Window * Lifetime

LEMMA SpanIs == Span \in Nat /\ Window \in Nat \ {0} /\ Window <= Span
<1>1. Window \in Nat \ {0} /\ Lifetime \in Nat \ {0}
  BY HookAssumption
<1>2. \A w, l \in Nat \ {0} : w * l \in Nat /\ w <= w * l
  <2>1. SUFFICES ASSUME NEW w \in Nat \ {0}, NEW l \in Nat \ {0} PROVE w * l \in Nat /\ w <= w * l
    OBVIOUS
  <2>2. PICK j \in Nat : l = j + 1
    OBVIOUS
  <2>3. w * l = w * j + w /\ w * j \in Nat
    BY <2>2
  <2> QED BY <2>3
<1> QED BY <1>1, <1>2 DEF Span

\* A hook at p has been asked about at every chapter behind its anchor, up to q, in a book accepted up to k:
\* up to k itself unless it was paid or the span has run out.
AskedUpTo(k, a, e, q) ==
  /\ q \in e.anchor..k /\ q <= e.anchor + Span
  /\ \A n \in (e.anchor + 1)..Len(a) : a[n] = "ignored" <=> n <= q
  /\ e.status # "paid" => q = k \/ q = e.anchor + Span
  /\ e.status = "open" => q = k /\ k - e.anchor < Window
  /\ e.status = "debt" => k - e.anchor >= Window
IsState(p, k, e) ==
  e = [status |-> e.status, anchor |-> e.anchor] /\ e.anchor \in p..k /\ e.status \in {"open", "debt", "paid"}
TendedBy(p, k, a) ==
  /\ \A n \in 1..Len(a) : n <= p \/ n > k => a[n] = "-"
  /\ LET e == Folded(p, a)[Len(a)] IN IsState(p, k, e) /\ \E q \in Nat : AskedUpTo(k, a, e, q)

\* The next chapter is asked exactly if the hook is due to it.
DueNext(k, e) == \/ e.status = "debt" /\ ~(k + 1 - e.anchor > Span)
                 \/ e.status = "open" /\ k + 1 - e.anchor <= Window

LEMMA OpenIsDue ==
  ASSUME NEW p \in Nat, NEW k \in Nat, NEW a, TendedBy(p, k, a)
  PROVE  LET e == Folded(p, a)[Len(a)] IN
         DueNext(k, e) \/ e.status = "paid" \/ (e.status = "debt" /\ k + 1 - e.anchor > Span)
<1>1. PICK e : e = Folded(p, a)[Len(a)]
  OBVIOUS
<1>2. IsState(p, k, e) /\ \E q \in Nat : AskedUpTo(k, a, e, q)
  BY <1>1 DEF TendedBy
<1>3. e.status = "open" => k - e.anchor < Window
  BY <1>2 DEF AskedUpTo
<1>4. e.anchor \in p..k /\ e.status \in {"open", "debt", "paid"}
  BY <1>2 DEF IsState
<1>5. e.status = "open" => k + 1 - e.anchor <= Window
  BY <1>3, <1>4, SpanIs
<1> QED BY <1>1, <1>4, <1>5 DEF DueNext

LEMMA TendedNew ==
  ASSUME NEW k \in Nat, NEW a, Len(a) \in Nat, k < Len(a), \A n \in 1..Len(a) : a[n] = "-"
  PROVE  TendedBy(k + 1, k + 1, a)
<1>1. PICK e : e = Folded(k + 1, a)[Len(a)]
  OBVIOUS
<1>2. e = Folded(k + 1, a)[k + 1]
  BY <1>1, FoldQuiet
<1>3. e = Fresh(k + 1)
  BY <1>2, FoldedAt
<1>4. IsState(k + 1, k + 1, e)
  BY <1>3 DEF IsState, Fresh
<1>5. e.anchor = k + 1 /\ e.status = "open"
  BY <1>3 DEF Fresh
<1>6. AskedUpTo(k + 1, a, e, k + 1)
  BY <1>5, SpanIs DEF AskedUpTo
<1> QED BY <1>1, <1>4, <1>6 DEF TendedBy

LEMMA TendedStep ==
  ASSUME NEW p \in Nat, NEW k \in Nat, NEW a, NEW b, Len(a) \in Nat, Len(b) = Len(a), p <= k, k < Len(a),
         TendedBy(p, k, a), \A n \in 1..Len(a) : n # k + 1 => b[n] = a[n],
         NEW e, e = Folded(p, a)[Len(a)],
         DueNext(k, e) => b[k + 1] \in Verdicts, ~DueNext(k, e) => b[k + 1] = "-"
  PROVE  TendedBy(p, k + 1, b)
<1>1. PICK f : f = Folded(p, b)[Len(b)]
  OBVIOUS
<1>2. \A n \in 1..Len(a) : n <= p \/ n > k => a[n] = "-"
  BY DEF TendedBy
<1>3. IsState(p, k, e) /\ \E q \in Nat : AskedUpTo(k, a, e, q)
  BY DEF TendedBy
<1>4. f = Judged(e, k + 1, b[k + 1])
  <2>1. \A n \in (k + 1)..Len(a) : a[n] = "-"
    BY <1>2
  <2>a. k \in p..Len(a) /\ Len(a) \in k..Len(a)
    OBVIOUS
  <2>2. Folded(p, a)[Len(a)] = Folded(p, a)[k]
    BY <2>1, <2>a, FoldQuiet
  <2>3. \A n \in 1..k : a[n] = b[n]
    OBVIOUS
  <2>4. Folded(p, a)[k] = Folded(p, b)[k]
    BY <2>3, FoldAgrees
  <2>5. \A n \in (k + 1 + 1)..Len(b) : b[n] = "-"
    BY <1>2
  <2>6. f = Folded(p, b)[k + 1]
    <3>1. PICK next \in Nat : next = k + 1
      OBVIOUS
    <3>2. next \in p..Len(b) /\ Len(b) \in next..Len(b)
      BY <3>1
    <3>3. \A n \in (next + 1)..Len(b) : b[n] = "-"
      BY <2>5, <3>1
    <3>4. Folded(p, b)[Len(b)] = Folded(p, b)[next]
      BY <3>2, <3>3, FoldQuiet
    <3> QED BY <1>1, <3>1, <3>4
  <2>7. Folded(p, b)[k + 1] = Judged(Folded(p, b)[k], k + 1, b[k + 1])
    <3>1. k + 1 \in 0..Len(b) /\ ~(k + 1 <= p) /\ k + 1 - 1 = k
      OBVIOUS
    <3> QED BY <3>1, FoldedAt
  <2> QED BY <2>2, <2>4, <2>6, <2>7
<1>5. \A n \in 1..Len(b) : n <= p \/ n > k + 1 => b[n] = "-"
  BY <1>2
<1>6. PICK q \in Nat : AskedUpTo(k, a, e, q)
  BY <1>3
<1>7. PICK s, c : e = [status |-> s, anchor |-> c] /\ c \in p..k /\ s \in {"open", "debt", "paid"}
  BY <1>3 DEF IsState
<1>8. /\ q \in c..k /\ q <= c + Span /\ \A n \in (c + 1)..Len(a) : a[n] = "ignored" <=> n <= q
      /\ s # "paid" => q = k \/ q = c + Span
      /\ s = "open" => q = k /\ k - c < Window
      /\ s = "debt" => k - c >= Window
  BY <1>6, <1>7 DEF AskedUpTo
<1>9. c \in Nat /\ Span \in Nat /\ Window \in Nat /\ Window <= Span
  BY <1>7, SpanIs
<1>10. CASE ~DueNext(k, e)
  <2>1. b[k + 1] = "-"
    BY <1>10
  <2>2. f = e
    BY <1>4, <2>1 DEF Judged
  <2>3. s # "open"
    BY <1>7, <1>8, <1>9, <1>10 DEF DueNext
  <2>4. s = "debt" => q = c + Span
    BY <1>7, <1>8, <1>9, <1>10 DEF DueNext
  <2>5. ASSUME NEW n \in (c + 1)..Len(b)
        PROVE  b[n] = "ignored" <=> n <= q
    <3>1. n \in 1..Len(a) /\ n \in (c + 1)..Len(a) /\ n \in Nat
      BY <1>9
    <3>2. CASE n = k + 1
      <4>1. ~(n <= q)
        BY <1>7, <1>8, <3>2
      <4> QED BY <2>1, <3>2, <4>1
    <3>3. CASE n # k + 1
      <4>1. b[n] = a[n]
        BY <3>1, <3>3
      <4> QED BY <1>8, <3>1, <4>1
    <3> QED BY <3>2, <3>3
  <2>6. AskedUpTo(k + 1, b, f, q)
    BY <1>7, <1>8, <1>9, <2>2, <2>3, <2>4, <2>5 DEF AskedUpTo
  <2>7. IsState(p, k + 1, f)
    BY <1>7, <2>2 DEF IsState
  <2> QED BY <1>1, <1>5, <2>6, <2>7 DEF TendedBy
<1>11. CASE DueNext(k, e)
  <2>1. q = k /\ k + 1 <= c + Span /\ s # "paid" /\ b[k + 1] \in {"paid", "advanced", "ignored"}
    BY <1>7, <1>8, <1>9, <1>11 DEF DueNext, Verdicts
  <2>2. CASE b[k + 1] = "paid"
    <3>1. f = [e EXCEPT !.status = "paid"]
      BY <1>4, <1>7, <2>1, <2>2 DEF Judged
    <3>2. f = [status |-> "paid", anchor |-> c]
      BY <1>7, <3>1
    <3>3. ASSUME NEW n \in (c + 1)..Len(b)
          PROVE  b[n] = "ignored" <=> n <= k
      <4>1. n \in 1..Len(a) /\ n \in (c + 1)..Len(a) /\ n \in Nat
        BY <1>9
      <4>2. CASE n = k + 1
        <5>1. ~(n <= k)
          BY <4>2
        <5> QED BY <2>2, <4>2, <5>1
      <4>3. CASE n # k + 1
        <5>1. b[n] = a[n]
          BY <4>1, <4>3
        <5> QED BY <1>8, <2>1, <4>1, <5>1
      <4> QED BY <4>2, <4>3
    <3>4. AskedUpTo(k + 1, b, f, k)
      BY <1>7, <1>8, <1>9, <2>1, <3>2, <3>3 DEF AskedUpTo
    <3>5. IsState(p, k + 1, f)
      BY <1>7, <3>2 DEF IsState
    <3> QED BY <1>1, <1>5, <3>4, <3>5 DEF TendedBy
  <2>3. CASE b[k + 1] = "advanced"
    <3>1. f = [status |-> "open", anchor |-> k + 1]
      BY <1>4, <1>7, <2>1, <2>3 DEF Judged
    <3>2. \A n \in (k + 1 + 1)..Len(b) : b[n] = "ignored" <=> n <= k + 1
      BY <1>5
    <3>3. AskedUpTo(k + 1, b, f, k + 1)
      BY <1>9, <3>1, <3>2, SpanIs DEF AskedUpTo
    <3>4. IsState(p, k + 1, f)
      BY <3>1 DEF IsState
    <3> QED BY <1>1, <1>5, <3>3, <3>4 DEF TendedBy
  <2>4. CASE b[k + 1] = "ignored"
    <3>1. f = IF Overdue(k + 1, c) THEN [e EXCEPT !.status = "debt"] ELSE e
      BY <1>4, <1>7, <2>1, <2>4 DEF Judged
    <3>2. ASSUME NEW n \in (c + 1)..Len(b)
          PROVE  b[n] = "ignored" <=> n <= k + 1
      <4>1. n \in 1..Len(a) /\ n \in (c + 1)..Len(a) /\ n \in Nat
        BY <1>9
      <4>2. CASE n = k + 1
        <5>1. n <= k + 1
          BY <4>2
        <5> QED BY <2>4, <4>2, <5>1
      <4>3. CASE n # k + 1
        <5>1. b[n] = a[n]
          BY <4>1, <4>3
        <5>2. n <= k <=> n <= k + 1
          BY <4>1, <4>3
        <5> QED BY <1>8, <2>1, <4>1, <5>1, <5>2
      <4> QED BY <4>2, <4>3
    <3>3. CASE k + 1 - c >= Window
      <4>1. f = [status |-> "debt", anchor |-> c]
        BY <1>7, <3>1, <3>3 DEF Overdue
      <4>2. AskedUpTo(k + 1, b, f, k + 1)
        BY <1>7, <1>8, <1>9, <2>1, <3>2, <3>3, <4>1 DEF AskedUpTo
      <4>3. IsState(p, k + 1, f)
        BY <1>7, <4>1 DEF IsState
      <4> QED BY <1>1, <1>5, <4>2, <4>3 DEF TendedBy
    <3>4. CASE ~(k + 1 - c >= Window)
      <4>1. f = [status |-> s, anchor |-> c]
        BY <1>7, <3>1, <3>4 DEF Overdue
      <4>2. s = "open"
        BY <1>7, <1>8, <1>9, <2>1, <3>4
      <4>3. AskedUpTo(k + 1, b, f, k + 1)
        BY <1>7, <1>8, <1>9, <2>1, <3>2, <3>4, <4>1, <4>2 DEF AskedUpTo
      <4>4. IsState(p, k + 1, f)
        BY <1>7, <4>1 DEF IsState
      <4> QED BY <1>1, <1>5, <4>3, <4>4 DEF TendedBy
    <3> QED BY <3>3, <3>4
  <2> QED BY <2>1, <2>2, <2>3, <2>4
<1> QED BY <1>10, <1>11

----------------------------------------------------------------------------
(* The order of the chapters.                                              *)

BookOrder(o) == o \in Seq(Leaves) /\ IsInjective(o)

LEMMA BookIs ==
  ASSUME NEW o, BookOrder(o)
  PROVE  /\ Len(o) \in Nat /\ DOMAIN o = 1..Len(o)
         /\ \A i \in 1..Len(o) : o[i] \in Leaves
         /\ \A i, j \in 1..Len(o) : o[i] = o[j] => i = j
<1>1. o \in Seq(Leaves) /\ IsInjective(o)
  BY DEF BookOrder
<1>2. Len(o) \in Nat /\ DOMAIN o = 1..Len(o)
  BY <1>1, LenProperties
<1>3. \A i \in 1..Len(o) : o[i] \in Leaves
  BY <1>1, ElementOfSeq
<1>4. \A i, j \in DOMAIN o : o[i] = o[j] => i = j
  BY <1>1 DEF IsInjective
<1> QED BY <1>2, <1>3, <1>4

LEMMA PositionIs ==
  ASSUME BookOrder(order)
  PROVE  /\ \A i \in 1..Len(order) : Position(order[i]) = i
         /\ \A c : Position(c) \in 0..Len(order)
         /\ \A c : Position(c) # 0 => order[Position(c)] = c
<1>1. /\ Len(order) \in Nat
      /\ \A i, j \in 1..Len(order) : order[i] = order[j] => i = j
  BY BookIs
<1>2. ASSUME NEW c
      PROVE  \/ \E i \in 1..Len(order) : order[i] = c /\ Position(c) \in 1..Len(order) /\ order[Position(c)] = c
             \/ Position(c) = 0 /\ ~\E i \in 1..Len(order) : order[i] = c
  BY DEF Position
<1>3. ASSUME NEW i \in 1..Len(order)
      PROVE  Position(order[i]) = i
  <2>1. PICK c : c = order[i]
    OBVIOUS
  <2>2. Position(c) \in 1..Len(order) /\ order[Position(c)] = c
    BY <1>2, <2>1
  <2> QED BY <1>1, <2>1, <2>2
<1>4. ASSUME NEW c
      PROVE  Position(c) \in 0..Len(order) /\ (Position(c) # 0 => order[Position(c)] = c)
  BY <1>1, <1>2
<1> QED BY <1>3, <1>4

LEMMA InsertIs ==
  ASSUME NEW o, BookOrder(o), NEW n \in 1..Len(o), NEW c \in Leaves, c \notin ToSet(o)
  PROVE  BookOrder(InsertAt(o, n, c))
<1> DEFINE front == SubSeq(o, 1, n - 1)
           back == SubSeq(o, n, Len(o))
<1>1. /\ Len(o) \in Nat /\ DOMAIN o = 1..Len(o) /\ o \in Seq(Leaves)
      /\ \A i \in 1..Len(o) : o[i] \in Leaves
      /\ \A i, j \in 1..Len(o) : o[i] = o[j] => i = j
  BY BookIs DEF BookOrder
<1>2. front \in Seq(Leaves) /\ Len(front) = n - 1 /\ \A i \in 1..n - 1 : front[i] = o[i]
  <2>1. 1 \in Int /\ n - 1 \in Int /\ \A i \in 1..n - 1 : o[i] \in Leaves
    BY <1>1
  <2>2. /\ front \in Seq(Leaves) /\ Len(front) = IF 1 <= n - 1 THEN n - 1 - 1 + 1 ELSE 0
        /\ \A i \in 1..(n - 1 - 1 + 1) : front[i] = o[1 + i - 1]
    BY <2>1, SubSeqProperties
  <2> HIDE DEF front
  <2> QED BY <1>1, <2>2
<1>3. back \in Seq(Leaves) /\ Len(back) = Len(o) - n + 1 /\ \A i \in 1..Len(o) - n + 1 : back[i] = o[n + i - 1]
  <2>1. n \in Int /\ Len(o) \in Int /\ \A i \in n..Len(o) : o[i] \in Leaves
    BY <1>1
  <2>2. /\ back \in Seq(Leaves) /\ Len(back) = IF n <= Len(o) THEN Len(o) - n + 1 ELSE 0
        /\ \A i \in 1..(Len(o) - n + 1) : back[i] = o[n + i - 1]
    BY <2>1, SubSeqProperties
  <2> HIDE DEF back
  <2> QED BY <1>1, <2>2
<1>4. InsertAt(o, n, c) = front \o <<c>> \o back
  BY DEF InsertAt
<1> HIDE DEF front, back
<1>5. PICK mid : mid = <<c>>
  OBVIOUS
<1>6. mid \in Seq(Leaves) /\ Len(mid) = 1 /\ mid[1] = c
  BY <1>5
<1>7. PICK left : left = front \o mid
  OBVIOUS
<1>8. left \in Seq(Leaves) /\ Len(left) = n /\ \A i \in 1..n : left[i] = IF i < n THEN o[i] ELSE c
  <2>1. /\ left \in Seq(Leaves) /\ Len(left) = Len(front) + Len(mid)
        /\ \A i \in 1..Len(front) + Len(mid) : left[i] = IF i <= Len(front) THEN front[i] ELSE mid[i - Len(front)]
    BY <1>2, <1>6, <1>7, ConcatProperties
  <2>2. Len(front) + Len(mid) = n /\ Len(front) = n - 1
    BY <1>1, <1>2, <1>6
  <2>3. ASSUME NEW i \in 1..n
        PROVE  left[i] = IF i < n THEN o[i] ELSE c
    <3>1. left[i] = IF i <= n - 1 THEN front[i] ELSE mid[i - (n - 1)]
      BY <2>1, <2>2
    <3>2. CASE i < n
      <4>1. i \in 1..n - 1 /\ i <= n - 1
        BY <1>1, <3>2
      <4> QED BY <1>2, <3>1, <3>2, <4>1
    <3>3. CASE i = n
      <4>1. i - (n - 1) = 1 /\ ~(i <= n - 1)
        BY <1>1, <3>3
      <4> QED BY <1>1, <1>6, <3>1, <3>3, <4>1
    <3> QED BY <1>1, <3>2, <3>3
  <2> QED BY <2>1, <2>2, <2>3
<1>9. PICK new : new = left \o back
  OBVIOUS
<1>10. /\ new \in Seq(Leaves) /\ Len(new) = Len(o) + 1
       /\ \A i \in 1..Len(o) + 1 : new[i] = IF i < n THEN o[i] ELSE IF i = n THEN c ELSE o[i - 1]
  <2>1. /\ new \in Seq(Leaves) /\ Len(new) = Len(left) + Len(back)
        /\ \A i \in 1..Len(left) + Len(back) : new[i] = IF i <= Len(left) THEN left[i] ELSE back[i - Len(left)]
    BY <1>3, <1>8, <1>9, ConcatProperties
  <2>2. Len(left) + Len(back) = Len(o) + 1
    BY <1>1, <1>3, <1>8
  <2>3. ASSUME NEW i \in 1..Len(o) + 1
        PROVE  new[i] = IF i < n THEN o[i] ELSE IF i = n THEN c ELSE o[i - 1]
    <3>1. CASE i <= n
      BY <1>8, <2>1, <2>2, <3>1
    <3>2. CASE ~(i <= n)
      <4>1. new[i] = back[i - n]
        BY <1>8, <2>1, <2>2, <3>2
      <4>2. i - n \in 1..Len(o) - n + 1 /\ n + (i - n) - 1 = i - 1
        BY <1>1, <3>2
      <4>3. back[i - n] = o[i - 1]
        BY <1>3, <4>2
      <4> QED BY <3>2, <4>1, <4>3
    <3> QED BY <3>1, <3>2
  <2> QED BY <2>1, <2>2, <2>3
<1>11. \A i \in 1..Len(o) : o[i] # c
  BY <1>1 DEF ToSet
<1>12. ASSUME NEW i \in 1..Len(o) + 1, NEW j \in 1..Len(o) + 1, new[i] = new[j]
       PROVE  i = j
  <2>1. new[i] = IF i < n THEN o[i] ELSE IF i = n THEN c ELSE o[i - 1]
    BY <1>10
  <2>2. new[j] = IF j < n THEN o[j] ELSE IF j = n THEN c ELSE o[j - 1]
    BY <1>10
  <2>3. \A k \in 1..Len(o) + 1 : (k < n => k \in 1..Len(o)) /\ (k > n => k - 1 \in 1..Len(o))
    BY <1>1
  <2>4. (i = n \/ i < n \/ i > n) /\ (j = n \/ j < n \/ j > n) /\ ~(i > n /\ i <= n) /\ ~(j > n /\ j <= n)
    BY <1>1
  <2>5. i # n => \E k \in 1..Len(o) : new[i] = o[k] /\ k = IF i < n THEN i ELSE i - 1
    BY <2>1, <2>3, <2>4
  <2>6. j # n => \E k \in 1..Len(o) : new[j] = o[k] /\ k = IF j < n THEN j ELSE j - 1
    BY <2>2, <2>3, <2>4
  <2>7. i = n <=> j = n
    <3>1. (i = n => new[i] = c) /\ (j = n => new[j] = c)
      BY <1>1, <2>1, <2>2
    <3> QED BY <1>11, <1>12, <2>5, <2>6, <3>1
  <2>8. CASE i # n
    <3>1. PICK k \in 1..Len(o) : new[i] = o[k] /\ k = IF i < n THEN i ELSE i - 1
      BY <2>5, <2>8
    <3>2. PICK m \in 1..Len(o) : new[j] = o[m] /\ m = IF j < n THEN j ELSE j - 1
      BY <2>6, <2>7, <2>8
    <3>3. k = m
      BY <1>1, <1>12, <3>1, <3>2
    <3> QED BY <1>1, <2>7, <2>8, <3>1, <3>2, <3>3
  <2> QED BY <2>7, <2>8
<1>13. DOMAIN new = 1..Len(o) + 1
  BY <1>10, LenProperties
<1>14. InsertAt(o, n, c) = new
  BY <1>4, <1>5, <1>7, <1>9
<1> QED BY <1>10, <1>12, <1>13, <1>14 DEF BookOrder, IsInjective

LEMMA RemoveIs ==
  ASSUME NEW o, BookOrder(o), NEW n \in 1..Len(o)
  PROVE  BookOrder(RemoveAt(o, n))
<1> DEFINE front == SubSeq(o, 1, n - 1)
           back == SubSeq(o, n + 1, Len(o))
<1>1. /\ Len(o) \in Nat /\ DOMAIN o = 1..Len(o) /\ o \in Seq(Leaves)
      /\ \A i \in 1..Len(o) : o[i] \in Leaves
      /\ \A i, j \in 1..Len(o) : o[i] = o[j] => i = j
  BY BookIs DEF BookOrder
<1>2. front \in Seq(Leaves) /\ Len(front) = n - 1 /\ \A i \in 1..n - 1 : front[i] = o[i]
  <2>1. 1 \in Int /\ n - 1 \in Int /\ \A i \in 1..n - 1 : o[i] \in Leaves
    BY <1>1
  <2>2. /\ front \in Seq(Leaves) /\ Len(front) = IF 1 <= n - 1 THEN n - 1 - 1 + 1 ELSE 0
        /\ \A i \in 1..(n - 1 - 1 + 1) : front[i] = o[1 + i - 1]
    BY <2>1, SubSeqProperties
  <2> HIDE DEF front
  <2> QED BY <1>1, <2>2
<1>3. back \in Seq(Leaves) /\ Len(back) = Len(o) - n /\ \A i \in 1..Len(o) - n : back[i] = o[n + i]
  <2>1. n + 1 \in Int /\ Len(o) \in Int /\ \A i \in n + 1..Len(o) : o[i] \in Leaves
    BY <1>1
  <2>2. /\ back \in Seq(Leaves) /\ Len(back) = IF n + 1 <= Len(o) THEN Len(o) - (n + 1) + 1 ELSE 0
        /\ \A i \in 1..(Len(o) - (n + 1) + 1) : back[i] = o[n + 1 + i - 1]
    BY <2>1, SubSeqProperties
  <2> HIDE DEF back
  <2>3. Len(o) - (n + 1) + 1 = Len(o) - n /\ \A i \in 1..Len(o) - n : n + 1 + i - 1 = n + i
    BY <1>1
  <2>4. Len(back) = Len(o) - n
    <3>1. Len(back) = IF n + 1 <= Len(o) THEN Len(o) - (n + 1) + 1 ELSE 0
      BY <2>2
    <3>2. Len(o) \in Nat
      BY <1>1
    <3> QED BY <3>1, <3>2
  <2>5. \A i \in 1..Len(o) - n : back[i] = o[n + i]
    BY <2>2, <2>3
  <2> QED BY <2>2, <2>4, <2>5
<1>4. RemoveAt(o, n) = front \o back
  BY DEF RemoveAt
<1> HIDE DEF front, back
<1>5. PICK new : new = front \o back
  OBVIOUS
<1>6. /\ new \in Seq(Leaves) /\ Len(new) = Len(o) - 1
      /\ \A i \in 1..Len(o) - 1 : new[i] = IF i < n THEN o[i] ELSE o[i + 1]
  <2>1. /\ new \in Seq(Leaves) /\ Len(new) = Len(front) + Len(back)
        /\ \A i \in 1..Len(front) + Len(back) : new[i] = IF i <= Len(front) THEN front[i] ELSE back[i - Len(front)]
    BY <1>2, <1>3, <1>5, ConcatProperties
  <2>2. Len(front) + Len(back) = Len(o) - 1
    <3>1. Len(front) = n - 1 /\ Len(back) = Len(o) - n
      BY <1>2, <1>3
    <3> QED BY <1>1, <3>1
  <2>3. ASSUME NEW i \in 1..Len(o) - 1
        PROVE  new[i] = IF i < n THEN o[i] ELSE o[i + 1]
    <3>a. new[i] = IF i <= n - 1 THEN front[i] ELSE back[i - (n - 1)]
      BY <1>2, <2>1, <2>2
    <3>1. CASE i < n
      <4>1. i \in 1..n - 1 /\ i <= n - 1
        BY <1>1, <3>1
      <4> QED BY <1>2, <3>a, <3>1, <4>1
    <3>2. CASE ~(i < n)
      <4>1. new[i] = back[i - (n - 1)]
        BY <1>1, <3>a, <3>2
      <4>2. i - (n - 1) \in 1..Len(o) - n /\ n + (i - (n - 1)) = i + 1
        BY <1>1, <3>2
      <4>3. back[i - (n - 1)] = o[i + 1]
        BY <1>3, <4>2
      <4> QED BY <3>2, <4>1, <4>3
    <3> QED BY <3>1, <3>2
  <2> QED BY <2>1, <2>2, <2>3
<1>7. ASSUME NEW i \in 1..Len(o) - 1, NEW j \in 1..Len(o) - 1, new[i] = new[j]
      PROVE  i = j
  <2>1. i \in 1..Len(o) /\ i + 1 \in 1..Len(o) /\ j \in 1..Len(o) /\ j + 1 \in 1..Len(o)
    BY <1>1
  <2> QED BY <1>1, <1>6, <1>7, <2>1
<1>8. DOMAIN new = 1..Len(o) - 1
  BY <1>6, LenProperties
<1>9. RemoveAt(o, n) = new
  BY <1>4, <1>5
<1> QED BY <1>6, <1>7, <1>8, <1>9 DEF BookOrder, IsInjective

----------------------------------------------------------------------------
(* The ledger.                                                             *)

RecordOk(r) ==
  /\ r = [text |-> r.text, since |-> r.since, evals |-> r.evals]
  /\ r.text \in Promises \cup {NoPromise} /\ r.since \in Nat /\ r.evals \in [Leaves -> Verdicts \cup {"-"}]
  /\ r.text = NoPromise => r = NoRecord

BookOk(copy) == copy = [c \in Leaves |-> copy[c]] /\ \A c \in Leaves : RecordOk(copy[c])

\* no two records of the list have one place
Listed(copy) == \A c, d \in Entries(copy) : c # d => copy[c].since # copy[d].since

LEMMA NoRecordOk == RecordOk(NoRecord) /\ NoRecord.text = NoPromise /\ NoRecord.evals = [e \in Leaves |-> "-"]
<1>1. NoRecord = [text |-> NoPromise, since |-> 0, evals |-> [e \in Leaves |-> "-"]]
  BY DEF NoRecord
<1>2. [e \in Leaves |-> "-"] \in [Leaves -> Verdicts \cup {"-"}]
  OBVIOUS
<1> QED BY <1>1, <1>2 DEF RecordOk

\* Of too many records the oldest one goes, and no other.
Room(copy, gone) ==
  /\ gone \subseteq Entries(copy)
  /\ Trimmed(copy) = [c \in Leaves |-> IF c \in gone THEN NoRecord ELSE copy[c]]
  /\ Entries(Trimmed(copy)) = Entries(copy) \ gone
  /\ IsFiniteSet(Entries(copy) \ gone) /\ Cardinality(Entries(copy) \ gone) <= LedgerLimit
  /\ \A x \in gone : \A d \in Entries(copy) : d # x => copy[x].since < copy[d].since
  /\ gone # {} => Cardinality(Entries(copy)) > LedgerLimit
  /\ Cardinality(Entries(copy)) > LedgerLimit => Cardinality(Entries(copy) \ gone) = LedgerLimit

LEMMA TrimmedIs ==
  ASSUME NEW copy, BookOk(copy), IsFiniteSet(Entries(copy)), Cardinality(Entries(copy)) <= LedgerLimit + 1, Listed(copy)
  PROVE  \E gone : Room(copy, gone)
<1>1. PICK E : E = Entries(copy)
  OBVIOUS
<1>2. IsFiniteSet(E) /\ Cardinality(E) \in Nat /\ Cardinality(E) <= LedgerLimit + 1 /\ LedgerLimit \in Nat \ {0}
  BY <1>1, FS_CardinalityType, HookAssumption
<1>3. E \subseteq Leaves /\ \A c \in Leaves : c \notin E <=> copy[c] = NoRecord
  BY <1>1 DEF Entries
<1>4. PICK many \in BOOLEAN : many <=> Cardinality(E) > LedgerLimit
  OBVIOUS
<1>5. Trimmed(copy) = [c \in Leaves |-> IF many /\ \A d \in E : copy[c].since <= copy[d].since THEN NoRecord ELSE copy[c]]
  BY <1>1, <1>4 DEF Trimmed
<1>6. copy = [c \in Leaves |-> copy[c]] /\ \A c \in Leaves : copy[c].since \in Nat
  BY DEF BookOk, RecordOk
<1>7. CASE ~many
  <2>1. Trimmed(copy) = [c \in Leaves |-> IF c \in {} THEN NoRecord ELSE copy[c]]
    BY <1>5, <1>7
  <2>2. Trimmed(copy) = copy
    BY <1>6, <2>1
  <2>3. Entries(Trimmed(copy)) = E \ {}
    BY <1>1, <2>2
  <2>4. E \ {} = E
    OBVIOUS
  <2>5. Cardinality(E) <= LedgerLimit
    BY <1>2, <1>4, <1>7
  <2>6. ~(Cardinality(E) > LedgerLimit)
    BY <1>4, <1>7
  <2>7. Room(copy, {})
    BY <1>1, <1>2, <2>1, <2>3, <2>4, <2>5, <2>6 DEF Room
  <2> QED BY <2>7
<1>8. CASE many
  <2>1. Cardinality(E) = LedgerLimit + 1
    BY <1>2, <1>4, <1>8
  <2>2. PICK places : places = {copy[d].since : d \in E}
    OBVIOUS
  <2>3. E # {}
    BY <1>2, <2>1, FS_EmptySet
  <2>4. places \in SUBSET Nat /\ places # {}
    BY <1>3, <1>6, <2>2, <2>3
  <2>5. Min(places) \in places /\ \A y \in places : Min(places) <= y
    BY <2>4, LeastOf
  <2>6. PICK x \in E : copy[x].since = Min(places)
    BY <2>2, <2>5
  <2>7. \A d \in E : copy[x].since <= copy[d].since
    BY <2>2, <2>5, <2>6
  <2>8. \A d \in E : d # x => copy[x].since < copy[d].since
    <3>1. \A d \in E : d # x => copy[x].since # copy[d].since
      BY <1>1, <2>6 DEF Listed
    <3>2. \A d \in E : copy[d].since \in Nat
      BY <1>3, <1>6
    <3> QED BY <2>7, <3>1, <3>2
  <2>9. ASSUME NEW c \in Leaves
        PROVE  (IF many /\ \A d \in E : copy[c].since <= copy[d].since THEN NoRecord ELSE copy[c])
                 = IF c \in {x} THEN NoRecord ELSE copy[c]
    <3>1. CASE c = x
      BY <1>8, <2>7, <3>1
    <3>2. CASE c \notin E
      BY <1>3, <3>2
    <3>3. CASE c \in E /\ c # x
      <4>1. copy[x].since < copy[c].since
        BY <2>8, <3>3
      <4>2. ~(copy[c].since <= copy[x].since)
        BY <1>3, <1>6, <4>1
      <4> QED BY <3>3, <4>2
    <3> QED BY <3>1, <3>2, <3>3
  <2>10. PICK new : new = Trimmed(copy)
    OBVIOUS
  <2>11. new = [c \in Leaves |-> IF c \in {x} THEN NoRecord ELSE copy[c]]
    BY <1>5, <2>9, <2>10
  <2>12. Entries(new) = E \ {x}
    BY <1>3, <2>11 DEF Entries
  <2>13. IsFiniteSet(E \ {x}) /\ Cardinality(E \ {x}) = LedgerLimit
    <3>1. IsFiniteSet(E \ {x}) /\ Cardinality(E \ {x}) = Cardinality(E) - 1
      BY <1>2, <2>6, FS_RemoveElement
    <3> QED BY <1>2, <2>1, <3>1
  <2>14. Cardinality(E \ {x}) <= LedgerLimit
    BY <1>2, <2>13
  <2>15. {x} \subseteq E /\ \A y \in {x} : \A d \in E : d # y => copy[y].since < copy[d].since
    BY <2>6, <2>8
  <2>16. Room(copy, {x})
    BY <1>1, <1>4, <1>8, <2>10, <2>11, <2>12, <2>13, <2>14, <2>15 DEF Room
  <2> QED BY <2>16
<1> QED BY <1>4, <1>7, <1>8

\* What an acceptance at n makes of the record of another chapter, and of its own.
Verdict(n, v, c) == IF c \in Due(n) THEN v[c] ELSE ledger[c].evals[order[n]]
Answered(n, v, c, r) ==
  /\ RecordOk(r) /\ r.text = ledger[c].text /\ r.since = ledger[c].since
  /\ \A l \in Leaves \ {order[n]} : r.evals[l] = ledger[c].evals[l]
  /\ r.evals[order[n]] = Verdict(n, v, c)
  /\ r = NoRecord <=> ledger[c] = NoRecord

LEMMA SettledIs ==
  ASSUME BookOrder(order), BookOk(ledger), NEW n \in 1..Len(order), NEW v \in [Due(n) -> Verdicts], NEW c \in Leaves
  PROVE  /\ Answered(n, v, c, Settled(n, Due(n), v)[c])
         /\ c = order[n] => Settled(n, Due(n), v)[c] = ledger[c]
<1>1. PICK r : r = Settled(n, Due(n), v)[c]
  OBVIOUS
<1>2. r = IF c \in Due(n) THEN [ledger[c] EXCEPT !.evals[order[n]] = v[c]] ELSE ledger[c]
  BY <1>1 DEF Settled
<1>3. PICK old : old = ledger[c]
  OBVIOUS
<1>4. RecordOk(old)
  BY <1>3 DEF BookOk
<1>5. order[n] \in Leaves
  BY BookIs
<1>6. CASE c \notin Due(n)
  BY <1>1, <1>2, <1>3, <1>4, <1>6 DEF Answered, Verdict
<1>7. CASE c \in Due(n)
  <2>1. PICK t, s, e : old = [text |-> t, since |-> s, evals |-> e]
    BY <1>4 DEF RecordOk
  <2>2. t \in Promises \cup {NoPromise} /\ s \in Nat /\ e \in [Leaves -> Verdicts \cup {"-"}]
    BY <1>4, <2>1 DEF RecordOk
  <2>3. r = [old EXCEPT !.evals[order[n]] = v[c]]
    BY <1>2, <1>3, <1>7
  <2>4. r = [text |-> t, since |-> s, evals |-> [e EXCEPT ![order[n]] = v[c]]]
    BY <2>1, <2>3
  <2>5. v[c] \in Verdicts
    BY <1>7
  <2>6. PICK f : f = [e EXCEPT ![order[n]] = v[c]]
    OBVIOUS
  <2>7. f \in [Leaves -> Verdicts \cup {"-"}] /\ f[order[n]] = v[c] /\ \A l \in Leaves \ {order[n]} : f[l] = e[l]
    BY <1>5, <2>2, <2>5, <2>6
  <2>8. old # NoRecord /\ IsDue(c, n)
    BY <1>3, <1>7 DEF Due, IsDue
  <2>9. t # NoPromise
    BY <1>4, <2>1, <2>8 DEF RecordOk
  <2>10. r = [text |-> t, since |-> s, evals |-> f]
    BY <2>4, <2>6
  <2>11. RecordOk(r)
    BY <2>2, <2>7, <2>9, <2>10 DEF RecordOk
  <2>12. r # NoRecord
    BY <2>9, <2>10, NoRecordOk
  <2>13. Answered(n, v, c, r)
    BY <1>3, <1>7, <2>1, <2>7, <2>8, <2>10, <2>11, <2>12 DEF Answered, Verdict
  <2>14. c # order[n]
    <3>1. Position(c) \in 1..n - 1
      BY <2>8 DEF IsDue
    <3>2. Position(order[n]) = n
      BY PositionIs
    <3> QED BY <3>1, <3>2
  <2> QED BY <1>1, <2>13, <2>14
<1> QED BY <1>6, <1>7

HookTypes ==
  /\ BookOrder(order) /\ planned \in [Leaves -> Promises \cup {NoPromise}] /\ turns \in Nat /\ IsFiniteSet(accepted)
  /\ BookOk(ledger) /\ Listed(ledger)
  /\ IsFiniteSet(Entries(ledger)) /\ Cardinality(Entries(ledger)) <= LedgerLimit
  /\ \A c \in Entries(ledger) : ledger[c].since < Progress + turns

\* The ledger before and after the first record had to go.
Page(n, v, copy, gone) ==
  /\ v \in [Due(n) -> Verdicts]
  /\ BookOk(copy) /\ Listed(copy)
  /\ \A c \in Leaves \ {order[n]} : Answered(n, v, c, copy[c])
  /\ copy[order[n]] = Recorded(ledger[order[n]], planned[order[n]])
  /\ IsFiniteSet(Entries(copy))
  /\ \A c \in Entries(copy) : copy[c].since <= Progress + turns
  /\ Room(copy, gone) /\ order[n] \notin gone
  /\ ledger' = Trimmed(copy)

LEMMA RecordedIs ==
  ASSUME NEW old, RecordOk(old), NEW t \in Promises \cup {NoPromise}, Progress + turns \in Nat
  PROVE  LET r == Recorded(old, t) IN
         /\ RecordOk(r)
         /\ r = NoRecord <=> t = NoPromise
         /\ t # NoPromise => r = old \/ r = [text |-> t, since |-> Progress + turns, evals |-> [e \in Leaves |-> "-"]]
         /\ r = old \/ r.text # old.text
<1>1. NoRecord = [text |-> NoPromise, since |-> 0, evals |-> [e \in Leaves |-> "-"]]
  BY DEF NoRecord
<1>2. PICK r : r = Recorded(old, t)
  OBVIOUS
<1>3. PICK clock \in Nat : clock = Progress + turns
  OBVIOUS
<1>4. r = IF t = NoPromise THEN NoRecord ELSE IF old.text = t THEN old ELSE [NoRecord EXCEPT !.text = t, !.since = clock]
  BY <1>2, <1>3 DEF Recorded
<1>5. CASE t = NoPromise
  <2>1. r = NoRecord
    BY <1>4, <1>5
  <2>2. old = NoRecord \/ old.text # NoPromise
    BY DEF RecordOk
  <2> QED BY <1>2, <1>5, <2>1, <2>2, NoRecordOk
<1>6. CASE t # NoPromise /\ old.text = t
  <2>1. r = old
    BY <1>4, <1>6
  <2>2. old # NoRecord
    BY <1>6, NoRecordOk
  <2> QED BY <1>2, <1>6, <2>1, <2>2
<1>7. CASE t # NoPromise /\ old.text # t
  <2>1. r = [text |-> t, since |-> clock, evals |-> [e \in Leaves |-> "-"]]
    BY <1>1, <1>4, <1>7
  <2>2. [e \in Leaves |-> "-"] \in [Leaves -> Verdicts \cup {"-"}]
    OBVIOUS
  <2>3. RecordOk(r)
    BY <1>7, <2>1, <2>2 DEF RecordOk
  <2>4. r.text = t /\ r # NoRecord
    BY <1>7, <2>1, NoRecordOk
  <2> QED BY <1>2, <1>3, <1>7, <2>1, <2>3, <2>4
<1> QED BY <1>5, <1>6, <1>7

LEMMA PageIs ==
  ASSUME HookTypes, NEW n \in 1..Len(order), AcceptPage(n)
  PROVE  \E v, copy, gone : Page(n, v, copy, gone)
<1>1. /\ BookOrder(order) /\ planned \in [Leaves -> Promises \cup {NoPromise}] /\ turns \in Nat /\ IsFiniteSet(accepted)
      /\ BookOk(ledger) /\ Listed(ledger)
      /\ IsFiniteSet(Entries(ledger)) /\ Cardinality(Entries(ledger)) <= LedgerLimit
      /\ \A c \in Entries(ledger) : ledger[c].since < Progress + turns
  BY DEF HookTypes
<1>2. Progress + turns \in Nat
  BY <1>1, FS_CardinalityType DEF Progress
<1>3. PICK clock \in Nat : clock = Progress + turns
  BY <1>2
<1>4. PICK own \in Leaves : own = order[n]
  BY <1>1, BookIs
<1>5. PICK v \in [Due(n) -> Verdicts] :
        ledger' = Trimmed([Settled(n, Due(n), v) EXCEPT ![order[n]]
                            = Recorded(Settled(n, Due(n), v)[order[n]], planned[order[n]])])
  BY DEF AcceptPage
<1>6. PICK was : was = Settled(n, Due(n), v)
  OBVIOUS
<1>7. was[own] = ledger[own] /\ \A c \in Leaves : Answered(n, v, c, was[c])
  BY <1>1, <1>4, <1>6, SettledIs
<1>8. was = [c \in Leaves |-> was[c]]
  BY <1>6 DEF Settled
<1>9. PICK mine : mine = Recorded(ledger[own], planned[own])
  OBVIOUS
<1>10. PICK copy : copy = [was EXCEPT ![own] = mine]
  OBVIOUS
<1>11. ledger' = Trimmed(copy)
  BY <1>4, <1>5, <1>6, <1>7, <1>9, <1>10
<1>12. copy[own] = mine /\ \A c \in Leaves : c # own => copy[c] = was[c]
  BY <1>8, <1>10
<1>13. copy = [c \in Leaves |-> copy[c]]
  BY <1>8, <1>10
<1>14. RecordOk(ledger[own]) /\ planned[own] \in Promises \cup {NoPromise}
  BY <1>1 DEF BookOk
<1>15. /\ RecordOk(mine)
       /\ mine = NoRecord \/ mine = ledger[own] \/ mine.since = clock
  <2>1. PICK old, t : old = ledger[own] /\ t = planned[own]
    OBVIOUS
  <2>2. RecordOk(Recorded(old, t))
    BY <1>2, <1>14, <2>1, RecordedIs
  <2>3. Recorded(old, t) = NoRecord <=> t = NoPromise
    BY <1>2, <1>14, <2>1, RecordedIs
  <2>4. t # NoPromise => Recorded(old, t) = old \/ Recorded(old, t) = [text |-> t, since |-> Progress + turns, evals |-> [e \in Leaves |-> "-"]]
    BY <1>2, <1>14, <2>1, RecordedIs
  <2> QED BY <1>3, <1>9, <2>1, <2>2, <2>3, <2>4
<1>16. \A c \in Leaves : RecordOk(copy[c])
  BY <1>7, <1>12, <1>15 DEF Answered
<1>17. BookOk(copy)
  BY <1>13, <1>16 DEF BookOk
<1>18. \A c \in Leaves : c # own => copy[c].since = ledger[c].since /\ (c \in Entries(copy) <=> c \in Entries(ledger))
  BY <1>7, <1>12 DEF Answered, Entries
<1>19. own \in Entries(copy) => mine.since = clock \/ (own \in Entries(ledger) /\ mine.since = ledger[own].since)
  BY <1>12, <1>15 DEF Entries
<1>20. Entries(copy) \subseteq Leaves /\ Entries(ledger) \subseteq Leaves
  BY DEF Entries
<1>21. \A c \in Entries(ledger) : ledger[c].since \in Nat /\ ledger[c].since < clock
  BY <1>1, <1>3, <1>20 DEF BookOk, RecordOk
<1>22. \A c \in Entries(copy) : c # own => c \in Entries(ledger) /\ copy[c].since = ledger[c].since
  BY <1>18, <1>20
<1>23. \A c \in Entries(copy) : copy[c].since <= clock
  BY <1>12, <1>19, <1>21, <1>22
<1>24. Listed(copy)
  <2>1. SUFFICES ASSUME NEW c \in Entries(copy), NEW d \in Entries(copy), c # d PROVE copy[c].since # copy[d].since
    BY DEF Listed
  <2>2. \A x, y \in Entries(ledger) : x # y => ledger[x].since # ledger[y].since
    BY <1>1 DEF Listed
  <2>3. CASE c # own /\ d # own
    BY <1>22, <2>1, <2>2, <2>3
  <2>4. CASE c = own
    <3>1. d \in Entries(ledger) /\ copy[d].since = ledger[d].since /\ ledger[d].since < clock /\ ledger[d].since \in Nat
      BY <1>21, <1>22, <2>1, <2>4
    <3>2. copy[c].since = clock \/ (c \in Entries(ledger) /\ copy[c].since = ledger[c].since)
      BY <1>12, <1>19, <2>4
    <3> QED BY <2>1, <2>2, <3>1, <3>2
  <2>5. CASE d = own
    <3>1. c \in Entries(ledger) /\ copy[c].since = ledger[c].since /\ ledger[c].since < clock /\ ledger[c].since \in Nat
      BY <1>21, <1>22, <2>1, <2>5
    <3>2. copy[d].since = clock \/ (d \in Entries(ledger) /\ copy[d].since = ledger[d].since)
      BY <1>12, <1>19, <2>5
    <3> QED BY <2>1, <2>2, <3>1, <3>2
  <2> QED BY <2>3, <2>4, <2>5
<1>25. Entries(copy) \subseteq Entries(ledger) \cup {own}
  BY <1>18, <1>20
<1>26. IsFiniteSet(Entries(copy)) /\ Cardinality(Entries(copy)) <= LedgerLimit + 1
  <2>1. PICK E, F : E = Entries(ledger) /\ F = Entries(copy)
    OBVIOUS
  <2>2. IsFiniteSet(E) /\ Cardinality(E) \in Nat /\ Cardinality(E) <= LedgerLimit /\ LedgerLimit \in Nat
    BY <1>1, <2>1, FS_CardinalityType, HookAssumption
  <2>3. IsFiniteSet(E \cup {own}) /\ Cardinality(E \cup {own}) = IF own \in E THEN Cardinality(E) ELSE Cardinality(E) + 1
    BY <2>2, FS_AddElement
  <2>4. IsFiniteSet(F) /\ Cardinality(F) <= Cardinality(E \cup {own})
    BY <1>25, <2>1, <2>3, FS_Subset
  <2>5. Cardinality(F) \in Nat
    BY <2>4, FS_CardinalityType
  <2> QED BY <2>1, <2>2, <2>3, <2>4, <2>5
<1>27. PICK gone : Room(copy, gone)
  BY <1>17, <1>24, <1>26, TrimmedIs
<1>28. own \notin gone
  <2>1. SUFFICES ASSUME own \in gone PROVE FALSE
    OBVIOUS
  <2>2. /\ own \in Entries(copy) /\ Cardinality(Entries(copy)) > LedgerLimit
        /\ Cardinality(Entries(copy) \ gone) = LedgerLimit
        /\ \A d \in Entries(copy) : d # own => copy[own].since < copy[d].since
    BY <1>27, <2>1 DEF Room
  <2>3. own \notin Entries(ledger)
    <3>1. SUFFICES ASSUME own \in Entries(ledger) PROVE FALSE
      OBVIOUS
    <3>2. Entries(copy) \subseteq Entries(ledger)
      BY <1>25, <3>1
    <3>3. Cardinality(Entries(copy)) <= Cardinality(Entries(ledger))
      BY <1>1, <3>2, FS_Subset
    <3>4. Cardinality(Entries(copy)) \in Nat /\ Cardinality(Entries(ledger)) \in Nat /\ LedgerLimit \in Nat
      BY <1>1, <1>26, FS_CardinalityType, HookAssumption
    <3> QED BY <1>1, <2>2, <3>3, <3>4
  <2>4. mine.since = clock
    BY <1>19, <2>2, <2>3
  <2>5. Entries(copy) \ gone # {}
    <3>1. LedgerLimit # 0
      BY HookAssumption
    <3> QED BY <2>2, <3>1, FS_EmptySet
  <2>6. PICK d \in Entries(copy) : d # own
    BY <2>1, <2>5
  <2>7. clock < copy[d].since /\ copy[d].since = ledger[d].since /\ d \in Entries(ledger)
    BY <1>12, <1>22, <2>2, <2>4, <2>6
  <2> QED BY <1>21, <2>7
<1>29. \A c \in Leaves \ {own} : Answered(n, v, c, copy[c])
  BY <1>7, <1>12
<1>30. Page(n, v, copy, gone)
  BY <1>3, <1>4, <1>9, <1>11, <1>12, <1>17, <1>23, <1>24, <1>26, <1>27, <1>28, <1>29 DEF Page
<1> QED BY <1>30

----------------------------------------------------------------------------
(* The types.                                                              *)

LEMMA HookTypesInit ==
  HookInit => HookTypes
<1>1. SUFFICES ASSUME HookInit PROVE HookTypes
  OBVIOUS
<1>2. BookOrder(order) /\ planned \in [Leaves -> Promises \cup {NoPromise}] /\ turns \in Nat
  BY <1>1, HookAssumption DEF HookInit, BookOrder
<1>3. accepted = {} /\ ledger = [c \in Leaves |-> NoRecord]
  BY <1>1 DEF HookInit
<1>4. BookOk(ledger) /\ Entries(ledger) = {}
  BY <1>3, NoRecordOk DEF BookOk, Entries
<1>5. Listed(ledger)
  BY <1>4 DEF Listed
<1>6. IsFiniteSet({}) /\ Cardinality({}) = 0 /\ 0 <= LedgerLimit
  BY FS_EmptySet, HookAssumption
<1> QED BY <1>2, <1>3, <1>4, <1>5, <1>6 DEF HookTypes

LEMMA HookTypesPage ==
  ASSUME HookTypes, NEW n \in 1..Len(order), AcceptPage(n)
  PROVE  HookTypes' /\ Progress + turns < (Progress + turns)'
<1>1. PICK v, copy, gone : Page(n, v, copy, gone)
  BY PageIs
<1>2. /\ BookOk(copy) /\ Listed(copy) /\ IsFiniteSet(Entries(copy))
      /\ \A c \in Entries(copy) : copy[c].since <= Progress + turns
      /\ Room(copy, gone) /\ ledger' = Trimmed(copy)
  BY <1>1 DEF Page
<1>3. PICK led : led = ledger'
  OBVIOUS
<1>4. /\ led = [c \in Leaves |-> IF c \in gone THEN NoRecord ELSE copy[c]]
      /\ Entries(led) = Entries(copy) \ gone
      /\ IsFiniteSet(Entries(led)) /\ Cardinality(Entries(led)) <= LedgerLimit
  BY <1>2, <1>3 DEF Room
<1>5. BookOk(led)
  BY <1>2, <1>4, NoRecordOk DEF BookOk
<1>6. \A c \in Entries(led) : led[c] = copy[c] /\ c \in Entries(copy)
  BY <1>4 DEF Entries
<1>7. Listed(led)
  BY <1>2, <1>6 DEF Listed
<1>8. BookOrder(order) /\ planned \in [Leaves -> Promises \cup {NoPromise}] /\ turns \in Nat /\ IsFiniteSet(accepted)
  BY DEF HookTypes
<1>9. order' = order /\ planned' = planned
  BY DEF AcceptPage
<1>10. /\ turns' \in Nat /\ IsFiniteSet(accepted') /\ Cardinality(accepted') + turns' = Cardinality(accepted) + turns + 1
       /\ Cardinality(accepted) + turns \in Nat
  <2>1. Cardinality(accepted) \in Nat
    BY <1>8, FS_CardinalityType
  <2>2. CASE order[n] \in accepted
    <3>1. turns' = turns + 1 /\ accepted' = accepted
      BY <2>2 DEF AcceptPage, AnotherTurn
    <3> QED BY <1>8, <2>1, <3>1
  <2>3. CASE order[n] \notin accepted
    <3>1. turns' = turns /\ accepted' = accepted \cup {order[n]}
      BY <2>3 DEF AcceptPage
    <3>2. IsFiniteSet(accepted \cup {order[n]}) /\ Cardinality(accepted \cup {order[n]}) = Cardinality(accepted) + 1
      BY <1>8, <2>3, FS_AddElement
    <3> QED BY <1>8, <2>1, <3>1, <3>2
  <2> QED BY <2>2, <2>3
<1>11. Progress + turns < Cardinality(accepted') + turns'
  BY <1>10 DEF Progress
<1>12. \A c \in Entries(led) : led[c].since < Cardinality(accepted') + turns'
  <2>1. \A c \in Leaves : copy[c].since \in Nat
    BY <1>2 DEF BookOk, RecordOk
  <2>2. \A c \in Entries(led) : copy[c].since <= Progress + turns /\ copy[c].since \in Nat /\ led[c].since = copy[c].since
    BY <1>2, <1>6, <2>1 DEF Entries
  <2>3. PICK x, y \in Nat : x = Progress + turns /\ y = Cardinality(accepted') + turns' /\ x < y
    BY <1>10, <1>11 DEF Progress
  <2> QED BY <2>2, <2>3
<1>13. HookTypes'
  BY <1>3, <1>4, <1>5, <1>7, <1>8, <1>9, <1>10, <1>12 DEF HookTypes, Progress
<1> QED BY <1>11, <1>13 DEF Progress

LEMMA HookTypesStep ==
  HookTypes /\ [HookNext]_hookVars => HookTypes'
<1>1. SUFFICES ASSUME HookTypes, [HookNext]_hookVars PROVE HookTypes'
  OBVIOUS
<1>2. /\ BookOrder(order) /\ planned \in [Leaves -> Promises \cup {NoPromise}] /\ turns \in Nat /\ IsFiniteSet(accepted)
      /\ BookOk(ledger) /\ Listed(ledger)
      /\ IsFiniteSet(Entries(ledger)) /\ Cardinality(Entries(ledger)) <= LedgerLimit
      /\ \A c \in Entries(ledger) : ledger[c].since < Progress + turns
  BY <1>1 DEF HookTypes
<1>3. \A c \in Entries(ledger) : ledger[c].since \in Nat
  BY <1>2 DEF BookOk, RecordOk, Entries
<1>4. Cardinality(accepted) \in Nat
  BY <1>2, FS_CardinalityType
<1>5. CASE UNCHANGED hookVars
  BY <1>2, <1>5 DEF hookVars, HookTypes, Progress
<1>6. ASSUME NEW n \in 1..Len(order), AcceptPage(n) PROVE HookTypes'
  BY <1>1, <1>6, HookTypesPage
<1>7. ASSUME BookOrder(order)', planned' \in [Leaves -> Promises \cup {NoPromise}], turns' = turns + 1, ledger' = ledger,
             IsFiniteSet(accepted'), Cardinality(accepted') + 1 >= Cardinality(accepted), Cardinality(accepted') \in Nat
      PROVE  HookTypes'
  <2>1. \A c \in Entries(ledger) : ledger[c].since < Cardinality(accepted') + turns'
    <3>1. PICK x, y \in Nat : x = Progress + turns /\ y = Cardinality(accepted') + turns' /\ x <= y
      BY <1>2, <1>4, <1>7 DEF Progress
    <3> QED BY <1>2, <1>3, <3>1
  <2> QED BY <1>2, <1>7, <2>1 DEF HookTypes, Progress
<1>8. ASSUME NEW n \in 1..Len(order), Replan(n) PROVE HookTypes'
  <2>1. planned' \in [Leaves -> Promises \cup {NoPromise}]
    BY <1>2, <1>8 DEF Replan
  <2> QED BY <1>2, <1>4, <1>7, <1>8, <2>1 DEF Replan, AnotherTurn
<1>9. ASSUME NEW n \in 1..Len(order), InsertPage(n) PROVE HookTypes'
  <2>1. PICK c \in Leaves \ ToSet(order) : order' = InsertAt(order, n, c)
    BY <1>9 DEF InsertPage
  <2>2. BookOrder(order')
    BY <1>2, <2>1, InsertIs
  <2>3. BookOrder(order)'
    BY <2>2
  <2> QED BY <1>2, <1>4, <1>7, <1>9, <2>3 DEF InsertPage, AnotherTurn
<1>10. ASSUME NEW n \in 1..Len(order), DeletePage(n) PROVE HookTypes'
  <2>1. BookOrder(order')
    BY <1>2, <1>10, RemoveIs DEF DeletePage
  <2>2. BookOrder(order)'
    BY <2>1
  <2>3. IsFiniteSet(accepted') /\ Cardinality(accepted') + 1 >= Cardinality(accepted) /\ Cardinality(accepted') \in Nat
    <3>1. PICK x : x = order[n]
      OBVIOUS
    <3>2. accepted' = accepted \ {x}
      BY <1>10, <3>1 DEF DeletePage
    <3>3. /\ IsFiniteSet(accepted \ {x})
          /\ Cardinality(accepted \ {x}) = IF x \in accepted THEN Cardinality(accepted) - 1 ELSE Cardinality(accepted)
      BY <1>2, FS_RemoveElement
    <3>4. Cardinality(accepted \ {x}) \in Nat
      BY <3>3, FS_CardinalityType
    <3> QED BY <1>4, <3>2, <3>3, <3>4
  <2> QED BY <1>2, <1>7, <1>10, <2>2, <2>3 DEF DeletePage, AnotherTurn
<1> QED BY <1>1, <1>5, <1>6, <1>8, <1>9, <1>10 DEF HookNext

----------------------------------------------------------------------------
(* What is asked does not depend on later chapters.                        *)

\* The room is made at the cost of the hooks that have enough newer ones: of those the ledger knew, only these.
LEMMA CrowdedAreGone ==
  ASSUME HookTypes, NEW n \in 1..Len(order), NEW v, NEW copy, NEW gone, Page(n, v, copy, gone),
         NEW c \in Entries(copy), c # order[n]
  PROVE  c \in gone <=> c \in Crowded
<1>1. PICK led : led = ledger'
  OBVIOUS
<1>2. PICK newer : newer = {d \in Entries(led) : led[d].since > ledger[c].since}
  OBVIOUS
<1>3. c \in Leaves
  BY DEF Entries
<1>4. c \in Crowded <=> Cardinality(newer) >= LedgerLimit
  BY <1>1, <1>2, <1>3 DEF Crowded
<1>5. /\ gone \subseteq Entries(copy) /\ Entries(led) = Entries(copy) \ gone
      /\ led = [d \in Leaves |-> IF d \in gone THEN NoRecord ELSE copy[d]]
      /\ IsFiniteSet(Entries(led)) /\ Cardinality(Entries(led)) <= LedgerLimit
      /\ \A d \in Entries(copy) : c \in gone /\ d # c => copy[c].since < copy[d].since
      /\ c \in gone => Cardinality(Entries(led)) = LedgerLimit
  BY <1>1 DEF Page, Room
<1>6. copy[c].since = ledger[c].since /\ copy[c].since \in Nat
  BY <1>3 DEF Page, Answered, BookOk, RecordOk
<1>7. LedgerLimit \in Nat /\ Cardinality(Entries(led)) \in Nat
  BY <1>5, HookAssumption, FS_CardinalityType
<1>8. CASE c \in gone
  <2>1. ASSUME NEW d \in Entries(led) PROVE led[d].since > ledger[c].since
    <3>1. d \in Entries(copy) /\ d # c /\ d \in Leaves /\ d \notin gone
      BY <1>5, <1>8 DEF Entries
    <3>2. led[d] = copy[d]
      BY <1>5, <3>1
    <3>3. copy[c].since < copy[d].since
      BY <1>5, <1>8, <3>1
    <3>4. copy[d].since \in Nat
      BY <3>1 DEF Page, BookOk, RecordOk
    <3> QED BY <1>6, <3>2, <3>3, <3>4
  <2>2. newer = Entries(led)
    BY <1>2, <2>1
  <2> QED BY <1>4, <1>5, <1>7, <1>8, <2>2
<1>9. CASE c \notin gone
  <2>1. c \in Entries(led) /\ led[c] = copy[c]
    BY <1>3, <1>5, <1>9
  <2>2. c \notin newer
    <3>1. ~(led[c].since > ledger[c].since)
      BY <1>6, <2>1
    <3> QED BY <1>2, <3>1
  <2>3. newer \subseteq Entries(led) \ {c}
    BY <1>2, <2>2
  <2>4. IsFiniteSet(Entries(led) \ {c}) /\ Cardinality(Entries(led) \ {c}) = Cardinality(Entries(led)) - 1
    BY <1>5, <2>1, FS_RemoveElement
  <2>5. IsFiniteSet(newer) /\ Cardinality(newer) <= Cardinality(Entries(led)) - 1
    BY <2>3, <2>4, FS_Subset
  <2>6. Cardinality(newer) \in Nat
    BY <2>5, FS_CardinalityType
  <2>7. ~(Cardinality(newer) >= LedgerLimit)
    BY <1>5, <1>7, <2>5, <2>6
  <2> QED BY <1>4, <1>9, <2>7
<1> QED BY <1>8, <1>9

\* What a chapter up to n is told of a record depends on no verdict of the chapter at n.
LEMMA StateStands ==
  ASSUME BookOrder(order), order' = order, NEW c \in Leaves, NEW n \in 1..Len(order), NEW m \in 1..n,
         \A l \in Leaves \ {order[n]} : ledger'[c].evals[l] = ledger[c].evals[l]
  PROVE  HookState(c, m)' = HookState(c, m)
<1>1. Len(order) \in Nat /\ \A i \in 1..Len(order) : order[i] \in Leaves
  BY BookIs
<1>2. PICK led : led = ledger'
  OBVIOUS
<1>3. ASSUME NEW i \in 1..Len(order)
      PROVE  (IF SeenBefore(i, m) THEN led[c].evals[order[i]] ELSE "-") = IF SeenBefore(i, m) THEN ledger[c].evals[order[i]] ELSE "-"
  <2>1. CASE SeenBefore(i, m)
    <3>1. i # n
      BY <1>1, <2>1 DEF SeenBefore
    <3>2. order[i] \in Leaves \ {order[n]}
      BY <1>1, <3>1, BookIs
    <3> QED BY <1>2, <2>1, <3>2
  <2>2. CASE ~SeenBefore(i, m)
    BY <2>2
  <2> QED BY <2>1, <2>2
<1>4. [i \in 1..Len(order) |-> IF SeenBefore(i, m) THEN led[c].evals[order[i]] ELSE "-"] = Answers(c, m)
  BY <1>3 DEF Answers
<1>5. Answers(c, m)' = [i \in 1..Len(order) |-> IF SeenBefore(i, m) THEN led[c].evals[order[i]] ELSE "-"]
  BY <1>2 DEF Answers
<1>6. Position(c)' = Position(c)
  BY DEF Position
<1>7. Answers(c, m)' = Answers(c, m)
  BY <1>4, <1>5
<1> QED BY <1>6, <1>7 DEF HookState

LEMMA AsOfPage ==
  ASSUME HookTypes, NEW n \in 1..Len(order), AcceptPage(n), NEW m \in 1..n
  PROVE  Due(m)' = Due(m) \ Crowded
<1>1. PICK v, copy, gone : Page(n, v, copy, gone)
  BY PageIs
<1>2. BookOrder(order) /\ order' = order
  BY DEF HookTypes, AcceptPage
<1>3. PICK led : led = ledger'
  OBVIOUS
<1>4. led = [c \in Leaves |-> IF c \in gone THEN NoRecord ELSE copy[c]]
  BY <1>1, <1>3 DEF Page, Room
<1>5. Len(order) \in Nat /\ Position(order[n]) = n
  BY <1>2, PositionIs, BookIs
<1>6. ASSUME NEW c \in Leaves
      PROVE  IsDue(c, m)' <=> IsDue(c, m) /\ c \notin Crowded
  <2>1. Position(c)' = Position(c)
    BY <1>2 DEF Position
  <2>2. PICK r : r = led[c]
    OBVIOUS
  <2>3. PICK due \in BOOLEAN : due <=> \/ HookState(c, m).status = "debt"
                                       \/ HookState(c, m).status = "open" /\ m - HookState(c, m).anchor <= Window
    OBVIOUS
  <2>4. IsDue(c, m) <=> ledger[c] # NoRecord /\ Position(c) \in 1..m - 1 /\ due
    BY <2>3 DEF IsDue
  <2>5. CASE Position(c) \notin 1..m - 1
    BY <2>1, <2>5 DEF IsDue
  <2>6. CASE Position(c) \in 1..m - 1
    <3>1. c # order[n]
      BY <1>5, <2>6
    <3>2. Answered(n, v, c, copy[c])
      BY <1>1, <3>1 DEF Page
    <3>3. ledger[c] # NoRecord <=> c \in Entries(copy)
      BY <3>2 DEF Answered, Entries
    <3>4. c \in Entries(copy) => (c \in gone <=> c \in Crowded)
      BY <1>1, <3>1, CrowdedAreGone
    <3>5. led[c] # NoRecord <=> c \in Entries(copy) /\ c \notin gone
      BY <1>4 DEF Entries
    <3>6. CASE led[c] = NoRecord
      <4>1. ~IsDue(c, m)'
        BY <1>3, <3>6 DEF IsDue
      <4> QED BY <2>4, <3>3, <3>4, <3>5, <3>6, <4>1
    <3>7. CASE led[c] # NoRecord
      <4>1. led[c] = copy[c]
        BY <1>4, <3>5, <3>7
      <4>2. \A l \in Leaves \ {order[n]} : led[c].evals[l] = ledger[c].evals[l]
        BY <3>2, <4>1 DEF Answered
      <4>3. HookState(c, m)' = HookState(c, m)
        BY <1>2, <1>3, <4>2, StateStands
      <4>4. IsDue(c, m)' <=> led[c] # NoRecord /\ Position(c) \in 1..m - 1 /\ due
        BY <1>3, <2>1, <2>3, <4>3 DEF IsDue
      <4> QED BY <2>4, <2>6, <3>3, <3>4, <3>5, <3>7, <4>4
    <3> QED BY <3>6, <3>7
  <2> QED BY <2>5, <2>6
<1>7. Due(m)' = {c \in Leaves : IsDue(c, m)'}
  BY DEF Due
<1>8. Due(m) \ Crowded = {c \in Leaves : IsDue(c, m) /\ c \notin Crowded}
  BY DEF Due
<1> QED BY <1>6, <1>7, <1>8

LEMMA AsOfStep ==
  HookTypes /\ [HookNext]_hookVars => [StandsAsOf]_hookVars
<1>1. SUFFICES ASSUME HookTypes, HookNext PROVE StandsAsOf
  OBVIOUS
<1>2. PICK touched : touched = {n \in 1..Len(order) :
                    \/ order[n] \notin Crowded /\ ledger'[order[n]].text # ledger[order[n]].text
                    \/ \E c \in Leaves \ Crowded : ledger'[c].evals[order[n]] # ledger[c].evals[order[n]]}
  OBVIOUS
<1>3. SUFFICES ASSUME ledger' # ledger, order' = order, touched # {}, NEW m \in 1..Min(touched)
               PROVE  Due(m)' = Due(m) \ Crowded
  BY <1>2 DEF StandsAsOf
<1>4. PICK n \in 1..Len(order) : AcceptPage(n)
  BY <1>1, <1>3 DEF HookNext, Replan, InsertPage, DeletePage
<1>5. PICK v, copy, gone : Page(n, v, copy, gone)
  BY <1>1, <1>4, PageIs
<1>6. BookOrder(order) /\ Len(order) \in Nat
  BY <1>1, BookIs DEF HookTypes
<1>7. PICK led : led = ledger'
  OBVIOUS
<1>8. led = [c \in Leaves |-> IF c \in gone THEN NoRecord ELSE copy[c]]
  BY <1>5, <1>7 DEF Page, Room
<1>9. PICK own \in Leaves : own = order[n]
  BY <1>6, BookIs
<1>10. ASSUME NEW c \in Leaves, c # own, c \notin Crowded
       PROVE  led[c].text = ledger[c].text /\ \A l \in Leaves \ {own} : led[c].evals[l] = ledger[c].evals[l]
  <2>1. Answered(n, v, c, copy[c])
    BY <1>5, <1>9, <1>10 DEF Page
  <2>2. c \notin gone
    <3>1. c \in gone => c \in Entries(copy)
      BY <1>5 DEF Page, Room
    <3> QED BY <1>1, <1>5, <1>9, <1>10, <3>1, CrowdedAreGone
  <2>3. led[c] = copy[c]
    BY <1>8, <2>2
  <2> QED BY <1>9, <2>1, <2>3 DEF Answered
<1>11. led[own] = ledger[own] \/ led[own].text # ledger[own].text
  <2>1. own \notin gone /\ copy[own] = Recorded(ledger[own], planned[own])
    BY <1>5, <1>9 DEF Page
  <2>2. RecordOk(ledger[own]) /\ planned[own] \in Promises \cup {NoPromise} /\ Progress + turns \in Nat
    BY <1>1, FS_CardinalityType DEF HookTypes, BookOk, Progress
  <2>3. PICK old, t : old = ledger[own] /\ t = planned[own]
    OBVIOUS
  <2>4. Recorded(old, t) = old \/ Recorded(old, t).text # old.text
    BY <2>2, <2>3, RecordedIs
  <2> QED BY <1>8, <2>1, <2>3, <2>4
<1>12. PICK k \in touched : TRUE
  BY <1>3
<1>13. k \in 1..Len(order) /\ order[k] \in Leaves
  BY <1>2, <1>6, BookIs
<1>14. k # n => order[k] # own
  BY <1>6, <1>9, <1>13, BookIs
<1>15. \/ order[k] \notin Crowded /\ led[order[k]].text # ledger[order[k]].text
       \/ \E c \in Leaves \ Crowded : led[c].evals[order[k]] # ledger[c].evals[order[k]]
  BY <1>2, <1>7, <1>12
<1>16. n \in touched
  <2>1. SUFFICES ASSUME k # n PROVE n \in touched
    BY <1>12
  <2>2. ~(order[k] \notin Crowded /\ led[order[k]].text # ledger[order[k]].text)
    BY <1>10, <1>13, <1>14, <2>1
  <2>3. PICK c \in Leaves \ Crowded : led[c].evals[order[k]] # ledger[c].evals[order[k]]
    BY <1>15, <2>2
  <2>4. c = own
    BY <1>10, <1>13, <1>14, <2>1, <2>3
  <2>5. led[own].text # ledger[own].text /\ own \notin Crowded
    BY <1>11, <2>3, <2>4
  <2> QED BY <1>2, <1>7, <1>9, <2>5
<1>17. touched \in SUBSET Nat
  BY <1>2, <1>6
<1>18. Min(touched) \in touched /\ Min(touched) <= n
  BY <1>3, <1>16, <1>17, LeastOf
<1>19. m \in 1..n
  <2>1. PICK least : least = Min(touched)
    OBVIOUS
  <2>2. m \in 1..least
    BY <2>1
  <2>3. least \in Nat /\ least <= n
    BY <1>17, <1>18, <2>1
  <2>4. n \in Nat
    BY <1>6
  <2> QED BY <2>2, <2>3, <2>4
<1> QED BY <1>1, <1>4, <1>19, AsOfPage

----------------------------------------------------------------------------
(* A book written in order.                                                *)

\* The chapters accepted are the first ones; a record's place in the list is that of its chapter; each
\* record has been asked about as it should; a promise without a record had to make room for later ones.
AllAnswers(c) == Answers(c, Len(order) + 1)
Tended(c) ==
  /\ Position(c) \in 1..Progress /\ ledger[c].since = Position(c) - 1
  /\ TendedBy(Position(c), Progress, AllAnswers(c))
CrowdedOut(n) ==
  Cardinality(Entries(ledger)) = LedgerLimit /\ \A d \in Entries(ledger) : Position(d) > n
Straight ==
  turns = 0 =>
    /\ Progress <= Len(order) /\ accepted = {order[i] : i \in 1..Progress}
    /\ \A c \in Entries(ledger) : Tended(c)
    /\ \A n \in 1..Progress : planned[order[n]] # NoPromise /\ ledger[order[n]] = NoRecord => CrowdedOut(n)

LEMMA AnswersAre ==
  ASSUME BookOrder(order), NEW c
  PROVE  /\ Len(AllAnswers(c)) = Len(order)
         /\ \A i \in 1..Len(order) : AllAnswers(c)[i] = ledger[c].evals[order[i]]
<1>1. Len(order) \in Nat
  BY BookIs
<1>2. \A i \in 1..Len(order) : SeenBefore(i, Len(order) + 1)
  BY <1>1 DEF SeenBefore
<1>3. AllAnswers(c) = [i \in 1..Len(order) |-> ledger[c].evals[order[i]]]
  BY <1>2 DEF AllAnswers, Answers
<1>4. PICK a : a = AllAnswers(c)
  OBVIOUS
<1>5. a = [i \in 1..Len(order) |-> ledger[c].evals[order[i]]]
  BY <1>3, <1>4
<1>6. Len(a) = Len(order)
  BY <1>1, <1>5
<1> QED BY <1>4, <1>5, <1>6

LEMMA StateMeans ==
  ASSUME NEW c, NEW m, NEW end, end = Folded(Position(c), Answers(c, m))[Len(order)]
  PROVE  HookState(c, m) = IF end.status = "debt" /\ GivenUp(m, end.anchor) THEN [end EXCEPT !.status = "expired"] ELSE end
  BY DEF HookState

LEMMA DueMeans ==
  ASSUME NEW c, NEW m, NEW h, h = HookState(c, m)
  PROVE  IsDue(c, m) <=> ledger[c] # NoRecord /\ Position(c) \in 1..m - 1
                         /\ (h.status = "debt" \/ (h.status = "open" /\ m - h.anchor <= Window))
  BY DEF IsDue

\* What the next chapter is told of a record.
LEMMA NextIs ==
  ASSUME BookOrder(order), NEW c \in Entries(ledger), Progress \in Nat, Progress <= Len(order), Tended(c),
         NEW e, e = Folded(Position(c), AllAnswers(c))[Len(order)]
  PROVE  /\ HookState(c, Progress + 1) = IF e.status = "debt" /\ Progress + 1 - e.anchor > Span
                                          THEN [status |-> "expired", anchor |-> e.anchor] ELSE e
         /\ c \in Due(Progress + 1) <=> DueNext(Progress, e)
         /\ e = [status |-> e.status, anchor |-> e.anchor] /\ e.anchor \in Nat /\ e.status \in {"open", "debt", "paid"}
<1>a. PICK k \in Nat : k = Progress
  OBVIOUS
<1>b. PICK p, a : p = Position(c) /\ a = AllAnswers(c)
  OBVIOUS
<1>1. k = Progress /\ p = Position(c) /\ a = AllAnswers(c)
  BY <1>a, <1>b
<1>2. p \in 1..k /\ TendedBy(p, k, a) /\ k <= Len(order) /\ Len(order) \in Nat
  BY <1>1, BookIs DEF Tended
<1>3. Len(a) = Len(order)
  BY <1>1, AnswersAre
<1>4. \A i \in 1..Len(order) : i > k => a[i] = "-"
  BY <1>2, <1>3 DEF TendedBy
<1>5. IsState(p, k, e)
  BY <1>1, <1>2, <1>3 DEF TendedBy
<1>6. PICK s, n : e = [status |-> s, anchor |-> n] /\ n \in p..k /\ s \in {"open", "debt", "paid"}
  BY <1>5 DEF IsState
<1>0. PICK next \in Nat : next = k + 1
  OBVIOUS
<1>7. Answers(c, next) = a
  <2>1. ASSUME NEW i \in 1..Len(order)
        PROVE  (IF SeenBefore(i, next) THEN ledger[c].evals[order[i]] ELSE "-") = ledger[c].evals[order[i]]
    <3>1. a[i] = ledger[c].evals[order[i]]
      BY <1>1, AnswersAre
    <3>2. CASE i > k
      BY <1>4, <3>1, <3>2
    <3>3. CASE ~(i > k)
      <4>1. SeenBefore(i, next)
        BY <1>0, <1>2, <3>3 DEF SeenBefore
      <4> QED BY <4>1
    <3> QED BY <3>2, <3>3
  <2>2. \A i \in 1..Len(order) : SeenBefore(i, Len(order) + 1)
    BY <1>2 DEF SeenBefore
  <2>3. a = [i \in 1..Len(order) |-> ledger[c].evals[order[i]]]
    BY <1>1, <2>2 DEF AllAnswers, Answers
  <2>4. Answers(c, next) = [i \in 1..Len(order) |-> IF SeenBefore(i, next) THEN ledger[c].evals[order[i]] ELSE "-"]
    BY DEF Answers
  <2> QED BY <2>1, <2>3, <2>4
<1>8. Folded(p, Answers(c, next))[Len(order)] = e
  BY <1>1, <1>7
<1>9. PICK h : h = HookState(c, next)
  OBVIOUS
<1>10. h = IF e.status = "debt" /\ next - e.anchor > Span THEN [e EXCEPT !.status = "expired"] ELSE e
  <2>1. PICK m : m = next
    OBVIOUS
  <2>2. Folded(Position(c), Answers(c, m))[Len(order)] = e
    BY <1>8, <1>1, <2>1
  <2>3. h = IF e.status = "debt" /\ GivenUp(m, e.anchor) THEN [e EXCEPT !.status = "expired"] ELSE e
    BY <1>9, <2>1, <2>2, StateMeans
  <2>4. GivenUp(m, e.anchor) <=> next - e.anchor > Span
    BY <2>1 DEF GivenUp, Span
  <2> QED BY <2>3, <2>4
<1>11. h = IF s = "debt" /\ next - n > Span THEN [status |-> "expired", anchor |-> n] ELSE e
  BY <1>6, <1>10
<1>12. c \in Due(next) <=> h.status = "debt" \/ (h.status = "open" /\ next - h.anchor <= Window)
  <2>1. c \in Leaves /\ ledger[c] # NoRecord
    BY DEF Entries
  <2>2. Position(c) \in 1..next - 1
    BY <1>0, <1>1, <1>2
  <2>3. PICK m : m = next
    OBVIOUS
  <2>4. IsDue(c, m) <=> ledger[c] # NoRecord /\ Position(c) \in 1..m - 1
                         /\ (h.status = "debt" \/ (h.status = "open" /\ m - h.anchor <= Window))
    BY <1>9, <2>3, DueMeans
  <2> QED BY <2>1, <2>2, <2>3, <2>4 DEF Due
<1>13. DueNext(k, e) <=> \/ s = "debt" /\ ~(next - n > Span)
                         \/ s = "open" /\ next - n <= Window
  BY <1>0, <1>6 DEF DueNext
<1>14. c \in Due(next) <=> DueNext(k, e)
  <2>1. CASE s = "debt" /\ next - n > Span
    <3>1. h.status = "expired"
      BY <1>11, <2>1
    <3> QED BY <1>12, <1>13, <2>1, <3>1
  <2>2. CASE ~(s = "debt" /\ next - n > Span)
    <3>1. h.status = s /\ h.anchor = n
      BY <1>6, <1>11, <2>2
    <3> QED BY <1>12, <1>13, <2>2, <3>1
  <2> QED BY <2>1, <2>2
<1>15. n \in Nat /\ e.status = s /\ e.anchor = n
  BY <1>2, <1>6
<1> QED BY <1>0, <1>1, <1>6, <1>9, <1>11, <1>14, <1>15

LEMMA StraightInit ==
  HookInit => Straight
<1>1. SUFFICES ASSUME HookInit PROVE Straight
  OBVIOUS
<1>2. accepted = {} /\ ledger = [c \in Leaves |-> NoRecord] /\ BookOrder(order)
  BY <1>1, HookAssumption DEF HookInit, BookOrder
<1>3. Progress = 0 /\ Entries(ledger) = {} /\ Len(order) \in Nat
  BY <1>2, FS_EmptySet, BookIs DEF Progress, Entries
<1>4. accepted = {order[i] : i \in 1..Progress} /\ 1..Progress = {}
  BY <1>2, <1>3
<1> QED BY <1>3, <1>4 DEF Straight

LEMMA StraightPage ==
  ASSUME HookTypes, Straight, NEW n \in 1..Len(order), AcceptPage(n)
  PROVE  Straight'
<1>1. SUFFICES ASSUME turns' = 0 PROVE Straight'
  BY DEF Straight
<1>2. PICK v, copy, gone : Page(n, v, copy, gone)
  BY PageIs
<1>3. PICK led : led = ledger'
  OBVIOUS
<1>4. /\ BookOrder(order) /\ order' = order /\ planned' = planned /\ turns \in Nat /\ IsFiniteSet(accepted)
      /\ BookOk(ledger) /\ planned \in [Leaves -> Promises \cup {NoPromise}]
  BY DEF HookTypes, AcceptPage
<1>5. Len(order) \in Nat /\ Progress \in Nat
  BY <1>4, BookIs, FS_CardinalityType DEF Progress
<1>6. PICK own \in Leaves : own = order[n]
  BY <1>4, BookIs
<1>7. own \notin accepted /\ turns = 0 /\ accepted' = accepted \cup {own}
  <2>1. turns' # turns + 1
    BY <1>1, <1>4
  <2>2. own \notin accepted
    BY <1>6, <2>1 DEF AcceptPage, AnotherTurn
  <2> QED BY <1>1, <1>6, <2>2 DEF AcceptPage
<1>8. PICK k \in Nat : k = Progress
  BY <1>5
<1>9. /\ k <= Len(order) /\ accepted = {order[i] : i \in 1..k}
      /\ \A c \in Entries(ledger) : Tended(c)
      /\ \A i \in 1..k : planned[order[i]] # NoPromise /\ ledger[order[i]] = NoRecord => CrowdedOut(i)
  BY <1>7, <1>8 DEF Straight
<1>10. n = k + 1
  <2>1. n <= k + 1
    BY <1>8 DEF AcceptPage
  <2>2. ~(n <= k)
    BY <1>5, <1>6, <1>7, <1>9
  <2> QED BY <1>5, <2>1, <2>2
<1>11. Progress' = k + 1
  <2>1. Cardinality(accepted \cup {own}) = Cardinality(accepted) + 1
    BY <1>4, <1>7, FS_AddElement
  <2> QED BY <1>7, <1>8, <2>1 DEF Progress
<1>12. accepted' = {order[i] : i \in 1..k + 1}
  BY <1>6, <1>7, <1>9, <1>10
<1>13. \A c : Position(c)' = Position(c)
  BY <1>4 DEF Position
<1>14. Position(own) = k + 1
  BY <1>4, <1>6, <1>10, PositionIs
<1>15. own \notin Entries(ledger) /\ ledger[own] = NoRecord
  BY <1>8, <1>9, <1>14 DEF Tended, Entries
<1>16. /\ led = [c \in Leaves |-> IF c \in gone THEN NoRecord ELSE copy[c]]
       /\ gone \subseteq Entries(copy) /\ Entries(led) = Entries(copy) \ gone /\ own \notin gone
       /\ copy[own] = Recorded(NoRecord, planned[own])
  BY <1>2, <1>3, <1>6, <1>15 DEF Page, Room
<1>17. \A c \in Entries(led) : led[c] = copy[c] /\ c \in Entries(copy) /\ c \in Leaves /\ led[c] # NoRecord
  BY <1>16 DEF Entries
<1>18. \A c \in Leaves : c # own => Answered(n, v, c, copy[c])
  BY <1>2, <1>6 DEF Page
<1>19. \A c \in Entries(copy) : c # own => c \in Entries(ledger)
  BY <1>18 DEF Answered, Entries
<1>20. \A c : AllAnswers(c)' = [i \in 1..Len(order) |-> led[c].evals[order[i]]]
  <2>1. \A i \in 1..Len(order) : SeenBefore(i, Len(order) + 1)
    BY <1>5 DEF SeenBefore
  <2>2. \A c : AllAnswers(c)' = [i \in 1..Len(order) |-> IF SeenBefore(i, Len(order) + 1) THEN led[c].evals[order[i]] ELSE "-"]
    BY <1>3, <1>4 DEF AllAnswers, Answers
  <2> QED BY <2>1, <2>2
<1>21. planned[own] \in Promises \cup {NoPromise} /\ Progress + turns = k
  BY <1>4, <1>7, <1>8
<1>22. /\ planned[own] = NoPromise <=> copy[own] = NoRecord
       /\ copy[own] # NoRecord => copy[own] = [text |-> planned[own], since |-> k, evals |-> [e \in Leaves |-> "-"]]
  <2>1. PICK t : t = planned[own]
    OBVIOUS
  <2>2. RecordOk(NoRecord) /\ Progress + turns \in Nat /\ t \in Promises \cup {NoPromise}
    BY <1>21, <2>1, NoRecordOk
  <2>3. Recorded(NoRecord, t) = NoRecord <=> t = NoPromise
    BY <2>2, RecordedIs
  <2>4. t # NoPromise => Recorded(NoRecord, t) = NoRecord \/ Recorded(NoRecord, t) = [text |-> t, since |-> Progress + turns, evals |-> [e \in Leaves |-> "-"]]
    BY <2>2, RecordedIs
  <2> QED BY <1>16, <1>21, <2>1, <2>3, <2>4
<1>23. ASSUME NEW c \in Entries(led)
       PROVE  /\ Position(c) \in 1..k + 1 /\ led[c].since = Position(c) - 1
              /\ TendedBy(Position(c), k + 1, AllAnswers(c)')
  <2>1. PICK b : b = AllAnswers(c)'
    OBVIOUS
  <2>2. b = [i \in 1..Len(order) |-> led[c].evals[order[i]]]
    BY <1>20, <2>1
  <2>3. Len(b) = Len(order)
    BY <1>5, <2>2
  <2>4. CASE c = own
    <3>1. led[c] = [text |-> planned[own], since |-> k, evals |-> [e \in Leaves |-> "-"]]
      BY <1>17, <1>22, <2>4
    <3>2. \A i \in 1..Len(order) : order[i] \in Leaves
      BY <1>4, BookIs
    <3>3. \A i \in 1..Len(b) : b[i] = "-"
      BY <2>2, <2>3, <3>1, <3>2
    <3>4. k < Len(b) /\ Len(b) \in Nat
      BY <1>5, <1>10, <2>3
    <3>5. TendedBy(k + 1, k + 1, b)
      BY <3>3, <3>4, TendedNew
    <3>6. led[c].since = k
      BY <3>1
    <3> QED BY <1>14, <2>1, <2>4, <3>5, <3>6
  <2>5. CASE c # own
    <3>1. c \in Leaves /\ c \in Entries(ledger) /\ led[c] = copy[c] /\ Answered(n, v, c, copy[c])
      BY <1>17, <1>18, <1>19, <2>5
    <3>2. Tended(c)
      BY <1>9, <3>1
    <3>3. PICK p, a : p = Position(c) /\ a = AllAnswers(c)
      OBVIOUS
    <3>4. p \in 1..k /\ ledger[c].since = p - 1 /\ TendedBy(p, k, a)
      BY <1>8, <3>2, <3>3 DEF Tended
    <3>5. Len(a) = Len(order) /\ \A i \in 1..Len(order) : a[i] = ledger[c].evals[order[i]]
      BY <1>4, <3>3, AnswersAre
    <3>6. PICK e : e = Folded(p, a)[Len(a)]
      OBVIOUS
    <3>7. c \in Due(k + 1) <=> DueNext(k, e)
      BY <1>4, <1>5, <1>8, <1>9, <3>1, <3>2, <3>3, <3>5, <3>6, NextIs
    <3>8. \A i \in 1..Len(a) : i # k + 1 => b[i] = a[i]
      <4>1. SUFFICES ASSUME NEW i \in 1..Len(order), i # n PROVE b[i] = a[i]
        BY <1>10, <3>5
      <4>2. order[i] \in Leaves \ {order[n]}
        BY <1>4, <4>1, BookIs
      <4>3. led[c].evals[order[i]] = ledger[c].evals[order[i]]
        BY <3>1, <4>2 DEF Answered
      <4> QED BY <2>2, <3>5, <4>3
    <3>9. b[k + 1] = IF c \in Due(k + 1) THEN v[c] ELSE a[k + 1]
      <4>1. led[c].evals[order[n]] = IF c \in Due(n) THEN v[c] ELSE ledger[c].evals[order[n]]
        BY <3>1 DEF Answered, Verdict
      <4> QED BY <1>10, <2>2, <3>5, <4>1
    <3>10. a[k + 1] = "-"
      <4>1. k + 1 \in 1..Len(a) /\ k + 1 > k
        BY <1>10, <3>5
      <4> QED BY <3>4, <4>1 DEF TendedBy
    <3>11. DueNext(k, e) => b[k + 1] \in Verdicts
      <4>1. v \in [Due(k + 1) -> Verdicts]
        BY <1>2, <1>10 DEF Page
      <4> QED BY <3>7, <3>9, <4>1
    <3>12. ~DueNext(k, e) => b[k + 1] = "-"
      BY <3>7, <3>9, <3>10
    <3>13. p \in Nat /\ p <= k /\ k < Len(a) /\ Len(a) \in Nat /\ Len(b) = Len(a)
      BY <1>5, <1>10, <2>3, <3>4, <3>5
    <3>14. TendedBy(p, k + 1, b)
      BY <3>4, <3>6, <3>8, <3>11, <3>12, <3>13, TendedStep
    <3>15. led[c].since = ledger[c].since
      BY <3>1 DEF Answered
    <3> QED BY <2>1, <3>3, <3>4, <3>14, <3>15
  <2> QED BY <2>4, <2>5
<1>24. \A c \in Entries(ledger)' : Tended(c)'
  <2>1. Entries(ledger)' = Entries(led)
    BY <1>3 DEF Entries
  <2> QED BY <1>3, <1>11, <1>13, <1>23, <2>1 DEF Tended
<1>25. ASSUME NEW i \in 1..k + 1, planned[order[i]] # NoPromise, led[order[i]] = NoRecord
       PROVE  Cardinality(Entries(led)) = LedgerLimit /\ \A d \in Entries(led) : Position(d) > i
  <2>1. PICK c \in Leaves : c = order[i]
    BY <1>4, <1>5, <1>10, BookIs
  <2>2. c # own
    <3>1. SUFFICES ASSUME c = own PROVE FALSE
      OBVIOUS
    <3>2. copy[own] # NoRecord /\ own \in Entries(copy)
      BY <1>22, <1>25, <2>1, <3>1 DEF Entries
    <3>3. own \in Entries(led)
      BY <1>16, <3>2
    <3> QED BY <1>25, <2>1, <3>1, <3>3 DEF Entries
  <2>3. i \in 1..k /\ Position(c) = i
    <3>1. i # k + 1
      BY <1>6, <1>10, <2>1, <2>2
    <3>2. Position(c) = i
      BY <1>4, <1>5, <1>10, <2>1, PositionIs
    <3> QED BY <3>1, <3>2
  <2>4. /\ Cardinality(Entries(copy)) > LedgerLimit => Cardinality(Entries(led)) = LedgerLimit
        /\ gone # {} => Cardinality(Entries(copy)) > LedgerLimit
        /\ \A x \in gone : \A d \in Entries(copy) : d # x => copy[x].since < copy[d].since
        /\ IsFiniteSet(Entries(copy)) /\ IsFiniteSet(Entries(led)) /\ Cardinality(Entries(led)) <= LedgerLimit
    BY <1>2, <1>16 DEF Page, Room
  <2>5. CASE c \in gone
    <3>1. Cardinality(Entries(led)) = LedgerLimit
      BY <2>4, <2>5
    <3>2. ASSUME NEW d \in Entries(led) PROVE Position(d) > i
      <4>1. d \in Entries(copy) /\ d # c /\ led[d] = copy[d]
        BY <1>16, <1>17, <2>5
      <4>2. copy[c].since < copy[d].since
        BY <2>4, <2>5, <4>1
      <4>3. copy[d].since = Position(d) - 1 /\ Position(d) \in Nat
        BY <1>23, <4>1
      <4>4. c \in Entries(ledger) /\ copy[c].since = ledger[c].since
        BY <1>16, <1>18, <1>19, <2>2, <2>5 DEF Answered
      <4>5. ledger[c].since = i - 1
        BY <1>9, <2>3, <4>4 DEF Tended
      <4> QED BY <2>3, <4>2, <4>3, <4>4, <4>5
    <3> QED BY <3>1, <3>2
  <2>6. CASE c \notin gone
    <3>1. copy[c] = NoRecord /\ ledger[c] = NoRecord
      BY <1>16, <1>18, <1>25, <2>1, <2>2, <2>6 DEF Answered
    <3>2. Cardinality(Entries(ledger)) = LedgerLimit /\ \A d \in Entries(ledger) : Position(d) > i
      BY <1>9, <1>25, <2>1, <2>3, <3>1 DEF CrowdedOut
    <3>3. \A d \in Entries(led) : Position(d) > i
      <4>1. \A d \in Entries(led) : d = own \/ d \in Entries(ledger)
        BY <1>16, <1>19
      <4>2. Position(own) > i
        BY <1>14, <2>3
      <4> QED BY <3>2, <4>1, <4>2
    <3>4. Entries(ledger) \subseteq Entries(copy)
      BY <1>15, <1>18 DEF Answered, Entries
    <3>5. IsFiniteSet(Entries(ledger)) /\ Cardinality(Entries(ledger)) <= Cardinality(Entries(copy))
      BY <2>4, <3>4, FS_Subset
    <3>6. Cardinality(Entries(led)) = LedgerLimit
      <4>1. CASE gone = {}
        <5>1. Entries(led) = Entries(copy)
          BY <1>16, <4>1
        <5>2. Cardinality(Entries(led)) \in Nat /\ LedgerLimit \in Nat
          BY <2>4, FS_CardinalityType, HookAssumption
        <5> QED BY <2>4, <3>2, <3>5, <5>1, <5>2
      <4>2. CASE gone # {}
        BY <2>4, <4>2
      <4> QED BY <4>1, <4>2
    <3> QED BY <3>3, <3>6
  <2> QED BY <2>5, <2>6
<1>26. \A i \in 1..k + 1 : planned[order[i]] # NoPromise /\ led[order[i]] = NoRecord => CrowdedOut(i)'
  <2>1. Entries(ledger)' = Entries(led)
    BY <1>3 DEF Entries
  <2> QED BY <1>13, <1>25, <2>1 DEF CrowdedOut
<1>27. k + 1 <= Len(order)
  BY <1>5, <1>10
<1> QED BY <1>3, <1>4, <1>11, <1>12, <1>24, <1>26, <1>27 DEF Straight

LEMMA StraightStep ==
  HookTypes /\ Straight /\ [HookNext]_hookVars => Straight'
<1>1. SUFFICES ASSUME HookTypes, Straight, [HookNext]_hookVars PROVE Straight'
  OBVIOUS
<1>2. turns \in Nat
  BY <1>1 DEF HookTypes
<1>3. CASE UNCHANGED hookVars
  <2>1. order' = order /\ planned' = planned /\ ledger' = ledger /\ accepted' = accepted /\ turns' = turns
    BY <1>3 DEF hookVars
  <2>2. Progress' = Progress /\ Entries(ledger)' = Entries(ledger) /\ \A c : Position(c)' = Position(c)
    BY <2>1 DEF Progress, Entries, Position
  <2>3. \A c : AllAnswers(c)' = AllAnswers(c)
    BY <2>1 DEF AllAnswers, Answers
  <2>4. \A c : Tended(c)' <=> Tended(c)
    BY <2>1, <2>2, <2>3 DEF Tended
  <2>5. \A n : CrowdedOut(n)' <=> CrowdedOut(n)
    BY <2>2 DEF CrowdedOut
  <2> QED BY <1>1, <2>1, <2>2, <2>4, <2>5 DEF Straight
<1>4. ASSUME NEW n \in 1..Len(order), AcceptPage(n) PROVE Straight'
  BY <1>1, <1>4, StraightPage
<1>5. ASSUME turns' = turns + 1 PROVE Straight'
  <2>1. turns' # 0
    BY <1>2, <1>5
  <2> QED BY <2>1 DEF Straight
<1> QED BY <1>1, <1>3, <1>4, <1>5 DEF HookNext, Replan, InsertPage, DeletePage, AnotherTurn

----------------------------------------------------------------------------
(* The theorem.                                                            *)

LEMMA LargestOf ==
  ASSUME NEW l \in Int, NEW q \in Int, l <= q
  PROVE  Max(l..q) = q
<1>1. q \in l..q /\ \A y \in l..q : q >= y
  OBVIOUS
<1>2. PICK x : x = Max(l..q)
  OBVIOUS
<1>3. x \in l..q /\ \A y \in l..q : x >= y
  BY <1>1, <1>2 DEF Max
<1>4. x = q
  BY <1>1, <1>3
<1> QED BY <1>2, <1>4

LEMMA NoneForgotten ==
  ASSUME HookTypes, Straight
  PROVE  NoHookForgotten
<1>1. SUFFICES ASSUME turns = 0, NEW n \in 1..Progress, planned[order[n]] # NoPromise
               PROVE  \/ order[n] \in Due(Progress + 1)
                      \/ ledger[order[n]] # NoRecord /\ HookState(order[n], Progress + 1).status \in {"paid", "expired"}
                      \/ ledger[order[n]] = NoRecord
                         /\ Cardinality({d \in Entries(ledger) : Position(d) > n}) >= LedgerLimit
  BY DEF NoHookForgotten
<1>2. BookOrder(order) /\ Len(order) \in Nat /\ Progress \in Nat
  BY FS_CardinalityType, BookIs DEF HookTypes, Progress
<1>3. /\ Progress <= Len(order)
      /\ \A c \in Entries(ledger) : Tended(c)
      /\ planned[order[n]] # NoPromise /\ ledger[order[n]] = NoRecord => CrowdedOut(n)
  BY <1>1 DEF Straight
<1>4. PICK c \in Leaves : c = order[n]
  BY <1>2, <1>3, BookIs
<1>5. CASE ledger[c] = NoRecord
  <2>1. Cardinality(Entries(ledger)) = LedgerLimit /\ \A d \in Entries(ledger) : Position(d) > n
    BY <1>1, <1>3, <1>4, <1>5 DEF CrowdedOut
  <2>2. {d \in Entries(ledger) : Position(d) > n} = Entries(ledger)
    BY <2>1
  <2>3. LedgerLimit \in Nat
    BY HookAssumption
  <2> QED BY <1>4, <1>5, <2>1, <2>2, <2>3
<1>6. CASE ledger[c] # NoRecord
  <2>1. c \in Entries(ledger) /\ Tended(c)
    BY <1>3, <1>6 DEF Entries
  <2>2. PICK e : e = Folded(Position(c), AllAnswers(c))[Len(order)]
    OBVIOUS
  <2>3. /\ HookState(c, Progress + 1) = IF e.status = "debt" /\ Progress + 1 - e.anchor > Span
                                         THEN [status |-> "expired", anchor |-> e.anchor] ELSE e
        /\ c \in Due(Progress + 1) <=> DueNext(Progress, e)
    BY <1>2, <1>3, <2>1, <2>2, NextIs
  <2>4. TendedBy(Position(c), Progress, AllAnswers(c)) /\ Position(c) \in Nat
    BY <1>2, <2>1 DEF Tended
  <2>5. Len(AllAnswers(c)) = Len(order)
    BY <1>2, AnswersAre
  <2>6. DueNext(Progress, e) \/ e.status = "paid" \/ (e.status = "debt" /\ Progress + 1 - e.anchor > Span)
    BY <1>2, <2>2, <2>4, <2>5, OpenIsDue
  <2>7. CASE DueNext(Progress, e)
    BY <1>4, <2>3, <2>7
  <2>8. CASE e.status = "debt" /\ Progress + 1 - e.anchor > Span
    <3>1. HookState(c, Progress + 1).status = "expired"
      BY <2>3, <2>8
    <3> QED BY <1>4, <1>6, <3>1
  <2>9. CASE e.status = "paid"
    <3>1. HookState(c, Progress + 1).status = "paid"
      BY <2>3, <2>9
    <3> QED BY <1>4, <1>6, <3>1
  <2> QED BY <2>6, <2>7, <2>8, <2>9
<1> QED BY <1>5, <1>6

LEMMA AllAsked ==
  ASSUME HookTypes, Straight
  PROVE  AskedInARow
<1>1. SUFFICES ASSUME turns = 0, NEW c \in Leaves, ledger[c] # NoRecord
               PROVE  LET anchor == HookState(c, Len(order) + 1).anchor
                          ignored == {n \in 1..Len(order) : ledger[c].evals[order[n]] = "ignored" /\ n > anchor} IN
                      /\ Cardinality(ignored) <= Window * Lifetime
                      /\ ignored # {} => ignored = anchor + 1..Max(ignored)
  BY DEF AskedInARow
<1>2. BookOrder(order) /\ Len(order) \in Nat /\ Progress \in Nat
  BY FS_CardinalityType, BookIs DEF HookTypes, Progress
<1>3. Progress <= Len(order) /\ Tended(c)
  BY <1>1 DEF Straight, Entries
<1>4. PICK a : a = AllAnswers(c)
  OBVIOUS
<1>5. Len(a) = Len(order) /\ \A i \in 1..Len(order) : a[i] = ledger[c].evals[order[i]]
  BY <1>2, <1>4, AnswersAre
<1>6. PICK p, k \in Nat : p = Position(c) /\ k = Progress
  BY <1>2, <1>3 DEF Tended
<1>7. p \in 1..k /\ TendedBy(p, k, a)
  BY <1>3, <1>4, <1>6 DEF Tended
<1>8. PICK e : e = Folded(p, a)[Len(a)]
  OBVIOUS
<1>9. IsState(p, k, e) /\ \E q \in Nat : AskedUpTo(k, a, e, q)
  BY <1>7, <1>8 DEF TendedBy
<1>10. PICK q \in Nat : AskedUpTo(k, a, e, q)
  BY <1>9
<1>11. e = [status |-> e.status, anchor |-> e.anchor] /\ e.anchor \in p..k
  BY <1>9 DEF IsState
<1>12. PICK anchor \in Nat : anchor = e.anchor
  BY <1>7, <1>11
<1>13. HookState(c, Len(order) + 1).anchor = anchor
  <2>1. PICK last : last = Len(order) + 1
    OBVIOUS
  <2>2. Answers(c, last) = a
    BY <1>4, <2>1 DEF AllAnswers
  <2>3. e = Folded(Position(c), Answers(c, last))[Len(order)]
    BY <1>5, <1>6, <1>8, <2>2
  <2>4. HookState(c, last) = IF e.status = "debt" /\ GivenUp(last, e.anchor) THEN [e EXCEPT !.status = "expired"] ELSE e
    BY <2>3, StateMeans
  <2>5. PICK s, n : e = [status |-> s, anchor |-> n]
    BY <1>11
  <2>6. HookState(c, last).anchor = n
    BY <2>4, <2>5
  <2> QED BY <1>12, <2>1, <2>5, <2>6
<1>14. /\ q \in anchor..k /\ q <= anchor + Span
       /\ \A i \in (anchor + 1)..Len(a) : a[i] = "ignored" <=> i <= q
  BY <1>10, <1>12 DEF AskedUpTo
<1>15. k <= Len(order)
  BY <1>3, <1>6
<1>16. PICK ignored : ignored = {i \in 1..Len(order) : ledger[c].evals[order[i]] = "ignored" /\ i > anchor}
  OBVIOUS
<1>17. ignored = (anchor + 1)..q
  <2>1. ASSUME NEW i \in ignored PROVE i \in (anchor + 1)..q
    <3>1. i \in 1..Len(order) /\ a[i] = "ignored" /\ i > anchor
      BY <1>5, <1>16
    <3>2. i \in (anchor + 1)..Len(a)
      BY <1>2, <1>5, <3>1
    <3>3. i <= q
      BY <1>14, <3>1, <3>2
    <3> QED BY <3>2, <3>3
  <2>2. ASSUME NEW i \in (anchor + 1)..q PROVE i \in ignored
    <3>1. i \in 1..Len(order) /\ i \in (anchor + 1)..Len(a) /\ i > anchor /\ i <= q
      BY <1>2, <1>5, <1>14, <1>15
    <3>2. a[i] = "ignored"
      BY <1>14, <3>1
    <3> QED BY <1>5, <1>16, <3>1, <3>2
  <2> QED BY <2>1, <2>2
<1>18. Cardinality(ignored) <= Span
  <2>1. Cardinality((anchor + 1)..q) = IF anchor + 1 > q THEN 0 ELSE q - (anchor + 1) + 1
    BY FS_Interval
  <2>2. Span \in Nat
    BY SpanIs
  <2> QED BY <1>14, <1>17, <2>1, <2>2
<1>19. ignored # {} => ignored = (anchor + 1)..Max(ignored)
  <2>1. SUFFICES ASSUME ignored # {} PROVE ignored = (anchor + 1)..Max(ignored)
    OBVIOUS
  <2>2. anchor + 1 <= q
    BY <1>17, <2>1
  <2>3. Max((anchor + 1)..q) = q
    BY <2>2, LargestOf
  <2> QED BY <1>17, <2>3
<1> QED BY <1>13, <1>16, <1>18, <1>19 DEF Span

\* The hooks of a book (HookLedger, record_chapter_hook, settle_hooks, due_hooks): written in order, a book
\* forgets no promise, unless LEDGER_LIMIT newer ones took its place; nobody is asked about a promise for
\* ever; and no chapter is asked because of a later one.
THEOREM HooksTended == HookSpec => HooksAreTended
<1>1. HookInit => HookTypes /\ Straight
  BY HookTypesInit, StraightInit
<1>2. HookTypes /\ Straight /\ [HookNext]_hookVars => (HookTypes /\ Straight)'
  BY HookTypesStep, StraightStep
<1>3. HookTypes /\ Straight => NoHookForgotten /\ AskedInARow
  BY NoneForgotten, AllAsked
<1>4. HookTypes /\ [HookNext]_hookVars => [StandsAsOf]_hookVars
  BY AsOfStep
<1>5. HookSpec => [](NoHookForgotten /\ AskedInARow)
  BY <1>1, <1>2, <1>3, PTL DEF HookSpec
<1>6. HookSpec => [][StandsAsOf]_hookVars
  BY <1>1, <1>2, <1>4, PTL DEF HookSpec
<1>7. HookSpec => AsOfStands
  BY <1>6 DEF AsOfStands
<1> QED BY <1>5, <1>7 DEF HooksAreTended

-----------------------------------------------------------------------------
(* PlanningRun: every size of the book and the cast, every choice of       *)
(* numbers of volumes, every number of resumptions and edits.              *)

MostVolumes == Max(VolumeCounts)
AppliedRoutes == {"good", "debt"}

PlanRows == [phase : {"incubator", "master", "volumes", "chapters"}, brief : BOOLEAN, cast : BOOLEAN, cards : Nat,
             world : BOOLEAN, bible : BOOLEAN, contracts : Nat, volumes : Seq(Nat), core : Nat, next : Nat \ {0},
             routes : [1..MostVolumes -> Seq(AppliedRoutes)], debts : SUBSET (Nat \X Nat)]
PlannedBooks == [plan : Seq([size : Nat, routes : Seq({"good", "debt", "spoiled"})]),
                 chapters : Seq([route : {"none", "good", "debt"}, text : BOOLEAN])]

\* A plan that passed its check: its volumes cover the book.
Whole(p) == Total(SizesOf(p)) = ChapterTarget /\ Len(p) <= MostVolumes

\* A volume left behind has its routes, and its chapters have them too.
Bound(v) ==
  /\ Len(book.plan[v].routes) = book.plan[v].size
  /\ \A k \in 1..book.plan[v].size :
       book.plan[v].routes[k] \in {"spoiled", book.chapters[StartOf(book.plan, v) + k].route}

\* The volumes worked out so far follow the sizes the settings ask for, unless these were changed on the way.
VolumesFollow ==
  /\ atStep # "off" => specs \in {<<>>, SpecsOf(ChapterTarget, asked)}
  /\ atStep = "details" => specs # <<>> /\ Len(planRow.volumes) < Len(specs)
  /\ ~recounted =>
       /\ Len(planRow.volumes) <= asked
       /\ \A i \in 1..Len(planRow.volumes) : planRow.volumes[i] = SpecsOf(ChapterTarget, asked)[i]

\* Where the run is, and what the book has by then.
PlanStage ==
  /\ atStep = "incubated" => planRow.phase = "incubator"
  /\ atStep = "planned" => planRow.phase = "master" /\ Whole(book.plan)
  /\ atStep \in {"routes", "volume saved"} => planRow.phase = "volumes" /\ V <= Len(book.plan)
  /\ planRow.phase = "incubator" => book.plan = <<>>
  /\ planRow.phase = "master" => book.plan = <<>> \/ Whole(book.plan)
  /\ planRow.phase \in {"incubator", "master"} =>
       /\ Len(book.chapters) = 1 /\ book.chapters[1].route = "none"
       /\ \A v \in DOMAIN book.plan : book.plan[v].routes = <<>>
  /\ planRow.phase \in {"volumes", "chapters"} => Whole(book.plan) /\ V <= Len(book.plan) + 1
  /\ planRow.phase = "chapters" => V > Len(book.plan)

\* The chapters there are reach as far as the volumes left behind, and no further than the book.
Reach ==
  /\ Len(book.chapters) \in 1..ChapterTarget
  /\ planRow.phase \in {"volumes", "chapters"} =>
       /\ StartOf(book.plan, V) <= Len(book.chapters)
       /\ \A v \in 1..V - 1 : Bound(v)
  /\ atStep = "volume saved" => StartOf(book.plan, V + 1) <= Len(book.chapters) /\ Bound(V)

DebtsKnown ==
  \A v \in 1..MostVolumes : \A k \in 1..Len(planRow.routes[v]) :
    planRow.routes[v][k] = "debt" => <<v, k>> \in planRow.debts

PlanTypes ==
  /\ planRow \in PlanRows /\ book \in PlannedBooks
  /\ asked \in VolumeCounts /\ recounted \in BOOLEAN /\ unfit \in BOOLEAN
  /\ {resumes, edits} \subseteq Nat

PlanInv ==
  /\ PlanTypes /\ VolumesFollow /\ PlanStage /\ Reach /\ DebtsKnown
  /\ AppliedIsKnown /\ UnfitOnlyIfRecounted
----------------------------------------------------------------------------
(* Sizes and where the volumes start.                                      *)

UpToBody(sizes, f, m) == [n \in 0..m |-> IF n = 0 THEN 0 ELSE f[n - 1] + sizes[n]]

LEMMA UpToThere ==
  ASSUME NEW sizes
  PROVE  \A m \in Nat : \E f : f = UpToBody(sizes, f, m)
<1>1. PICK bad \in SUBSET Nat : bad = {m \in Nat : ~\E f : f = UpToBody(sizes, f, m)}
  OBVIOUS
<1>2. SUFFICES ASSUME bad # {} PROVE FALSE
  BY <1>1
<1>3. PICK m \in bad : \A y \in bad : m <= y
  BY <1>2, LeastOf
<1>4. CASE m = 0
  <2>1. PICK f : f = [n \in 0..0 |-> 0]
    OBVIOUS
  <2>2. f = UpToBody(sizes, f, 0)
    BY <2>1 DEF UpToBody
  <2> QED BY <1>1, <1>3, <1>4, <2>2
<1>5. CASE m # 0
  <2>1. PICK j \in Nat : m = j + 1
    BY <1>5
  <2>2. j \notin bad
    BY <1>3, <2>1
  <2>3. PICK g : g = UpToBody(sizes, g, j)
    BY <1>1, <2>2
  <2>4. PICK f : f = [n \in 0..m |-> IF n <= j THEN g[n] ELSE g[j] + sizes[m]]
    OBVIOUS
  <2>5. ASSUME NEW n \in 0..m
        PROVE  f[n] = IF n = 0 THEN 0 ELSE f[n - 1] + sizes[n]
    <3>1. CASE n <= j
      <4>1. f[n] = g[n] /\ n \in 0..j
        BY <2>4, <3>1
      <4>2. g[n] = IF n = 0 THEN 0 ELSE g[n - 1] + sizes[n]
        BY <2>3, <4>1 DEF UpToBody
      <4>3. n # 0 => f[n - 1] = g[n - 1]
        BY <2>1, <2>4, <3>1
      <4> QED BY <4>1, <4>2, <4>3
    <3>2. CASE ~(n <= j)
      <4>1. n = m /\ n - 1 = j /\ n # 0
        BY <2>1, <3>2
      <4>2. f[n] = g[j] + sizes[m]
        BY <2>4, <3>2
      <4>3. f[n - 1] = g[j]
        BY <2>1, <2>4, <4>1
      <4> QED BY <4>1, <4>2, <4>3
    <3> QED BY <3>1, <3>2
  <2>6. f = [n \in 0..m |-> f[n]]
    BY <2>4
  <2>7. f = UpToBody(sizes, f, m)
    BY <2>5, <2>6 DEF UpToBody
  <2> QED BY <1>1, <2>7
<1> QED BY <1>4, <1>5

LEMMA UpToAt ==
  ASSUME NEW sizes \in Seq(Nat), NEW n \in 0..Len(sizes)
  PROVE  SizesUpTo(sizes)[n] = IF n = 0 THEN 0 ELSE SizesUpTo(sizes)[n - 1] + sizes[n]
<1>1. PICK f : f = UpToBody(sizes, f, Len(sizes))
  BY UpToThere
<1>2. SizesUpTo(sizes) = CHOOSE g : g = UpToBody(sizes, g, Len(sizes))
  BY DEF SizesUpTo, UpToBody
<1>3. PICK h : h = SizesUpTo(sizes)
  OBVIOUS
<1>4. h = UpToBody(sizes, h, Len(sizes))
  BY <1>1, <1>2, <1>3
<1>5. h[n] = IF n = 0 THEN 0 ELSE h[n - 1] + sizes[n]
  BY <1>4 DEF UpToBody
<1> QED BY <1>3, <1>5

\* Sums of sizes are numbers, and grow.
LEMMA UpToGrows ==
  ASSUME NEW sizes \in Seq(Nat)
  PROVE  \A n \in 0..Len(sizes) : SizesUpTo(sizes)[n] \in Nat
                                  /\ \A m \in 0..n : SizesUpTo(sizes)[m] <= SizesUpTo(sizes)[n]
<1>1. PICK up : up = SizesUpTo(sizes)
  OBVIOUS
<1>2. PICK top \in Nat : top = Len(sizes)
  OBVIOUS
<1>3. \A n \in 0..top : up[n] = IF n = 0 THEN 0 ELSE up[n - 1] + sizes[n]
  BY <1>1, <1>2, UpToAt
<1> DEFINE Bad == {n \in 0..top : ~(up[n] \in Nat /\ \A m \in 0..n : up[m] <= up[n])}
<1>4. PICK bad \in SUBSET Nat : bad = Bad
  <2>1. 0..top \subseteq Nat /\ Bad \subseteq 0..top
    BY <1>2
  <2> HIDE DEF Bad
  <2> QED BY <2>1
<1>5. SUFFICES ASSUME bad # {} PROVE FALSE
  BY <1>1, <1>2, <1>4
<1>6. PICK n \in bad : \A y \in bad : n <= y
  BY <1>5, LeastOf
<1>7. n \in 0..top /\ up[n] = IF n = 0 THEN 0 ELSE up[n - 1] + sizes[n]
  BY <1>3, <1>4
<1>8. n # 0
  <2>1. n = 0 => up[n] = 0 /\ \A m \in 0..n : m = n
    BY <1>7
  <2> QED BY <1>4, <2>1
<1>9. PICK j \in Nat : n = j + 1
  BY <1>7, <1>8
<1>10. j \in 0..top /\ j \notin bad
  BY <1>6, <1>7, <1>9
<1>11. up[j] \in Nat /\ \A m \in 0..j : up[m] <= up[j]
  BY <1>4, <1>10
<1>12. sizes[n] \in Nat
  BY <1>2, <1>7, <1>8
<1>13. up[n] = up[j] + sizes[n]
  BY <1>7, <1>8, <1>9
<1>14. up[n] \in Nat /\ up[j] <= up[n]
  BY <1>11, <1>12, <1>13
<1>15. ASSUME NEW m \in 0..n PROVE up[m] <= up[n]
  <2>1. CASE m = n
    BY <1>14, <2>1
  <2>2. CASE m # n
    <3>1. m \in 0..j
      BY <1>9, <2>2
    <3>2. up[m] <= up[j] /\ up[m] \in Nat
      <4>1. m \in 0..top /\ m \notin bad
        BY <1>6, <1>9, <1>10, <3>1
      <4> QED BY <1>4, <1>11, <3>1, <4>1
    <3> QED BY <1>11, <1>14, <3>2
  <2> QED BY <2>1, <2>2
<1> QED BY <1>4, <1>6, <1>14, <1>15

\* Shared out evenly, nothing is lost.
LEMMA SpecsAre ==
  ASSUME NEW total \in Nat, NEW n \in Nat \ {0}
  PROVE  /\ SpecsOf(total, n) \in Seq(Nat) /\ Len(SpecsOf(total, n)) = n
         /\ Total(SpecsOf(total, n)) = total
<1>1. PICK q : q = total \div n
  OBVIOUS
<1>2. PICK r : r = total % n
  OBVIOUS
<1>3. q \in Nat /\ r \in Nat /\ r < n
  BY <1>1, <1>2
<1>4. total = n * q + r
  BY <1>1, <1>2
<1>5. PICK s : s = SpecsOf(total, n)
  OBVIOUS
<1>6. s = [i \in 1..n |-> q + (IF i <= r THEN 1 ELSE 0)]
  BY <1>1, <1>2, <1>5 DEF SpecsOf
<1>7. s \in Seq(Nat) /\ Len(s) = n
  <2>1. \A i \in 1..n : q + (IF i <= r THEN 1 ELSE 0) \in Nat
    BY <1>3
  <2> QED BY <1>6, <2>1
<1>8. PICK up : up = SizesUpTo(s)
  OBVIOUS
<1>9. \A k \in 0..n : up[k] = IF k = 0 THEN 0 ELSE up[k - 1] + s[k]
  BY <1>7, <1>8, UpToAt
<1> DEFINE Bad == {k \in 0..n : up[k] # k * q + (IF k <= r THEN k ELSE r)}
<1>10. PICK bad \in SUBSET Nat : bad = Bad
  <2>1. 0..n \subseteq Nat /\ Bad \subseteq 0..n
    OBVIOUS
  <2> HIDE DEF Bad
  <2> QED BY <2>1
<1>11. bad = {}
  <2>1. SUFFICES ASSUME bad # {} PROVE FALSE
    OBVIOUS
  <2>2. PICK k \in bad : \A y \in bad : k <= y
    BY <2>1, LeastOf
  <2>3. k \in 0..n
    BY <1>10
  <2>4. k # 0
    <3>1. 0 * q = 0 /\ up[0] = 0 /\ 0 <= r
      BY <1>3, <1>9
    <3> QED BY <1>3, <1>10, <3>1
  <2>5. PICK j \in Nat : k = j + 1
    BY <2>3, <2>4
  <2>6. j \in 0..n /\ j \notin bad
    BY <2>2, <2>3, <2>5
  <2>7. up[j] = j * q + (IF j <= r THEN j ELSE r)
    BY <1>10, <2>6
  <2>8. up[k] = up[j] + q + (IF k <= r THEN 1 ELSE 0)
    <3>1. k \in 1..n /\ up[k] = up[j] + s[k] /\ s[k] = q + (IF k <= r THEN 1 ELSE 0)
      BY <1>6, <1>9, <2>3, <2>4, <2>5
    <3>2. up[j] \in Nat
      BY <1>7, <1>8, <2>6, UpToGrows
    <3> QED BY <1>3, <3>1, <3>2
  <2>9. PICK a \in Nat : a = j * q
    BY <1>3
  <2>10. k * q = a + q
    BY <1>3, <2>5, <2>9
  <2>11. up[k] = k * q + (IF k <= r THEN k ELSE r)
    BY <1>3, <2>5, <2>7, <2>8, <2>9, <2>10
  <2> QED BY <1>10, <2>11
<1>12. n \in 0..n /\ n \notin bad
  BY <1>11
<1>13. up[n] = n * q + r
  <2>1. ~(n <= r)
    BY <1>3
  <2> QED BY <1>10, <1>12, <2>1
<1> QED BY <1>4, <1>5, <1>7, <1>8, <1>13 DEF Total

PlanSeqs == Seq([size : Nat, routes : Seq({"good", "debt", "spoiled"})])

\* The volumes of a plan start one behind the other.
LEMMA StartsAre ==
  ASSUME NEW p \in PlanSeqs
  PROVE  /\ SizesOf(p) \in Seq(Nat) /\ Len(SizesOf(p)) = Len(p) /\ Len(p) \in Nat
         /\ Total(SizesOf(p)) = StartOf(p, Len(p) + 1)
         /\ StartOf(p, 1) = 0
         /\ \A v \in 1..Len(p) : StartOf(p, v + 1) = StartOf(p, v) + p[v].size
         /\ \A v \in 1..Len(p) + 1 : StartOf(p, v) \in Nat /\ \A u \in 1..v : StartOf(p, u) <= StartOf(p, v)
<1>1. PICK s : s = SizesOf(p)
  OBVIOUS
<1>2. PICK top \in Nat : top = Len(p) /\ DOMAIN p = 1..top
  BY DEF PlanSeqs
<1>3. s = [v \in 1..top |-> p[v].size]
  BY <1>1, <1>2 DEF SizesOf
<1>4. \A v \in 1..top : p[v].size \in Nat
  <2>1. \A v \in 1..top : p[v] \in [size : Nat, routes : Seq({"good", "debt", "spoiled"})]
    BY <1>2, ElementOfSeq DEF PlanSeqs
  <2> QED BY <2>1
<1>5. s \in Seq(Nat) /\ Len(s) = top
  BY <1>3, <1>4
<1>6. PICK up : up = SizesUpTo(s)
  OBVIOUS
<1>7. \A v : StartOf(p, v) = up[v - 1]
  BY <1>1, <1>6 DEF StartOf
<1>8. \A n \in 0..top : up[n] = IF n = 0 THEN 0 ELSE up[n - 1] + s[n]
  BY <1>5, <1>6, UpToAt
<1>9. \A n \in 0..top : up[n] \in Nat /\ \A m \in 0..n : up[m] <= up[n]
  BY <1>5, <1>6, UpToGrows
<1>10. Total(s) = up[top] /\ top + 1 - 1 = top
  BY <1>2, <1>5, <1>6 DEF Total
<1>11. StartOf(p, 1) = 0
  <2>1. 1 - 1 = 0 /\ up[0] = 0
    BY <1>8
  <2> QED BY <1>7, <2>1
<1>12. ASSUME NEW v \in 1..top PROVE StartOf(p, v + 1) = StartOf(p, v) + p[v].size
  <2>1. v \in 0..top /\ v # 0 /\ v + 1 - 1 = v
    BY <1>2
  <2>2. up[v] = up[v - 1] + s[v] /\ s[v] = p[v].size
    BY <1>3, <1>8, <2>1
  <2> QED BY <1>7, <2>1, <2>2
<1>13. ASSUME NEW v \in 1..top + 1
       PROVE  StartOf(p, v) \in Nat /\ \A u \in 1..v : StartOf(p, u) <= StartOf(p, v)
  <2>1. v - 1 \in 0..top /\ \A u \in 1..v : u - 1 \in 0..(v - 1)
    BY <1>2
  <2> QED BY <1>7, <1>9, <2>1
<1> QED BY <1>1, <1>2, <1>5, <1>7, <1>10, <1>11, <1>12, <1>13

LEMMA MostIs ==
  MostVolumes \in VolumeCounts /\ \A n \in VolumeCounts : n \in Nat \ {0} /\ n <= MostVolumes
<1>1. VolumeCounts \subseteq 1..ChapterTarget /\ VolumeCounts # {} /\ ChapterTarget \in Nat
  BY PlanningAssumption
<1>2. PICK S \in SUBSET Nat : S = {ChapterTarget - n : n \in VolumeCounts}
  <2>1. \A n \in VolumeCounts : ChapterTarget - n \in Nat
    BY <1>1
  <2> QED BY <2>1
<1>3. PICK m \in S : \A y \in S : m <= y
  <2>1. S # {}
    BY <1>1, <1>2
  <2> QED BY <2>1, LeastOf
<1>4. PICK n \in VolumeCounts : m = ChapterTarget - n
  BY <1>2
<1>5. \A k \in VolumeCounts : n >= k
  <2>1. ASSUME NEW k \in VolumeCounts PROVE n >= k
    <3>1. ChapterTarget - n <= ChapterTarget - k
      BY <1>2, <1>3, <1>4
    <3>2. n \in Nat /\ k \in Nat
      BY <1>1
    <3> QED BY <1>1, <3>1, <3>2
  <2> QED BY <2>1
<1>6. PICK top : top = MostVolumes
  OBVIOUS
<1>7. top \in VolumeCounts /\ \A k \in VolumeCounts : top >= k
  BY <1>5, <1>6 DEF MostVolumes, Max
<1>8. \A k \in VolumeCounts : k \in Nat \ {0}
  BY <1>1
<1> QED BY <1>6, <1>7, <1>8

LEMMA MaxOfTwo ==
  ASSUME NEW a \in Nat, NEW b \in Nat
  PROVE  Max({a, b}) = IF a >= b THEN a ELSE b
<1>1. PICK m : m = Max({a, b})
  OBVIOUS
<1>2. \E x \in {a, b} : \A y \in {a, b} : x >= y
  OBVIOUS
<1>3. m \in {a, b} /\ \A y \in {a, b} : m >= y
  BY <1>1, <1>2 DEF Max
<1> QED BY <1>1, <1>3

----------------------------------------------------------------------------
(* What a step leaves alone.                                               *)

LEMMA ReachKept ==
  ASSUME Reach, book' = book, planRow'.phase = planRow.phase, planRow'.next = planRow.next,
         atStep' = "volume saved" => atStep = "volume saved"
  PROVE  Reach'
<1>1. \A v : Bound(v)' <=> Bound(v)
  BY DEF Bound
<1>2. V' = V
  BY DEF V
<1> QED BY <1>1, <1>2 DEF Reach

LEMMA DebtsKept ==
  ASSUME DebtsKnown, planRow'.routes = planRow.routes, planRow'.debts = planRow.debts
  PROVE  DebtsKnown'
BY DEF DebtsKnown, MostVolumes

LEMMA AppliedKept ==
  ASSUME AppliedIsKnown, book' = book, planRow.debts \subseteq planRow'.debts
  PROVE  AppliedIsKnown'
BY DEF AppliedIsKnown

LEMMA FollowKept ==
  ASSUME VolumesFollow, specs' = specs, planRow'.volumes = planRow.volumes, asked' = asked, recounted' = recounted,
         atStep = "off" => atStep' = "off",
         atStep' = "details" => specs # <<>> /\ Len(planRow.volumes) < Len(specs)
  PROVE  VolumesFollow'
BY DEF VolumesFollow

\* A question changes nothing.
LEMMA PlanWaits ==
  ASSUME PlanInv, NEW what \in {"brief", "cast", "card", "world", "bible", "contract", "core", "details"}, Waits(what),
         atStep = "go", what = "details" => specs # <<>> /\ Len(planRow.volumes) < Len(specs)
  PROVE  PlanInv'
<1> USE DEF Waits, authorVars
<1>1. PlanTypes'
  BY DEF PlanInv, PlanTypes
<1>2. VolumesFollow'
  BY FollowKept DEF PlanInv
<1>3. PlanStage'
  BY DEF PlanInv, PlanStage, V
<1>4. Reach'
  BY ReachKept DEF PlanInv
<1>5. DebtsKnown'
  BY DebtsKept DEF PlanInv
<1>6. AppliedIsKnown'
  BY AppliedKept DEF PlanInv
<1>7. UnfitOnlyIfRecounted'
  BY DEF PlanInv, UnfitOnlyIfRecounted
<1> QED BY <1>1, <1>2, <1>3, <1>4, <1>5, <1>6, <1>7 DEF PlanInv

\* An answer that concerns neither volumes nor routes.
LEMMA PlanAnswered ==
  ASSUME PlanInv, NEW row \in PlanRows, Saves(row), atStep # "off",
         row.phase = planRow.phase, row.next = planRow.next, row.routes = planRow.routes,
         row.debts = planRow.debts, row.volumes = planRow.volumes
  PROVE  PlanInv'
<1> USE DEF Saves, authorVars
<1>1. PlanTypes'
  BY DEF PlanInv, PlanTypes
<1>2. VolumesFollow'
  BY FollowKept DEF PlanInv
<1>3. PlanStage'
  BY DEF PlanInv, PlanStage, V
<1>4. Reach'
  BY ReachKept DEF PlanInv
<1>5. DebtsKnown'
  BY DebtsKept DEF PlanInv
<1>6. AppliedIsKnown'
  BY AppliedKept DEF PlanInv
<1>7. UnfitOnlyIfRecounted'
  BY DEF PlanInv, UnfitOnlyIfRecounted
<1> QED BY <1>1, <1>2, <1>3, <1>4, <1>5, <1>6, <1>7 DEF PlanInv

LEMMA RowIs ==
  ASSUME planRow \in PlanRows
  PROVE  /\ planRow = [phase |-> planRow.phase, brief |-> planRow.brief, cast |-> planRow.cast, cards |-> planRow.cards,
                       world |-> planRow.world, bible |-> planRow.bible, contracts |-> planRow.contracts,
                       volumes |-> planRow.volumes, core |-> planRow.core, next |-> planRow.next,
                       routes |-> planRow.routes, debts |-> planRow.debts]
         /\ planRow.phase \in {"incubator", "master", "volumes", "chapters"}
         /\ planRow.cards \in Nat /\ planRow.contracts \in Nat /\ planRow.core \in Nat /\ planRow.next \in Nat \ {0}
         /\ planRow.volumes \in Seq(Nat) /\ Len(planRow.volumes) \in Nat
         /\ planRow.routes \in [1..MostVolumes -> Seq(AppliedRoutes)] /\ planRow.debts \in SUBSET (Nat \X Nat)
BY DEF PlanRows

LEMMA PlanSeedAnswered == PlanInv /\ SeedAnswered => PlanInv'
<1> SUFFICES ASSUME PlanInv, SeedAnswered PROVE PlanInv'
  OBVIOUS
<1>1. planRow \in PlanRows
  BY DEF PlanInv, PlanTypes
<1>2. CASE atStep = "brief" /\ Saves([planRow EXCEPT !.brief = TRUE])
  <2>1. PICK row : row = [planRow EXCEPT !.brief = TRUE]
    OBVIOUS
  <2>2. /\ row \in PlanRows /\ row.phase = planRow.phase /\ row.next = planRow.next /\ row.routes = planRow.routes
        /\ row.debts = planRow.debts /\ row.volumes = planRow.volumes
    BY <1>1, <2>1 DEF PlanRows
  <2> QED BY <1>2, <2>1, <2>2, PlanAnswered
<1>3. CASE atStep = "cast" /\ Saves([planRow EXCEPT !.cast = TRUE])
  <2>1. PICK row : row = [planRow EXCEPT !.cast = TRUE]
    OBVIOUS
  <2>2. /\ row \in PlanRows /\ row.phase = planRow.phase /\ row.next = planRow.next /\ row.routes = planRow.routes
        /\ row.debts = planRow.debts /\ row.volumes = planRow.volumes
    BY <1>1, <2>1 DEF PlanRows
  <2> QED BY <1>3, <2>1, <2>2, PlanAnswered
<1>4. CASE atStep = "card" /\ Saves([planRow EXCEPT !.cards = @ + 1])
  <2>1. PICK row : row = [planRow EXCEPT !.cards = @ + 1]
    OBVIOUS
  <2>2. /\ row \in PlanRows /\ row.phase = planRow.phase /\ row.next = planRow.next /\ row.routes = planRow.routes
        /\ row.debts = planRow.debts /\ row.volumes = planRow.volumes
    BY <1>1, <2>1 DEF PlanRows
  <2> QED BY <1>4, <2>1, <2>2, PlanAnswered
<1>5. CASE atStep = "world" /\ Saves([planRow EXCEPT !.world = TRUE])
  <2>1. PICK row : row = [planRow EXCEPT !.world = TRUE]
    OBVIOUS
  <2>2. /\ row \in PlanRows /\ row.phase = planRow.phase /\ row.next = planRow.next /\ row.routes = planRow.routes
        /\ row.debts = planRow.debts /\ row.volumes = planRow.volumes
    BY <1>1, <2>1 DEF PlanRows
  <2> QED BY <1>5, <2>1, <2>2, PlanAnswered
<1> QED BY <1>2, <1>3, <1>4, <1>5 DEF SeedAnswered

\* While it runs, the sizes are worked out for the number of volumes asked for.
LEMMA SpecsNow ==
  ASSUME PlanInv, atStep # "off"
  PROVE  /\ specs \in Seq(Nat) /\ Len(specs) \in Nat /\ asked \in Nat \ {0}
         /\ specs # <<>> => specs = SpecsOf(ChapterTarget, asked) /\ Len(specs) = asked
<1>1. asked \in Nat \ {0} /\ ChapterTarget \in Nat \ {0}
  BY MostIs, PlanningAssumption DEF PlanInv, PlanTypes
<1>2. specs \in {<<>>, SpecsOf(ChapterTarget, asked)}
  BY DEF PlanInv, VolumesFollow
<1>3. SpecsOf(ChapterTarget, asked) \in Seq(Nat) /\ Len(SpecsOf(ChapterTarget, asked)) = asked
  BY <1>1, SpecsAre
<1>4. <<>> \in Seq(Nat)
  OBVIOUS
<1>5. specs \in Seq(Nat)
  BY <1>2, <1>3, <1>4
<1> QED BY <1>1, <1>2, <1>3, <1>5

\* The questions of the incubator and of the plan.
LEMMA PlanAsks ==
  ASSUME PlanInv,
         SeedBrief \/ SeedCast \/ CharacterCard \/ SeedWorld \/ MasterBible \/ MasterContract \/ VolumeCore \/ VolumeDetails
  PROVE  PlanInv'
<1>1. CASE SeedBrief
  BY <1>1, PlanWaits DEF SeedBrief, Going
<1>2. CASE SeedCast
  BY <1>2, PlanWaits DEF SeedCast, Going
<1>3. CASE CharacterCard
  BY <1>3, PlanWaits DEF CharacterCard, Going
<1>4. CASE SeedWorld
  BY <1>4, PlanWaits DEF SeedWorld, Going
<1>5. CASE MasterBible
  BY <1>5, PlanWaits DEF MasterBible, Planning, Going
<1>6. CASE MasterContract
  BY <1>6, PlanWaits DEF MasterContract, Planning, Going
<1>7. CASE VolumeCore
  BY <1>7, PlanWaits DEF VolumeCore, Planning, Going
<1>8. CASE VolumeDetails
  <2>1. atStep = "go" /\ specs # <<>> /\ ~(Len(planRow.volumes) >= Len(specs)) /\ Waits("details")
    BY <1>8 DEF VolumeDetails, Planning, Going, Expanded
  <2>2. Len(planRow.volumes) \in Nat /\ Len(specs) \in Nat
    BY <2>1, SpecsNow, RowIs DEF PlanInv, PlanTypes
  <2> QED BY <2>1, <2>2, PlanWaits
<1> QED BY <1>1, <1>2, <1>3, <1>4, <1>5, <1>6, <1>7, <1>8

----------------------------------------------------------------------------
(* The plan of the book.                                                   *)

\* The answer with the details of a volume settles its size.
LEMMA PlanDetailed ==
  ASSUME PlanInv, atStep = "details",
         Saves([planRow EXCEPT !.volumes = Append(@, specs[Len(planRow.volumes) + 1]), !.core = 0])
  PROVE  PlanInv'
<1>1. planRow \in PlanRows
  BY DEF PlanInv, PlanTypes
<1>2. PICK n \in Nat : n = Len(planRow.volumes)
  BY <1>1, RowIs
<1>3. PICK vols : vols = planRow.volumes
  OBVIOUS
<1>4. PICK more : more = Append(planRow.volumes, specs[n + 1])
  OBVIOUS
<1>5. PICK row : row = [planRow EXCEPT !.volumes = more, !.core = 0]
  OBVIOUS
<1>6. planRow' = row
  <2>1. row = [planRow EXCEPT !.volumes = Append(@, specs[n + 1]), !.core = 0]
    BY <1>4, <1>5
  <2> QED BY <1>2, <2>1 DEF Saves
<1>7. /\ specs # <<>> /\ n < Len(specs) /\ specs \in Seq(Nat) /\ Len(specs) = asked /\ asked \in Nat
      /\ specs = SpecsOf(ChapterTarget, asked)
  <2>1. specs # <<>> /\ n < Len(specs)
    BY <1>2 DEF PlanInv, VolumesFollow
  <2> QED BY <2>1, SpecsNow
<1>8. specs[n + 1] \in Nat
  <2>1. n + 1 \in 1..Len(specs)
    BY <1>2, <1>7
  <2> QED BY <1>7, <2>1, ElementOfSeq
<1>9. vols \in Seq(Nat) /\ Len(vols) = n /\ more = Append(vols, specs[n + 1])
  BY <1>1, <1>2, <1>3, <1>4, RowIs
<1>10. /\ more \in Seq(Nat) /\ Len(more) = n + 1 /\ more[n + 1] = specs[n + 1]
       /\ \A i \in 1..n : more[i] = vols[i]
  BY <1>2, <1>8, <1>9, AppendProperties
<1>11. /\ row \in PlanRows /\ row.phase = planRow.phase /\ row.next = planRow.next /\ row.routes = planRow.routes
       /\ row.debts = planRow.debts /\ row.volumes = more
  <2>1. PICK half : half = [planRow EXCEPT !.volumes = more]
    OBVIOUS
  <2>2. row = [half EXCEPT !.core = 0]
    BY <1>1, <1>5, <2>1 DEF PlanRows
  <2>3. /\ half \in PlanRows /\ half.phase = planRow.phase /\ half.next = planRow.next /\ half.routes = planRow.routes
        /\ half.debts = planRow.debts /\ half.volumes = more
    BY <1>1, <1>10, <2>1 DEF PlanRows
  <2> QED BY <2>2, <2>3 DEF PlanRows
<1>12. /\ atStep' = "go" /\ book' = book /\ specs' = specs /\ asked' = asked /\ recounted' = recounted /\ edits' = edits
       /\ unfit' = unfit /\ resumes' = resumes
  BY DEF Saves, authorVars
<1>13. PlanTypes'
  BY <1>6, <1>11, <1>12 DEF PlanInv, PlanTypes
<1>14. VolumesFollow'
  <2>1. specs' \in {<<>>, SpecsOf(ChapterTarget, asked')}
    BY <1>7, <1>12
  <2>2. planRow'.volumes = more
    BY <1>6, <1>11
  <2>3. ASSUME ~recounted, NEW i \in 1..n + 1 PROVE more[i] = SpecsOf(ChapterTarget, asked)[i]
    <3>1. CASE i = n + 1
      BY <1>7, <1>10, <3>1
    <3>2. CASE i # n + 1
      <4>1. i \in 1..n
        BY <1>2, <3>2
      <4>2. vols[i] = SpecsOf(ChapterTarget, asked)[i]
        BY <1>2, <1>3, <2>3, <4>1 DEF PlanInv, VolumesFollow
      <4> QED BY <1>10, <4>1, <4>2
    <3> QED BY <3>1, <3>2
  <2>4. ~recounted => Len(more) <= asked /\ \A i \in 1..Len(more) : more[i] = SpecsOf(ChapterTarget, asked)[i]
    BY <1>2, <1>7, <1>10, <2>3
  <2> QED BY <1>12, <2>1, <2>2, <2>4 DEF VolumesFollow
<1>15. PlanStage'
  BY <1>6, <1>11, <1>12 DEF PlanInv, PlanStage, V
<1>16. Reach'
  BY <1>6, <1>11, <1>12, ReachKept DEF PlanInv
<1>17. DebtsKnown'
  BY <1>6, <1>11, <1>12, DebtsKept DEF PlanInv
<1>18. AppliedIsKnown'
  BY <1>6, <1>11, <1>12, AppliedKept DEF PlanInv
<1>19. UnfitOnlyIfRecounted'
  BY <1>12 DEF PlanInv, UnfitOnlyIfRecounted
<1> QED BY <1>13, <1>14, <1>15, <1>16, <1>17, <1>18, <1>19 DEF PlanInv

LEMMA PlanMasterAnswered == PlanInv /\ MasterAnswered => PlanInv'
<1> SUFFICES ASSUME PlanInv, MasterAnswered PROVE PlanInv'
  OBVIOUS
<1>1. planRow \in PlanRows
  BY DEF PlanInv, PlanTypes
<1>2. CASE atStep = "bible" /\ Saves([planRow EXCEPT !.bible = TRUE])
  <2>1. PICK row : row = [planRow EXCEPT !.bible = TRUE]
    OBVIOUS
  <2>2. /\ row \in PlanRows /\ row.phase = planRow.phase /\ row.next = planRow.next /\ row.routes = planRow.routes
        /\ row.debts = planRow.debts /\ row.volumes = planRow.volumes
    BY <1>1, <2>1 DEF PlanRows
  <2> QED BY <1>2, <2>1, <2>2, PlanAnswered
<1>3. CASE atStep = "contract" /\ Saves([planRow EXCEPT !.contracts = @ + 1])
  <2>1. PICK row : row = [planRow EXCEPT !.contracts = @ + 1]
    OBVIOUS
  <2>2. planRow.contracts + 1 \in Nat
    BY <1>1, RowIs
  <2>3. /\ row \in PlanRows /\ row.phase = planRow.phase /\ row.next = planRow.next /\ row.routes = planRow.routes
        /\ row.debts = planRow.debts /\ row.volumes = planRow.volumes
    BY <1>1, <2>1, <2>2 DEF PlanRows
  <2>4. Saves(row) /\ atStep # "off"
    BY <1>3, <2>1
  <2> QED BY <2>3, <2>4, PlanAnswered
<1>4. CASE atStep = "core" /\ Saves([planRow EXCEPT !.core = Len(planRow.volumes) + 1])
  <2>1. PICK row : row = [planRow EXCEPT !.core = Len(planRow.volumes) + 1]
    OBVIOUS
  <2>2. Len(planRow.volumes) + 1 \in Nat
    BY <1>1, RowIs
  <2>3. /\ row \in PlanRows /\ row.phase = planRow.phase /\ row.next = planRow.next /\ row.routes = planRow.routes
        /\ row.debts = planRow.debts /\ row.volumes = planRow.volumes
    BY <1>1, <2>1, <2>2 DEF PlanRows
  <2> QED BY <1>4, <2>1, <2>3, PlanAnswered
<1>5. CASE /\ atStep = "details"
           /\ Saves([planRow EXCEPT !.volumes = Append(@, specs[Len(planRow.volumes) + 1]), !.core = 0])
  BY <1>5, PlanDetailed
<1> QED BY <1>2, <1>3, <1>4, <1>5 DEF MasterAnswered

LEMMA BareBooks ==
  /\ [plan |-> <<>>, chapters |-> <<Bare>>] \in PlannedBooks
  /\ Len(<<Bare>>) = 1 /\ <<Bare>>[1] = Bare /\ Bare.route = "none"
<1>1. Bare \in [route : {"none", "good", "debt"}, text : BOOLEAN] /\ Bare.route = "none"
  BY DEF Bare
<1>2. <<Bare>> \in Seq([route : {"none", "good", "debt"}, text : BOOLEAN])
  BY <1>1
<1>3. <<>> \in Seq([size : Nat, routes : Seq({"good", "debt", "spoiled"})])
  OBVIOUS
<1> QED BY <1>1, <1>2, <1>3 DEF PlannedBooks

LEMMA PlanIncubated == PlanInv /\ Incubated => PlanInv'
<1> SUFFICES ASSUME PlanInv, Incubated PROVE PlanInv'
  OBVIOUS
<1>1. /\ book' = [plan |-> <<>>, chapters |-> <<Bare>>] /\ atStep' = "incubated" /\ atStep = "go"
      /\ planRow.phase = "incubator" /\ planRow' = planRow /\ specs' = specs /\ asked' = asked
      /\ recounted' = recounted /\ edits' = edits /\ unfit' = unfit /\ resumes' = resumes
  BY DEF Incubated, Going, authorVars
<1>2. /\ book' \in PlannedBooks /\ book'.plan = <<>> /\ Len(book'.chapters) = 1 /\ book'.chapters[1].route = "none"
  BY <1>1, BareBooks
<1>3. PlanTypes'
  BY <1>1, <1>2 DEF PlanInv, PlanTypes
<1>4. VolumesFollow'
  BY <1>1, FollowKept DEF PlanInv
<1>5. PlanStage'
  BY <1>1, <1>2 DEF PlanInv, PlanStage
<1>6. Reach'
  <2>1. Len(book'.chapters) \in 1..ChapterTarget
    BY <1>2, PlanningAssumption
  <2> QED BY <1>1, <2>1 DEF Reach
<1>7. DebtsKnown'
  BY <1>1, DebtsKept DEF PlanInv
<1>8. AppliedIsKnown'
  BY <1>1, <1>2 DEF AppliedIsKnown
<1>9. UnfitOnlyIfRecounted'
  BY <1>1 DEF PlanInv, UnfitOnlyIfRecounted
<1> QED BY <1>3, <1>4, <1>5, <1>6, <1>7, <1>8, <1>9 DEF PlanInv

LEMMA PlanMasterBegins == PlanInv /\ MasterBegins => PlanInv'
<1> SUFFICES ASSUME PlanInv, MasterBegins PROVE PlanInv'
  OBVIOUS
<1>1. PICK row : row = [planRow EXCEPT !.phase = "master"]
  OBVIOUS
<1>2. /\ planRow' = row /\ book' = book /\ atStep' = "go" /\ atStep # "off"
      /\ planRow.phase \in {"incubator", "master"} /\ specs' = SpecsOf(ChapterTarget, asked) /\ asked' = asked
      /\ recounted' = recounted /\ edits' = edits /\ unfit' = unfit /\ resumes' = resumes
  BY <1>1 DEF PlanInv, PlanStage, MasterBegins, Going, authorVars
<1>3. /\ row \in PlanRows /\ row.phase = "master" /\ row.next = planRow.next /\ row.routes = planRow.routes
      /\ row.debts = planRow.debts /\ row.volumes = planRow.volumes
  BY <1>1 DEF PlanInv, PlanTypes, PlanRows
<1>4. PlanTypes'
  BY <1>2, <1>3 DEF PlanInv, PlanTypes
<1>5. VolumesFollow'
  BY <1>2, <1>3 DEF PlanInv, VolumesFollow
<1>6. PlanStage'
  BY <1>2, <1>3 DEF PlanInv, PlanStage
<1>7. Reach'
  BY <1>2, <1>3 DEF PlanInv, Reach
<1>8. DebtsKnown'
  BY <1>2, <1>3, DebtsKept DEF PlanInv
<1>9. AppliedIsKnown'
  BY <1>2, <1>3, AppliedKept DEF PlanInv
<1>10. UnfitOnlyIfRecounted'
  BY <1>2 DEF PlanInv, UnfitOnlyIfRecounted
<1> QED BY <1>4, <1>5, <1>6, <1>7, <1>8, <1>9, <1>10 DEF PlanInv

\* A plan that is kept covers the chapters it covered.
LEMMA NormalizedIs ==
  ASSUME NEW sizes \in Seq(Nat), Len(sizes) \in Nat, Total(sizes) = ChapterTarget
  PROVE  /\ Normalized(sizes) \in PlanSeqs /\ Len(Normalized(sizes)) <= Len(sizes)
         /\ Total(SizesOf(Normalized(sizes))) = ChapterTarget
         /\ \A v \in DOMAIN Normalized(sizes) : Normalized(sizes)[v].routes = <<>>
<1>1. PICK kept : kept = IF Len(sizes) <= VolumesKept THEN sizes ELSE SpecsOf(Total(sizes), VolumesKept)
  OBVIOUS
<1>2. kept \in Seq(Nat) /\ Len(kept) <= Len(sizes) /\ Total(kept) = ChapterTarget
  <2>1. CASE Len(sizes) <= VolumesKept
    BY <1>1, <2>1
  <2>2. CASE ~(Len(sizes) <= VolumesKept)
    <3>1. VolumesKept \in Nat \ {0} /\ ChapterTarget \in Nat
      BY PlanningAssumption
    <3>2. kept = SpecsOf(ChapterTarget, VolumesKept)
      BY <1>1, <2>2
    <3>3. kept \in Seq(Nat) /\ Len(kept) = VolumesKept /\ Total(kept) = ChapterTarget
      BY <3>1, <3>2, SpecsAre
    <3> QED BY <2>2, <3>1, <3>3
  <2> QED BY <2>1, <2>2
<1>3. PICK p : p = Normalized(sizes)
  OBVIOUS
<1>4. p = [i \in DOMAIN kept |-> [size |-> kept[i], routes |-> <<>>]]
  BY <1>1, <1>3 DEF Normalized
<1>5. PICK top \in Nat : top = Len(kept) /\ DOMAIN kept = 1..top
  BY <1>2
<1>6. <<>> \in Seq({"good", "debt", "spoiled"})
  OBVIOUS
<1>7. \A i \in 1..top : [size |-> kept[i], routes |-> <<>>] \in [size : Nat, routes : Seq({"good", "debt", "spoiled"})]
  BY <1>2, <1>5, <1>6, ElementOfSeq
<1>8. p \in PlanSeqs /\ Len(p) = top
  BY <1>4, <1>5, <1>7 DEF PlanSeqs
<1>9. \A i \in 1..top : p[i].size = kept[i] /\ p[i].routes = <<>>
  BY <1>4, <1>5
<1>10. DOMAIN p = 1..top
  BY <1>4, <1>5
<1>11. kept = [i \in 1..top |-> kept[i]]
  BY <1>2, <1>5
<1>12. SizesOf(p) = kept
  BY <1>9, <1>10, <1>11 DEF SizesOf
<1> QED BY <1>2, <1>3, <1>5, <1>8, <1>9, <1>10, <1>12

\* A finished plan that does not cover the book had its number of volumes changed on the way.
LEMMA FinishedFits ==
  ASSUME PlanInv, atStep # "off", specs # <<>>, Len(planRow.volumes) >= Len(specs)
  PROVE  LET sizes == SubSeq(planRow.volumes, 1, Len(specs))
         IN /\ sizes \in Seq(Nat) /\ Len(sizes) = asked /\ asked \in Nat
            /\ ~recounted => Total(sizes) = ChapterTarget
<1>1. PICK vols : vols = planRow.volumes
  OBVIOUS
<1>2. vols \in Seq(Nat) /\ Len(vols) \in Nat
  BY <1>1, RowIs DEF PlanInv, PlanTypes
<1>3. Len(specs) = asked /\ asked \in Nat \ {0}
  BY SpecsNow
<1>4. Len(vols) >= asked
  BY <1>1, <1>3
<1>5. PICK sizes : sizes = SubSeq(vols, 1, asked)
  OBVIOUS
<1>6. sizes \in Seq(Nat) /\ Len(sizes) = asked /\ \A i \in 1..asked : sizes[i] = vols[i]
  <2>1. sizes = [i \in 1..asked |-> vols[i]]
    BY <1>2, <1>3, <1>4, <1>5
  <2>2. \A i \in 1..asked : vols[i] \in Nat
    BY <1>2, <1>3, <1>4
  <2> QED BY <1>3, <2>1, <2>2
<1>7. ASSUME ~recounted PROVE Total(sizes) = ChapterTarget
  <2>1. PICK even : even = SpecsOf(ChapterTarget, asked)
    OBVIOUS
  <2>2. even \in Seq(Nat) /\ Len(even) = asked /\ Total(even) = ChapterTarget
    BY <1>3, <2>1, SpecsAre, PlanningAssumption
  <2>3. \A i \in 1..asked : vols[i] = even[i]
    <3>1. Len(vols) <= asked /\ \A i \in 1..Len(vols) : vols[i] = even[i]
      BY <1>1, <1>7, <2>1 DEF PlanInv, VolumesFollow
    <3> QED BY <1>2, <1>3, <1>4, <3>1
  <2>4. sizes = even
    <3>1. sizes = [i \in 1..asked |-> sizes[i]] /\ even = [i \in 1..asked |-> even[i]]
      BY <1>6, <2>2
    <3>2. \A i \in 1..asked : sizes[i] = even[i]
      BY <1>6, <2>3
    <3> QED BY <3>1, <3>2
  <2> QED BY <2>2, <2>4
<1> QED BY <1>1, <1>3, <1>5, <1>6, <1>7

LEMMA VolumeIs ==
  ASSUME NEW p \in PlanSeqs, NEW v \in DOMAIN p
  PROVE  /\ Len(p) \in Nat /\ v \in 1..Len(p) /\ DOMAIN p = 1..Len(p)
         /\ p[v] = [size |-> p[v].size, routes |-> p[v].routes]
         /\ p[v].size \in Nat /\ p[v].routes \in Seq({"good", "debt", "spoiled"})
<1>1. Len(p) \in Nat /\ v \in 1..Len(p) /\ DOMAIN p = 1..Len(p)
  BY DEF PlanSeqs
<1>2. p[v] \in [size : Nat, routes : Seq({"good", "debt", "spoiled"})]
  BY <1>1, ElementOfSeq DEF PlanSeqs
<1> QED BY <1>1, <1>2

LEMMA PlanMasterSaved == PlanInv /\ MasterSaved => PlanInv'
<1> SUFFICES ASSUME PlanInv, MasterSaved PROVE PlanInv'
  OBVIOUS
<1>1. PICK sizes : sizes = SubSeq(planRow.volumes, 1, Len(specs))
  OBVIOUS
<1>2. /\ atStep = "go" /\ planRow.phase = "master" /\ specs # <<>> /\ Len(planRow.volumes) >= Len(specs)
      /\ planRow' = planRow /\ specs' = specs /\ asked' = asked /\ recounted' = recounted /\ edits' = edits
      /\ resumes' = resumes
  BY DEF MasterSaved, Planning, Expanded, Going, authorVars
<1>3. /\ sizes \in Seq(Nat) /\ Len(sizes) = asked /\ asked \in Nat /\ (~recounted => Total(sizes) = ChapterTarget)
  BY <1>1, <1>2, FinishedFits
<1>4. asked <= MostVolumes /\ MostVolumes \in Nat
  BY MostIs DEF PlanInv, PlanTypes
<1>5. CASE Total(sizes) = ChapterTarget
  <2>1. PICK p : p = Normalized(sizes)
    OBVIOUS
  <2>2. book' = [book EXCEPT !.plan = p] /\ atStep' = "planned" /\ unfit' = unfit
    BY <1>1, <1>5, <2>1 DEF MasterSaved
  <2>3. /\ p \in PlanSeqs /\ Len(p) <= Len(sizes) /\ Total(SizesOf(p)) = ChapterTarget
        /\ \A v \in DOMAIN p : p[v].routes = <<>>
    BY <1>3, <1>5, <2>1, NormalizedIs
  <2>4. Whole(p)
    <3>1. Len(p) \in Nat
      BY <2>3 DEF PlanSeqs
    <3> QED BY <1>3, <1>4, <2>3, <3>1 DEF Whole
  <2>5. book' \in PlannedBooks /\ book'.plan = p /\ book'.chapters = book.chapters
    BY <2>2, <2>3 DEF PlanInv, PlanTypes, PlannedBooks, PlanSeqs
  <2>6. PlanTypes'
    BY <1>2, <2>2, <2>5 DEF PlanInv, PlanTypes
  <2>7. VolumesFollow'
    BY <1>2, <2>2, FollowKept DEF PlanInv
  <2>8. PlanStage'
    BY <1>2, <2>2, <2>3, <2>4, <2>5 DEF PlanInv, PlanStage
  <2>9. Reach'
    BY <1>2, <2>2, <2>5 DEF PlanInv, Reach
  <2>10. DebtsKnown'
    BY <1>2, DebtsKept DEF PlanInv
  <2>11. AppliedIsKnown'
    <3>1. Len(book.chapters) = 1 /\ book.chapters[1].route = "none"
      BY <1>2 DEF PlanInv, PlanStage
    <3>2. Len(book'.chapters) = 1 /\ book'.chapters[1].route = "none"
      BY <2>5, <3>1
    <3>3. ASSUME NEW v \in DOMAIN p, NEW k \in 1..p[v].size, StartOf(p, v) + k <= 1
          PROVE  StartOf(p, v) + k = 1
      <4>1. Len(p) \in Nat /\ v \in 1..Len(p) /\ p[v].size \in Nat
        BY <2>3, VolumeIs
      <4>2. v \in 1..Len(p) + 1
        BY <4>1
      <4>3. StartOf(p, v) \in Nat
        BY <2>3, <4>2, StartsAre
      <4> QED BY <3>3, <4>1, <4>3
    <3>4. \A v \in DOMAIN p : \A k \in 1..p[v].size :
            StartOf(p, v) + k <= 1 => book'.chapters[StartOf(p, v) + k].route = "none"
      BY <3>2, <3>3
    <3> QED BY <2>5, <3>2, <3>4 DEF AppliedIsKnown
  <2>12. UnfitOnlyIfRecounted'
    BY <1>2, <2>2 DEF PlanInv, UnfitOnlyIfRecounted
  <2> QED BY <2>6, <2>7, <2>8, <2>9, <2>10, <2>11, <2>12 DEF PlanInv
<1>6. CASE Total(sizes) # ChapterTarget
  <2>1. atStep' = "off" /\ unfit' = TRUE /\ book' = book /\ recounted = TRUE
    BY <1>1, <1>3, <1>6 DEF MasterSaved, PlanInv, PlanTypes
  <2>2. PlanTypes'
    BY <1>2, <2>1 DEF PlanInv, PlanTypes
  <2>3. VolumesFollow'
    BY <1>2, <2>1, FollowKept DEF PlanInv
  <2>4. PlanStage'
    BY <1>2, <2>1 DEF PlanInv, PlanStage
  <2>5. Reach'
    BY <1>2, <2>1, ReachKept DEF PlanInv
  <2>6. DebtsKnown'
    BY <1>2, DebtsKept DEF PlanInv
  <2>7. AppliedIsKnown'
    BY <1>2, <2>1, AppliedKept DEF PlanInv
  <2>8. UnfitOnlyIfRecounted'
    BY <1>2, <2>1 DEF UnfitOnlyIfRecounted
  <2> QED BY <2>2, <2>3, <2>4, <2>5, <2>6, <2>7, <2>8 DEF PlanInv
<1> QED BY <1>5, <1>6

\* A plan as a sequence of volumes.
LEMMA PlanIs ==
  ASSUME PlanInv
  PROVE  /\ book = [plan |-> book.plan, chapters |-> book.chapters] /\ book.plan \in PlanSeqs
         /\ book.chapters \in Seq([route : {"none", "good", "debt"}, text : BOOLEAN])
         /\ Len(book.plan) \in Nat /\ Len(book.chapters) \in Nat
         /\ planRow.next \in Nat \ {0}
BY DEF PlanInv, PlanTypes, PlannedBooks, PlanSeqs, PlanRows

LEMMA PlanMarked == PlanInv /\ MasterMarked => PlanInv'
<1> SUFFICES ASSUME PlanInv, MasterMarked PROVE PlanInv'
  OBVIOUS
<1>1. planRow \in PlanRows
  BY DEF PlanInv, PlanTypes
<1>2. PICK row : row = [planRow EXCEPT !.phase = "volumes", !.next = 1]
  OBVIOUS
<1>3. /\ row \in PlanRows /\ row.phase = "volumes" /\ row.next = 1 /\ row.routes = planRow.routes
      /\ row.debts = planRow.debts /\ row.volumes = planRow.volumes
  <2>1. PICK half : half = [planRow EXCEPT !.phase = "volumes"]
    OBVIOUS
  <2>2. row = [half EXCEPT !.next = 1]
    BY <1>1, <1>2, <2>1 DEF PlanRows
  <2>3. /\ half \in PlanRows /\ half.phase = "volumes" /\ half.routes = planRow.routes
        /\ half.debts = planRow.debts /\ half.volumes = planRow.volumes
    BY <1>1, <2>1 DEF PlanRows
  <2> QED BY <2>2, <2>3 DEF PlanRows
<1>4. /\ atStep = "planned" /\ planRow' = row /\ atStep' = "go" /\ book' = book /\ specs' = specs /\ asked' = asked
      /\ recounted' = recounted /\ edits' = edits /\ unfit' = unfit /\ resumes' = resumes
  BY <1>2 DEF MasterMarked, Saves, authorVars
<1>5. planRow.phase = "master" /\ Whole(book.plan)
  BY <1>4 DEF PlanInv, PlanStage
<1>6. PlanTypes'
  BY <1>3, <1>4 DEF PlanInv, PlanTypes
<1>7. VolumesFollow'
  BY <1>3, <1>4, FollowKept DEF PlanInv
<1>8. Len(book.plan) \in Nat /\ StartOf(book.plan, 1) = 0 /\ Len(book.chapters) \in 1..ChapterTarget /\ ChapterTarget \in Nat
  BY PlanIs, StartsAre, PlanningAssumption DEF PlanInv, Reach
<1>9. PlanStage'
  <2>1. 1 <= Len(book.plan) + 1
    BY <1>8
  <2> QED BY <1>3, <1>4, <1>5, <2>1 DEF PlanStage, V
<1>10. Reach'
  <2>1. V' = 1 /\ 1..1 - 1 = {}
    BY <1>3, <1>4 DEF V
  <2>2. StartOf(book.plan, 1) <= Len(book.chapters)
    BY <1>8
  <2> QED BY <1>4, <1>8, <2>1, <2>2 DEF Reach
<1>11. DebtsKnown'
  BY <1>3, <1>4, DebtsKept DEF PlanInv
<1>12. AppliedIsKnown'
  BY <1>3, <1>4, AppliedKept DEF PlanInv
<1>13. UnfitOnlyIfRecounted'
  BY <1>4 DEF PlanInv, UnfitOnlyIfRecounted
<1> QED BY <1>6, <1>7, <1>9, <1>10, <1>11, <1>12, <1>13 DEF PlanInv

LEMMA PlanDone == PlanInv /\ PlanningDone => PlanInv'
<1> SUFFICES ASSUME PlanInv, PlanningDone PROVE PlanInv'
  OBVIOUS
<1>1. PICK row : row = [planRow EXCEPT !.phase = "chapters"]
  OBVIOUS
<1>2. /\ planRow' = row /\ book' = book /\ atStep = "go" /\ atStep' = "off" /\ planRow.phase = "volumes" /\ V > Len(book.plan)
      /\ specs' = specs /\ asked' = asked
      /\ recounted' = recounted /\ edits' = edits /\ unfit' = unfit /\ resumes' = resumes
  BY <1>1 DEF PlanningDone, Going, authorVars
<1>3. /\ row \in PlanRows /\ row.phase = "chapters" /\ row.next = planRow.next /\ row.routes = planRow.routes
      /\ row.debts = planRow.debts /\ row.volumes = planRow.volumes
  BY <1>1 DEF PlanInv, PlanTypes, PlanRows
<1>4. PlanTypes'
  BY <1>2, <1>3 DEF PlanInv, PlanTypes
<1>5. VolumesFollow'
  BY <1>2, <1>3, FollowKept DEF PlanInv
<1>6. PlanStage'
  BY <1>2, <1>3 DEF PlanInv, PlanStage, V
<1>7. Reach'
  <2>1. \A v : Bound(v)' <=> Bound(v)
    BY <1>2 DEF Bound
  <2>2. V' = V
    BY <1>2, <1>3 DEF V
  <2> QED BY <1>2, <1>3, <2>1, <2>2 DEF PlanInv, Reach
<1>8. DebtsKnown'
  BY <1>2, <1>3, DebtsKept DEF PlanInv
<1>9. AppliedIsKnown'
  BY <1>2, <1>3, AppliedKept DEF PlanInv
<1>10. UnfitOnlyIfRecounted'
  BY <1>2 DEF PlanInv, UnfitOnlyIfRecounted
<1> QED BY <1>4, <1>5, <1>6, <1>7, <1>8, <1>9, <1>10 DEF PlanInv

\* A stop, a resumption and new settings leave row and book.
LEMMA PlanLeft ==
  ASSUME PlanInv, Stop \/ ResumePlanning \/ AuthorRecounts \/ UNCHANGED planVars
  PROVE  PlanInv'
<1>0. asked \in VolumeCounts /\ recounted \in BOOLEAN /\ resumes \in Nat /\ edits \in Nat
  BY DEF PlanInv, PlanTypes
<1>1. /\ planRow' = planRow /\ book' = book /\ unfit' = unfit
      /\ atStep' \in {"off", "go", atStep} /\ (recounted => recounted')
      /\ asked' \in VolumeCounts /\ recounted' \in BOOLEAN /\ resumes' \in Nat /\ edits' \in Nat
  <2>1. CASE Stop
    BY <1>0, <2>1 DEF Stop, authorVars
  <2>2. CASE ResumePlanning
    BY <1>0, <2>2 DEF ResumePlanning, authorVars
  <2>3. CASE AuthorRecounts
    BY <1>0, <2>3 DEF AuthorRecounts, Edits
  <2>4. CASE UNCHANGED planVars
    BY <1>0, <2>4 DEF planVars, authorVars
  <2> QED BY <2>1, <2>2, <2>3, <2>4
<1>2. PlanTypes'
  BY <1>1 DEF PlanInv, PlanTypes
<1>3. VolumesFollow'
  BY DEF PlanInv, VolumesFollow, Stop, ResumePlanning, AuthorRecounts, Edits, planVars, authorVars
<1>4. PlanStage'
  BY <1>1 DEF PlanInv, PlanStage, V
<1>5. Reach'
  BY <1>1, ReachKept DEF PlanInv
<1>6. DebtsKnown'
  BY <1>1, DebtsKept DEF PlanInv
<1>7. AppliedIsKnown'
  BY <1>1, AppliedKept DEF PlanInv
<1>8. UnfitOnlyIfRecounted'
  BY <1>1 DEF PlanInv, UnfitOnlyIfRecounted
<1> QED BY <1>2, <1>3, <1>4, <1>5, <1>6, <1>7, <1>8 DEF PlanInv

----------------------------------------------------------------------------
(* The routes.                                                             *)

Rerouted(p, v, r) == [p EXCEPT ![v].routes = r]

\* Other routes for a volume leave the sizes alone.
LEMMA RoutesSet ==
  ASSUME NEW p \in PlanSeqs, NEW v \in DOMAIN p, NEW r \in Seq({"good", "debt", "spoiled"})
  PROVE  /\ Rerouted(p, v, r) \in PlanSeqs /\ Len(Rerouted(p, v, r)) = Len(p) /\ DOMAIN Rerouted(p, v, r) = DOMAIN p
         /\ Rerouted(p, v, r)[v].size = p[v].size /\ Rerouted(p, v, r)[v].routes = r
         /\ \A u \in DOMAIN p : Rerouted(p, v, r)[u].size = p[u].size /\ (u # v => Rerouted(p, v, r)[u] = p[u])
         /\ \A u : StartOf(Rerouted(p, v, r), u) = StartOf(p, u)
         /\ Whole(p) => Whole(Rerouted(p, v, r))
<1>0. PICK q : q = Rerouted(p, v, r)
  OBVIOUS
<1>1. /\ Len(p) \in Nat /\ v \in 1..Len(p) /\ DOMAIN p = 1..Len(p)
      /\ p[v] = [size |-> p[v].size, routes |-> p[v].routes] /\ p[v].size \in Nat
  BY VolumeIs
<1>2. PICK top \in Nat : top = Len(p)
  BY <1>1
<1>3. PICK one : one = [p[v] EXCEPT !.routes = r]
  OBVIOUS
<1>4. one = [size |-> p[v].size, routes |-> r]
  BY <1>1, <1>3
<1>5. one \in [size : Nat, routes : Seq({"good", "debt", "spoiled"})]
  BY <1>1, <1>4
<1>6. q = [u \in 1..top |-> IF u = v THEN one ELSE p[u]]
  <2>1. q = [p EXCEPT ![v] = one]
    BY <1>0, <1>3 DEF Rerouted
  <2>2. p = [u \in 1..top |-> p[u]]
    BY <1>1, <1>2 DEF PlanSeqs
  <2> QED BY <1>1, <1>2, <2>1, <2>2
<1>7. \A u \in 1..top : p[u] \in [size : Nat, routes : Seq({"good", "debt", "spoiled"})]
  BY <1>2, ElementOfSeq DEF PlanSeqs
<1>8. \A u \in 1..top : (IF u = v THEN one ELSE p[u]) \in [size : Nat, routes : Seq({"good", "debt", "spoiled"})]
  BY <1>5, <1>7
<1>9. q \in PlanSeqs /\ Len(q) = top /\ DOMAIN q = 1..top
  <2>1. PICK R : R = [size : Nat, routes : Seq({"good", "debt", "spoiled"})]
    OBVIOUS
  <2>2. \A u \in 1..top : q[u] \in R
    BY <1>6, <1>8, <2>1
  <2>3. q = [u \in 1..top |-> q[u]]
    BY <1>6
  <2>4. q \in Seq(R) /\ Len(q) = top /\ DOMAIN q = 1..top
    BY <2>2, <2>3
  <2> QED BY <2>1, <2>4 DEF PlanSeqs
<1>10. q[v] = one
  BY <1>1, <1>2, <1>6
<1>11. \A u \in 1..top : q[u].size = p[u].size /\ (u # v => q[u] = p[u])
  <2>1. one.size = p[v].size
    BY <1>4
  <2> QED BY <1>6, <2>1
<1>12. SizesOf(q) = SizesOf(p)
  BY <1>1, <1>2, <1>9, <1>11 DEF SizesOf
<1>13. q[v].size = p[v].size /\ q[v].routes = r
  BY <1>4, <1>10
<1>14. (\A u : StartOf(q, u) = StartOf(p, u)) /\ (Whole(p) => Whole(q))
  BY <1>2, <1>9, <1>12 DEF StartOf, Whole
<1> QED BY <1>0, <1>1, <1>2, <1>9, <1>11, <1>13, <1>14

LEMMA SoundPrefixIs ==
  ASSUME NEW S, NEW r \in Seq(S)
  PROVE  /\ SoundPrefix(r) \in Seq(S) /\ Len(SoundPrefix(r)) \in Nat /\ Len(SoundPrefix(r)) <= Len(r) /\ Len(r) \in Nat
         /\ \A k \in 1..Len(SoundPrefix(r)) : SoundPrefix(r)[k] = r[k] /\ r[k] = "good"
         /\ Len(SoundPrefix(r)) < Len(r) => r[Len(SoundPrefix(r)) + 1] # "good"
<1>1. PICK top \in Nat : top = Len(r) /\ DOMAIN r = 1..top
  OBVIOUS
<1>2. PICK faulty : faulty = {k \in DOMAIN r : r[k] # "good"}
  OBVIOUS
<1>3. CASE faulty = {}
  <2>1. SoundPrefix(r) = r
    BY <1>2, <1>3 DEF SoundPrefix
  <2> QED BY <1>1, <1>2, <1>3, <2>1
<1>4. CASE faulty # {}
  <2>1. PICK m : m = Min(faulty)
    OBVIOUS
  <2>2. faulty \in SUBSET Nat
    BY <1>1, <1>2
  <2>3. m \in faulty /\ \A y \in faulty : m <= y
    BY <1>4, <2>1, <2>2, LeastOf
  <2>4. m \in 1..top /\ r[m] # "good"
    BY <1>1, <1>2, <2>3
  <2>5. PICK j \in Nat : m = j + 1
    BY <2>4
  <2>6. SoundPrefix(r) = SubSeq(r, 1, j)
    <3>1. m - 1 = j
      BY <2>5
    <3> QED BY <1>2, <1>4, <2>1, <3>1 DEF SoundPrefix
  <2>7. j < top
    BY <2>4, <2>5
  <2>8. SubSeq(r, 1, j) = [k \in 1..j |-> r[k]]
    BY <1>1, <2>7
  <2>9. \A k \in 1..j : r[k] \in S /\ r[k] = "good"
    <3>1. \A k \in 1..j : k \in 1..top /\ ~(m <= k)
      BY <1>1, <2>5, <2>7
    <3> QED BY <1>1, <1>2, <2>3, <3>1, ElementOfSeq
  <2>10. SoundPrefix(r) \in Seq(S) /\ Len(SoundPrefix(r)) = j /\ \A k \in 1..j : SoundPrefix(r)[k] = r[k]
    BY <2>6, <2>8, <2>9
  <2> QED BY <1>1, <2>4, <2>5, <2>7, <2>9, <2>10
<1> QED BY <1>3, <1>4

ChapterSeqs == Seq([route : {"none", "good", "debt"}, text : BOOLEAN])

\* The routes reach the volume's chapters, those there are and those that are added.
Reached(new, chapters, start, routes) ==
  /\ new \in ChapterSeqs
  /\ Len(new) = IF Len(chapters) >= start + Len(routes) THEN Len(chapters) ELSE start + Len(routes)
  /\ \A n \in 1..Len(new) :
       new[n].route = IF n \in start + 1..start + Len(routes) THEN routes[n - start]
                      ELSE IF n <= Len(chapters) THEN chapters[n].route ELSE "none"
  /\ \A n \in 1..Len(chapters) : new[n].text = chapters[n].text

LEMMA AppliedIs ==
  ASSUME NEW chapters \in ChapterSeqs, NEW start \in Nat, NEW routes \in Seq(AppliedRoutes)
  PROVE  Reached(Applied(chapters, start, routes), chapters, start, routes)
<1>1. PICK there, more \in Nat : there = Len(chapters) /\ more = Len(routes)
  BY DEF ChapterSeqs
<1>2. PICK all \in Nat : all = (IF there >= start + more THEN there ELSE start + more)
  BY <1>1
<1>3. Max({there, start + more}) = all
  <2>1. there \in Nat /\ start + more \in Nat
    BY <1>1
  <2> QED BY <1>2, <2>1, MaxOfTwo
<1>4. PICK new : new = Applied(chapters, start, routes)
  OBVIOUS
<1> DEFINE Old(n) == IF n <= there THEN chapters[n] ELSE Bare
           New(n) == IF n \in start + 1..start + more THEN [Old(n) EXCEPT !.route = routes[n - start]] ELSE Old(n)
<1>5. new = [n \in 1..all |-> New(n)]
  BY <1>1, <1>3, <1>4 DEF Applied
<1>6. ASSUME NEW n \in 1..all
      PROVE  /\ Old(n) \in [route : {"none", "good", "debt"}, text : BOOLEAN]
             /\ n > there => Old(n).route = "none"
  <2>1. CASE n <= there
    <3>1. n \in 1..Len(chapters)
      BY <1>1, <2>1
    <3>2. chapters[n] \in [route : {"none", "good", "debt"}, text : BOOLEAN]
      BY <3>1, ElementOfSeq DEF ChapterSeqs
    <3>3. Old(n) = chapters[n]
      BY <2>1
    <3>4. ~(n > there)
      BY <1>1, <2>1
    <3> QED BY <3>2, <3>3, <3>4
  <2>2. CASE ~(n <= there)
    BY <2>2 DEF Bare
  <2> QED BY <2>1, <2>2
<1>7. \A n \in start + 1..start + more : routes[n - start] \in {"good", "debt"}
  <2>1. \A n \in start + 1..start + more : n - start \in 1..Len(routes)
    BY <1>1
  <2> QED BY <2>1, ElementOfSeq DEF AppliedRoutes
<1>8. ASSUME NEW n \in 1..all
      PROVE  /\ New(n) \in [route : {"none", "good", "debt"}, text : BOOLEAN]
             /\ New(n).route = IF n \in start + 1..start + more THEN routes[n - start] ELSE Old(n).route
             /\ New(n).text = Old(n).text
  <2> HIDE DEF Old
  <2>1. Old(n) \in [route : {"none", "good", "debt"}, text : BOOLEAN]
    BY <1>6
  <2>2. CASE n \in start + 1..start + more
    <3>1. New(n) = [Old(n) EXCEPT !.route = routes[n - start]] /\ routes[n - start] \in {"good", "debt"}
      BY <1>7, <2>2
    <3> HIDE DEF New
    <3> QED BY <2>1, <2>2, <3>1
  <2>3. CASE n \notin start + 1..start + more
    <3>1. New(n) = Old(n)
      BY <2>3
    <3> HIDE DEF New
    <3> QED BY <2>1, <2>3, <3>1
  <2> QED BY <2>2, <2>3
<1>9. new \in ChapterSeqs /\ Len(new) = all /\ \A n \in 1..all : new[n] = New(n)
  <2> HIDE DEF New
  <2> QED BY <1>5, <1>8 DEF ChapterSeqs
<1>10. ASSUME NEW n \in 1..all
       PROVE  new[n].route = IF n \in start + 1..start + more THEN routes[n - start]
                             ELSE IF n <= there THEN chapters[n].route ELSE "none"
  <2>1. new[n].route = IF n \in start + 1..start + more THEN routes[n - start] ELSE Old(n).route
    <3> HIDE DEF New, Old
    <3> QED BY <1>8, <1>9
  <2>2. Old(n).route = IF n <= there THEN chapters[n].route ELSE "none"
    BY <1>1, <1>6
  <2> QED BY <2>1, <2>2
<1>11. ASSUME NEW n \in 1..there PROVE new[n].text = chapters[n].text
  <2>1. n \in 1..all
    BY <1>1, <1>2
  <2>2. new[n].text = Old(n).text
    <3> HIDE DEF New, Old
    <3> QED BY <1>8, <1>9, <2>1
  <2>3. Old(n) = chapters[n]
    BY <1>1
  <2> QED BY <2>2, <2>3
<1> HIDE DEF New, Old
<1>12. /\ Len(new) = IF there >= start + more THEN there ELSE start + more
       /\ \A n \in 1..Len(new) : new[n].route = IF n \in start + 1..start + more THEN routes[n - start]
                                                ELSE IF n <= there THEN chapters[n].route ELSE "none"
  BY <1>2, <1>9, <1>10
<1> QED BY <1>1, <1>4, <1>9, <1>11, <1>12 DEF Reached

\* A volume whose routes are all there, each of them sound or on record as a debt, is applied.
FitToSave(routes) ==
  /\ planRow.phase = "volumes" /\ V <= Len(book.plan) /\ atStep # "off"
  /\ routes \in Seq(AppliedRoutes) /\ Len(routes) = book.plan[V].size
  /\ \A k \in 1..Len(routes) : routes[k] = "debt" => <<V, k>> \in planRow.debts

LEMMA PlanVolumeSaved ==
  ASSUME PlanInv, NEW routes, FitToSave(routes), VolumeSaved(routes)
  PROVE  PlanInv'
<1>0. /\ planRow.phase = "volumes" /\ V <= Len(book.plan) /\ atStep # "off"
      /\ routes \in Seq(AppliedRoutes) /\ Len(routes) = book.plan[V].size
  BY DEF FitToSave
<1>1. PICK p, chapters : p = book.plan /\ chapters = book.chapters
  OBVIOUS
<1>2. PICK v : v = planRow.next
  OBVIOUS
<1>3. /\ book = [plan |-> p, chapters |-> chapters] /\ p \in PlanSeqs /\ chapters \in ChapterSeqs
      /\ Len(p) \in Nat /\ Len(chapters) \in Nat /\ v \in Nat \ {0} /\ v <= Len(p)
  BY <1>0, <1>1, <1>2, PlanIs DEF V, ChapterSeqs
<1>4. v \in 1..Len(p) /\ DOMAIN p = 1..Len(p) /\ p[v].size \in Nat
  <2>1. v \in 1..Len(p) /\ DOMAIN p = 1..Len(p)
    BY <1>3 DEF PlanSeqs
  <2> QED BY <1>3, <2>1, VolumeIs
<1>5. PICK start \in Nat : start = StartOf(p, v)
  <2>1. v \in 1..Len(p) + 1
    BY <1>4
  <2> QED BY <1>3, <2>1, StartsAre
<1>6. PICK size \in Nat : size = p[v].size /\ size = Len(routes)
  BY <1>0, <1>1, <1>2, <1>4 DEF V
<1>7. PICK q : q = Rerouted(p, v, routes)
  OBVIOUS
<1>8. PICK all : all = Applied(chapters, start, routes)
  OBVIOUS
<1>9. book' = [plan |-> q, chapters |-> all]
  <2>1. book' = [book EXCEPT !.plan[v].routes = routes, !.chapters = Applied(@, StartOf(book.plan, v), routes)]
    BY <1>2 DEF VolumeSaved, V
  <2>2. PICK half : half = [book EXCEPT !.plan[v].routes = routes]
    OBVIOUS
  <2>3. half = [plan |-> q, chapters |-> chapters]
    BY <1>1, <1>3, <1>7, <2>2 DEF Rerouted
  <2>4. book' = [half EXCEPT !.chapters = Applied(@, start, routes)]
    BY <1>1, <1>5, <2>1, <2>2
  <2> QED BY <1>8, <2>3, <2>4
<1>10. /\ planRow' = planRow /\ atStep' = "volume saved" /\ specs' = specs /\ asked' = asked
       /\ recounted' = recounted /\ edits' = edits /\ unfit' = unfit /\ resumes' = resumes
  BY DEF VolumeSaved, authorVars
<1>11. routes \in Seq({"good", "debt", "spoiled"})
  <2>1. \A k \in 1..Len(routes) : routes[k] \in {"good", "debt", "spoiled"}
    BY <1>0, ElementOfSeq DEF AppliedRoutes
  <2>2. routes = [k \in 1..Len(routes) |-> routes[k]] /\ Len(routes) \in Nat
    BY <1>0
  <2> QED BY <2>1, <2>2
<1>12. /\ q \in PlanSeqs /\ Len(q) = Len(p) /\ DOMAIN q = DOMAIN p
       /\ q[v].size = p[v].size /\ q[v].routes = routes
       /\ \A u \in DOMAIN p : q[u].size = p[u].size /\ (u # v => q[u] = p[u])
       /\ \A u : StartOf(q, u) = StartOf(p, u)
       /\ Whole(p) => Whole(q)
  <2>1. v \in DOMAIN p
    BY <1>4
  <2>2. LET new == Rerouted(p, v, routes)
        IN /\ new \in PlanSeqs /\ Len(new) = Len(p) /\ DOMAIN new = DOMAIN p
           /\ new[v].size = p[v].size /\ new[v].routes = routes
           /\ \A u \in DOMAIN p : new[u].size = p[u].size /\ (u # v => new[u] = p[u])
           /\ \A u : StartOf(new, u) = StartOf(p, u)
           /\ Whole(p) => Whole(new)
    BY <1>3, <1>11, <2>1, RoutesSet
  <2> QED BY <1>7, <2>2
<1>28. /\ q[v].size = size /\ q[v].routes = routes
       /\ \A u \in 1..Len(p) : q[u].size = p[u].size /\ (u # v => q[u] = p[u])
       /\ \A u : StartOf(q, u) = StartOf(p, u)
  BY <1>4, <1>6, <1>12, Zenon
<1>13. /\ all \in ChapterSeqs /\ Len(all) = (IF Len(chapters) >= start + size THEN Len(chapters) ELSE start + size)
       /\ \A n \in 1..Len(all) : all[n].route = IF n \in start + 1..start + size THEN routes[n - start]
                                                ELSE IF n <= Len(chapters) THEN chapters[n].route ELSE "none"
  <2>1. Reached(all, chapters, start, routes)
    BY <1>0, <1>3, <1>8, AppliedIs
  <2>2. Len(routes) = size
    BY <1>6
  <2> QED BY <2>1, <2>2, Zenon DEF Reached
<1>14. PICK len, old \in Nat : len = Len(all) /\ old = Len(chapters) /\ len >= old /\ len >= start + size
                              /\ len = IF old >= start + size THEN old ELSE start + size
  <2>1. PICK old \in Nat : old = Len(chapters)
    BY <1>3
  <2>2. PICK len : len = Len(all)
    OBVIOUS
  <2>3. len = IF old >= start + size THEN old ELSE start + size
    BY <1>13, <2>1, <2>2
  <2>4. len \in Nat /\ len >= old /\ len >= start + size
    BY <2>3
  <2> QED BY <2>1, <2>2, <2>3, <2>4
<1>15. /\ \A u \in 1..Len(p) : StartOf(p, u) \in Nat /\ StartOf(p, u + 1) \in Nat /\ StartOf(p, u + 1) = StartOf(p, u) + p[u].size
       /\ \A u \in 1..Len(p) : u < v => StartOf(p, u + 1) <= start
       /\ \A u \in 1..Len(p) : u > v => start + size <= StartOf(p, u)
       /\ StartOf(p, v + 1) = start + size /\ start + size <= Total(SizesOf(p))
  <2>1. /\ Total(SizesOf(p)) = StartOf(p, Len(p) + 1)
        /\ \A u \in 1..Len(p) : StartOf(p, u + 1) = StartOf(p, u) + p[u].size
        /\ \A u \in 1..Len(p) + 1 : StartOf(p, u) \in Nat /\ \A w \in 1..u : StartOf(p, w) <= StartOf(p, u)
    BY <1>3, StartsAre
  <2>2. PICK top \in Nat : top = Len(p)
    BY <1>3
  <2>3. \A u \in 1..top : u \in 1..top + 1 /\ u + 1 \in 1..top + 1
    OBVIOUS
  <2>4. \A u \in 1..top : u < v => u + 1 \in 1..v
    BY <1>4
  <2>5. \A u \in 1..top : u > v => v + 1 \in 1..u
    BY <1>4
  <2>6. StartOf(p, v + 1) = start + size
    BY <1>4, <1>5, <1>6, <2>1
  <2>7. v \in 1..top /\ top + 1 \in 1..top + 1 /\ v + 1 \in 1..top + 1
    BY <1>4, <2>2
  <2>8. \A u \in 1..top : StartOf(p, u) \in Nat /\ StartOf(p, u + 1) \in Nat
    BY <2>1, <2>2, <2>3
  <2>9. \A u \in 1..top : u < v => StartOf(p, u + 1) <= start
    BY <1>5, <2>1, <2>2, <2>4, <2>7, <2>3
  <2>10. \A u \in 1..top : u > v => start + size <= StartOf(p, u)
    BY <2>1, <2>2, <2>3, <2>5, <2>6
  <2>11. start + size <= Total(SizesOf(p))
    BY <2>1, <2>2, <2>6, <2>7
  <2> QED BY <2>1, <2>2, <2>6, <2>8, <2>9, <2>10, <2>11
<1>16. \A u \in 1..Len(p) : \A k \in 1..p[u].size :
         u # v => ~(StartOf(p, u) + k \in start + 1..start + size)
  <2>1. SUFFICES ASSUME NEW u \in 1..Len(p), NEW k \in 1..p[u].size, u # v
                 PROVE  ~(StartOf(p, u) + k \in start + 1..start + size)
    OBVIOUS
  <2>2. PICK s, l \in Nat : s = StartOf(p, u) /\ l = p[u].size
    BY <1>3, <1>4, <1>15, VolumeIs
  <2>3. CASE u < v
    <3>1. s + l <= start
      BY <1>15, <2>2, <2>3
    <3> QED BY <2>2, <3>1
  <2>4. CASE u > v
    <3>1. start + size <= s
      BY <1>15, <2>2, <2>4
    <3> QED BY <2>2, <3>1
  <2> QED BY <1>3, <2>1, <2>3, <2>4
<1>17. PlanTypes'
  <2>1. book' \in PlannedBooks
    BY <1>9, <1>12, <1>13 DEF PlannedBooks, PlanSeqs, ChapterSeqs
  <2> QED BY <1>10, <2>1 DEF PlanInv, PlanTypes
<1>18. VolumesFollow'
  BY <1>0, <1>10, FollowKept DEF PlanInv
<1>19. Whole(p)
  BY <1>0, <1>1 DEF PlanInv, PlanStage
<1>20. book'.plan = q /\ book'.chapters = all
  BY <1>9
<1>21. PlanStage'
  <2>1. Whole(q) /\ v <= Len(q) /\ v <= Len(q) + 1
    BY <1>3, <1>12, <1>19
  <2>2. V' = v /\ planRow'.phase = "volumes"
    BY <1>0, <1>2, <1>10 DEF V
  <2> QED BY <1>10, <1>20, <2>1, <2>2 DEF PlanStage
<1>22. Bound(v)'
  <2>1. q[v].size = size /\ q[v].routes = routes /\ StartOf(q, v) = start
    BY <1>5, <1>28
  <2>2. ASSUME NEW k \in 1..size PROVE all[start + k].route = routes[k]
    <3>1. k \in Nat /\ k >= 1 /\ k <= size
      OBVIOUS
    <3>2. start + k \in start + 1..start + size /\ start + k \in 1..len /\ start + k - start = k
      BY <1>14, <3>1
    <3> QED BY <1>13, <1>14, <3>2
  <2> QED BY <1>6, <1>20, <2>1, <2>2 DEF Bound
<1>23. ASSUME NEW u \in 1..v - 1 PROVE Bound(u)'
  <2>1. u \in 1..Len(p) /\ u < v /\ u # v
    BY <1>3
  <2>2. Bound(u)
    BY <1>0, <1>2, <1>23 DEF PlanInv, Reach, V
  <2>3. q[u] = p[u] /\ StartOf(q, u) = StartOf(p, u)
    BY <1>28, <2>1
  <2>4. ASSUME NEW k \in 1..p[u].size PROVE all[StartOf(p, u) + k].route = chapters[StartOf(p, u) + k].route
    <3>1. PICK s, l \in Nat : s = StartOf(p, u) /\ l = p[u].size
      BY <1>3, <1>4, <1>15, <2>1, VolumeIs
    <3>2. s + l <= start /\ start <= old
      <4>1. start <= Len(chapters)
        BY <1>0, <1>1, <1>2, <1>5 DEF PlanInv, Reach, V
      <4> QED BY <1>14, <1>15, <2>1, <3>1, <4>1
    <3>5. k \in Nat /\ k >= 1 /\ k <= l
      BY <2>4, <3>1
    <3>3. s + k \in 1..len /\ s + k <= old
      BY <1>14, <3>1, <3>2, <3>5
    <3>4. ~(s + k \in start + 1..start + size)
      BY <1>16, <2>1, <2>4, <3>1
    <3> QED BY <1>13, <1>14, <3>1, <3>3, <3>4
  <2>5. /\ Len(p[u].routes) = p[u].size
        /\ \A k \in 1..p[u].size : p[u].routes[k] \in {"spoiled", chapters[StartOf(p, u) + k].route}
    BY <1>1, <2>2 DEF Bound
  <2> QED BY <1>20, <2>3, <2>4, <2>5 DEF Bound
<1>24. Reach'
  <2>1. Len(all) \in 1..ChapterTarget
    <3>1. Len(chapters) \in 1..ChapterTarget /\ ChapterTarget \in Nat
      BY <1>1, PlanningAssumption DEF PlanInv, Reach
    <3>2. start + size <= ChapterTarget
      BY <1>15, <1>19 DEF Whole
    <3> QED BY <1>14, <3>1, <3>2
  <2>2. StartOf(q, v) <= Len(all) /\ StartOf(q, v + 1) <= Len(all)
    <3>1. StartOf(q, v) = start /\ StartOf(q, v + 1) = start + size
      BY <1>5, <1>15, <1>28
    <3> QED BY <1>14, <3>1
  <2>3. V' = v /\ planRow'.phase = "volumes"
    BY <1>0, <1>2, <1>10 DEF V
  <2> QED BY <1>20, <1>22, <1>23, <2>1, <2>2, <2>3 DEF Reach
<1>25. DebtsKnown'
  BY <1>10, DebtsKept DEF PlanInv
<1>26. AppliedIsKnown'
  <2>1. SUFFICES ASSUME NEW u \in 1..Len(p), NEW k \in 1..p[u].size, StartOf(p, u) + k <= Len(all)
                 PROVE  \/ all[StartOf(p, u) + k].route \in {"none", "good"}
                        \/ all[StartOf(p, u) + k].route = "debt" /\ <<u, k>> \in planRow.debts
    <3>1. \A u \in 1..Len(p) : q[u].size = p[u].size /\ StartOf(q, u) = StartOf(p, u)
      BY <1>28
    <3>2. DOMAIN q = 1..Len(p)
      BY <1>4, <1>12
    <3> QED BY <1>10, <1>20, <3>1, <3>2 DEF AppliedIsKnown
  <2>2. PICK n \in Nat : n = StartOf(p, u) + k /\ n \in 1..Len(all)
    <3>1. StartOf(p, u) \in Nat /\ k \in Nat /\ k >= 1
      <4>1. p[u].size \in Nat
        BY <1>3, <1>4, VolumeIs
      <4> QED BY <1>15, <4>1
    <3> QED BY <1>14, <2>1, <3>1
  <2>3. CASE u = v
    <3>0. n = start + k /\ k \in 1..size
      BY <1>5, <1>6, <2>2, <2>3
    <3>1. n \in start + 1..start + size /\ n - start = k /\ k \in 1..size
      BY <3>0
    <3>2. all[n].route = routes[k]
      BY <1>13, <2>2, <3>1
    <3>3. routes[k] \in {"good", "debt"}
      BY <1>0, <1>6, <3>1, ElementOfSeq DEF AppliedRoutes
    <3>4. routes[k] = "debt" => <<u, k>> \in planRow.debts
      BY <1>2, <1>6, <2>3, <3>1 DEF V, FitToSave
    <3> QED BY <2>2, <3>2, <3>3, <3>4
  <2>4. CASE u # v
    <3>1. ~(n \in start + 1..start + size)
      BY <1>16, <2>2, <2>4
    <3>2. CASE n <= Len(chapters)
      <4>1. all[n].route = chapters[n].route
        BY <1>13, <2>2, <3>1, <3>2
      <4>2. \/ chapters[n].route \in {"none", "good"}
            \/ chapters[n].route = "debt" /\ <<u, k>> \in planRow.debts
        BY <1>1, <1>4, <2>2, <3>2 DEF PlanInv, AppliedIsKnown
      <4> QED BY <2>2, <4>1, <4>2
    <3>3. CASE ~(n <= Len(chapters))
      <4>1. all[n].route = "none"
        BY <1>13, <2>2, <3>1, <3>3
      <4> QED BY <2>2, <4>1
    <3> QED BY <3>2, <3>3
  <2> QED BY <2>3, <2>4
<1>27. UnfitOnlyIfRecounted'
  BY <1>10 DEF PlanInv, UnfitOnlyIfRecounted
<1> QED BY <1>17, <1>18, <1>21, <1>24, <1>25, <1>26, <1>27 DEF PlanInv

\* The volume the run is at is one the row has routes for.
LEMMA VolumeNow ==
  ASSUME PlanInv, planRow.phase = "volumes", V <= Len(book.plan)
  PROVE  /\ V = planRow.next /\ V \in 1..MostVolumes /\ V \in 1..Len(book.plan) /\ V \in DOMAIN book.plan
         /\ book.plan[V].size \in Nat /\ book.plan[V].routes \in Seq({"good", "debt", "spoiled"})
         /\ planRow.routes[V] \in Seq(AppliedRoutes)
         /\ planRow.routes \in [1..MostVolumes -> Seq(AppliedRoutes)]
<1>1. book.plan \in PlanSeqs /\ Len(book.plan) \in Nat /\ V \in Nat \ {0} /\ V = planRow.next
  BY PlanIs DEF V
<1>2. V \in 1..Len(book.plan) /\ DOMAIN book.plan = 1..Len(book.plan)
  BY <1>1 DEF PlanSeqs
<1>3. Len(book.plan) <= MostVolumes /\ MostVolumes \in Nat
  <2>1. Len(book.plan) <= MostVolumes
    BY DEF PlanInv, PlanStage, Whole
  <2>2. MostVolumes \in Nat
    BY MostIs
  <2> QED BY <2>1, <2>2
<1>4. V \in 1..MostVolumes
  BY <1>1, <1>2, <1>3
<1>5. planRow.routes \in [1..MostVolumes -> Seq(AppliedRoutes)]
  BY RowIs DEF PlanInv, PlanTypes
<1>6. book.plan[V].size \in Nat /\ book.plan[V].routes \in Seq({"good", "debt", "spoiled"})
  BY <1>1, <1>2, VolumeIs
<1>7. planRow.routes[V] \in Seq(AppliedRoutes)
  BY <1>4, <1>5
<1> QED BY <1>1, <1>2, <1>4, <1>5, <1>6, <1>7

LEMMA PlanReapplied == PlanInv /\ Reapplied => PlanInv'
<1> SUFFICES ASSUME PlanInv, Reapplied PROVE PlanInv'
  OBVIOUS
<1>1. planRow.phase = "volumes" /\ V <= Len(book.plan) /\ atStep = "go" /\ StoredIsSound /\ VolumeSaved(book.plan[V].routes)
  BY DEF Reapplied, Routing, Going
<1>2. PICK r : r = book.plan[V].routes
  OBVIOUS
<1>3. r \in Seq({"good", "debt", "spoiled"}) /\ Len(r) = book.plan[V].size /\ SoundPrefix(r) = r /\ Len(r) \in Nat
  BY <1>1, <1>2, VolumeNow DEF StoredIsSound
<1>4. \A k \in 1..Len(r) : r[k] = "good"
  BY <1>3, SoundPrefixIs
<1>5. r \in Seq(AppliedRoutes)
  <2>1. r = [k \in 1..Len(r) |-> r[k]]
    BY <1>3
  <2>2. \A k \in 1..Len(r) : r[k] \in AppliedRoutes
    BY <1>4 DEF AppliedRoutes
  <2> QED BY <1>3, <2>1, <2>2
<1>6. FitToSave(r)
  BY <1>1, <1>2, <1>3, <1>4, <1>5 DEF FitToSave
<1> QED BY <1>1, <1>2, <1>6, PlanVolumeSaved

LEMMA PlanFinished == PlanInv /\ VolumeFinished => PlanInv'
<1> SUFFICES ASSUME PlanInv, VolumeFinished PROVE PlanInv'
  OBVIOUS
<1>1. atStep = "routes" /\ Len(planRow.routes[V]) = book.plan[V].size /\ VolumeSaved(planRow.routes[V])
  BY DEF VolumeFinished
<1>2. planRow.phase = "volumes" /\ V <= Len(book.plan)
  BY <1>1 DEF PlanInv, PlanStage
<1>3. V \in 1..MostVolumes /\ planRow.routes[V] \in Seq(AppliedRoutes)
  BY <1>2, VolumeNow
<1>4. \A k \in 1..Len(planRow.routes[V]) : planRow.routes[V][k] = "debt" => <<V, k>> \in planRow.debts
  BY <1>3 DEF PlanInv, DebtsKnown
<1>5. FitToSave(planRow.routes[V])
  BY <1>1, <1>2, <1>3, <1>4 DEF FitToSave
<1> QED BY <1>1, <1>5, PlanVolumeSaved

\* A step that changes only the routes in the row and the debts on record.
LEMMA PlanRouted ==
  ASSUME PlanInv, planRow.phase = "volumes", V <= Len(book.plan), atStep # "off",
         NEW routes \in Seq(AppliedRoutes), NEW debts \in SUBSET (Nat \X Nat),
         planRow' = [[planRow EXCEPT !.routes = [@ EXCEPT ![V] = routes]] EXCEPT !.debts = debts],
         planRow.debts \subseteq debts,
         \A k \in 1..Len(routes) : routes[k] = "debt" => <<V, k>> \in debts,
         atStep' = "routes", UNCHANGED <<book, specs, authorVars, unfit, resumes>>
  PROVE  PlanInv'
<1>1. PICK v, all : v = V /\ all = [planRow.routes EXCEPT ![v] = routes]
  OBVIOUS
<1>2. /\ v \in 1..MostVolumes /\ v = planRow.next /\ planRow.routes \in [1..MostVolumes -> Seq(AppliedRoutes)]
  BY <1>1, VolumeNow
<1>3. /\ all \in [1..MostVolumes -> Seq(AppliedRoutes)] /\ all[v] = routes
      /\ \A u \in 1..MostVolumes : u # v => all[u] = planRow.routes[u]
  BY <1>1, <1>2
<1>4. planRow \in PlanRows
  BY DEF PlanInv, PlanTypes
<1>5. PICK half : half = [planRow EXCEPT !.routes = all]
  OBVIOUS
<1>6. /\ half \in PlanRows /\ half.phase = planRow.phase /\ half.next = planRow.next /\ half.routes = all
      /\ half.volumes = planRow.volumes
  BY <1>3, <1>4, <1>5 DEF PlanRows
<1>7. planRow' = [half EXCEPT !.debts = debts]
  BY <1>1, <1>4, <1>5 DEF PlanRows
<1>8. /\ planRow' \in PlanRows /\ planRow'.phase = planRow.phase /\ planRow'.next = planRow.next /\ planRow'.routes = all
      /\ planRow'.volumes = planRow.volumes /\ planRow'.debts = debts
  BY <1>6, <1>7 DEF PlanRows
<1>9. /\ atStep' = "routes" /\ book' = book /\ specs' = specs /\ asked' = asked
      /\ recounted' = recounted /\ edits' = edits /\ unfit' = unfit /\ resumes' = resumes
  BY DEF authorVars
<1>10. PlanTypes'
  BY <1>8, <1>9 DEF PlanInv, PlanTypes
<1>11. VolumesFollow'
  BY <1>8, <1>9, FollowKept DEF PlanInv
<1>12. PlanStage'
  BY <1>8, <1>9 DEF PlanInv, PlanStage, V
<1>13. Reach'
  BY <1>8, <1>9, ReachKept DEF PlanInv
<1>14. DebtsKnown'
  <2>1. SUFFICES ASSUME NEW u \in 1..MostVolumes, NEW k \in 1..Len(all[u]), all[u][k] = "debt"
                 PROVE  <<u, k>> \in debts
    BY <1>8 DEF DebtsKnown, MostVolumes
  <2>2. CASE u = v
    BY <1>1, <1>3, <2>1, <2>2
  <2>3. CASE u # v
    BY <1>3, <2>1, <2>3 DEF PlanInv, DebtsKnown
  <2> QED BY <2>2, <2>3
<1>15. AppliedIsKnown'
  BY <1>8, <1>9, AppliedKept DEF PlanInv
<1>16. UnfitOnlyIfRecounted'
  BY <1>9 DEF PlanInv, UnfitOnlyIfRecounted
<1> QED BY <1>10, <1>11, <1>12, <1>13, <1>14, <1>15, <1>16 DEF PlanInv

\* What a rejected volume keeps: a sound beginning of the stored routes, or of those in the row.
KeptRoutes ==
  SoundPrefix(IF Len(book.plan[V].routes) = book.plan[V].size THEN book.plan[V].routes ELSE planRow.routes[V])

LEMMA KeptIs ==
  ASSUME PlanInv, planRow.phase = "volumes", V <= Len(book.plan)
  PROVE  KeptRoutes \in Seq(AppliedRoutes) /\ \A k \in 1..Len(KeptRoutes) : KeptRoutes[k] = "good"
<1>1. PICK r : r = IF Len(book.plan[V].routes) = book.plan[V].size THEN book.plan[V].routes ELSE planRow.routes[V]
  OBVIOUS
<1>2. \E S : r \in Seq(S)
  <2>1. book.plan[V].routes \in Seq({"good", "debt", "spoiled"}) /\ planRow.routes[V] \in Seq(AppliedRoutes)
    BY VolumeNow
  <2> QED BY <1>1, <2>1
<1>3. PICK S : r \in Seq(S)
  BY <1>2
<1>4. PICK kept : kept = SoundPrefix(r)
  OBVIOUS
<1>5. kept \in Seq(S) /\ Len(kept) \in Nat /\ \A k \in 1..Len(kept) : kept[k] = "good"
  BY <1>3, <1>4, SoundPrefixIs
<1>6. kept \in Seq(AppliedRoutes)
  <2>1. kept = [k \in 1..Len(kept) |-> kept[k]]
    BY <1>5
  <2>2. \A k \in 1..Len(kept) : kept[k] \in AppliedRoutes
    BY <1>5 DEF AppliedRoutes
  <2> QED BY <1>5, <2>1, <2>2
<1> QED BY <1>1, <1>4, <1>5, <1>6 DEF KeptRoutes

LEMMA PlanRejected == PlanInv /\ Rejected => PlanInv'
<1> SUFFICES ASSUME PlanInv, Rejected PROVE PlanInv'
  OBVIOUS
<1>1. /\ planRow.phase = "volumes" /\ V <= Len(book.plan) /\ atStep = "go" /\ atStep' = "routes"
      /\ planRow' = [planRow EXCEPT !.routes[V] = KeptRoutes] /\ UNCHANGED <<book, specs, authorVars, unfit, resumes>>
  BY DEF Rejected, Routing, Going, KeptRoutes
<1>2. PICK kept : kept = KeptRoutes
  OBVIOUS
<1>3. kept \in Seq(AppliedRoutes) /\ \A k \in 1..Len(kept) : kept[k] = "good"
  BY <1>1, <1>2, KeptIs
<1>4. \A k \in 1..Len(kept) : kept[k] = "debt" => <<V, k>> \in planRow.debts
  BY <1>3
<1>5. planRow.debts \in SUBSET (Nat \X Nat) /\ planRow \in PlanRows
  BY RowIs DEF PlanInv, PlanTypes
<1>6. planRow' = [[planRow EXCEPT !.routes = [@ EXCEPT ![V] = kept]] EXCEPT !.debts = planRow.debts]
  <2>1. PICK half : half = [planRow EXCEPT !.routes = [@ EXCEPT ![V] = kept]]
    OBVIOUS
  <2>2. planRow' = half
    BY <1>1, <1>2, <2>1
  <2>3. half.debts = planRow.debts /\ half = [half EXCEPT !.debts = half.debts]
    BY <1>5, <2>1 DEF PlanRows
  <2> QED BY <2>1, <2>2, <2>3
<1> QED BY <1>1, <1>3, <1>4, <1>5, <1>6, PlanRouted

LEMMA PlanRoutePlanned == PlanInv /\ RoutePlanned => PlanInv'
<1> SUFFICES ASSUME PlanInv, RoutePlanned PROVE PlanInv'
  OBVIOUS
<1>1. atStep = "routes" /\ atStep' = "routes" /\ UNCHANGED <<book, specs, authorVars, unfit, resumes>>
  BY DEF RoutePlanned, RoutesLeft
<1>2. planRow.phase = "volumes" /\ V <= Len(book.plan)
  BY <1>1 DEF PlanInv, PlanStage
<1>3. PICK route \in {"good", "debt"} :
        planRow' = [planRow EXCEPT !.routes[V] = Append(@, route),
                      !.debts = IF route = "debt" THEN DebtRecorded(@, V, Len(planRow.routes[V]) + 1) ELSE @]
  BY DEF RoutePlanned
<1>4. PICK old : old = planRow.routes[V]
  OBVIOUS
<1>5. old \in Seq(AppliedRoutes) /\ V \in 1..MostVolumes /\ MostVolumes \in Nat
  BY <1>2, <1>4, VolumeNow, MostIs
<1>6. PICK n \in Nat : n = Len(old)
  BY <1>5
<1>7. PICK new : new = Append(old, route)
  OBVIOUS
<1>8. route \in AppliedRoutes
  BY <1>3 DEF AppliedRoutes
<1>9. /\ new \in Seq(AppliedRoutes) /\ Len(new) = n + 1 /\ new[n + 1] = route
      /\ \A k \in 1..n : new[k] = old[k]
  BY <1>5, <1>6, <1>7, <1>8, AppendProperties
<1>10. PICK debts : debts = IF route = "debt" THEN planRow.debts \cup {<<V, n + 1>>} ELSE planRow.debts
  OBVIOUS
<1>11. planRow.debts \in SUBSET (Nat \X Nat) /\ planRow \in PlanRows
  BY RowIs DEF PlanInv, PlanTypes
<1>12. debts \in SUBSET (Nat \X Nat) /\ planRow.debts \subseteq debts
  <2>1. <<V, n + 1>> \in Nat \X Nat
    BY <1>5, <1>6
  <2> QED BY <1>10, <1>11, <2>1
<1>13. ASSUME NEW k \in 1..Len(new), new[k] = "debt" PROVE <<V, k>> \in debts
  <2>1. CASE k = n + 1
    BY <1>9, <1>10, <1>13, <2>1
  <2>2. CASE k # n + 1
    <3>1. k \in 1..n
      BY <1>6, <1>9, <2>2
    <3>2. old[k] = "debt"
      BY <1>9, <1>13, <3>1
    <3>3. <<V, k>> \in planRow.debts
      BY <1>4, <1>5, <1>6, <3>1, <3>2 DEF PlanInv, DebtsKnown
    <3> QED BY <1>12, <3>3
  <2> QED BY <2>1, <2>2
<1>14. planRow' = [[planRow EXCEPT !.routes = [@ EXCEPT ![V] = new]] EXCEPT !.debts = debts]
  <2>1. PICK half : half = [planRow EXCEPT !.routes = [@ EXCEPT ![V] = new]]
    OBVIOUS
  <2>2. half = [planRow EXCEPT !.routes[V] = Append(@, route)]
    BY <1>4, <1>7, <2>1
  <2>3. half.debts = planRow.debts
    BY <1>11, <2>1 DEF PlanRows
  <2>4. planRow' = [half EXCEPT !.debts = IF route = "debt" THEN DebtRecorded(@, V, Len(planRow.routes[V]) + 1) ELSE @]
    BY <1>3, <2>2
  <2>5. (IF route = "debt" THEN DebtRecorded(half.debts, V, Len(planRow.routes[V]) + 1) ELSE half.debts) = debts
    BY <1>4, <1>6, <1>10, <2>3 DEF DebtRecorded
  <2> QED BY <2>1, <2>4, <2>5
<1> QED BY <1>1, <1>2, <1>9, <1>12, <1>13, <1>14, PlanRouted

\* A volume left behind.
LEMMA PlanVolumeMarked == PlanInv /\ VolumeMarked => PlanInv'
<1> SUFFICES ASSUME PlanInv, VolumeMarked PROVE PlanInv'
  OBVIOUS
<1>1. atStep = "volume saved" /\ Saves([planRow EXCEPT !.routes[V] = <<>>, !.next = @ + 1])
  BY DEF VolumeMarked
<1>2. planRow.phase = "volumes" /\ V <= Len(book.plan)
  BY <1>1 DEF PlanInv, PlanStage
<1>3. PICK v \in Nat \ {0} : v = V /\ v = planRow.next
  BY PlanIs DEF V
<1>4. v \in 1..MostVolumes /\ planRow.routes \in [1..MostVolumes -> Seq(AppliedRoutes)] /\ planRow \in PlanRows
  BY <1>2, <1>3, VolumeNow DEF PlanInv, PlanTypes
<1>5. PICK all : all = [planRow.routes EXCEPT ![v] = <<>>]
  OBVIOUS
<1>6. /\ all \in [1..MostVolumes -> Seq(AppliedRoutes)] /\ all[v] = <<>>
      /\ \A u \in 1..MostVolumes : u # v => all[u] = planRow.routes[u]
  <2>1. <<>> \in Seq(AppliedRoutes)
    OBVIOUS
  <2> QED BY <1>4, <1>5, <2>1
<1>7. PICK half : half = [planRow EXCEPT !.routes = all]
  OBVIOUS
<1>8. /\ half \in PlanRows /\ half.phase = planRow.phase /\ half.next = v /\ half.routes = all
      /\ half.volumes = planRow.volumes /\ half.debts = planRow.debts
  BY <1>3, <1>4, <1>6, <1>7 DEF PlanRows
<1>9. planRow' = [half EXCEPT !.next = v + 1]
  <2>1. planRow' = [planRow EXCEPT !.routes[v] = <<>>, !.next = @ + 1]
    BY <1>1, <1>3 DEF Saves
  <2>2. half = [planRow EXCEPT !.routes[v] = <<>>]
    BY <1>5, <1>7
  <2>3. planRow' = [half EXCEPT !.next = @ + 1]
    BY <2>1, <2>2
  <2> QED BY <1>8, <2>3
<1>10. /\ planRow' \in PlanRows /\ planRow'.phase = "volumes" /\ planRow'.next = v + 1 /\ planRow'.routes = all
       /\ planRow'.volumes = planRow.volumes /\ planRow'.debts = planRow.debts
  <2>1. v + 1 \in Nat \ {0}
    BY <1>3
  <2> QED BY <1>2, <1>8, <1>9, <2>1 DEF PlanRows
<1>11. /\ atStep' = "go" /\ book' = book /\ specs' = specs /\ asked' = asked
       /\ recounted' = recounted /\ edits' = edits /\ unfit' = unfit /\ resumes' = resumes
  BY <1>1 DEF Saves, authorVars
<1>12. PlanTypes'
  BY <1>10, <1>11 DEF PlanInv, PlanTypes
<1>13. VolumesFollow'
  BY <1>1, <1>10, <1>11, FollowKept DEF PlanInv
<1>14. V' = v + 1
  BY <1>10 DEF V
<1>15. PlanStage'
  <2>1. Whole(book.plan)
    BY <1>2 DEF PlanInv, PlanStage
  <2>2. v + 1 <= Len(book.plan) + 1
    BY <1>2, <1>3, PlanIs
  <2> QED BY <1>10, <1>11, <1>14, <2>1, <2>2 DEF PlanStage
<1>16. Reach'
  <2>1. \A u : Bound(u)' <=> Bound(u)
    BY <1>11 DEF Bound
  <2>2. Bound(v) /\ StartOf(book.plan, v + 1) <= Len(book.chapters)
    BY <1>1, <1>3 DEF PlanInv, Reach
  <2>3. \A u \in 1..v - 1 : Bound(u)
    BY <1>2, <1>3 DEF PlanInv, Reach
  <2>4. \A u \in 1..v : Bound(u)
    <3>1. \A u \in 1..v : u = v \/ u \in 1..v - 1
      BY <1>3
    <3> QED BY <2>2, <2>3, <3>1
  <2>5. v + 1 - 1 = v
    BY <1>3
  <2>6. Len(book.chapters) \in 1..ChapterTarget
    BY DEF PlanInv, Reach
  <2> QED BY <1>11, <1>14, <2>1, <2>2, <2>4, <2>5, <2>6 DEF Reach
<1>17. DebtsKnown'
  <2>1. ASSUME NEW u \in 1..MostVolumes, NEW k \in 1..Len(all[u]), all[u][k] = "debt" PROVE <<u, k>> \in planRow.debts
    <3>1. u # v
      <4>1. Len(<<>>) = 0
        OBVIOUS
      <4> QED BY <1>6, <2>1, <4>1
    <3> QED BY <1>6, <2>1, <3>1 DEF PlanInv, DebtsKnown
  <2> QED BY <1>10, <2>1 DEF DebtsKnown, MostVolumes
<1>18. AppliedIsKnown'
  BY <1>10, <1>11, AppliedKept DEF PlanInv
<1>19. UnfitOnlyIfRecounted'
  BY <1>11 DEF PlanInv, UnfitOnlyIfRecounted
<1> QED BY <1>12, <1>13, <1>15, <1>16, <1>17, <1>18, <1>19 DEF PlanInv

----------------------------------------------------------------------------
(* The author.                                                             *)

\* The chapters of the volumes left behind are there.
LEMMA BehindIsThere ==
  ASSUME PlanInv, planRow.phase \in {"volumes", "chapters"}, NEW u \in 1..V - 1, NEW k \in 1..book.plan[u].size
  PROVE  StartOf(book.plan, u) + k \in 1..Len(book.chapters) /\ u \in DOMAIN book.plan
<1>1. PICK p : p = book.plan
  OBVIOUS
<1>2. PICK top, v, there \in Nat : top = Len(p) /\ v = V /\ there = Len(book.chapters)
  BY <1>1, PlanIs DEF V
<1>3. p \in PlanSeqs /\ DOMAIN p = 1..top
  BY <1>1, <1>2, PlanIs DEF PlanSeqs
<1>4. v <= top + 1 /\ StartOf(p, v) <= there
  BY <1>1, <1>2 DEF PlanInv, PlanStage, Reach
<1>5. u \in 1..top /\ u + 1 \in 1..v /\ v \in 1..top + 1 /\ u \in 1..top + 1
  BY <1>2, <1>4
<1>6. p[u].size \in Nat
  BY <1>3, <1>5, VolumeIs
<1>7. /\ StartOf(p, u + 1) = StartOf(p, u) + p[u].size /\ StartOf(p, u + 1) <= StartOf(p, v)
      /\ StartOf(p, u) \in Nat /\ StartOf(p, v) \in Nat
  BY <1>2, <1>3, <1>5, StartsAre
<1>8. PICK s, l, e \in Nat : s = StartOf(p, u) /\ l = p[u].size /\ e = StartOf(p, v)
  BY <1>6, <1>7
<1>9. s + l <= e /\ e <= there /\ k \in 1..l
  BY <1>1, <1>4, <1>7, <1>8
<1>10. s + k \in 1..there
  BY <1>9
<1> QED BY <1>1, <1>2, <1>3, <1>5, <1>8, <1>10

\* An edit: sizes, number of routes and of chapters, and the routes of the chapters are as before.
Edited(p, chapters) ==
  /\ p \in PlanSeqs /\ chapters \in ChapterSeqs
  /\ DOMAIN p = DOMAIN book.plan /\ Len(p) = Len(book.plan) /\ Len(chapters) = Len(book.chapters)
  /\ \A u \in DOMAIN p :
       /\ p[u].size = book.plan[u].size /\ Len(p[u].routes) = Len(book.plan[u].routes)
       /\ \A k \in 1..Len(p[u].routes) : p[u].routes[k] \in {"spoiled", book.plan[u].routes[k]}
  /\ \A u : StartOf(p, u) = StartOf(book.plan, u)
  /\ Whole(book.plan) => Whole(p)
  /\ \A n \in 1..Len(chapters) : chapters[n].route = book.chapters[n].route

LEMMA PlanEdited ==
  ASSUME PlanInv, atStep = "off", NEW p, NEW chapters, Edited(p, chapters), book' = [plan |-> p, chapters |-> chapters],
         Edits, UNCHANGED <<planRow, atStep, specs, asked, recounted, unfit, resumes>>
  PROVE  PlanInv'
<1>1. PICK old, was : old = book.plan /\ was = book.chapters
  OBVIOUS
<1>2. /\ planRow' = planRow /\ atStep' = "off" /\ specs' = specs /\ asked' = asked
      /\ recounted' = recounted /\ edits' \in Nat /\ unfit' = unfit /\ resumes' = resumes
  BY DEF Edits, PlanInv, PlanTypes
<1>3. book'.plan = p /\ book'.chapters = chapters
  OBVIOUS
<1>4. /\ p \in PlanSeqs /\ chapters \in ChapterSeqs
      /\ DOMAIN p = DOMAIN old /\ Len(p) = Len(old) /\ Len(chapters) = Len(was)
      /\ \A u \in DOMAIN p : p[u].size = old[u].size /\ Len(p[u].routes) = Len(old[u].routes)
      /\ \A u \in DOMAIN p : \A k \in 1..Len(p[u].routes) : p[u].routes[k] \in {"spoiled", old[u].routes[k]}
      /\ \A u : StartOf(p, u) = StartOf(old, u)
      /\ Whole(old) => Whole(p)
      /\ \A n \in 1..Len(was) : chapters[n].route = was[n].route
  BY <1>1 DEF Edited
<1>5. Len(old) \in Nat /\ Len(was) \in Nat /\ old \in PlanSeqs
  BY <1>1, PlanIs
<1>6. PlanTypes'
  <2>1. book' \in PlannedBooks
    BY <1>4 DEF PlannedBooks, PlanSeqs, ChapterSeqs
  <2> QED BY <1>2, <2>1 DEF PlanInv, PlanTypes
<1>7. VolumesFollow'
  BY <1>2, FollowKept DEF PlanInv
<1>8. PlanStage'
  <2>1. ASSUME \A u \in DOMAIN old : old[u].routes = <<>>, NEW u \in DOMAIN p PROVE p[u].routes = <<>>
    <3>1. Len(p[u].routes) = 0
      BY <1>4, <2>1
    <3>2. p[u].routes \in Seq({"good", "debt", "spoiled"})
      BY <1>4, VolumeIs
    <3> QED BY <3>1, <3>2
  <2>2. Len(was) = 1 => (chapters[1].route = was[1].route /\ Len(chapters) = 1)
    BY <1>4
  <2>3. old = <<>> => p = <<>>
    <3>1. old = <<>> => Len(p) = 0
      BY <1>4
    <3> QED BY <1>4, <3>1 DEF PlanSeqs
  <2>4. V' = V
    BY <1>2 DEF V
  <2>5. /\ planRow.phase = "incubator" => old = <<>>
        /\ planRow.phase = "master" => old = <<>> \/ Whole(old)
        /\ planRow.phase \in {"incubator", "master"} => Len(was) = 1 /\ was[1].route = "none"
        /\ planRow.phase \in {"incubator", "master"} => \A v \in DOMAIN old : old[v].routes = <<>>
        /\ planRow.phase \in {"volumes", "chapters"} => Whole(old) /\ V <= Len(old) + 1
        /\ planRow.phase = "chapters" => V > Len(old)
    BY <1>1 DEF PlanInv, PlanStage
  <2>6. /\ planRow.phase = "incubator" => p = <<>>
        /\ planRow.phase = "master" => p = <<>> \/ Whole(p)
        /\ planRow.phase \in {"incubator", "master"} => Len(chapters) = 1 /\ chapters[1].route = "none"
        /\ planRow.phase \in {"volumes", "chapters"} => Whole(p) /\ V <= Len(p) + 1
        /\ planRow.phase = "chapters" => V > Len(p)
    BY <1>4, <2>2, <2>3, <2>5
  <2>7. planRow.phase \in {"incubator", "master"} => \A v \in DOMAIN p : p[v].routes = <<>>
    BY <2>1, <2>5
  <2> QED BY <1>2, <1>3, <2>4, <2>6, <2>7 DEF PlanStage
<1>9. ASSUME planRow.phase \in {"volumes", "chapters"}, NEW u \in 1..V - 1 PROVE Bound(u)'
  <2>1. Bound(u)
    BY <1>9 DEF PlanInv, Reach
  <2>2. u \in DOMAIN p
    <3>1. V \in Nat /\ V <= Len(old) + 1
      BY <1>1, <1>9, PlanIs DEF PlanInv, PlanStage, V
    <3>2. u \in 1..Len(old)
      BY <1>5, <3>1
    <3> QED BY <1>4, <1>5, <3>2 DEF PlanSeqs
  <2>3. /\ p[u].size = old[u].size /\ Len(p[u].routes) = Len(old[u].routes) /\ StartOf(p, u) = StartOf(old, u)
        /\ Len(old[u].routes) = old[u].size
    BY <1>1, <1>4, <2>1, <2>2 DEF Bound
  <2>4. ASSUME NEW k \in 1..old[u].size
        PROVE  p[u].routes[k] \in {"spoiled", chapters[StartOf(old, u) + k].route}
    <3>1. p[u].routes[k] \in {"spoiled", old[u].routes[k]}
      BY <1>4, <2>2, <2>3, <2>4
    <3>2. old[u].routes[k] \in {"spoiled", was[StartOf(old, u) + k].route}
      BY <1>1, <2>1, <2>4 DEF Bound
    <3>3. StartOf(old, u) + k \in 1..Len(was)
      BY <1>1, <1>9, <2>4, BehindIsThere
    <3>4. chapters[StartOf(old, u) + k].route = was[StartOf(old, u) + k].route
      BY <1>4, <3>3
    <3> QED BY <3>1, <3>2, <3>4
  <2> QED BY <1>3, <2>3, <2>4 DEF Bound
<1>10. Reach'
  <2>1. V' = V
    BY <1>2 DEF V
  <2>2. /\ Len(was) \in 1..ChapterTarget
        /\ planRow.phase \in {"volumes", "chapters"} => StartOf(old, V) <= Len(was)
    BY <1>1 DEF PlanInv, Reach
  <2> QED BY <1>2, <1>3, <1>4, <1>9, <2>1, <2>2 DEF Reach
<1>11. DebtsKnown'
  BY <1>2, DebtsKept DEF PlanInv
<1>12. AppliedIsKnown'
  <2>1. SUFFICES ASSUME NEW u \in DOMAIN p, NEW k \in 1..p[u].size, StartOf(p, u) + k <= Len(chapters)
                 PROVE  \/ chapters[StartOf(p, u) + k].route \in {"none", "good"}
                        \/ chapters[StartOf(p, u) + k].route = "debt" /\ <<u, k>> \in planRow.debts
    BY <1>2, <1>3 DEF AppliedIsKnown
  <2>2. PICK n : n = StartOf(old, u) + k /\ n = StartOf(p, u) + k
    BY <1>4
  <2>3. n \in 1..Len(was)
    <3>1. u \in 1..Len(old) /\ u \in 1..Len(old) + 1 /\ p[u].size \in Nat
      BY <1>4, <1>5, <2>1, VolumeIs DEF PlanSeqs
    <3>2. StartOf(old, u) \in Nat
      BY <1>5, <3>1, StartsAre
    <3> QED BY <1>4, <1>5, <2>1, <2>2, <3>1, <3>2
  <2>4. \/ was[n].route \in {"none", "good"}
        \/ was[n].route = "debt" /\ <<u, k>> \in planRow.debts
    <3>1. u \in DOMAIN old /\ k \in 1..old[u].size /\ n <= Len(was)
      BY <1>4, <2>1, <2>2
    <3> QED BY <1>1, <2>2, <3>1 DEF PlanInv, AppliedIsKnown
  <2> QED BY <1>4, <2>2, <2>3, <2>4
<1>13. UnfitOnlyIfRecounted'
  BY <1>2 DEF PlanInv, UnfitOnlyIfRecounted
<1> QED BY <1>6, <1>7, <1>8, <1>10, <1>11, <1>12, <1>13 DEF PlanInv

LEMMA PlanWritten == PlanInv /\ AuthorWrites => PlanInv'
<1> SUFFICES ASSUME PlanInv, AuthorWrites PROVE PlanInv'
  OBVIOUS
<1>1. PICK n \in DOMAIN book.chapters : book' = [book EXCEPT !.chapters[n].text = TRUE]
  BY DEF AuthorWrites
<1>2. PICK volumes, chapters : volumes = book.plan /\ chapters = book.chapters
  OBVIOUS
<1>3. /\ book = [plan |-> volumes, chapters |-> chapters] /\ volumes \in PlanSeqs /\ chapters \in ChapterSeqs
      /\ Len(chapters) \in Nat
  BY <1>2, PlanIs DEF ChapterSeqs
<1>4. PICK top \in Nat : top = Len(chapters) /\ DOMAIN chapters = 1..top
  BY <1>3 DEF ChapterSeqs
<1>5. PICK new : new = [k \in 1..top |-> IF k = n THEN [chapters[k] EXCEPT !.text = TRUE] ELSE chapters[k]]
  OBVIOUS
<1>6. \A k \in 1..top : chapters[k] \in [route : {"none", "good", "debt"}, text : BOOLEAN]
  BY <1>3, <1>4, ElementOfSeq DEF ChapterSeqs
<1>7. \A k \in 1..top : /\ new[k] \in [route : {"none", "good", "debt"}, text : BOOLEAN]
                        /\ new[k].route = chapters[k].route
  BY <1>5, <1>6
<1>8. new \in ChapterSeqs /\ Len(new) = top
  <2>1. PICK R : R = [route : {"none", "good", "debt"}, text : BOOLEAN]
    OBVIOUS
  <2>2. \A k \in 1..top : new[k] \in R
    BY <1>7, <2>1
  <2>3. new = [k \in 1..top |-> new[k]]
    BY <1>5
  <2>4. new \in Seq(R) /\ Len(new) = top
    BY <2>2, <2>3
  <2> QED BY <2>1, <2>4 DEF ChapterSeqs
<1>9. book' = [plan |-> volumes, chapters |-> new]
  <2>1. chapters = [k \in 1..top |-> chapters[k]]
    BY <1>3, <1>4 DEF ChapterSeqs
  <2>2. PICK one : one = [chapters EXCEPT ![n].text = TRUE]
    OBVIOUS
  <2>3. one = new
    BY <1>4, <1>5, <2>1, <2>2
  <2>4. book' = [book EXCEPT !.chapters = one]
    BY <1>1, <1>2, <2>2
  <2> QED BY <1>3, <2>3, <2>4
<1>10. \A u \in DOMAIN volumes : \A k \in 1..Len(volumes[u].routes) : volumes[u].routes[k] \in {"spoiled", volumes[u].routes[k]}
  OBVIOUS
<1>11. Edited(volumes, new)
  BY <1>2, <1>3, <1>4, <1>7, <1>8, <1>10 DEF Edited
<1> QED BY <1>9, <1>11, PlanEdited DEF AuthorWrites, Edits

LEMMA PlanSpoiled == PlanInv /\ AuthorSpoils => PlanInv'
<1> SUFFICES ASSUME PlanInv, AuthorSpoils PROVE PlanInv'
  OBVIOUS
<1>1. PICK v \in DOMAIN book.plan : \E k \in DOMAIN book.plan[v].routes :
        book' = [book EXCEPT !.plan[v].routes[k] = "spoiled"]
  BY DEF AuthorSpoils
<1>2. PICK k \in DOMAIN book.plan[v].routes : book' = [book EXCEPT !.plan[v].routes[k] = "spoiled"]
  BY <1>1
<1>3. PICK volumes, chapters : volumes = book.plan /\ chapters = book.chapters
  OBVIOUS
<1>4. /\ book = [plan |-> volumes, chapters |-> chapters] /\ volumes \in PlanSeqs /\ chapters \in ChapterSeqs
  BY <1>3, PlanIs DEF ChapterSeqs
<1>5. PICK r : r = volumes[v].routes
  OBVIOUS
<1>6. r \in Seq({"good", "debt", "spoiled"}) /\ v \in DOMAIN volumes /\ k \in DOMAIN r
  BY <1>2, <1>3, <1>4, <1>5, VolumeIs
<1>7. PICK new : new = [r EXCEPT ![k] = "spoiled"]
  OBVIOUS
<1>8. /\ new \in Seq({"good", "debt", "spoiled"}) /\ Len(new) = Len(r)
      /\ \A i \in 1..Len(new) : new[i] \in {"spoiled", r[i]}
  BY <1>6, <1>7
<1>9. PICK q : q = Rerouted(volumes, v, new)
  OBVIOUS
<1>10. LET p == Rerouted(volumes, v, new)
       IN /\ p \in PlanSeqs /\ Len(p) = Len(volumes) /\ DOMAIN p = DOMAIN volumes
          /\ p[v].size = volumes[v].size /\ p[v].routes = new
          /\ \A u \in DOMAIN volumes : p[u].size = volumes[u].size /\ (u # v => p[u] = volumes[u])
          /\ \A u : StartOf(p, u) = StartOf(volumes, u)
          /\ Whole(volumes) => Whole(p)
  BY <1>4, <1>6, <1>8, RoutesSet
<1>11. /\ q \in PlanSeqs /\ Len(q) = Len(volumes) /\ DOMAIN q = DOMAIN volumes
       /\ q[v].routes = new
       /\ \A u \in DOMAIN volumes : q[u].size = volumes[u].size /\ (u # v => q[u] = volumes[u])
       /\ \A u : StartOf(q, u) = StartOf(volumes, u)
       /\ Whole(volumes) => Whole(q)
  BY <1>9, <1>10
<1>12. ASSUME NEW u \in DOMAIN q
       PROVE  /\ Len(q[u].routes) = Len(volumes[u].routes)
              /\ \A i \in 1..Len(q[u].routes) : q[u].routes[i] \in {"spoiled", volumes[u].routes[i]}
  BY <1>5, <1>8, <1>11
<1>13. Edited(q, chapters)
  BY <1>3, <1>4, <1>11, <1>12 DEF Edited
<1>14. book' = [plan |-> q, chapters |-> chapters]
  <2>1. PICK p : p = [volumes EXCEPT ![v].routes[k] = "spoiled"]
    OBVIOUS
  <2>2. book' = [plan |-> p, chapters |-> chapters]
    BY <1>2, <1>3, <1>4, <2>1
  <2>3. PICK one : one = [volumes[v] EXCEPT !.routes[k] = "spoiled"]
    OBVIOUS
  <2>4. p = [volumes EXCEPT ![v] = one]
    BY <2>1, <2>3
  <2>5. one = [volumes[v] EXCEPT !.routes = new]
    BY <1>5, <1>7, <2>3
  <2>6. q = [volumes EXCEPT ![v] = one]
    BY <1>9, <2>5 DEF Rerouted
  <2> QED BY <2>2, <2>4, <2>6
<1> QED BY <1>13, <1>14, PlanEdited DEF AuthorSpoils, Edits

----------------------------------------------------------------------------
(* The theorem.                                                            *)

LEMMA PlanBegins == PlanInit => PlanInv
<1> SUFFICES ASSUME PlanInit PROVE PlanInv
  OBVIOUS
<1>1. PICK r : r = [v \in 1..MostVolumes |-> <<>>]
  OBVIOUS
<1>2. /\ planRow = [phase |-> "incubator", brief |-> FALSE, cast |-> FALSE, cards |-> 0, world |-> FALSE,
                    bible |-> FALSE, contracts |-> 0, volumes |-> <<>>, core |-> 0,
                    next |-> 1, routes |-> r, debts |-> {}]
      /\ book = [plan |-> <<>>, chapters |-> <<Bare>>] /\ atStep = "off" /\ asked \in VolumeCounts
      /\ recounted = FALSE /\ unfit = FALSE /\ resumes = 0 /\ edits = 0
  BY <1>1 DEF PlanInit, MostVolumes
<1>3. r \in [1..MostVolumes -> Seq(AppliedRoutes)] /\ \A v \in 1..MostVolumes : Len(r[v]) = 0
  <2>1. <<>> \in Seq(AppliedRoutes) /\ Len(<<>>) = 0
    OBVIOUS
  <2> QED BY <1>1, <2>1
<1>4. planRow \in PlanRows
  <2>1. <<>> \in Seq(Nat)
    OBVIOUS
  <2> QED BY <1>2, <1>3, <2>1 DEF PlanRows
<1>5. PlanTypes
  <2>3. recounted = FALSE /\ unfit = FALSE /\ resumes = 0 /\ edits = 0
    BY <1>2, Zenon
  <2>4. {resumes, edits} \subseteq Nat
    BY <2>3
  <2>5. recounted \in BOOLEAN /\ unfit \in BOOLEAN
    BY <2>3, Zenon
  <2>1. recounted \in BOOLEAN /\ unfit \in BOOLEAN /\ {resumes, edits} \subseteq Nat
    BY <2>4, <2>5, Zenon
  <2>2. book \in PlannedBooks /\ asked \in VolumeCounts
    BY <1>2, BareBooks
  <2> QED BY <1>4, <2>1, <2>2 DEF PlanTypes
<1>6. VolumesFollow
  <2>1. Len(planRow.volumes) = 0 /\ asked \in Nat
    BY <1>2, MostIs
  <2> QED BY <1>2, <2>1 DEF VolumesFollow
<1>7. PlanStage
  BY <1>2, BareBooks DEF PlanStage
<1>8. Reach
  BY <1>2, BareBooks, PlanningAssumption DEF Reach
<1>9. DebtsKnown
  BY <1>2, <1>3 DEF DebtsKnown
<1>10. AppliedIsKnown
  BY <1>2 DEF AppliedIsKnown
<1> QED BY <1>2, <1>5, <1>6, <1>7, <1>8, <1>9, <1>10 DEF PlanInv, UnfitOnlyIfRecounted

LEMMA PlanStep == PlanInv /\ [PlanNext]_planVars => PlanInv'
<1> SUFFICES ASSUME PlanInv, [PlanNext]_planVars PROVE PlanInv'
  OBVIOUS
<1>1. CASE SeedBrief \/ SeedCast \/ CharacterCard \/ SeedWorld \/ MasterBible \/ MasterContract \/ VolumeCore \/ VolumeDetails
  BY <1>1, PlanAsks
<1>2. CASE SeedAnswered
  BY <1>2, PlanSeedAnswered
<1>3. CASE Incubated
  BY <1>3, PlanIncubated
<1>4. CASE MasterBegins
  BY <1>4, PlanMasterBegins
<1>5. CASE MasterAnswered
  BY <1>5, PlanMasterAnswered
<1>6. CASE MasterSaved
  BY <1>6, PlanMasterSaved
<1>7. CASE MasterMarked
  BY <1>7, PlanMarked
<1>8. CASE Reapplied
  BY <1>8, PlanReapplied
<1>9. CASE Rejected
  BY <1>9, PlanRejected
<1>10. CASE RoutePlanned
  BY <1>10, PlanRoutePlanned
<1>11. CASE VolumeFinished
  BY <1>11, PlanFinished
<1>12. CASE VolumeMarked
  BY <1>12, PlanVolumeMarked
<1>13. CASE PlanningDone
  BY <1>13, PlanDone
<1>14. CASE Stop \/ ResumePlanning \/ AuthorRecounts \/ UNCHANGED planVars
  BY <1>14, PlanLeft
<1>15. CASE AuthorWrites
  BY <1>15, PlanWritten
<1>16. CASE AuthorSpoils
  BY <1>16, PlanSpoiled
<1> QED BY <1>1, <1>2, <1>3, <1>4, <1>5, <1>6, <1>7, <1>8, <1>9, <1>10, <1>11, <1>12, <1>13, <1>14, <1>15, <1>16 DEF PlanNext

\* All volumes left behind: they cover the book, and every chapter has its route.
LEMMA CoveredAtEnd == PlanInv => BookIsCovered
<1> SUFFICES ASSUME PlanInv, planRow.phase = "chapters" PROVE BookIsCovered!2
  BY DEF BookIsCovered
<1>1. PICK p : p = book.plan
  OBVIOUS
<1>2. PICK top, v, there \in Nat : top = Len(p) /\ v = V /\ there = Len(book.chapters)
  BY <1>1, PlanIs DEF V
<1>3. p \in PlanSeqs /\ DOMAIN p = 1..top
  BY <1>1, <1>2, PlanIs DEF PlanSeqs
<1>4. Whole(p) /\ v <= top + 1 /\ v > top /\ StartOf(p, v) <= there /\ there \in 1..ChapterTarget
      /\ \A u \in 1..v - 1 : Bound(u)
  BY <1>1, <1>2 DEF PlanInv, PlanStage, Reach
<1>5. v = top + 1
  BY <1>4
<1>6. Total(SizesOf(p)) = ChapterTarget /\ StartOf(p, v) = ChapterTarget /\ ChapterTarget \in Nat
  <2>1. Total(SizesOf(p)) = StartOf(p, Len(p) + 1)
    BY <1>3, StartsAre
  <2> QED BY <1>2, <1>4, <1>5, <2>1, PlanningAssumption DEF Whole
<1>7. there = ChapterTarget
  BY <1>4, <1>6
<1>8. ASSUME NEW u \in DOMAIN p, NEW k \in 1..p[u].size
      PROVE  /\ k \in DOMAIN p[u].routes
             /\ p[u].routes[k] \in {"spoiled", book.chapters[StartOf(p, u) + k].route}
  <2>1. u \in 1..v - 1
    BY <1>3, <1>5
  <2>2. Bound(u)
    BY <1>4, <2>1
  <2>3. p[u].routes \in Seq({"good", "debt", "spoiled"})
    BY <1>3, VolumeIs
  <2> QED BY <1>1, <2>2, <2>3 DEF Bound
<1> QED BY <1>1, <1>2, <1>6, <1>7, <1>8

\* No text of the author's goes.
LEMMA TextStep ==
  ASSUME PlanInv, [PlanNext]_planVars, planRow.phase # "incubator",
         NEW n \in DOMAIN book.chapters, book.chapters[n].text
  PROVE  n \in DOMAIN book'.chapters /\ book'.chapters[n].text
<1>1. PICK volumes, chapters : volumes = book.plan /\ chapters = book.chapters
  OBVIOUS
<1>2. /\ book = [plan |-> volumes, chapters |-> chapters] /\ volumes \in PlanSeqs /\ chapters \in ChapterSeqs
      /\ Len(chapters) \in Nat
  BY <1>1, PlanIs DEF ChapterSeqs
<1>3. n \in 1..Len(chapters) /\ chapters[n].text /\ DOMAIN chapters = 1..Len(chapters)
  BY <1>1, <1>2 DEF ChapterSeqs
<1>4. CASE book' = book
  BY <1>4
<1>5. CASE MasterSaved
  <2>1. book'.chapters = chapters
    BY <1>1, <1>2, <1>5 DEF MasterSaved
  <2> QED BY <1>1, <2>1
<1>6. ASSUME NEW routes \in Seq(AppliedRoutes), VolumeSaved(routes), planRow.phase = "volumes", V <= Len(book.plan)
      PROVE  n \in DOMAIN book'.chapters /\ book'.chapters[n].text
  <2>1. PICK start : start = StartOf(volumes, V)
    OBVIOUS
  <2>2. start \in Nat
    <3>1. V \in 1..Len(volumes) /\ Len(volumes) \in Nat
      BY <1>1, <1>6, VolumeNow, PlanIs
    <3>2. V \in 1..Len(volumes) + 1
      BY <3>1
    <3> QED BY <1>2, <2>1, <3>2, StartsAre
  <2>3. PICK all : all = Applied(chapters, start, routes)
    OBVIOUS
  <2>4. book'.chapters = all
    <3>1. book' = [book EXCEPT !.plan[V].routes = routes, !.chapters = Applied(@, StartOf(book.plan, V), routes)]
      BY <1>6 DEF VolumeSaved
    <3>2. PICK half : half = [book EXCEPT !.plan[V].routes = routes]
      OBVIOUS
    <3>3. book' = [half EXCEPT !.chapters = Applied(@, start, routes)]
      BY <1>1, <2>1, <3>1, <3>2
    <3>4. half.chapters = chapters /\ "chapters" \in DOMAIN half
      BY <1>2, <3>2
    <3> QED BY <2>3, <3>3, <3>4
  <2>5. Reached(all, chapters, start, routes)
    BY <1>2, <1>6, <2>2, <2>3, AppliedIs
  <2>6. all[n].text = chapters[n].text
    BY <1>3, <2>5 DEF Reached
  <2>7. n \in DOMAIN all
    <3>1. PICK len, old, more \in Nat : len = Len(all) /\ old = Len(chapters) /\ more = Len(routes)
      BY <1>2, <1>6, <2>5 DEF Reached, ChapterSeqs
    <3>2. len = IF old >= start + more THEN old ELSE start + more
      BY <2>5, <3>1 DEF Reached
    <3>5. old <= len
      BY <2>2, <3>2
    <3>6. n \in 1..old
      BY <1>3, <3>1
    <3>3. n \in 1..len
      BY <3>5, <3>6
    <3>4. DOMAIN all = 1..len
      BY <2>5, <3>1 DEF Reached, ChapterSeqs
    <3> QED BY <3>3, <3>4
  <2> QED BY <1>3, <2>4, <2>6, <2>7
<1>7. CASE Reapplied
  <2>1. planRow.phase = "volumes" /\ V <= Len(book.plan) /\ StoredIsSound /\ VolumeSaved(book.plan[V].routes)
    BY <1>7 DEF Reapplied, Routing, Going
  <2>2. PICK r : r = book.plan[V].routes
    OBVIOUS
  <2>3. r \in Seq({"good", "debt", "spoiled"}) /\ SoundPrefix(r) = r
    BY <2>1, <2>2, VolumeNow DEF StoredIsSound
  <2>4. \A k \in 1..Len(r) : r[k] \in AppliedRoutes
    BY <2>3, SoundPrefixIs DEF AppliedRoutes
  <2>5. r \in Seq(AppliedRoutes)
    <3>1. r = [k \in 1..Len(r) |-> r[k]] /\ Len(r) \in Nat
      BY <2>3
    <3> QED BY <2>4, <3>1
  <2> QED BY <1>6, <2>1, <2>2, <2>5
<1>8. CASE VolumeFinished
  <2>1. planRow.phase = "volumes" /\ V <= Len(book.plan) /\ VolumeSaved(planRow.routes[V])
    BY <1>8 DEF VolumeFinished, PlanInv, PlanStage
  <2>2. planRow.routes[V] \in Seq(AppliedRoutes)
    BY <2>1, VolumeNow
  <2> QED BY <1>6, <2>1, <2>2
<1>9. CASE AuthorWrites
  <2>1. PICK m \in DOMAIN book.chapters : book' = [book EXCEPT !.chapters[m].text = TRUE]
    BY <1>9 DEF AuthorWrites
  <2>2. PICK all : all = [chapters EXCEPT ![m].text = TRUE]
    OBVIOUS
  <2>3. book'.chapters = all
    BY <1>1, <1>2, <2>1, <2>2
  <2>4. chapters[n] \in [route : {"none", "good", "debt"}, text : BOOLEAN]
    BY <1>2, <1>3, ElementOfSeq DEF ChapterSeqs
  <2>5. PICK one : one = [chapters[m] EXCEPT !.text = TRUE]
    OBVIOUS
  <2>6. DOMAIN all = DOMAIN chapters /\ \A k \in DOMAIN chapters : all[k] = IF k = m THEN one ELSE chapters[k]
    BY <2>2, <2>5
  <2>7. m = n => one.text
    BY <2>4, <2>5
  <2> QED BY <1>1, <1>3, <2>3, <2>6, <2>7
<1>10. CASE AuthorSpoils
  <2>1. PICK v \in DOMAIN book.plan : \E k \in DOMAIN book.plan[v].routes :
          book' = [book EXCEPT !.plan[v].routes[k] = "spoiled"]
    BY <1>10 DEF AuthorSpoils
  <2>2. book'.chapters = chapters
    BY <1>1, <1>2, <2>1
  <2> QED BY <1>1, <2>2
<1>11. ~Incubated
  BY DEF Incubated, Going
<1>12. \/ book' = book \/ MasterSaved \/ Reapplied \/ VolumeFinished \/ AuthorWrites \/ AuthorSpoils
  BY <1>11 DEF PlanNext, planVars, SeedBrief, SeedCast, CharacterCard, SeedWorld, SeedAnswered, MasterBegins, MasterBible,
     MasterContract, VolumeCore, VolumeDetails, MasterAnswered, MasterMarked, Rejected, RoutePlanned, VolumeMarked,
     PlanningDone, Stop, ResumePlanning, AuthorRecounts, Waits, Saves
<1> QED BY <1>4, <1>5, <1>7, <1>8, <1>9, <1>10, <1>12

\* Beginnings of sequences of routes.
LEMMA SameIsPrefix ==
  ASSUME NEW s \in Seq(AppliedRoutes)
  PROVE  IsPrefix(s, s)
<1>1. Len(s) \in Nat
  OBVIOUS
<1> QED BY <1>1 DEF IsPrefix

LEMMA LongerHasPrefix ==
  ASSUME NEW s \in Seq(AppliedRoutes), NEW e \in AppliedRoutes
  PROVE  IsPrefix(s, Append(s, e))
<1>1. PICK after : after = Append(s, e)
  OBVIOUS
<1>2. /\ after \in Seq(AppliedRoutes) /\ Len(after) = Len(s) + 1
      /\ \A k \in 1..Len(s) : after[k] = s[k]
  BY <1>1, AppendProperties
<1>3. Len(s) \in Nat
  OBVIOUS
<1>4. SubSeq(s, 1, Len(s)) = [k \in 1..Len(s) |-> s[k]]
  BY <1>3
<1>5. SubSeq(after, 1, Len(s)) = [k \in 1..Len(s) |-> after[k]]
  BY <1>2, <1>3
<1>6. [k \in 1..Len(s) |-> s[k]] = [k \in 1..Len(s) |-> after[k]]
  BY <1>2
<1>7. Len(s) <= Len(after)
  BY <1>2, <1>3
<1> QED BY <1>1, <1>4, <1>5, <1>6, <1>7 DEF IsPrefix

\* What a check keeps of a list of routes, and what it stopped at.
CutAtFault(after, before) ==
  \/ IsPrefix(before, after)
  \/ IsPrefix(after, before) /\ before[Len(after) + 1] # "good"

LEMMA SoundIsPrefix ==
  ASSUME NEW before \in Seq(AppliedRoutes)
  PROVE  CutAtFault(SoundPrefix(before), before)
<1>1. PICK after : after = SoundPrefix(before)
  OBVIOUS
<1>2. /\ after \in Seq(AppliedRoutes) /\ Len(after) \in Nat /\ Len(after) <= Len(before)
      /\ \A k \in 1..Len(after) : after[k] = before[k]
      /\ Len(after) < Len(before) => before[Len(after) + 1] # "good"
  BY <1>1, SoundPrefixIs
<1>3. Len(before) \in Nat
  OBVIOUS
<1>4. IsPrefix(after, before)
  <2>1. SubSeq(after, 1, Len(after)) = [k \in 1..Len(after) |-> after[k]]
    BY <1>2
  <2>2. SubSeq(before, 1, Len(after)) = [k \in 1..Len(after) |-> before[k]]
    BY <1>2
  <2>3. [k \in 1..Len(after) |-> after[k]] = [k \in 1..Len(after) |-> before[k]]
    BY <1>2
  <2> QED BY <1>2, <2>1, <2>2, <2>3 DEF IsPrefix
<1>5. CASE Len(after) < Len(before)
  BY <1>1, <1>2, <1>4, <1>5 DEF CutAtFault
<1>6. CASE ~(Len(after) < Len(before))
  <2>1. Len(after) = Len(before)
    BY <1>2, <1>3, <1>6
  <2>2. after = before
    <3>1. after = [k \in 1..Len(before) |-> after[k]] /\ before = [k \in 1..Len(before) |-> before[k]]
      BY <1>2, <2>1
    <3>2. \A k \in 1..Len(before) : after[k] = before[k]
      BY <1>2, <2>1
    <3> QED BY <3>1, <3>2
  <2> QED BY <1>1, <2>2, SameIsPrefix DEF CutAtFault
<1> QED BY <1>5, <1>6

\* The routes of the row, before and after a step.
RoutesThen == [1..MostVolumes -> Seq(AppliedRoutes)]

LEMMA OneRouteLonger ==
  ASSUME NEW all \in RoutesThen, NEW new, NEW u, NEW e \in AppliedRoutes,
         new = [all EXCEPT ![u] = Append(@, e)], NEW v \in 1..MostVolumes
  PROVE  CutAtFault(new[v], all[v])
<1>1. all[v] \in Seq(AppliedRoutes)
  BY DEF RoutesThen
<1>2. IsPrefix(all[v], all[v]) /\ IsPrefix(all[v], Append(all[v], e))
  BY <1>1, SameIsPrefix, LongerHasPrefix
<1>3. new[v] = IF v = u THEN Append(all[v], e) ELSE all[v]
  BY DEF RoutesThen
<1> QED BY <1>2, <1>3 DEF CutAtFault

LEMMA OneRouteCut ==
  ASSUME NEW all \in RoutesThen, NEW new, NEW u, new = [all EXCEPT ![u] = SoundPrefix(all[u])], NEW v \in 1..MostVolumes
  PROVE  CutAtFault(new[v], all[v])
<1>1. all[v] \in Seq(AppliedRoutes)
  BY DEF RoutesThen
<1>2. IsPrefix(all[v], all[v]) /\ CutAtFault(SoundPrefix(all[v]), all[v])
  BY <1>1, SameIsPrefix, SoundIsPrefix
<1>3. new[v] = IF v = u THEN SoundPrefix(all[v]) ELSE all[v]
  BY DEF RoutesThen
<1> QED BY <1>2, <1>3 DEF CutAtFault

\* A route in the row goes for a fault in it or before it, or for a whole stored volume.
LEMMA RouteStep ==
  ASSUME PlanInv, [PlanNext]_planVars, atStep # "volume saved", NEW v \in DOMAIN planRow.routes
  PROVE  LET before == planRow.routes[v] after == planRow'.routes[v] IN
         \/ IsPrefix(before, after)
         \/ IsPrefix(after, before) /\ before[Len(after) + 1] # "good"
         \/ Len(book.plan[v].routes) = book.plan[v].size
<1>1. planRow \in PlanRows /\ planRow.routes \in RoutesThen /\ v \in 1..MostVolumes
  <2>1. planRow \in PlanRows /\ planRow.routes \in RoutesThen
    BY RowIs DEF PlanInv, PlanTypes, RoutesThen
  <2> QED BY <2>1 DEF RoutesThen
<1>2. PICK all : all = planRow.routes
  OBVIOUS
<1>3. PICK u : u = v
  OBVIOUS
<1>4. all \in RoutesThen /\ u \in 1..MostVolumes
  BY <1>1, <1>2, <1>3
<1> SUFFICES CutAtFault(planRow'.routes[u], all[u]) \/ Len(book.plan[v].routes) = book.plan[v].size
  BY <1>2, <1>3 DEF CutAtFault
<1>5. CASE planRow'.routes = planRow.routes
  <2>1. all[u] \in Seq(AppliedRoutes)
    BY <1>4 DEF RoutesThen
  <2> QED BY <1>2, <1>5, <2>1, SameIsPrefix DEF CutAtFault
<1>6. CASE Rejected
  <2>1. /\ planRow.phase = "volumes" /\ V <= Len(book.plan) /\ planRow' = [planRow EXCEPT !.routes[V] = KeptRoutes]
    BY <1>6 DEF Rejected, Routing, Going, KeptRoutes
  <2>2. planRow'.routes = [planRow.routes EXCEPT ![V] = KeptRoutes]
    BY <1>1, <2>1 DEF PlanRows
  <2>3. PICK here, kept, new : here = V /\ kept = KeptRoutes /\ new = planRow'.routes
    OBVIOUS
  <2>4. new = [all EXCEPT ![here] = kept]
    BY <1>2, <2>2, <2>3
  <2>5. CASE Len(book.plan[V].routes) = book.plan[V].size /\ u = here
    BY <1>3, <2>3, <2>5
  <2>6. CASE u # here
    <3>1. new[u] = all[u] /\ all[u] \in Seq(AppliedRoutes)
      BY <1>4, <2>4, <2>6 DEF RoutesThen
    <3> QED BY <2>3, <3>1, SameIsPrefix DEF CutAtFault
  <2>7. CASE Len(book.plan[V].routes) # book.plan[V].size
    <3>1. kept = SoundPrefix(all[here])
      BY <1>2, <2>3, <2>7 DEF KeptRoutes
    <3>2. new = [all EXCEPT ![here] = SoundPrefix(all[here])]
      BY <2>4, <3>1
    <3>3. CutAtFault(new[u], all[u])
      BY <1>4, <3>2, OneRouteCut
    <3> QED BY <2>3, <3>3
  <2> QED BY <2>5, <2>6, <2>7
<1>7. CASE RoutePlanned
  <2>1. PICK route \in {"good", "debt"} :
          planRow' = [planRow EXCEPT !.routes[V] = Append(@, route),
                        !.debts = IF route = "debt" THEN DebtRecorded(@, V, Len(planRow.routes[V]) + 1) ELSE @]
    BY <1>7 DEF RoutePlanned
  <2>2. PICK here, row, debts, new : here = V /\ row = planRow /\ new = planRow'.routes
          /\ debts = IF route = "debt" THEN DebtRecorded(planRow.debts, V, Len(planRow.routes[V]) + 1) ELSE planRow.debts
    OBVIOUS
  <2>3. PICK half : half = [row EXCEPT !.routes = [all EXCEPT ![here] = Append(@, route)]]
    OBVIOUS
  <2>4. planRow' = [half EXCEPT !.debts = debts]
    BY <1>1, <1>2, <2>1, <2>2, <2>3 DEF PlanRows
  <2>5. new = half.routes /\ half.routes = [all EXCEPT ![here] = Append(@, route)]
    BY <1>1, <2>2, <2>3, <2>4 DEF PlanRows
  <2>6. route \in AppliedRoutes
    BY DEF AppliedRoutes
  <2>7. CutAtFault(new[u], all[u])
    BY <1>4, <2>5, <2>6, OneRouteLonger
  <2> QED BY <2>2, <2>7
<1>8. CASE MasterAnswered
  <2>1. CASE atStep = "details" /\ Saves([planRow EXCEPT !.volumes = Append(@, specs[Len(planRow.volumes) + 1]), !.core = 0])
    <3>1. planRow'.routes = planRow.routes
      BY <1>1, <2>1 DEF Saves, PlanRows
    <3> QED BY <1>5, <3>1
  <2>2. CASE atStep = "bible" /\ Saves([planRow EXCEPT !.bible = TRUE])
    <3>1. planRow'.routes = planRow.routes
      BY <1>1, <2>2 DEF Saves, PlanRows
    <3> QED BY <1>5, <3>1
  <2>3. CASE atStep = "contract" /\ Saves([planRow EXCEPT !.contracts = @ + 1])
    <3>1. planRow'.routes = planRow.routes
      BY <1>1, <2>3 DEF Saves, PlanRows
    <3> QED BY <1>5, <3>1
  <2>4. CASE atStep = "core" /\ Saves([planRow EXCEPT !.core = Len(planRow.volumes) + 1])
    <3>1. planRow'.routes = planRow.routes
      BY <1>1, <2>4 DEF Saves, PlanRows
    <3> QED BY <1>5, <3>1
  <2> QED BY <1>8, <2>1, <2>2, <2>3, <2>4 DEF MasterAnswered
<1>9. CASE SeedAnswered
  <2>1. planRow'.routes = planRow.routes
    BY <1>1, <1>9 DEF SeedAnswered, Saves, PlanRows
  <2> QED BY <1>5, <2>1
<1>10. CASE MasterBegins \/ MasterMarked \/ PlanningDone
  <2>1. planRow'.routes = planRow.routes
    BY <1>1, <1>10 DEF MasterBegins, MasterMarked, PlanningDone, Saves, PlanRows
  <2> QED BY <1>5, <2>1
<1>11. ~VolumeMarked
  BY DEF VolumeMarked
<1>12. CASE planRow' = planRow
  BY <1>5, <1>12
<1>13. \/ planRow' = planRow \/ Rejected \/ RoutePlanned \/ MasterAnswered \/ SeedAnswered
       \/ MasterBegins \/ MasterMarked \/ PlanningDone
  BY <1>11 DEF PlanNext, planVars, SeedBrief, SeedCast, CharacterCard, SeedWorld, Incubated, MasterBible,
     MasterContract, VolumeCore, VolumeDetails, MasterSaved, Reapplied, VolumeFinished, VolumeSaved,
     Stop, ResumePlanning, AuthorWrites, AuthorSpoils, AuthorRecounts, Waits
<1> QED BY <1>6, <1>7, <1>8, <1>9, <1>10, <1>12, <1>13

\* Whatever the size of book and cast, the settings, the stops and the author's edits: when the writing begins the
\* volumes cover the book and every chapter has its route, each applied route passed or is on record as a debt, a plan
\* fails its check only if the number of volumes was changed, planning takes no text from the author and throws
\* away no route that was sound (director/master.py, director/incubator.py).
THEOREM PlanSound == PlanSpec => PlanIsSound
<1>1. PlanSpec => []PlanInv
  BY PlanBegins, PlanStep, PTL DEF PlanSpec
<1>2. PlanInv => BookIsCovered /\ AppliedIsKnown /\ UnfitOnlyIfRecounted
  BY CoveredAtEnd DEF PlanInv
<1>3. PlanInv /\ [PlanNext]_planVars
        => [planRow.phase # "incubator" =>
             \A n \in DOMAIN book.chapters :
               book.chapters[n].text => n \in DOMAIN book'.chapters /\ book'.chapters[n].text]_planVars
  BY TextStep
<1>4. PlanInv /\ [PlanNext]_planVars
        => [atStep # "volume saved" =>
             \A v \in DOMAIN planRow.routes :
               LET before == planRow.routes[v] after == planRow'.routes[v] IN
               \/ IsPrefix(before, after)
               \/ IsPrefix(after, before) /\ before[Len(after) + 1] # "good"
               \/ Len(book.plan[v].routes) = book.plan[v].size]_planVars
  BY RouteStep
<1>5. PlanSpec => [](BookIsCovered /\ AppliedIsKnown /\ UnfitOnlyIfRecounted)
  BY <1>1, <1>2, PTL
<1>6. PlanSpec => TextStands
  BY <1>1, <1>3, PTL DEF PlanSpec, TextStands
<1>7. PlanSpec => RoutesAreKept
  BY <1>1, <1>4, PTL DEF PlanSpec, RoutesAreKept
<1> QED BY <1>5, <1>6, <1>7 DEF PlanIsSound
=============================================================================
