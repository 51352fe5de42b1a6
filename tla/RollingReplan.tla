---------------------------- MODULE RollingReplan ----------------------------
(***************************************************************************)
(* Rolling re-planning (planning/rolling_replan.py and its caller in       *)
(* director/support.py): after a settled chapter the routes of the next    *)
(* ones are revised from what happened.  A route exists twice, the copy of *)
(* the chapter and the copy in the volume the planning editor works on;    *)
(* while the model is asked, a revision may be restored.                   *)
(***************************************************************************)
EXTENDS Integers, FiniteSets, FiniteSetsExt

CONSTANTS
  RouteCount,    \* chapters of the book, numbered from 1
  FirstVolume,   \* the chapters 1..FirstVolume are the first volume's, the others the second's
  ReplanWindow,  \* craft_setting rolling_replan_window
  RouteGoals,    \* what the adjustable fields of a route may say
  Faulty,        \* the goals the route validator refuses whatever comes before
  MaxAuthorEdits \* bound: edits of the author, and restored revisions

ASSUME ReplanAssumption ==
  /\ {RouteCount, ReplanWindow} \subseteq Nat \ {0} /\ FirstVolume \in 1..RouteCount
  /\ 1..RouteCount \subseteq RouteGoals \ Faulty /\ MaxAuthorEdits \in Nat

Numbers == 1..RouteCount

VARIABLES
  plannedBook, \* the stored project: [route, planned: the two copies, prose, stale: sets of chapters]
  asOf,        \* the revision an earlier save left
  replan,      \* the director: [at: last chapter done, asking, book: the copy it works on, moved: saved over since]
  authorEdits        \* what the author did, bounded

replanVars == <<plannedBook, asOf, replan, authorEdits>>

RouteVolume(c) == IF c <= FirstVolume THEN 1 ELSE 2

FirstRoute(c) == [goal |-> c, author |-> FALSE]

ReplanInit ==
  /\ plannedBook = [route |-> [c \in Numbers |-> FirstRoute(c)], planned |-> [c \in Numbers |-> FirstRoute(c)],
                    prose |-> {}, stale |-> {}]
  /\ asOf = plannedBook /\ authorEdits = 0
  /\ replan = [at |-> 0, asking |-> FALSE, book |-> plannedBook, moved |-> FALSE]

----------------------------------------------------------------------------
(* The validator: a route is refused for what it says or for repeating an  *)
(* earlier one; a volume is checked up to its first refused route.         *)

Refused(copy, c) == copy[c].goal \in Faulty \/ \E d \in 1..c-1 : copy[d].goal = copy[c].goal

\* _audit_route_checkpoint_prefix: the chapters of a volume the check gets past
SoundRoutes(copy, v) ==
  {c \in Numbers : RouteVolume(c) = v /\ \A d \in 1..c : RouteVolume(d) = v => ~Refused(copy, d)}

----------------------------------------------------------------------------
(* Whose route it is.                                                      *)

\* Mutant of RouteLocked: only the chapter's own copy is asked.
LockedByChapter(book, c) == c \in book.prose \/ book.route[c].author

\* _route_locked: written, marked in either copy, or the copies differ
RouteLocked(book, c) ==
  \/ c \in book.prose \/ book.route[c].author \/ book.planned[c].author
  \/ book.planned[c].goal # book.route[c].goal

\* replan_targets: the next chapters of the volume of the one just done
ReplanTargets(book, at) ==
  {c \in at+1..at+ReplanWindow : c \in Numbers /\ RouteVolume(c) = RouteVolume(at) /\ ~RouteLocked(book, c)}

----------------------------------------------------------------------------
(* apply_replan_changes.  A change is [before, after] of a chapter; all    *)
(* volume routes are then taken from the chapters.                         *)

\* the chapters whose change still applies
StillApply(book, changes) ==
  {c \in DOMAIN changes : ~RouteLocked(book, c) /\ book.route[c].goal = changes[c].before}

WithChanges(book, changes) ==
  LET at == StillApply(book, changes)
      new == [c \in Numbers |-> IF c \in at THEN [book.route[c] EXCEPT !.goal = changes[c].after] ELSE book.route[c]]
  IN IF at = {} THEN book ELSE [book EXCEPT !.route = new, !.planned = new, !.stale = @ \cup at]

Only(changes, chapters) == [c \in DOMAIN changes \cap chapters |-> changes[c]]

\* Mutant of Accepted: the changed routes are not checked again.
AcceptedUnchecked(book, changes, v) == Only(changes, SoundRoutes(book.planned, v))

\* rolling_replan: a change behind a refused route is left out; changes after which the check gets
\* less far are all reverted
Accepted(book, changes, v) ==
  LET before == SoundRoutes(book.planned, v)
      valid == Only(changes, before)
      after == SoundRoutes(WithChanges(book, valid).planned, v)
  IN IF DOMAIN valid # {} /\ Cardinality(after) < Cardinality(before) THEN Only(changes, {}) ELSE valid

----------------------------------------------------------------------------
(* The director.                                                           *)

\* a chapter is done and saved; a settled one is followed by the question to the model
ChapterSaved(settled) ==
  LET c == replan.at + 1
      asks == settled /\ c < RouteCount
      book == [plannedBook EXCEPT !.prose = @ \cup {c}]
  IN /\ ~replan.asking /\ c \in Numbers
     /\ plannedBook' = book
     /\ replan' = [at |-> c, asking |-> asks /\ ReplanTargets(book, c) # {}, book |-> book, moved |-> FALSE]
     /\ UNCHANGED <<asOf, authorEdits>>

ReplanFails ==
  /\ replan.asking
  /\ replan' = [replan EXCEPT !.asking = FALSE, !.moved = FALSE, !.book = plannedBook]
  /\ UNCHANGED <<plannedBook, asOf, authorEdits>>

\* what an answer asks of the targets: only goals that differ
Proposals(book, at) ==
  {[c \in chosen |-> [before |-> book.route[c].goal, after |-> goals[c]]] :
     chosen \in SUBSET ReplanTargets(book, at), goals \in [ReplanTargets(book, at) -> RouteGoals]}

\* the answer is checked on the director's copy; when another save came between, the accepted changes
\* are replayed on the project as it is now
ReplanAnswered ==
  \E changes \in Proposals(replan.book, replan.at) :
    LET accepted == Accepted(replan.book, changes, RouteVolume(replan.at + 1))
        onto == IF replan.moved THEN plannedBook ELSE replan.book
    IN /\ replan.asking /\ \A c \in DOMAIN changes : changes[c].after # changes[c].before
       /\ plannedBook' = WithChanges(onto, accepted)
       /\ replan' = [replan EXCEPT !.asking = FALSE, !.moved = FALSE, !.book = plannedBook']
       /\ UNCHANGED <<asOf, authorEdits>>

----------------------------------------------------------------------------
(* The author.  The editor's saves and apply-volume are refused while a    *)
(* director works; the restoration of a revision is not.                   *)

Saved(book) ==
  /\ authorEdits < MaxAuthorEdits /\ authorEdits' = authorEdits + 1
  /\ plannedBook' = book /\ asOf' = plannedBook

\* collectPlanningModal marks an edited route of the volume copy, and saveProject stores it
AuthorEditsRoute(c, g) ==
  /\ ~replan.asking /\ g # plannedBook.planned[c].goal
  /\ Saved([plannedBook EXCEPT !.planned[c] = [goal |-> g, author |-> TRUE]])
  /\ UNCHANGED replan

\* apply_volume_routes: the chapters of a volume take the volume's routes
VolumeApplied(v) ==
  /\ ~replan.asking /\ \E c \in Numbers : RouteVolume(c) = v /\ plannedBook.route[c] # plannedBook.planned[c]
  /\ Saved([plannedBook EXCEPT !.route =
       [c \in Numbers |-> IF RouteVolume(c) = v THEN plannedBook.planned[c] ELSE plannedBook.route[c]]])
  /\ UNCHANGED replan

RevisionRestored ==
  /\ asOf # plannedBook /\ Saved(asOf)
  /\ replan' = [replan EXCEPT !.moved = replan.asking]

ReplanNext ==
  \/ \E settled \in BOOLEAN : ChapterSaved(settled)
  \/ ReplanFails \/ ReplanAnswered
  \/ \E c \in Numbers, g \in RouteGoals : AuthorEditsRoute(c, g)
  \/ \E v \in {1, 2} : VolumeApplied(v)
  \/ RevisionRestored

ReplanSpec == ReplanInit /\ [][ReplanNext]_replanVars

----------------------------------------------------------------------------
(* Properties.                                                             *)

Answering == replan.asking /\ ~replan'.asking

\* Whatever was saved while the model was asked, its answer changes the route of a chapter only if, in
\* the project as it is now, the chapter is one of the next few of the volume, is unwritten, and the
\* author neither marked its route nor left an edit of it unapplied; the text and the mark of every
\* chapter stay, and the plan of a changed one becomes stale.
OnlyFreeRoutesChange ==
  [][Answering =>
       \A c \in Numbers :
         plannedBook'.route[c] # plannedBook.route[c] =>
           /\ c \in replan.at+1..replan.at+ReplanWindow /\ RouteVolume(c) = RouteVolume(replan.at)
           /\ c \notin plannedBook.prose
           /\ ~plannedBook.planned[c].author /\ plannedBook.planned[c].goal = plannedBook.route[c].goal
           /\ plannedBook'.prose = plannedBook.prose /\ c \in plannedBook'.stale]_replanVars

\* Unless the project moved meanwhile, an answer never makes the route check stop earlier in its volume.
ChecksReachAsFar ==
  [][Answering /\ ~replan.moved =>
       LET v == RouteVolume(replan.at)
       IN Cardinality(SoundRoutes(plannedBook.planned, v)) <= Cardinality(SoundRoutes(plannedBook'.planned, v))]_replanVars

\* What the planning editor's comment asks: an author-owned route of the volume is never overwritten by
\* re-planning.
AuthorRoutesStand ==
  [][Answering =>
       \A c \in Numbers : plannedBook.planned[c].author => plannedBook'.planned[c] = plannedBook.planned[c]]_replanVars

\* An answer that comes late changes no more than the routes it may, and none of them for the worse: the
\* two parts above.
ReplanIsBounded ==
  /\ OnlyFreeRoutesChange /\ ChecksReachAsFar
=============================================================================
