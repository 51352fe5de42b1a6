---------------------------- MODULE PlanningDesk ----------------------------
(***************************************************************************)
(* Planning from the browser (features/planning/planning.js over           *)
(* api/routers/planning.py): the tab sends a copy of the project, the      *)
(* server asks the model and answers a plan, the routes of one volume or a *)
(* chapter plan without storing anything, and the tab writes the answer    *)
(* into whatever project it then shows and saves that.                     *)
(***************************************************************************)
EXTENDS Integers, Sequences, SequencesExt

CONSTANTS
  Books,          \* projects of the library
  Parts,          \* the volumes of a master plan
  PartLength,     \* chapters of a volume
  CallSize,       \* volume_batch_size: chapters a call plans at most
  Events,         \* what a chapter's route may be about
  Outcome,        \* the one that is the volume's promised ending
  MaxRequests     \* bound: requests made

ASSUME DeskAssumption ==
  /\ {PartLength, CallSize} \subseteq Nat \ {0} /\ Outcome \in Events /\ MaxRequests \in Nat

VARIABLES
  stored, \* per project what the library holds: [master: number of its plan, routes, bound: per volume, plan: number of the chapter plan]
  open,   \* the project the tab shows
  desk,   \* the tab's copy of it
  wanted, \* the planning request in flight: [kind, book, master, part, batch, tries, routes]
  plan,   \* the chapter-plan request in flight: its project, or NoneOpen
  applying, \* apply-volume in flight: [book, copy: nextProject, left: volumes still to apply]
  requests

deskVars == <<stored, open, desk, wanted, plan, applying, requests>>

NoneOpen == "no project"
NothingWanted == [kind |-> "none", book |-> NoneOpen, master |-> 0, part |-> 0, batch |-> 0, tries |-> 0, routes |-> <<>>]
NotApplying == [book |-> NoneOpen, copy |-> 0, left |-> <<>>]
NoRoutes == [v \in Parts |-> <<>>]
BlankBook == [master |-> 1, routes |-> NoRoutes, bound |-> NoRoutes, plan |-> 0]

DeskInit ==
  /\ stored = [b \in Books |-> BlankBook] /\ open = (CHOOSE b \in Books : TRUE) /\ desk = BlankBook
  /\ wanted = NothingWanted /\ plan = NoneOpen /\ applying = NotApplying /\ requests = 0

Asks == requests < MaxRequests /\ requests' = requests + 1

\* save(): the tab's copy is stored, or the save fails and the tab keeps it
SavedOrNot(content) ==
  /\ desk' = content
  /\ stored' \in {stored, [stored EXCEPT ![open] = content]}

\* loadProject: the tab shows what is stored
Switches(b) ==
  /\ open' = b /\ desk' = stored[b]
  /\ UNCHANGED <<stored, wanted, plan, applying, requests>>

----------------------------------------------------------------------------
(* The server's routes of a volume, batch after batch.                     *)

\* volume_batches: contiguous batches of nearly the same length
BatchCount == (PartLength + CallSize - 1) \div CallSize
BatchLength(i) == PartLength \div BatchCount + (IF i <= PartLength % BatchCount THEN 1 ELSE 0)

\* Mutant of Passes: the routes of the earlier batches are not given to the check.
PassesAlone(batch, prior, final) == IsInjective(batch) /\ (final \/ Outcome \notin ToSet(batch))

\* validate_route_batch: no route repeats an earlier one, and only the final batch tells the ending
Passes(batch, prior, final) == IsInjective(prior \o batch) /\ (final \/ Outcome \notin ToSet(batch))

DeskBatchAnswered(batch) ==
  LET final == wanted.batch = BatchCount
  IN /\ wanted.kind = "split" /\ wanted.batch <= BatchCount
     /\ IF Passes(batch, wanted.routes, final)
        THEN wanted' = [wanted EXCEPT !.routes = @ \o batch, !.batch = @ + 1, !.tries = 0]
        ELSE wanted' = [wanted EXCEPT !.tries = @ + 1, !.batch = IF wanted.tries = 1 THEN BatchCount + 2 ELSE @]
     /\ UNCHANGED <<stored, open, desk, plan, applying, requests>>

\* a batch refused twice ends the call: the routes so far are answered as incomplete
IsComplete == wanted.batch = BatchCount + 1 /\ Len(wanted.routes) = PartLength

----------------------------------------------------------------------------
(* Requests of the tab.  Only one of generateMasterPlan and splitVolume    *)
(* runs at a time; planning a chapter and applying the volumes do not wait *)
(* for them.                                                               *)

AskMaster ==
  /\ wanted.kind = "none" /\ Asks
  /\ wanted' = [NothingWanted EXCEPT !.kind = "master", !.book = open]
  /\ UNCHANGED <<stored, open, desk, plan, applying>>

AskSplit(v) ==
  /\ wanted.kind = "none" /\ Asks
  /\ wanted' = [NothingWanted EXCEPT !.kind = "split", !.book = open, !.master = desk.master, !.part = v, !.batch = 1]
  /\ UNCHANGED <<stored, open, desk, plan, applying>>

AskPlan ==
  /\ plan = NoneOpen /\ Asks /\ plan' = open
  /\ UNCHANGED <<stored, open, desk, wanted, applying>>

\* Mutant of MasterAnswer: the answer is written into the project the tab shows.
MasterAnswerAnywhere ==
  /\ wanted.kind = "master" /\ wanted' = NothingWanted
  /\ SavedOrNot([desk EXCEPT !.master = requests + 1, !.routes = NoRoutes])
  /\ UNCHANGED <<open, plan, applying, requests>>

\* a new master plan has volumes of its own, without routes; the chapters keep theirs
MasterAnswer ==
  /\ wanted.kind = "master" /\ wanted' = NothingWanted
  /\ IF open = wanted.book
     THEN SavedOrNot([desk EXCEPT !.master = requests + 1, !.routes = NoRoutes])
     ELSE UNCHANGED <<stored, desk>>
  /\ UNCHANGED <<open, plan, applying, requests>>

\* splitVolume: an incomplete answer, one for another project or for a volume that is gone is dropped
SplitAnswer ==
  /\ wanted.kind = "split" /\ wanted.batch > BatchCount /\ wanted' = NothingWanted
  /\ IF open = wanted.book /\ desk.master = wanted.master /\ IsComplete
     THEN SavedOrNot([desk EXCEPT !.routes[wanted.part] = wanted.routes])
     ELSE UNCHANGED <<stored, desk>>
  /\ UNCHANGED <<open, plan, applying, requests>>

\* an error of the server, or the author's abort
RequestFails ==
  /\ wanted.kind # "none" /\ wanted' = NothingWanted
  /\ UNCHANGED <<stored, open, desk, plan, applying, requests>>

\* planChapter and autoPlanAndWriteChapter
PlanAnswer ==
  /\ plan # NoneOpen /\ plan' = NoneOpen
  /\ IF open = plan THEN SavedOrNot([desk EXCEPT !.plan = requests]) ELSE UNCHANGED <<stored, desk>>
  /\ UNCHANGED <<open, wanted, applying, requests>>

----------------------------------------------------------------------------
(* Building the chapters: each volume in turn is sent with the project the *)
(* last answer gave; the last answer replaces the tab's project, whatever  *)
(* happened to it meanwhile.                                               *)

\* apply_volume_routes refuses a volume without all its routes
MayApply(content, v) == Len(content.routes[v]) = PartLength

AskApply(parts) ==
  /\ applying = NotApplying /\ Asks
  /\ applying' = [book |-> open, copy |-> desk, left |-> parts]
  /\ stored' = [stored EXCEPT ![open] = desk]
  /\ UNCHANGED <<open, desk, wanted, plan>>

ApplyAnswer ==
  LET v == Head(applying.left)
      next == [applying.copy EXCEPT !.bound[v] = applying.copy.routes[v]]
  IN /\ applying # NotApplying
     /\ IF ~MayApply(applying.copy, v)
        THEN applying' = NotApplying /\ UNCHANGED <<stored, open, desk>>
        ELSE IF Len(applying.left) > 1
             THEN applying' = [applying EXCEPT !.copy = next, !.left = Tail(@)] /\ UNCHANGED <<stored, open, desk>>
             \* project = nextProject: the tab is back at the project the volumes are of
             ELSE /\ applying' = NotApplying /\ open' = applying.book /\ desk' = next
                  /\ stored' \in {stored, [stored EXCEPT ![applying.book] = next]}
     /\ UNCHANGED <<wanted, plan, requests>>

\* the volumes in the order of the plan
AllParts == SetToSortSeq(Parts, <)

DeskNext ==
  \/ \E b \in Books \ {open} : Switches(b)
  \/ AskMaster \/ (\E v \in Parts : AskSplit(v)) \/ AskPlan
  \/ \E batch \in [1..BatchLength(wanted.batch) -> Events] : DeskBatchAnswered(batch)
  \/ MasterAnswer \/ SplitAnswer \/ RequestFails \/ PlanAnswer
  \/ AskApply(AllParts) \/ (\E v \in Parts : AskApply(<<v>>)) \/ ApplyAnswer

DeskSpec == DeskInit /\ [][DeskNext]_deskVars

----------------------------------------------------------------------------
(* Properties.                                                             *)

WholeRoutes(routes) ==
  /\ Len(routes) = PartLength /\ IsInjective(routes)
  /\ \A i \in 1..Len(routes) : routes[i] = Outcome => i > PartLength - BatchLength(BatchCount)

\* Whatever was refused, retried, given up, saved or failed to save: a volume has no routes, or one for
\* each of its chapters, no two alike, the promised ending in the last batch; and so have the chapters.
RoutesAreWhole ==
  \A content \in {stored[b] : b \in Books} \cup {desk} : \A v \in Parts :
    \A routes \in {content.routes[v], content.bound[v]} : routes # <<>> => WholeRoutes(routes)

\* The answer to a planning request changes nothing in the library or the tab but the plan it was asked
\* for, in the project it was asked for: the routes of a volume in its own plan, or a plan's volumes,
\* or the plan of the chapter.
AnswersStayHome ==
  [][/\ wanted.kind # "none" /\ wanted'.kind = "none" =>
          /\ \A b \in Books \ {wanted.book} : stored'[b] = stored[b]
          /\ open # wanted.book => desk' = desk
          /\ desk'.plan = desk.plan /\ desk'.bound = desk.bound
          /\ wanted.kind = "split" =>
               /\ desk'.master = desk.master /\ (desk' # desk => desk.master = wanted.master)
               /\ \A v \in Parts \ {wanted.part} : desk'.routes[v] = desk.routes[v]
     /\ plan # NoneOpen /\ plan' = NoneOpen =>
          /\ \A b \in Books \ {plan} : stored'[b] = stored[b]
          /\ open # plan => desk' = desk
          /\ desk'.routes = desk.routes /\ desk'.bound = desk.bound]_deskVars

\* The planning desk puts whole routes, and each answer only where it was asked for, whatever is opened,
\* refused or retried meanwhile: the two parts above.
DeskIsSound ==
  /\ []RoutesAreWhole
  /\ AnswersStayHome
=============================================================================
