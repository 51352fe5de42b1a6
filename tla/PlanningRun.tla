------------------------------ MODULE PlanningRun ------------------------------
(***************************************************************************)
(* The director's way from an idea to routes for every chapter             *)
(* (director/incubator.py, director/master.py with the calls of            *)
(* planning/director_planning.py).  Every answer of the model is saved in  *)
(* the task's row before the next question; the project is saved at the    *)
(* end of a phase, before the row.  The run may stop at any step (pause,   *)
(* error, end of the process), the author may then write and edit the      *)
(* plan, and a resumed run starts from the row.                            *)
(***************************************************************************)
EXTENDS Integers, Sequences, FiniteSets, SequencesExt, FiniteSetsExt

CONSTANTS
  CastSize,     \* characters of the cast
  ChapterTarget,\* target_chapters
  VolumeCounts, \* numbers of volumes the settings may ask for
  VolumesKept,  \* volumes normalize_master_plan keeps, 20 in the code
  MaxResumes,   \* bound: resumptions
  MaxEdits      \* bound: edits by the author

ASSUME PlanningAssumption ==
  /\ CastSize \in Nat /\ {ChapterTarget, VolumesKept} \subseteq Nat \ {0}
  /\ VolumeCounts \subseteq 1..ChapterTarget /\ VolumeCounts # {}
  /\ {MaxResumes, MaxEdits} \subseteq Nat

VARIABLES
  planRow,   \* the checkpoints of the task
  book,      \* the project: plan (volumes with their routes) and chapters
  atStep,    \* "off", "go", or what the run waits for
  specs,     \* the sizes of the volumes, worked out when the master phase begins
  asked,     \* the number of volumes the settings ask for
  recounted, \* has it been changed
  unfit,     \* has a finished plan failed its check
  resumes, edits

authorVars == <<asked, recounted, edits>>
planVars == <<planRow, book, atStep, specs, authorVars, unfit, resumes>>

\* Mutant of SpecsOf: the remainder is lost.
SpecsShort(total, n) == [i \in 1..n |-> total \div n]

\* _director_volume_specs: as even as possible, the larger ones first
SpecsOf(total, n) == [i \in 1..n |-> total \div n + (IF i <= total % n THEN 1 ELSE 0)]

\* the chapters of the first n volumes
SizesUpTo(sizes) ==
  LET upTo[n \in 0..Len(sizes)] == IF n = 0 THEN 0 ELSE upTo[n - 1] + sizes[n]
  IN upTo

Total(sizes) == SizesUpTo(sizes)[Len(sizes)]
SizesOf(plan) == [v \in DOMAIN plan |-> plan[v].size]
StartOf(plan, v) == SizesUpTo(SizesOf(plan))[v - 1]

Bare == [route |-> "none", text |-> FALSE]

PlanInit ==
  /\ planRow = [phase |-> "incubator", brief |-> FALSE, cast |-> FALSE, cards |-> 0, world |-> FALSE,
                bible |-> FALSE, contracts |-> 0, volumes |-> <<>>, core |-> 0,
                next |-> 1, routes |-> [v \in 1..Max(VolumeCounts) |-> <<>>], debts |-> {}]
  /\ book = [plan |-> <<>>, chapters |-> <<Bare>>]
  /\ atStep = "off" /\ specs = <<>>
  /\ asked \in VolumeCounts /\ recounted = FALSE /\ unfit = FALSE
  /\ resumes = 0 /\ edits = 0

Going(phase) == atStep = "go" /\ planRow.phase = phase
Waits(what) == atStep' = what /\ UNCHANGED <<planRow, book, specs, authorVars, unfit, resumes>>
Saves(row) == planRow' = row /\ atStep' = "go" /\ UNCHANGED <<book, specs, authorVars, unfit, resumes>>

----------------------------------------------------------------------------
(* The incubator.                                                          *)

SeedBrief == Going("incubator") /\ ~planRow.brief /\ Waits("brief")
SeedCast == Going("incubator") /\ planRow.brief /\ ~planRow.cast /\ Waits("cast")
CharacterCard ==
  Going("incubator") /\ planRow.cast /\ planRow.cards < CastSize /\ Waits("card")
SeedWorld ==
  Going("incubator") /\ planRow.cast /\ planRow.cards = CastSize /\ ~planRow.world /\ Waits("world")

SeedAnswered ==
  \/ atStep = "brief" /\ Saves([planRow EXCEPT !.brief = TRUE])
  \/ atStep = "cast" /\ Saves([planRow EXCEPT !.cast = TRUE])
  \/ atStep = "card" /\ Saves([planRow EXCEPT !.cards = @ + 1])
  \/ atStep = "world" /\ Saves([planRow EXCEPT !.world = TRUE])

\* _director_project_from_option: the project is made anew, with one chapter
Incubated ==
  /\ Going("incubator") /\ planRow.world
  /\ book' = [plan |-> <<>>, chapters |-> <<Bare>>]
  /\ atStep' = "incubated"
  /\ UNCHANGED <<planRow, specs, authorVars, unfit, resumes>>

----------------------------------------------------------------------------
(* The plan of the book.                                                   *)

\* the end of the incubator, or a resumption: the volumes are counted
MasterBegins ==
  /\ \/ atStep = "incubated"
     \/ Going("master") /\ specs = <<>>
  /\ planRow' = [planRow EXCEPT !.phase = "master"]
  /\ specs' = SpecsOf(ChapterTarget, asked)
  /\ atStep' = "go"
  /\ UNCHANGED <<book, authorVars, unfit, resumes>>

Planning == Going("master") /\ specs # <<>>
Contracted == planRow.bible /\ planRow.contracts >= Len(specs)
Expanded == Contracted /\ Len(planRow.volumes) >= Len(specs)

MasterBible == Planning /\ ~planRow.bible /\ Waits("bible")
MasterContract == Planning /\ planRow.bible /\ planRow.contracts < Len(specs) /\ Waits("contract")
VolumeCore ==
  /\ Planning /\ Contracted /\ ~Expanded /\ planRow.core # Len(planRow.volumes) + 1
  /\ Waits("core")
VolumeDetails ==
  /\ Planning /\ Contracted /\ ~Expanded /\ planRow.core = Len(planRow.volumes) + 1
  /\ Waits("details")

MasterAnswered ==
  LET n == Len(planRow.volumes) + 1 IN
  \/ atStep = "bible" /\ Saves([planRow EXCEPT !.bible = TRUE])
  \/ atStep = "contract" /\ Saves([planRow EXCEPT !.contracts = @ + 1])
  \/ atStep = "core" /\ Saves([planRow EXCEPT !.core = n])
  \/ atStep = "details" /\ Saves([planRow EXCEPT !.volumes = Append(@, specs[n]), !.core = 0])

\* Mutant of Normalized: the volumes that are kept keep their sizes.
NormalizedCut(sizes) ==
  LET kept == SubSeq(sizes, 1, Min({Len(sizes), VolumesKept})) IN
  [i \in DOMAIN kept |-> [size |-> kept[i], routes |-> <<>>]]

\* normalize_master_plan keeps the first volumes and shares the chapters out
Normalized(sizes) ==
  LET kept == IF Len(sizes) <= VolumesKept THEN sizes ELSE SpecsOf(Total(sizes), VolumesKept) IN
  [i \in DOMAIN kept |-> [size |-> kept[i], routes |-> <<>>]]

\* Mutant of MasterSaved: the chapters are laid out again.
MasterSavedAnew ==
  /\ Planning /\ Expanded
  /\ LET sizes == SubSeq(planRow.volumes, 1, Len(specs)) IN
     IF Total(sizes) = ChapterTarget
     THEN /\ book' = [plan |-> Normalized(sizes), chapters |-> <<Bare>>]
          /\ atStep' = "planned" /\ UNCHANGED unfit
     ELSE atStep' = "off" /\ unfit' = TRUE /\ UNCHANGED book
  /\ UNCHANGED <<planRow, specs, authorVars, resumes>>

\* validate_master_result, then the save of the project
MasterSaved ==
  /\ Planning /\ Expanded
  /\ LET sizes == SubSeq(planRow.volumes, 1, Len(specs)) IN
     IF Total(sizes) = ChapterTarget
     THEN /\ book' = [book EXCEPT !.plan = Normalized(sizes)]
          /\ atStep' = "planned" /\ UNCHANGED unfit
     ELSE atStep' = "off" /\ unfit' = TRUE /\ UNCHANGED book
  /\ UNCHANGED <<planRow, specs, authorVars, resumes>>

MasterMarked ==
  atStep = "planned" /\ Saves([planRow EXCEPT !.phase = "volumes", !.next = 1])

----------------------------------------------------------------------------
(* The routes.                                                             *)

V == planRow.next
Routing == Going("volumes") /\ V <= Len(book.plan)

\* Mutant of SoundPrefix: the route before the fault goes as well.
SoundPrefixLess(routes) ==
  LET faulty == {k \in DOMAIN routes : routes[k] # "good"} IN
  IF faulty = {} THEN routes ELSE SubSeq(routes, 1, Min(faulty) - 2)

\* _audit_route_checkpoint_prefix: the routes before the first with a fault
SoundPrefix(routes) ==
  LET faulty == {k \in DOMAIN routes : routes[k] # "good"} IN
  IF faulty = {} THEN routes ELSE SubSeq(routes, 1, Min(faulty) - 1)

StoredIsSound ==
  Len(book.plan[V].routes) = book.plan[V].size /\ SoundPrefix(book.plan[V].routes) = book.plan[V].routes

\* apply_volume_routes: chapters are added up to the end of the volume
Applied(chapters, start, routes) ==
  [n \in 1..Max({Len(chapters), start + Len(routes)}) |->
     LET old == IF n <= Len(chapters) THEN chapters[n] ELSE Bare IN
     IF n \in start + 1..start + Len(routes) THEN [old EXCEPT !.route = routes[n - start]] ELSE old]

VolumeSaved(routes) ==
  /\ book' = [book EXCEPT !.plan[V].routes = routes,
                !.chapters = Applied(@, StartOf(book.plan, V), routes)]
  /\ atStep' = "volume saved"
  /\ UNCHANGED <<planRow, specs, authorVars, unfit, resumes>>

\* a volume whose routes are all there is applied again and left behind
Reapplied == Routing /\ StoredIsSound /\ VolumeSaved(book.plan[V].routes)

\* or its sound beginning becomes the checkpoint; this and the recheck of the
\* checkpoint happen once, when the volume is taken up
Rejected ==
  /\ Routing /\ ~StoredIsSound
  /\ LET stored == book.plan[V].routes
         kept == SoundPrefix(IF Len(stored) = book.plan[V].size THEN stored ELSE planRow.routes[V]) IN
     planRow' = [planRow EXCEPT !.routes[V] = kept]
  /\ atStep' = "routes"
  /\ UNCHANGED <<book, specs, authorVars, unfit, resumes>>

RoutesLeft == atStep = "routes" /\ Len(planRow.routes[V]) < book.plan[V].size

\* _record_planning_debt: one debt of a chapter of a volume
DebtRecorded(debts, v, k) == debts \cup {<<v, k>>}

\* Mutant of RoutePlanned: the quality debt is not written down.
RoutePlannedQuietly ==
  /\ RoutesLeft
  /\ \E route \in {"good", "debt"} :
       planRow' = [planRow EXCEPT !.routes[V] = Append(@, route)]
  /\ UNCHANGED <<book, atStep, specs, authorVars, unfit, resumes>>

\* one more route is asked for, answered and saved
RoutePlanned ==
  /\ RoutesLeft
  /\ \E route \in {"good", "debt"} :
       planRow' = [planRow EXCEPT !.routes[V] = Append(@, route),
                     !.debts = IF route = "debt" THEN DebtRecorded(@, V, Len(planRow.routes[V]) + 1) ELSE @]
  /\ UNCHANGED <<book, atStep, specs, authorVars, unfit, resumes>>

VolumeFinished ==
  /\ atStep = "routes" /\ Len(planRow.routes[V]) = book.plan[V].size
  /\ VolumeSaved(planRow.routes[V])

VolumeMarked ==
  atStep = "volume saved" /\ Saves([planRow EXCEPT !.routes[V] = <<>>, !.next = @ + 1])

PlanningDone ==
  /\ Going("volumes") /\ V > Len(book.plan)
  /\ planRow' = [planRow EXCEPT !.phase = "chapters"] /\ atStep' = "off"
  /\ UNCHANGED <<book, specs, authorVars, unfit, resumes>>

----------------------------------------------------------------------------
(* Stops, resumptions and the author.                                      *)

\* a pause, an error or the end of the process: the row stays as it is
Stop ==
  /\ atStep # "off" /\ atStep' = "off"
  /\ UNCHANGED <<planRow, book, specs, authorVars, unfit, resumes>>

ResumePlanning ==
  /\ atStep = "off" /\ planRow.phase # "chapters" /\ resumes < MaxResumes
  /\ atStep' = "go" /\ specs' = <<>> /\ resumes' = resumes + 1
  /\ UNCHANGED <<planRow, book, authorVars, unfit>>

Edits == atStep = "off" /\ edits < MaxEdits /\ edits' = edits + 1

AuthorWrites ==
  /\ Edits
  /\ \E n \in DOMAIN book.chapters : book' = [book EXCEPT !.chapters[n].text = TRUE]
  /\ UNCHANGED <<planRow, atStep, specs, asked, recounted, unfit, resumes>>

\* a route of the stored plan is edited so that it fails the checks
AuthorSpoils ==
  /\ Edits
  /\ \E v \in DOMAIN book.plan : \E k \in DOMAIN book.plan[v].routes :
       book' = [book EXCEPT !.plan[v].routes[k] = "spoiled"]
  /\ UNCHANGED <<planRow, atStep, specs, asked, recounted, unfit, resumes>>

\* the settings ask for another number of volumes (planned_volume_count)
AuthorRecounts ==
  /\ Edits /\ asked' \in VolumeCounts \ {asked} /\ recounted' = TRUE
  /\ UNCHANGED <<planRow, book, atStep, specs, unfit, resumes>>

PlanNext ==
  \/ SeedBrief \/ SeedCast \/ CharacterCard \/ SeedWorld \/ SeedAnswered \/ Incubated
  \/ MasterBegins \/ MasterBible \/ MasterContract \/ VolumeCore \/ VolumeDetails \/ MasterAnswered
  \/ MasterSaved \/ MasterMarked
  \/ Reapplied \/ Rejected \/ RoutePlanned \/ VolumeFinished \/ VolumeMarked \/ PlanningDone
  \/ Stop \/ ResumePlanning \/ AuthorWrites \/ AuthorSpoils \/ AuthorRecounts

PlanSpec == PlanInit /\ [][PlanNext]_planVars

----------------------------------------------------------------------------
(* Properties.                                                             *)

\* When the writing begins, the volumes cover the book and every chapter has
\* the route its volume has for it, through whatever stops and resumptions,
\* unless the author has edited routes since.
BookIsCovered ==
  planRow.phase = "chapters" =>
    /\ Total(SizesOf(book.plan)) = ChapterTarget
    /\ Len(book.chapters) = ChapterTarget
    /\ \A v \in DOMAIN book.plan : \A k \in 1..book.plan[v].size :
         /\ k \in DOMAIN book.plan[v].routes
         /\ book.plan[v].routes[k] \in {"spoiled", book.chapters[StartOf(book.plan, v) + k].route}

\* The run applies a route only if it passed the checks or is on record as a
\* debt; one the author has spoiled meanwhile is found first.
AppliedIsKnown ==
  \A v \in DOMAIN book.plan : \A k \in 1..book.plan[v].size :
    LET n == StartOf(book.plan, v) + k IN
    n <= Len(book.chapters) =>
      \/ book.chapters[n].route \in {"none", "good"}
      \/ book.chapters[n].route = "debt" /\ <<v, k>> \in planRow.debts

\* Once the book is set up, planning takes no text from the author.
TextStands ==
  [][planRow.phase # "incubator" =>
       \A n \in DOMAIN book.chapters : book.chapters[n].text => n \in DOMAIN book'.chapters /\ book'.chapters[n].text]_planVars

\* Reused checkpoints add up to a plan that passes its check, unless the number
\* of volumes was changed on the way.
UnfitOnlyIfRecounted == unfit => recounted

\* A saved route is thrown away only for a fault in it or before it, or because
\* the stored plan has a whole set for the volume.
RoutesAreKept ==
  [][atStep # "volume saved" =>
      \A v \in DOMAIN planRow.routes :
        LET before == planRow.routes[v] after == planRow'.routes[v] IN
        \/ IsPrefix(before, after)
        \/ IsPrefix(after, before) /\ before[Len(after) + 1] # "good"
        \/ Len(book.plan[v].routes) = book.plan[v].size]_planVars

\* Through stops, resumptions and the author's edits the planning of a book ends with a whole plan,
\* every fault of it on record, and takes nothing that was sound: the five parts above.
PlanIsSound ==
  /\ [](BookIsCovered /\ AppliedIsKnown /\ UnfitOnlyIfRecounted)
  /\ TextStands /\ RoutesAreKept
================================================================================
