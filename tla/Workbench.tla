----------------------------- MODULE Workbench -----------------------------
(***************************************************************************)
(* The author's browser tabs (static/js/core/project.js), the handlers     *)
(* they call and a director run, all writing one project through the       *)
(* repository of ProjectStore.                                             *)
(*                                                                         *)
(* A text is the set of the edits it shows, so that a text that lacks an   *)
(* edit of another is an older or a diverging one.  Chapter 1 is settled   *)
(* in the memory ledger, chapter 2 is the one the run writes.  The content *)
(* of the planning fields is named by the stamp it was written after.      *)
(*                                                                         *)
(* Handlers on the event loop are atomic between awaits; a request in      *)
(* flight may be served late, and it or its answer may be lost.            *)
(***************************************************************************)
EXTENDS ProjectStore

CONSTANTS
  Tabs,
  ProseEdits,   \* edits an author can make to the settled chapter
  DraftEdits,   \* ... and to the chapter the run writes
  RunEdit,      \* what the run writes
  CleanupFix,   \* what export cleanup corrects in the settled chapter
  NoDoc,
  Races,        \* the windows of the code that are open in this instance
  MaxQueue,     \* bound: saves of a tab not yet answered
  MaxRestores   \* bound: restores of a revision

RaceNames == {"preflightButton", "checkedStart", "adoptWhileSaving", "typeElsewhere", "editUnderRun"}
Edits == ProseEdits \cup DraftEdits \cup {RunEdit, CleanupFix}

ASSUME InstanceAssumption ==
  /\ N = 2 /\ Texts = SUBSET Edits /\ EmptyText = {}
  /\ Plans = 0..MaxStamp /\ EmptyPlan = 0
  /\ Races \subseteq RaceNames
\* Nobody makes the same edit twice.
ASSUME EditsAssumption ==
  /\ ProseEdits \cap DraftEdits = {} /\ RunEdit # CleanupFix
  /\ {RunEdit, CleanupFix} \cap (ProseEdits \cup DraftEdits) = {}

VARIABLES
  view,      \* per tab: project, the document the editor shows
  token,     \* per tab: serverProjectUpdatedAt
  clean,     \* per tab: editVersion = savedVersion, the tab shows "saved"
  queue,     \* per tab: saveQueue, saves whose answer has not been handled
  reload,    \* per tab: a loadProject under way, with the answer on its way back
  call,      \* per tab: a preflight or write-planned request under way
  run,       \* the run's copy of the project, NoDoc when there is no run
  typed,     \* the edits authors have made
  acked,     \* the edits an author has been told are saved
  restores

tabVars == <<view, token, clean, queue, reload, call, typed, acked>>
vars == <<storeVars, tabVars, run, restores>>

EditsOf(d) == d.chapters[1].text \cup d.chapters[2].text
NoReload == [phase |-> "none"]
NoCall == [phase |-> "none"]

\* The chapter an edit belongs to
Place(e) == IF e \in ProseEdits \cup {CleanupFix} THEN 1 ELSE 2
WithEdit(d, e) == [d EXCEPT !.chapters[Place(e)].text = @ \cup {e}]

CanWrite == stamp < MaxStamp

Init ==
  /\ exists = TRUE /\ stamp = 1
  /\ doc = [BlankDoc EXCEPT !.chapters[1].settled = EmptyText]
  /\ history = <<>> /\ versions = [i \in Chapters |-> <<>>]
  /\ view = [t \in Tabs |-> doc] /\ token = [t \in Tabs |-> 1]
  /\ clean = [t \in Tabs |-> TRUE]
  /\ queue = [t \in Tabs |-> <<>>]
  /\ reload = [t \in Tabs |-> NoReload] /\ call = [t \in Tabs |-> NoCall]
  /\ run = NoDoc /\ typed = {} /\ acked = {} /\ restores = 0

----------------------------------------------------------------------------
(* A tab on its own.                                                       *)

\* dirty: saves that are under way no longer are for what the editor shows.
Edit(t, e) ==
  /\ e \notin typed
  /\ e \in DraftEdits /\ queue[t] # <<>> => "typeElsewhere" \in Races
  /\ typed' = typed \cup {e}
  /\ view' = [view EXCEPT ![t] = WithEdit(@, e)]
  /\ clean' = [clean EXCEPT ![t] = FALSE]
  /\ queue' = [queue EXCEPT ![t] = [i \in DOMAIN @ |-> [@[i] EXCEPT !.touched = TRUE]]]
  /\ UNCHANGED <<storeVars, token, reload, call, acked, run, restores>>

\* The head of a queue is sent at once, with the token of that moment.
SentOn(q, at) ==
  IF q # <<>> /\ q[1].phase = "queued"
  THEN [q EXCEPT ![1].phase = "sent", ![1].expected = at] ELSE q

\* save: the document is captured now, the version token when it is sent,
\* which is after the answer to the save before it has been handled.  "next"
\* is what the caller goes on to do once the save has succeeded.
Save(t, next) ==
  /\ Len(queue[t]) < MaxQueue
  /\ next # "nothing" => call[t] = NoCall
  /\ reload[t] # NoReload => "adoptWhileSaving" \in Races
  /\ queue' = [queue EXCEPT ![t] = SentOn(Append(@,
        [phase |-> "queued", body |-> view[t], touched |-> FALSE, next |-> next, expected |-> 0]),
        token[t])]
  /\ UNCHANGED <<storeVars, view, token, clean, reload, call, typed, acked, run, restores>>

\* project_save: refused while a run works on the project, and for a stale token.
Refuse(t) ==
  /\ queue[t] # <<>> /\ queue[t][1].phase = "sent"
  /\ run # NoDoc \/ queue[t][1].expected # stamp
  /\ queue' = [queue EXCEPT ![t] = SentOn(Tail(@), token[t])]
  /\ UNCHANGED <<storeVars, view, token, clean, reload, call, typed, acked, run, restores>>

Accept(t) ==
  /\ CanWrite
  /\ queue[t] # <<>> /\ queue[t][1].phase = "sent"
  /\ run = NoDoc
  /\ SaveVersioned(queue[t][1].body, TRUE, queue[t][1].expected)
  /\ queue' = [queue EXCEPT ![t][1].phase = "answered", ![t][1].body = doc', ![t][1].expected = stamp']
  /\ UNCHANGED <<view, token, clean, reload, call, typed, acked, run, restores>>

\* The connection breaks, before or after the server has done its part.
Lose(t) ==
  /\ queue[t] # <<>>
  /\ queue' = [queue EXCEPT ![t] = SentOn(Tail(@), token[t])]
  /\ UNCHANGED <<storeVars, view, token, clean, reload, call, typed, acked, run, restores>>

\* Mutant of Adopts: the answer is adopted over newer edits of the tab, too.
AdoptsAlways(request) == TRUE

\* The saved document replaces the tab's unless it has been edited meanwhile.
Adopts(request) == ~request.touched

\* Mutant of Answered: a tab that keeps its own text shows it as saved.
AnsweredClean(t, answer) ==
  /\ token' = [token EXCEPT ![t] = answer.expected]
  /\ view' = [view EXCEPT ![t] = IF Adopts(answer) THEN answer.body ELSE @]
  /\ clean' = [clean EXCEPT ![t] = TRUE]

\* The token always moves to the saved version.
Answered(t, answer) ==
  /\ token' = [token EXCEPT ![t] = answer.expected]
  /\ view' = [view EXCEPT ![t] = IF Adopts(answer) THEN answer.body ELSE @]
  /\ clean' = [clean EXCEPT ![t] = @ \/ Adopts(answer)]

HandleAnswer(t) ==
  /\ queue[t] # <<>> /\ queue[t][1].phase = "answered"
  /\ LET answer == queue[t][1]
     IN  /\ Answered(t, answer)
         /\ acked' = acked \cup EditsOf(answer.body)
         /\ call' = [call EXCEPT ![t] =
              IF answer.next = "nothing" THEN @ ELSE [phase |-> answer.next]]
         /\ queue' = [queue EXCEPT ![t] = SentOn(Tail(@), answer.expected)]
  /\ UNCHANGED <<storeVars, reload, typed, run, restores>>

\* loadProject: asked for, read by the server, adopted.  Local edits go.
LoadProject(t) ==
  /\ reload[t] = NoReload
  /\ queue[t] # <<>> => "adoptWhileSaving" \in Races
  /\ reload' = [reload EXCEPT ![t] = [phase |-> "asked"]]
  /\ UNCHANGED <<storeVars, view, token, clean, queue, call, typed, acked, run, restores>>

ProjectGet(t) ==
  /\ reload[t].phase = "asked"
  /\ reload' = [reload EXCEPT ![t] = [phase |-> "answered", doc |-> doc, at |-> stamp]]
  /\ UNCHANGED <<storeVars, view, token, clean, queue, call, typed, acked, run, restores>>

AdoptLoaded(t) ==
  /\ reload[t].phase = "answered"
  /\ view' = [view EXCEPT ![t] = reload[t].doc]
  /\ token' = [token EXCEPT ![t] = reload[t].at]
  /\ clean' = [clean EXCEPT ![t] = TRUE]
  /\ reload' = [reload EXCEPT ![t] = NoReload]
  /\ UNCHANGED <<storeVars, queue, call, typed, acked, run, restores>>

----------------------------------------------------------------------------
(* Requests that run a model or start a run, sent when the save before     *)
(* them has been answered.                                                 *)

\* project_preflight reads the project again when the model has answered, so
\* the whole of its effect is at that moment.
Preflight(t) ==
  /\ CanWrite
  /\ call[t].phase = "preflight"
  /\ SaveBlind([doc EXCEPT !.plan = stamp], FALSE)
  /\ call' = [call EXCEPT ![t] = [phase |-> "stamped", plan |-> stamp, at |-> stamp']]
  /\ UNCHANGED <<view, token, clean, queue, reload, typed, acked, run, restores>>

\* director_write_planned when the author ignores the preflight: no await.
Start(t) ==
  /\ CanWrite
  /\ call[t].phase = "start" /\ run = NoDoc
  /\ SaveBlind([doc EXCEPT !.plan = stamp], FALSE)
  /\ run' = doc'
  /\ call' = [call EXCEPT ![t] = [phase |-> "started", doc |-> doc', at |-> stamp']]
  /\ UNCHANGED <<view, token, clean, queue, reload, typed, acked, restores>>

\* ... and with it: the project is read before the await and saved after it.
CheckedStartBegin(t) ==
  /\ call[t].phase = "checkedStart" /\ run = NoDoc
  /\ call' = [call EXCEPT ![t] = [phase |-> "checking", doc |-> doc]]
  /\ UNCHANGED <<storeVars, view, token, clean, queue, reload, typed, acked, run, restores>>

CheckedStartRefused(t) ==
  /\ CanWrite
  /\ call[t].phase = "checking"
  /\ SaveBlind([call[t].doc EXCEPT !.plan = stamp], FALSE)
  /\ call' = [call EXCEPT ![t] = [phase |-> "stamped", plan |-> stamp, at |-> stamp']]
  /\ UNCHANGED <<view, token, clean, queue, reload, typed, acked, run, restores>>

\* (That another run may have been started meanwhile is DirectorTasks' concern.)
CheckedStartCommit(t) ==
  /\ CanWrite
  /\ call[t].phase = "checking" /\ run = NoDoc
  /\ SaveBlind([call[t].doc EXCEPT !.plan = stamp], FALSE)
  /\ run' = doc'
  /\ call' = [call EXCEPT ![t] = [phase |-> "started", doc |-> doc', at |-> stamp']]
  /\ UNCHANGED <<view, token, clean, queue, reload, typed, acked, restores>>

\* The call is refused because there is a run, or it or its answer is lost.
CallFails(t) ==
  /\ call[t].phase \notin {"none", "checking"}
  /\ call' = [call EXCEPT ![t] = NoCall]
  /\ UNCHANGED <<storeVars, view, token, clean, queue, reload, typed, acked, run, restores>>

\* The tab keeps its local edits, and adopts the report and the token.
AdoptStamp(t) ==
  /\ call[t].phase = "stamped"
  /\ view' = [view EXCEPT ![t].plan = call[t].plan]
  /\ token' = [token EXCEPT ![t] = call[t].at]
  /\ call' = [call EXCEPT ![t] = NoCall]
  /\ UNCHANGED <<storeVars, clean, queue, reload, typed, acked, run, restores>>

\* The tab takes over the project that the run was started on.
AdoptStarted(t) ==
  /\ call[t].phase = "started"
  /\ queue[t] # <<>> => "adoptWhileSaving" \in Races
  /\ view' = [view EXCEPT ![t] = call[t].doc]
  /\ token' = [token EXCEPT ![t] = call[t].at]
  /\ call' = [call EXCEPT ![t] = NoCall]
  /\ UNCHANGED <<storeVars, clean, queue, reload, typed, acked, run, restores>>

----------------------------------------------------------------------------
(* The run, and the author's writes that the save gate does not cover.     *)

\* The director saves the copy it works on, whatever has been stored since.
RunSave ==
  /\ CanWrite /\ run # NoDoc
  /\ SaveBlind(WithEdit(run, RunEdit), FALSE)
  /\ run' = doc'
  /\ UNCHANGED <<tabVars, restores>>

\* _director_rolling_replan names the version it planned from.  If that is
\* not the stored one any more it applies its changes to the stored one.
RunReplan ==
  /\ CanWrite /\ run # NoDoc
  /\ SaveBlind([doc EXCEPT !.plan = stamp], FALSE)
  /\ run' = doc'
  /\ UNCHANGED <<tabVars, restores>>

RunEnd ==
  /\ run # NoDoc
  /\ run' = NoDoc
  /\ UNCHANGED <<storeVars, tabVars, restores>>

\* The tab reads the project again after either of the next two.
ReloadAfter(t) ==
  /\ reload[t] = NoReload /\ queue[t] = <<>>
  /\ run # NoDoc => "editUnderRun" \in Races
  /\ reload' = [reload EXCEPT ![t] = [phase |-> "asked"]]

\* Export cleanup names the tab's version, and its worker's result is saved
\* only if that version still is the stored one.
Cleanup(t) ==
  /\ CanWrite
  /\ CleanupFix \notin doc.chapters[1].text
  /\ SaveVersioned(WithEdit(doc, CleanupFix), FALSE, token[t])
  /\ ReloadAfter(t)
  /\ acked' = acked \cup {CleanupFix}
  /\ UNCHANGED <<view, token, clean, queue, call, typed, run, restores>>

RestoreRevision(t, k) ==
  /\ CanWrite /\ restores < MaxRestores
  /\ Restore(k)
  /\ ReloadAfter(t)
  /\ restores' = restores + 1
  /\ UNCHANGED <<view, token, clean, queue, call, typed, acked, run>>

----------------------------------------------------------------------------

Continuations ==
  {"nothing", "start"}
    \cup (IF "preflightButton" \in Races THEN {"preflight"} ELSE {})
    \cup (IF "checkedStart" \in Races THEN {"checkedStart"} ELSE {})

Tab(t) ==
  \/ \E e \in ProseEdits \cup DraftEdits : Edit(t, e)
  \/ \E next \in Continuations : Save(t, next)
  \/ HandleAnswer(t) \/ Lose(t)
  \/ LoadProject(t) \/ AdoptLoaded(t)
  \/ AdoptStamp(t) \/ AdoptStarted(t) \/ CallFails(t)

Server(t) ==
  \/ Refuse(t) \/ Accept(t) \/ ProjectGet(t)
  \/ Preflight(t) \/ Start(t)
  \/ CheckedStartBegin(t) \/ CheckedStartRefused(t) \/ CheckedStartCommit(t)
  \/ Cleanup(t)
  \/ \E k \in 1..KeepRevisions : RestoreRevision(t, k)

Next ==
  \/ \E t \in Tabs : Tab(t) \/ Server(t)
  \/ RunSave \/ RunReplan \/ RunEnd

Spec == Init /\ [][Next]_vars

----------------------------------------------------------------------------
(* Properties.                                                             *)

\* No edit that is stored disappears from the project, other than by a
\* restore the author asks for: another window or a background task never
\* overwrites it (README.md:216).
NoSilentOverwrite ==
  [][EditsOf(doc) \subseteq EditsOf(doc') \/ restores' # restores]_vars

\* A tab that shows "saved" and whose next save would be accepted shows what
\* is stored.
SavedMeansStored ==
  \A t \in Tabs :
    clean[t] /\ queue[t] = <<>> /\ token[t] = stamp => view[t].chapters = doc.chapters

\* What the author types while a save is under way is not taken away by its
\* answer: only loading the project, or starting a run, replaces the editor's text.
TypingIsKept ==
  [][\A t \in Tabs : \/ EditsOf(view[t]) \subseteq EditsOf(view'[t])
                     \/ reload[t].phase = "answered"
                     \/ call[t].phase = "started"]_vars

\* An edit that the author has been told is saved can be found again, in the
\* project or in one of its revisions, however it was overwritten.
AcknowledgedIsRecoverable ==
  \A e \in acked :
    \/ e \in EditsOf(doc)
    \/ \E k \in DOMAIN history : e \in EditsOf(history[k])

\* Memory derived from a text that is not the chapter's text any more is
\* marked as stale, from that chapter or an earlier one.
StaleMemoryIsMarked ==
  \A i \in Chapters :
    doc.chapters[i].settled \notin {NoText, doc.chapters[i].text} => doc.stale \in 1..i
=============================================================================
