-------------------------- MODULE Workbench_proofs --------------------------
(***************************************************************************)
(* Proofs about the tabs, the handlers and the run that write one project, *)
(* for any number of tabs and edits and any bounds.  Which of the code's   *)
(* windows have to be closed is a hypothesis of each theorem.              *)
(***************************************************************************)
EXTENDS Workbench, ProjectStore_proofs

(***************************************************************************)
(* What holds whatever windows are open: the repository keeps its          *)
(* invariant, and a document that somebody holds under the stored stamp    *)
(* is the stored one.                                                      *)
(***************************************************************************)
Request ==
  [phase: {"queued", "sent", "answered"}, body: Docs, touched: BOOLEAN,
   next: {"nothing", "start", "preflight", "checkedStart"}, expected: Nat]

IsVersion(d, at) == d \in Docs /\ at \in 0..stamp /\ (at = stamp => d = doc)

TabWell(t) ==
  /\ view[t] \in Docs /\ token[t] \in 0..stamp
  /\ queue[t] \in Seq(Request)
  /\ \A i \in 1..Len(queue[t]) :
       /\ queue[t][i].expected <= stamp
       /\ queue[t][i].phase = "answered" => IsVersion(queue[t][i].body, queue[t][i].expected)
  /\ reload[t].phase = "answered" => IsVersion(reload[t].doc, reload[t].at)
  /\ call[t].phase = "checking" => call[t].doc \in Docs
  /\ call[t].phase = "stamped" => call[t].plan \in Plans /\ call[t].at \in 0..stamp
  /\ call[t].phase = "started" => IsVersion(call[t].doc, call[t].at)

BaseInv ==
  /\ StoreInv
  /\ run # NoDoc => run \in Docs
  /\ DOMAIN view = Tabs /\ DOMAIN token = Tabs /\ clean \in [Tabs -> BOOLEAN]
  /\ DOMAIN queue = Tabs /\ DOMAIN reload = Tabs /\ DOMAIN call = Tabs
  /\ \A t \in Tabs : TabWell(t)

----------------------------------------------------------------------------
(* The operators.                                                          *)

\* A document with an edit more, or with other planning content.
LEMMA EditedDocs ==
  ASSUME NEW d \in Docs
  PROVE  /\ \A e \in Edits : /\ WithEdit(d, e) \in Docs
                             /\ EditsOf(WithEdit(d, e)) = EditsOf(d) \cup {e}
         /\ \A p \in Plans : [d EXCEPT !.plan = p] \in Docs
                             /\ [d EXCEPT !.plan = p].chapters = d.chapters
<1>1. /\ d.chapters \in [1..2 -> Chapter] /\ Chapters = 1..2
      /\ d.chapters[1].text \subseteq Edits /\ d.chapters[2].text \subseteq Edits
  BY InstanceAssumption DEF Docs, Chapter, Chapters
<1>2. ASSUME NEW e \in Edits
      PROVE  WithEdit(d, e) \in Docs /\ EditsOf(WithEdit(d, e)) = EditsOf(d) \cup {e}
  <2>1. Place(e) \in 1..2
    BY DEF Place
  <2> DEFINE p == Place(e)
  <2> HIDE DEF p
  <2>2. p \in 1..2 /\ WithEdit(d, e) = [d EXCEPT !.chapters[p].text = @ \cup {e}]
    BY <2>1 DEF p, WithEdit
  <2> DEFINE c == [d.chapters[p] EXCEPT !.text = @ \cup {e}]
  <2>3. c \in Chapter /\ c.text = d.chapters[p].text \cup {e}
    <3>1. d.chapters[p].text \cup {e} \in Texts
      BY <1>1, <2>2, InstanceAssumption
    <3>2. d.chapters[p] \in Chapter
      BY <1>1, <2>2
    <3>3. QED
      BY <3>1, <3>2 DEF Chapter
  <2>4. WithEdit(d, e) = [d EXCEPT !.chapters = [d.chapters EXCEPT ![p] = c]]
    BY <1>1, <2>2
  <2> HIDE DEF c
  <2>5. [d.chapters EXCEPT ![p] = c] \in [Chapters -> Chapter]
    BY <1>1, <2>3
  <2>6. WithEdit(d, e) \in Docs /\ WithEdit(d, e).chapters = [d.chapters EXCEPT ![p] = c]
    BY <2>4, <2>5 DEF Docs
  <2>7. EditsOf(WithEdit(d, e)) = EditsOf(d) \cup {e}
    BY <1>1, <2>2, <2>3, <2>6 DEF EditsOf
  <2>8. QED
    BY <2>6, <2>7
<1>3. \A p \in Plans : [d EXCEPT !.plan = p] \in Docs /\ [d EXCEPT !.plan = p].chapters = d.chapters
  BY DEF Docs
<1>4. QED
  BY <1>2, <1>3

\* What becomes of a document on its way through save.
LEMMA MergedChapters ==
  ASSUME NEW old, NEW new
  PROVE  Merged(old, new).chapters = new.chapters /\ EditsOf(Merged(old, new)) = EditsOf(new)
BY DEF Merged, EditsOf

\* What sending the head of a queue leaves alone.
Same(r, q) ==
  /\ r.body = q.body /\ r.touched = q.touched /\ r.next = q.next

\* r is the request q, or q sent with the token "at".
Passed(r, q, at) ==
  /\ Same(r, q)
  /\ \/ r = q
     \/ r.phase = "sent" /\ r.expected = at /\ q.phase = "queued"

LEMMA SentOnPasses ==
  ASSUME NEW q \in Seq(Request), NEW at \in Nat
  PROVE  /\ SentOn(q, at) \in Seq(Request) /\ Len(SentOn(q, at)) = Len(q)
         /\ \A i \in 1..Len(q) : Passed(SentOn(q, at)[i], q[i], at)
         /\ q # <<>> => SentOn(q, at)[1].phase # "queued"
<1>1. Len(q) \in Nat /\ DOMAIN q = 1..Len(q) /\ (q # <<>> => 1 \in 1..Len(q))
  BY LenProperties, EmptySeq
<1>2. \A i \in 1..Len(q) : q[i] \in Request
  BY ElementOfSeq
<1>3. CASE q # <<>> /\ q[1].phase = "queued"
  <2> DEFINE r == [q[1] EXCEPT !.phase = "sent", !.expected = at]
  <2>1. SentOn(q, at) = [q EXCEPT ![1] = r]
    BY <1>1, <1>3 DEF SentOn
  <2>2. r \in Request /\ Passed(r, q[1], at) /\ r.phase = "sent"
    <3>1. q[1] \in Request
      BY <1>1, <1>2, <1>3
    <3>2. r \in Request
      BY <3>1 DEF Request
    <3>3. /\ r.phase = "sent" /\ r.expected = at
          /\ r.body = q[1].body /\ r.touched = q[1].touched /\ r.next = q[1].next
      BY <3>1 DEF Request
    <3> HIDE DEF r
    <3>4. QED
      BY <1>3, <3>2, <3>3 DEF Passed, Same
  <2> HIDE DEF r
  <2>3. [q EXCEPT ![1] = r] \in Seq(Request) /\ Len([q EXCEPT ![1] = r]) = Len(q)
    BY <1>1, <1>3, <2>2, ExceptSeq
  <2>4. \A i \in 1..Len(q) : [q EXCEPT ![1] = r][i] = IF i = 1 THEN r ELSE q[i]
    BY <1>1
  <2>5. QED
    BY <1>1, <1>3, <2>1, <2>2, <2>3, <2>4 DEF Passed, Same
<1>4. CASE ~(q # <<>> /\ q[1].phase = "queued")
  BY <1>4 DEF SentOn, Passed, Same
<1>5. QED
  BY <1>3, <1>4

\* The queue after its head has been dealt with.
LEMMA RestPasses ==
  ASSUME NEW q \in Seq(Request), q # <<>>, NEW at \in Nat
  PROVE  /\ SentOn(Tail(q), at) \in Seq(Request) /\ Len(SentOn(Tail(q), at)) = Len(q) - 1
         /\ \A i \in 1..Len(q) - 1 : Passed(SentOn(Tail(q), at)[i], q[i + 1], at)
<1>1. Tail(q) \in Seq(Request) /\ Len(Tail(q)) = Len(q) - 1
      /\ \A i \in 1..Len(Tail(q)) : Tail(q)[i] = q[i + 1]
  BY HeadTailProperties
<1>2. QED
  BY <1>1, SentOnPasses

\* The queue with one more request.
LEMMA AppendPasses ==
  ASSUME NEW q \in Seq(Request), NEW r \in Request, r.phase = "queued", NEW at \in Nat
  PROVE  /\ SentOn(Append(q, r), at) \in Seq(Request)
         /\ Len(SentOn(Append(q, r), at)) = Len(q) + 1
         /\ \A i \in 1..Len(q) : Passed(SentOn(Append(q, r), at)[i], q[i], at)
         /\ Passed(SentOn(Append(q, r), at)[Len(q) + 1], r, at)
         /\ SentOn(Append(q, r), at)[1].phase # "queued"
<1>1. Append(q, r) \in Seq(Request) /\ Len(Append(q, r)) = Len(q) + 1 /\ Len(q) \in Nat
      /\ (\A i \in 1..Len(q) : Append(q, r)[i] = q[i]) /\ Append(q, r)[Len(q) + 1] = r
  BY AppendProperties, LenProperties
<1>2. Append(q, r) # <<>>
  BY <1>1, EmptySeq
<1> DEFINE s == Append(q, r)
<1> HIDE DEF s
<1>3. /\ s \in Seq(Request) /\ s # <<>> /\ Len(s) = Len(q) + 1 /\ s[Len(q) + 1] = r
      /\ \A i \in 1..Len(q) : s[i] = q[i]
  BY <1>1, <1>2 DEF s
<1>4. /\ SentOn(s, at) \in Seq(Request) /\ Len(SentOn(s, at)) = Len(s)
      /\ \A i \in 1..Len(s) : Passed(SentOn(s, at)[i], s[i], at)
      /\ SentOn(s, at)[1].phase # "queued"
  BY <1>3, SentOnPasses
<1>5. Passed(SentOn(s, at)[Len(q) + 1], r, at)
  BY <1>1, <1>3, <1>4
<1>6. \A i \in 1..Len(q) : Passed(SentOn(s, at)[i], q[i], at)
  BY <1>1, <1>3, <1>4
<1>7. QED
  BY <1>3, <1>4, <1>5, <1>6 DEF s

\* The queue after an edit of the text it saves.
LEMMA TouchedQueue ==
  ASSUME NEW q \in Seq(Request), NEW r, r = [i \in DOMAIN q |-> [q[i] EXCEPT !.touched = TRUE]]
  PROVE  /\ r \in Seq(Request) /\ Len(r) = Len(q)
         /\ \A i \in 1..Len(q) :
              /\ r[i].body = q[i].body /\ r[i].next = q[i].next /\ r[i].touched
              /\ r[i].phase = q[i].phase /\ r[i].expected = q[i].expected
<1>1. Len(q) \in Nat /\ DOMAIN q = 1..Len(q) /\ \A i \in 1..Len(q) : q[i] \in Request
  BY LenProperties, ElementOfSeq
<1>2. \A i \in 1..Len(q) : r[i] = [q[i] EXCEPT !.touched = TRUE]
  BY <1>1
<1>3. \A i \in 1..Len(q) : r[i] \in Request
  BY <1>1, <1>2 DEF Request
<1>4. r \in [1..Len(q) -> Request]
  BY <1>1, <1>3
<1>5. r \in Seq(Request) /\ Len(r) = Len(q)
  BY <1>1, <1>4, SeqDef, LenProperties
<1>6. QED
  BY <1>1, <1>2, <1>5 DEF Request

\* The queue after its head has been answered with the document d of stamp at.
AnsweredAs(q, d, at) == [q EXCEPT ![1].phase = "answered", ![1].body = d, ![1].expected = at]

LEMMA AnsweredQueue ==
  ASSUME NEW q \in Seq(Request), q # <<>>, NEW d \in Docs, NEW at \in Nat
  PROVE  /\ AnsweredAs(q, d, at) \in Seq(Request) /\ Len(AnsweredAs(q, d, at)) = Len(q)
         /\ AnsweredAs(q, d, at)[1] \in Request
         /\ AnsweredAs(q, d, at)[1].phase = "answered" /\ AnsweredAs(q, d, at)[1].body = d
         /\ AnsweredAs(q, d, at)[1].expected = at
         /\ AnsweredAs(q, d, at)[1].touched = q[1].touched /\ AnsweredAs(q, d, at)[1].next = q[1].next
         /\ \A i \in 1..Len(q) : i # 1 => AnsweredAs(q, d, at)[i] = q[i]
<1>1. Len(q) \in Nat /\ DOMAIN q = 1..Len(q) /\ 1 \in 1..Len(q)
  BY LenProperties, EmptySeq
<1>2. q[1] \in Request
  BY <1>1, ElementOfSeq
<1> DEFINE h == [q[1] EXCEPT !.phase = "answered", !.body = d, !.expected = at]
           r == AnsweredAs(q, d, at)
<1>3. r = [q EXCEPT ![1] = h]
  BY <1>1 DEF AnsweredAs
<1>4. /\ h \in Request /\ h.phase = "answered" /\ h.body = d /\ h.expected = at
      /\ h.touched = q[1].touched /\ h.next = q[1].next
  BY <1>2 DEF Request
<1> HIDE DEF h, r
<1>5. [q EXCEPT ![1] = h] \in Seq(Request) /\ Len([q EXCEPT ![1] = h]) = Len(q)
  BY <1>1, <1>4, ExceptSeq
<1>6. r \in Seq(Request) /\ Len(r) = Len(q)
  BY <1>3, <1>5
<1>7. r[1] = h /\ \A i \in 1..Len(q) : i # 1 => r[i] = q[i]
  BY <1>1, <1>3
<1>8. QED
  BY <1>4, <1>6, <1>7 DEF r

----------------------------------------------------------------------------
(* The repository under the steps of this module.                          *)

\* Every step leaves the stored version or replaces it under a new stamp.
StoreStep ==
  /\ StoreInv'
  /\ \/ doc' = doc /\ stamp' = stamp /\ history' = history
     \/ /\ stamp < MaxStamp /\ stamp' = stamp + 1
        /\ history' = Newest(Append(history, doc), KeepRevisions)

LEMMA SaveSteps ==
  ASSUME StoreInv, CanWrite, NEW s \in Docs, NEW autosave \in BOOLEAN, SaveBlind(s, autosave)
  PROVE  /\ StoreStep /\ doc' \in Docs /\ stamp' \in Nat
         /\ doc' = Merged(doc, s) /\ doc'.chapters = s.chapters /\ EditsOf(doc') = EditsOf(s)
<1>1. StoreInv'
  BY SaveBlindSafe
<1>2. /\ doc' = Merged(doc, s)
      /\ \/ doc' = doc /\ stamp' = stamp /\ history' = history
         \/ stamp' = stamp + 1 /\ history' = Newest(Append(history, doc), KeepRevisions)
  BY DEF SaveBlind, Write, storeVars
<1>3. StoreStep
  BY <1>1, <1>2 DEF StoreStep, CanWrite
<1>4. doc' \in Docs /\ stamp' \in Nat
  BY <1>1 DEF StoreInv, StoreTypeOK
<1>5. QED
  BY <1>2, <1>3, <1>4, MergedChapters

LEMMA StoreStays == ASSUME StoreInv, UNCHANGED storeVars PROVE StoreStep
<1>1. StoreInv'
  BY DEF StoreInv, StoreTypeOK, RevisionsOrdered, storeVars
<1>2. QED
  BY <1>1 DEF StoreStep, storeVars

\* The documents that the steps submit are documents.
LEMMA Submitted ==
  ASSUME BaseInv
  PROVE  /\ doc \in Docs /\ stamp \in Nat /\ history \in Seq(Docs)
         /\ CanWrite => stamp \in Plans
         /\ \A k \in DOMAIN history : history[k] \in Docs
         /\ CanWrite => /\ [doc EXCEPT !.plan = stamp] \in Docs
                        /\ [doc EXCEPT !.plan = stamp].chapters = doc.chapters
         /\ WithEdit(doc, CleanupFix) \in Docs
         /\ run # NoDoc => WithEdit(run, RunEdit) \in Docs
         /\ \A t \in Tabs : /\ queue[t] # <<>> => queue[t][1] \in Request /\ queue[t][1].body \in Docs
                            /\ call[t].phase = "checking" =>
                                 call[t].doc \in Docs /\ (CanWrite => [call[t].doc EXCEPT !.plan = stamp] \in Docs)
<1>1. doc \in Docs /\ stamp \in Nat /\ history \in Seq(Docs)
  BY DEF BaseInv, StoreInv, StoreTypeOK
<1>2. CanWrite => stamp \in Plans
  BY <1>1, InstanceAssumption, SizesAssumption DEF CanWrite
<1>3. \A k \in DOMAIN history : history[k] \in Docs
  BY StoredIsDocument DEF BaseInv
<1>4. CleanupFix \in Edits /\ RunEdit \in Edits
  BY DEF Edits
<1>5. WithEdit(doc, CleanupFix) \in Docs /\ (run # NoDoc => WithEdit(run, RunEdit) \in Docs)
  BY <1>1, <1>4, EditedDocs DEF BaseInv
<1>6. ASSUME NEW t \in Tabs, queue[t] # <<>>
      PROVE  queue[t][1] \in Request /\ queue[t][1].body \in Docs
  <2>1. queue[t] \in Seq(Request)
    BY DEF BaseInv, TabWell
  <2>2. Len(queue[t]) \in Nat /\ 1 \in 1..Len(queue[t])
    BY <1>6, <2>1, LenProperties, EmptySeq
  <2>3. queue[t][1] \in Request
    BY <2>1, <2>2, ElementOfSeq
  <2>4. QED
    BY <2>3 DEF Request
<1>7. ASSUME NEW t \in Tabs, call[t].phase = "checking"
      PROVE  call[t].doc \in Docs /\ (CanWrite => [call[t].doc EXCEPT !.plan = stamp] \in Docs)
  BY <1>2, <1>7, EditedDocs DEF BaseInv, TabWell
<1>8. CanWrite => /\ [doc EXCEPT !.plan = stamp] \in Docs
                  /\ [doc EXCEPT !.plan = stamp].chapters = doc.chapters
  BY <1>1, <1>2, EditedDocs
<1>9. QED
  BY <1>1, <1>2, <1>3, <1>5, <1>6, <1>7, <1>8

\* A save that the repository accepts, for each of the steps that make one.
LEMMA Written ==
  ASSUME BaseInv
  PROVE  /\ \A t \in Tabs : Accept(t) =>
              StoreStep /\ doc' \in Docs /\ stamp' \in Nat /\ doc' = Merged(doc, queue[t][1].body)
         /\ \A t \in Tabs : Preflight(t) \/ Start(t) =>
              /\ StoreStep /\ doc' \in Docs /\ stamp' \in Nat
              /\ doc' = Merged(doc, [doc EXCEPT !.plan = stamp])
         /\ \A t \in Tabs : CheckedStartRefused(t) \/ CheckedStartCommit(t) =>
              StoreStep /\ doc' \in Docs /\ stamp' \in Nat
         /\ \A t \in Tabs : Cleanup(t) =>
              StoreStep /\ doc' \in Docs /\ stamp' \in Nat /\ doc' = Merged(doc, WithEdit(doc, CleanupFix))
         /\ \A t \in Tabs : \A k \in 1..KeepRevisions : RestoreRevision(t, k) =>
              /\ StoreStep /\ doc' \in Docs /\ stamp' \in Nat
              /\ k \in DOMAIN history /\ doc' = Merged(doc, history[k])
         /\ RunSave => StoreStep /\ doc' \in Docs /\ stamp' \in Nat /\ doc' = Merged(doc, WithEdit(run, RunEdit))
         /\ RunReplan => /\ StoreStep /\ doc' \in Docs /\ stamp' \in Nat
                         /\ doc' = Merged(doc, [doc EXCEPT !.plan = stamp])
<1>1. StoreInv
  BY DEF BaseInv
<1>2. ASSUME NEW t \in Tabs, Accept(t)
      PROVE  StoreStep /\ doc' \in Docs /\ stamp' \in Nat /\ doc' = Merged(doc, queue[t][1].body)
  <2>1. CanWrite /\ queue[t] # <<>> /\ SaveBlind(queue[t][1].body, TRUE)
    BY <1>2 DEF Accept, SaveVersioned, SaveBlind
  <2>2. QED
    BY <1>1, <2>1, SaveSteps, Submitted
<1>3. ASSUME NEW t \in Tabs, Preflight(t) \/ Start(t)
      PROVE  /\ StoreStep /\ doc' \in Docs /\ stamp' \in Nat
             /\ doc' = Merged(doc, [doc EXCEPT !.plan = stamp])
  <2>1. CanWrite /\ SaveBlind([doc EXCEPT !.plan = stamp], FALSE)
    BY <1>3 DEF Preflight, Start
  <2>2. QED
    BY <1>1, <2>1, SaveSteps, Submitted
<1>4. ASSUME NEW t \in Tabs, CheckedStartRefused(t) \/ CheckedStartCommit(t)
      PROVE  StoreStep /\ doc' \in Docs /\ stamp' \in Nat
  <2>1. CanWrite /\ call[t].phase = "checking" /\ SaveBlind([call[t].doc EXCEPT !.plan = stamp], FALSE)
    BY <1>4 DEF CheckedStartRefused, CheckedStartCommit
  <2>2. QED
    BY <1>1, <2>1, SaveSteps, Submitted
<1>5. ASSUME NEW t \in Tabs, Cleanup(t)
      PROVE  StoreStep /\ doc' \in Docs /\ stamp' \in Nat /\ doc' = Merged(doc, WithEdit(doc, CleanupFix))
  <2>1. CanWrite /\ SaveBlind(WithEdit(doc, CleanupFix), FALSE)
    BY <1>5 DEF Cleanup, SaveVersioned, SaveBlind
  <2>2. QED
    BY <1>1, <2>1, SaveSteps, Submitted
<1>6. ASSUME NEW t \in Tabs, NEW k \in 1..KeepRevisions, RestoreRevision(t, k)
      PROVE  /\ StoreStep /\ doc' \in Docs /\ stamp' \in Nat
             /\ k \in DOMAIN history /\ doc' = Merged(doc, history[k])
  <2>1. CanWrite /\ k \in DOMAIN history /\ SaveBlind(history[k], FALSE)
    BY <1>6 DEF RestoreRevision, Restore
  <2>2. QED
    BY <1>1, <2>1, SaveSteps, Submitted
<1>7. ASSUME RunSave
      PROVE  StoreStep /\ doc' \in Docs /\ stamp' \in Nat /\ doc' = Merged(doc, WithEdit(run, RunEdit))
  <2>1. CanWrite /\ run # NoDoc /\ SaveBlind(WithEdit(run, RunEdit), FALSE)
    BY <1>7 DEF RunSave
  <2>2. QED
    BY <1>1, <2>1, SaveSteps, Submitted
<1>8. ASSUME RunReplan
      PROVE  /\ StoreStep /\ doc' \in Docs /\ stamp' \in Nat
             /\ doc' = Merged(doc, [doc EXCEPT !.plan = stamp])
  <2>1. CanWrite /\ SaveBlind([doc EXCEPT !.plan = stamp], FALSE)
    BY <1>8 DEF RunReplan
  <2>2. QED
    BY <1>1, <2>1, SaveSteps, Submitted
<1>9. QED
  BY <1>2, <1>3, <1>4, <1>5, <1>6, <1>7, <1>8

\* The steps of a tab that leave the repository and the run alone.
Local(t) ==
  \/ \E e \in ProseEdits \cup DraftEdits : Edit(t, e)
  \/ \E next \in Continuations : Save(t, next)
  \/ HandleAnswer(t) \/ Lose(t) \/ Refuse(t)
  \/ LoadProject(t) \/ ProjectGet(t) \/ AdoptLoaded(t)
  \/ AdoptStamp(t) \/ AdoptStarted(t) \/ CallFails(t) \/ CheckedStartBegin(t)

\* ... and those that write.
Writes(t) ==
  \/ Accept(t) \/ Preflight(t) \/ Start(t)
  \/ CheckedStartRefused(t) \/ CheckedStartCommit(t)
  \/ Cleanup(t) \/ \E k \in 1..KeepRevisions : RestoreRevision(t, k)

LEMMA Steps == \A t \in Tabs : Tab(t) \/ Server(t) => Local(t) \/ Writes(t)
BY DEF Tab, Server, Local, Writes

LEMMA LocalStays == \A t \in Tabs : Local(t) => UNCHANGED <<storeVars, run>>
BY DEF Local, Edit, Save, HandleAnswer, Lose, Refuse, LoadProject, ProjectGet, AdoptLoaded,
       AdoptStamp, AdoptStarted, CallFails, CheckedStartBegin

LEMMA NextStoreStep == ASSUME BaseInv, [Next]_vars PROVE StoreStep
<1>1. StoreInv
  BY DEF BaseInv
<1>2. ASSUME NEW t \in Tabs, Local(t) PROVE StoreStep
  BY <1>1, <1>2, LocalStays, StoreStays
<1>3. ASSUME NEW t \in Tabs, Writes(t) PROVE StoreStep
  BY <1>3, Written DEF Writes
<1>4. CASE RunSave \/ RunReplan
  BY <1>4, Written
<1>5. CASE RunEnd \/ UNCHANGED vars
  BY <1>1, <1>5, StoreStays DEF RunEnd, vars
<1>6. QED
  BY <1>2, <1>3, <1>4, <1>5, Steps DEF Next

----------------------------------------------------------------------------
(* The invariant of every instance.                                        *)

\* A version somebody holds stays a version when the stored one is replaced.
LEMMA VersionStays ==
  ASSUME StoreStep, stamp \in Nat, NEW d, NEW at, IsVersion(d, at)
  PROVE  d \in Docs /\ at \in 0..stamp' /\ (at = stamp' => d = doc')
BY DEF StoreStep, IsVersion

Untouched(u) ==
  /\ view'[u] = view[u] /\ token'[u] = token[u] /\ clean'[u] = clean[u]
  /\ queue'[u] = queue[u] /\ reload'[u] = reload[u] /\ call'[u] = call[u]

LEMMA WellStays ==
  ASSUME BaseInv, StoreStep, NEW u \in Tabs, Untouched(u)
  PROVE  TabWell(u)'
<1>1. TabWell(u) /\ stamp \in Nat /\ stamp' \in Nat /\ stamp <= stamp'
  BY DEF BaseInv, StoreInv, StoreTypeOK, StoreStep
<1>2. /\ view'[u] = view[u] /\ token'[u] = token[u] /\ queue'[u] = queue[u]
      /\ reload'[u] = reload[u] /\ call'[u] = call[u]
  BY DEF Untouched
<1>3. ASSUME NEW i \in 1..Len(queue[u])
      PROVE  /\ queue[u][i].expected <= stamp'
             /\ queue[u][i].phase = "answered" =>
                  /\ queue[u][i].body \in Docs /\ queue[u][i].expected \in 0..stamp'
                  /\ queue[u][i].expected = stamp' => queue[u][i].body = doc'
  <2>1. queue[u] \in Seq(Request)
    BY <1>1 DEF TabWell
  <2>2. queue[u][i] \in Request
    BY <2>1, ElementOfSeq
  <2>3. queue[u][i].expected \in Nat
    BY <2>2 DEF Request
  <2>4. /\ queue[u][i].expected <= stamp
        /\ queue[u][i].phase = "answered" => IsVersion(queue[u][i].body, queue[u][i].expected)
    BY <1>1 DEF TabWell
  <2>5. QED
    BY <1>1, <2>3, <2>4, VersionStays
<1>4. reload[u].phase = "answered" =>
        /\ reload[u].doc \in Docs /\ reload[u].at \in 0..stamp'
        /\ reload[u].at = stamp' => reload[u].doc = doc'
  BY <1>1, VersionStays DEF TabWell
<1>5. call[u].phase = "started" =>
        /\ call[u].doc \in Docs /\ call[u].at \in 0..stamp'
        /\ call[u].at = stamp' => call[u].doc = doc'
  BY <1>1, VersionStays DEF TabWell
<1>6. /\ view[u] \in Docs /\ token[u] \in 0..stamp' /\ queue[u] \in Seq(Request)
      /\ call[u].phase = "checking" => call[u].doc \in Docs
      /\ call[u].phase = "stamped" => call[u].plan \in Plans /\ call[u].at \in 0..stamp'
  BY <1>1 DEF TabWell
<1>7. QED
  BY <1>2, <1>3, <1>4, <1>5, <1>6 DEF TabWell, IsVersion

\* The functions keep their domains, and a step of one tab is no other's.
Shape ==
  /\ DOMAIN view = Tabs /\ DOMAIN token = Tabs /\ clean \in [Tabs -> BOOLEAN]
  /\ DOMAIN queue = Tabs /\ DOMAIN reload = Tabs /\ DOMAIN call = Tabs

LEMMA LocalShape ==
  ASSUME BaseInv, NEW t \in Tabs, Local(t)
  PROVE  Shape' /\ \A u \in Tabs : u # t => Untouched(u)
<1>1. Shape
  BY DEF BaseInv, Shape
<1>2. CASE \E e \in ProseEdits \cup DraftEdits : Edit(t, e)
  BY <1>1, <1>2 DEF Shape, Untouched, Edit
<1>3. CASE (\E next \in Continuations : Save(t, next)) \/ Lose(t) \/ Refuse(t)
  BY <1>1, <1>3 DEF Shape, Untouched, Save, Lose, Refuse
<1>4. CASE HandleAnswer(t)
  <2> DEFINE answer == queue[t][1]
  <2>1. clean' = [clean EXCEPT ![t] = @ \/ Adopts(answer)]
    BY <1>4 DEF HandleAnswer, Answered
  <2>2. clean[t] \in BOOLEAN /\ Adopts(answer) \in BOOLEAN
    BY <1>1 DEF Shape, Adopts
  <2>3. clean' \in [Tabs -> BOOLEAN]
    BY <1>1, <2>1, <2>2 DEF Shape
  <2>4. /\ DOMAIN view' = Tabs /\ DOMAIN token' = Tabs /\ DOMAIN queue' = Tabs
        /\ DOMAIN reload' = Tabs /\ DOMAIN call' = Tabs
    BY <1>1, <1>4 DEF Shape, HandleAnswer, Answered
  <2>5. \A u \in Tabs : u # t => Untouched(u)
    BY <1>1, <1>4 DEF Shape, Untouched, HandleAnswer, Answered
  <2>6. QED
    BY <2>3, <2>4, <2>5 DEF Shape
<1>5. CASE LoadProject(t) \/ ProjectGet(t) \/ CallFails(t) \/ CheckedStartBegin(t)
  BY <1>1, <1>5 DEF Shape, Untouched, LoadProject, ProjectGet, CallFails, CheckedStartBegin
<1>6. CASE AdoptLoaded(t) \/ AdoptStamp(t) \/ AdoptStarted(t)
  BY <1>1, <1>6 DEF Shape, Untouched, AdoptLoaded, AdoptStamp, AdoptStarted
<1>7. QED
  BY <1>2, <1>3, <1>4, <1>5, <1>6 DEF Local

LEMMA WritesShape ==
  ASSUME BaseInv, NEW t \in Tabs, Writes(t)
  PROVE  Shape' /\ \A u \in Tabs : u # t => Untouched(u)
<1>1. Shape
  BY DEF BaseInv, Shape
<1>2. CASE Accept(t)
  BY <1>1, <1>2 DEF Shape, Untouched, Accept
<1>3. CASE Preflight(t) \/ Start(t) \/ CheckedStartRefused(t) \/ CheckedStartCommit(t)
  BY <1>1, <1>3 DEF Shape, Untouched, Preflight, Start, CheckedStartRefused, CheckedStartCommit
<1>4. CASE Cleanup(t) \/ \E k \in 1..KeepRevisions : RestoreRevision(t, k)
  BY <1>1, <1>4 DEF Shape, Untouched, Cleanup, RestoreRevision, ReloadAfter
<1>5. QED
  BY <1>2, <1>3, <1>4 DEF Writes

\* What TabWell says of a queue, for one that a local step has changed.
WellQueue(q) ==
  /\ q \in Seq(Request)
  /\ \A i \in 1..Len(q) :
       /\ q[i].expected <= stamp
       /\ q[i].phase = "answered" => IsVersion(q[i].body, q[i].expected)

LEMMA RestIsWell ==
  ASSUME NEW q, WellQueue(q), q # <<>>, stamp \in Nat, NEW at \in 0..stamp
  PROVE  WellQueue(SentOn(Tail(q), at))
<1> DEFINE r == SentOn(Tail(q), at)
<1>1. /\ r \in Seq(Request) /\ Len(r) = Len(q) - 1
      /\ \A i \in 1..Len(q) - 1 : Passed(r[i], q[i + 1], at)
  <2>1. q \in Seq(Request) /\ at \in Nat
    BY DEF WellQueue
  <2>2. QED
    BY <2>1, RestPasses
<1>2. Len(q) \in Nat
  BY LenProperties DEF WellQueue
<1> HIDE DEF r
<1>3. ASSUME NEW i \in 1..Len(r)
      PROVE  /\ r[i].expected <= stamp
             /\ r[i].phase = "answered" => IsVersion(r[i].body, r[i].expected)
  <2>1. i + 1 \in 1..Len(q) /\ i \in 1..Len(q) - 1
    BY <1>1, <1>2
  <2>2. Passed(r[i], q[i + 1], at)
    BY <1>1, <2>1
  <2>3. CASE r[i] = q[i + 1]
    BY <2>1, <2>3 DEF WellQueue
  <2>4. CASE r[i] # q[i + 1]
    <3>1. r[i].phase = "sent" /\ r[i].expected = at
      BY <2>2, <2>4 DEF Passed
    <3>2. QED
      BY <3>1
  <2>5. QED
    BY <2>3, <2>4
<1>4. WellQueue(r)
  BY <1>1, <1>3 DEF WellQueue
<1>5. QED
  BY <1>4 DEF r

LEMMA MoreIsWell ==
  ASSUME NEW q, WellQueue(q), stamp \in Nat, NEW at \in 0..stamp,
         NEW x \in Request, x.phase = "queued", x.expected = 0
  PROVE  WellQueue(SentOn(Append(q, x), at))
<1> DEFINE r == SentOn(Append(q, x), at)
<1>1. /\ r \in Seq(Request) /\ Len(r) = Len(q) + 1
      /\ \A i \in 1..Len(q) : Passed(r[i], q[i], at)
      /\ Passed(r[Len(q) + 1], x, at)
  <2>1. q \in Seq(Request) /\ at \in Nat
    BY DEF WellQueue
  <2>2. QED
    BY <2>1, AppendPasses
<1>2. Len(q) \in Nat
  BY LenProperties DEF WellQueue
<1> HIDE DEF r
<1>3. ASSUME NEW i \in 1..Len(r)
      PROVE  /\ r[i].expected <= stamp
             /\ r[i].phase = "answered" => IsVersion(r[i].body, r[i].expected)
  <2>1. CASE i \in 1..Len(q) /\ r[i] = q[i]
    BY <2>1 DEF WellQueue
  <2>2. CASE i \in 1..Len(q) /\ r[i] # q[i]
    <3>1. r[i].phase = "sent" /\ r[i].expected = at
      BY <1>1, <2>2 DEF Passed
    <3>2. QED
      BY <3>1
  <2>3. CASE i = Len(q) + 1
    <3>1. \/ r[i] = x
          \/ r[i].phase = "sent" /\ r[i].expected = at
      BY <1>1, <2>3 DEF Passed
    <3>2. QED
      BY <3>1
  <2>4. QED
    BY <1>1, <1>2, <2>1, <2>2, <2>3
<1>4. WellQueue(r)
  BY <1>1, <1>3 DEF WellQueue
<1>5. QED
  BY <1>4 DEF r

LEMMA LocalWell ==
  ASSUME BaseInv, NEW t \in Tabs, Local(t)
  PROVE  TabWell(t)'
<1>1. /\ Shape /\ TabWell(t) /\ doc \in Docs /\ stamp \in Nat
      /\ doc' = doc /\ stamp' = stamp
  BY LocalStays, Submitted DEF BaseInv, Shape, storeVars
<1>2. WellQueue(queue[t]) /\ view[t] \in Docs /\ token[t] \in 0..stamp
  BY <1>1 DEF TabWell, WellQueue
<1>3. CASE \E e \in ProseEdits \cup DraftEdits : Edit(t, e)
  <2>1. PICK e \in ProseEdits \cup DraftEdits : Edit(t, e)
    BY <1>3
  <2>2. view'[t] = WithEdit(view[t], e) /\ e \in Edits
    BY <1>1, <2>1 DEF Edit, Shape, Edits
  <2>3. view'[t] \in Docs
    BY <1>2, <2>2, EditedDocs
  <2> DEFINE r == [i \in DOMAIN queue[t] |-> [queue[t][i] EXCEPT !.touched = TRUE]]
  <2>4. queue'[t] = r
    BY <1>1, <2>1 DEF Edit, Shape
  <2>5. /\ r \in Seq(Request) /\ Len(r) = Len(queue[t])
        /\ \A i \in 1..Len(queue[t]) :
              /\ r[i].body = queue[t][i].body
              /\ r[i].phase = queue[t][i].phase /\ r[i].expected = queue[t][i].expected
    BY <1>2, TouchedQueue DEF WellQueue
  <2> HIDE DEF r
  <2>6. /\ queue'[t] \in Seq(Request)
        /\ \A i \in 1..Len(queue'[t]) :
             /\ queue'[t][i].expected <= stamp
             /\ queue'[t][i].phase = "answered" => IsVersion(queue[t][i].body, queue[t][i].expected)
             /\ queue'[t][i].body = queue[t][i].body /\ queue'[t][i].expected = queue[t][i].expected
    BY <1>2, <2>4, <2>5 DEF WellQueue
  <2>7. token' = token /\ reload' = reload /\ call' = call
    BY <2>1 DEF Edit
  <2>8. QED
    BY <1>1, <2>3, <2>6, <2>7 DEF TabWell, IsVersion
<1>4. CASE \E next \in Continuations : Save(t, next)
  <2>1. PICK next \in Continuations : Save(t, next)
    BY <1>4
  <2> DEFINE x == [phase |-> "queued", body |-> view[t], touched |-> FALSE, next |-> next, expected |-> 0]
  <2>2. x \in Request /\ x.phase = "queued" /\ x.expected = 0
    <3>1. next \in {"nothing", "start", "preflight", "checkedStart"}
      BY DEF Continuations
    <3>2. QED
      BY <1>2, <3>1 DEF Request
  <2>3. queue'[t] = SentOn(Append(queue[t], x), token[t])
    BY <1>1, <2>1 DEF Save, Shape
  <2> HIDE DEF x
  <2>4. WellQueue(queue'[t])
    BY <1>1, <1>2, <2>2, <2>3, MoreIsWell
  <2>5. view' = view /\ token' = token /\ reload' = reload /\ call' = call
    BY <2>1 DEF Save
  <2>6. QED
    BY <1>1, <2>4, <2>5 DEF TabWell, IsVersion, WellQueue
<1>5. CASE Lose(t) \/ Refuse(t)
  <2>1. queue'[t] = SentOn(Tail(queue[t]), token[t]) /\ queue[t] # <<>>
    BY <1>1, <1>5 DEF Lose, Refuse, Shape
  <2>2. WellQueue(queue'[t])
    BY <1>1, <1>2, <2>1, RestIsWell
  <2>3. view' = view /\ token' = token /\ reload' = reload /\ call' = call
    BY <1>5 DEF Lose, Refuse
  <2>4. QED
    BY <1>1, <2>2, <2>3 DEF TabWell, IsVersion, WellQueue
<1>6. CASE HandleAnswer(t)
  <2> DEFINE answer == queue[t][1]
  <2>1. /\ queue[t] # <<>> /\ answer.phase = "answered"
        /\ token'[t] = answer.expected
        /\ view'[t] = IF Adopts(answer) THEN answer.body ELSE view[t]
        /\ queue'[t] = SentOn(Tail(queue[t]), answer.expected)
        /\ call'[t] = IF answer.next = "nothing" THEN call[t] ELSE [phase |-> answer.next]
        /\ reload' = reload
    BY <1>1, <1>6 DEF HandleAnswer, Answered, Shape
  <2>2. IsVersion(answer.body, answer.expected) /\ answer \in Request
    <3>1. queue[t] \in Seq(Request)
      BY <1>2 DEF WellQueue
    <3>2. 1 \in 1..Len(queue[t])
      BY <2>1, <3>1, LenProperties, EmptySeq
    <3>3. QED
      BY <1>2, <2>1, <3>1, <3>2, ElementOfSeq DEF WellQueue
  <2> HIDE DEF answer
  <2>3. answer.expected \in 0..stamp /\ answer.body \in Docs
    BY <2>2 DEF IsVersion
  <2>4. WellQueue(queue'[t])
    BY <1>1, <1>2, <2>1, <2>3, RestIsWell
  <2>5. call'[t] = call[t] \/ call'[t].phase \in {"none", "start", "preflight", "checkedStart"}
    BY <2>1, <2>2 DEF Request
  <2>6. view'[t] \in Docs /\ token'[t] \in 0..stamp
    BY <1>2, <2>1, <2>3
  <2>7. QED
    BY <1>1, <2>1, <2>4, <2>5, <2>6 DEF TabWell, IsVersion, WellQueue
<1>7. CASE LoadProject(t) \/ ProjectGet(t)
  <2>1. \/ reload'[t] = [phase |-> "asked"]
        \/ reload'[t] = [phase |-> "answered", doc |-> doc, at |-> stamp]
    BY <1>1, <1>7 DEF LoadProject, ProjectGet, Shape
  <2>2. reload'[t].phase = "answered" => reload'[t].doc = doc /\ reload'[t].at = stamp
    BY <2>1
  <2>3. view' = view /\ token' = token /\ queue' = queue /\ call' = call
    BY <1>7 DEF LoadProject, ProjectGet
  <2>4. QED
    BY <1>1, <2>2, <2>3 DEF TabWell, IsVersion
<1>8. CASE AdoptLoaded(t)
  <2>1. /\ view'[t] = reload[t].doc /\ token'[t] = reload[t].at /\ reload'[t] = NoReload
        /\ reload[t].phase = "answered" /\ queue' = queue /\ call' = call
    BY <1>1, <1>8 DEF AdoptLoaded, Shape
  <2>2. QED
    BY <1>1, <2>1 DEF TabWell, IsVersion, NoReload
<1>9. CASE AdoptStamp(t)
  <2>1. /\ view'[t] = [view[t] EXCEPT !.plan = call[t].plan] /\ token'[t] = call[t].at
        /\ call'[t] = NoCall /\ call[t].phase = "stamped" /\ queue' = queue /\ reload' = reload
    BY <1>1, <1>9 DEF AdoptStamp, Shape
  <2>2. call[t].plan \in Plans /\ call[t].at \in 0..stamp
    BY <1>1, <2>1 DEF TabWell
  <2>3. view'[t] \in Docs
    BY <1>2, <2>1, <2>2, EditedDocs
  <2>4. QED
    BY <1>1, <2>1, <2>2, <2>3 DEF TabWell, IsVersion, NoCall
<1>10. CASE AdoptStarted(t)
  <2>1. /\ view'[t] = call[t].doc /\ token'[t] = call[t].at /\ call'[t] = NoCall
        /\ call[t].phase = "started" /\ queue' = queue /\ reload' = reload
    BY <1>1, <1>10 DEF AdoptStarted, Shape
  <2>2. QED
    BY <1>1, <2>1 DEF TabWell, IsVersion, NoCall
<1>11. CASE CallFails(t) \/ CheckedStartBegin(t)
  <2>1. call'[t] = NoCall \/ call'[t] = [phase |-> "checking", doc |-> doc]
    BY <1>1, <1>11 DEF CallFails, CheckedStartBegin, Shape
  <2>2. /\ call'[t].phase \in {"none", "checking"}
        /\ call'[t].phase = "checking" => call'[t].doc = doc
    BY <2>1 DEF NoCall
  <2>3. view' = view /\ token' = token /\ queue' = queue /\ reload' = reload
    BY <1>11 DEF CallFails, CheckedStartBegin
  <2>4. QED
    BY <1>1, <2>2, <2>3 DEF TabWell, IsVersion
<1>12. QED
  BY <1>3, <1>4, <1>5, <1>6, <1>7, <1>8, <1>9, <1>10, <1>11 DEF Local

LEMMA WritesWell ==
  ASSUME BaseInv, NEW t \in Tabs, Writes(t)
  PROVE  TabWell(t)'
<1>1. /\ Shape /\ TabWell(t) /\ doc \in Docs /\ stamp \in Nat
      /\ \A u \in Tabs : u # t => Untouched(u)
  BY WritesShape, Submitted DEF BaseInv, Shape
<1>2. StoreStep /\ doc' \in Docs /\ stamp' \in Nat
  BY Written DEF Writes
\* As for a tab that has no part in the step, but for queue, reload and call.
<1>3. ASSUME view'[t] = view[t], token'[t] = token[t]
      PROVE  view'[t] \in Docs /\ token'[t] \in 0..stamp'
  BY <1>1, <1>2, <1>3 DEF TabWell, StoreStep
<1>4. ASSUME NEW q \in Seq(Request), WellQueue(q), NEW i \in 1..Len(q)
      PROVE  /\ q[i].expected <= stamp'
             /\ q[i].phase = "answered" =>
                  /\ q[i].body \in Docs /\ q[i].expected \in 0..stamp'
                  /\ q[i].expected = stamp' => q[i].body = doc'
  <2>1. q[i] \in Request
    BY <1>4, ElementOfSeq
  <2>2. q[i].expected \in Nat /\ q[i].expected <= stamp
        /\ (q[i].phase = "answered" => IsVersion(q[i].body, q[i].expected))
    BY <1>4, <2>1 DEF WellQueue, Request
  <2>3. stamp <= stamp'
    BY <1>1, <1>2 DEF StoreStep
  <2>4. QED
    BY <1>1, <1>2, <2>2, <2>3, VersionStays
<1>5. WellQueue(queue[t])
  BY <1>1 DEF TabWell, WellQueue
<1>6. ASSUME queue'[t] = queue[t]
      PROVE  /\ queue'[t] \in Seq(Request)
             /\ \A i \in 1..Len(queue'[t]) :
                  /\ queue'[t][i].expected <= stamp'
                  /\ queue'[t][i].phase = "answered" =>
                       /\ queue'[t][i].body \in Docs /\ queue'[t][i].expected \in 0..stamp'
                       /\ queue'[t][i].expected = stamp' => queue'[t][i].body = doc'
  BY <1>4, <1>5, <1>6 DEF WellQueue
<1>7. ASSUME reload'[t] = reload[t] \/ reload'[t] = [phase |-> "asked"]
      PROVE  reload'[t].phase = "answered" =>
               /\ reload'[t].doc \in Docs /\ reload'[t].at \in 0..stamp'
               /\ reload'[t].at = stamp' => reload'[t].doc = doc'
  <2>1. CASE reload'[t] = reload[t]
    BY <1>1, <1>2, <2>1, VersionStays DEF TabWell
  <2>2. CASE reload'[t] = [phase |-> "asked"]
    BY <2>2
  <2>3. QED
    BY <1>7, <2>1, <2>2
<1>8. ASSUME call'[t] = call[t]
      PROVE  /\ call'[t].phase = "checking" => call'[t].doc \in Docs
             /\ call'[t].phase = "stamped" => call'[t].plan \in Plans /\ call'[t].at \in 0..stamp'
             /\ call'[t].phase = "started" =>
                  /\ call'[t].doc \in Docs /\ call'[t].at \in 0..stamp'
                  /\ call'[t].at = stamp' => call'[t].doc = doc'
  <2>1. stamp <= stamp'
    BY <1>1, <1>2 DEF StoreStep
  <2>2. QED
    BY <1>1, <1>2, <1>8, <2>1, VersionStays DEF TabWell
<1>9. CASE Accept(t)
  <2> DEFINE q == queue[t]
  <2>1. /\ q # <<>> /\ view' = view /\ token' = token /\ reload' = reload /\ call' = call
        /\ queue' = [queue EXCEPT ![t][1].phase = "answered", ![t][1].body = doc', ![t][1].expected = stamp']
    BY <1>9 DEF Accept
  <2>2. queue'[t] = [q EXCEPT ![1].phase = "answered", ![1].body = doc', ![1].expected = stamp']
    BY <1>1, <2>1 DEF Shape
  <2>3. q \in Seq(Request)
    BY <1>5 DEF WellQueue
  <2>4. /\ queue'[t] \in Seq(Request) /\ Len(queue'[t]) = Len(q)
        /\ queue'[t][1].phase = "answered" /\ queue'[t][1].body = doc' /\ queue'[t][1].expected = stamp'
        /\ \A i \in 1..Len(q) : i # 1 => queue'[t][i] = q[i]
    <3>1. queue'[t] = AnsweredAs(q, doc', stamp')
      BY <2>2 DEF AnsweredAs
    <3>2. q # <<>> /\ q \in Seq(Request) /\ doc' \in Docs /\ stamp' \in Nat
      BY <1>2, <2>1, <2>3
    <3> DEFINE r == queue'[t]  d == doc'  at == stamp'
    <3> HIDE DEF q, r, d, at
    <3>3. q # <<>> /\ q \in Seq(Request) /\ d \in Docs /\ at \in Nat
      BY ONLY <3>2 DEF d, at
    <3>4. r = AnsweredAs(q, d, at)
      BY ONLY <3>1 DEF d, at, r
    <3>5. /\ r \in Seq(Request) /\ Len(r) = Len(q)
          /\ r[1].phase = "answered" /\ r[1].body = d /\ r[1].expected = at
          /\ \A i \in 1..Len(q) : i # 1 => r[i] = q[i]
      BY ONLY <3>3, <3>4, AnsweredQueue
    <3>6. QED
      BY ONLY <3>5 DEF d, at, r
  <2>5. ASSUME NEW i \in 1..Len(queue'[t])
        PROVE  /\ queue'[t][i].expected <= stamp'
               /\ queue'[t][i].phase = "answered" =>
                    /\ queue'[t][i].body \in Docs /\ queue'[t][i].expected \in 0..stamp'
                    /\ queue'[t][i].expected = stamp' => queue'[t][i].body = doc'
    <3>1. CASE i = 1
      BY <1>2, <2>4, <3>1
    <3>2. CASE i # 1
      BY <1>4, <1>5, <2>3, <2>4, <3>2
    <3>3. QED
      BY <3>1, <3>2
  <2>6. QED
    BY <1>3, <1>7, <1>8, <2>1, <2>4, <2>5 DEF TabWell, IsVersion
<1>10. CASE Preflight(t) \/ CheckedStartRefused(t)
  <2>1. /\ call'[t] = [phase |-> "stamped", plan |-> stamp, at |-> stamp'] /\ CanWrite
        /\ view' = view /\ token' = token /\ reload' = reload /\ queue' = queue
    BY <1>1, <1>10 DEF Preflight, CheckedStartRefused, Shape
  <2>2. /\ call'[t].phase = "stamped" /\ call'[t].plan \in Plans /\ call'[t].at \in 0..stamp'
    BY <1>2, <2>1, Submitted
  <2>3. QED
    BY <1>3, <1>6, <1>7, <2>1, <2>2 DEF TabWell, IsVersion
<1>11. CASE Start(t) \/ CheckedStartCommit(t)
  <2>1. /\ call'[t] = [phase |-> "started", doc |-> doc', at |-> stamp']
        /\ view' = view /\ token' = token /\ reload' = reload /\ queue' = queue
    BY <1>1, <1>11 DEF Start, CheckedStartCommit, Shape
  <2>2. QED
    BY <1>2, <1>3, <1>6, <1>7, <2>1 DEF TabWell, IsVersion
<1>12. CASE Cleanup(t) \/ \E k \in 1..KeepRevisions : RestoreRevision(t, k)
  <2>1. /\ reload'[t] = [phase |-> "asked"]
        /\ view' = view /\ token' = token /\ queue' = queue /\ call' = call
    BY <1>1, <1>12 DEF Cleanup, RestoreRevision, ReloadAfter, Shape
  <2>2. QED
    BY <1>3, <1>6, <1>7, <1>8, <2>1 DEF TabWell, IsVersion
<1>13. QED
  BY <1>9, <1>10, <1>11, <1>12 DEF Writes

LEMMA InitBase == Init => BaseInv
<1> SUFFICES ASSUME Init PROVE BaseInv
  OBVIOUS
<1>1. BlankDoc \in Docs /\ 1 \in Chapters /\ Chapters = 1..2
  BY BlankIsFresh, InstanceAssumption DEF Chapters
<1>2. doc \in Docs
  <2>1. BlankDoc.chapters \in [Chapters -> Chapter] /\ EmptyText \in Texts
    BY <1>1, ValuesAssumption DEF Docs
  <2>2. [BlankDoc.chapters[1] EXCEPT !.settled = EmptyText] \in Chapter
    BY <1>1, <2>1 DEF Chapter
  <2>3. [BlankDoc.chapters EXCEPT ![1].settled = EmptyText] \in [Chapters -> Chapter]
    BY <1>1, <2>1, <2>2
  <2>4. doc = [BlankDoc EXCEPT !.chapters = [BlankDoc.chapters EXCEPT ![1].settled = EmptyText]]
    BY DEF Init
  <2>5. QED
    BY <1>1, <2>3, <2>4 DEF Docs
<1>3. StoreInv
  <2>1. StoreTypeOK
    BY <1>2, BlankIsFresh DEF Init, StoreTypeOK
  <2>2. RevisionsOrdered
    BY BlankIsFresh DEF Init, RevisionsOrdered
  <2>3. QED
    BY <2>1, <2>2 DEF StoreInv
<1>4. <<>> \in Seq(Request) /\ Len(<<>>) = 0
  BY EmptySeq
<1>5. \A t \in Tabs : TabWell(t)
  BY <1>2, <1>4 DEF Init, TabWell, NoReload, NoCall
<1>6. QED
  BY <1>3, <1>5 DEF Init, BaseInv

LEMMA StepBase == BaseInv /\ [Next]_vars => BaseInv'
<1> SUFFICES ASSUME BaseInv, [Next]_vars PROVE BaseInv'
  OBVIOUS
<1>1. StoreStep
  BY NextStoreStep
<1>2. StoreInv'
  BY <1>1 DEF StoreStep
<1>3. ASSUME NEW t \in Tabs, Local(t) PROVE BaseInv'
  <2>1. Shape' /\ \A u \in Tabs : u # t => Untouched(u)
    BY <1>3, LocalShape
  <2>2. \A u \in Tabs : TabWell(u)'
    BY <1>1, <1>3, <2>1, LocalWell, WellStays
  <2>3. run' = run
    BY <1>3, LocalStays
  <2>4. QED
    BY <1>2, <2>1, <2>2, <2>3 DEF BaseInv, Shape
<1>4. ASSUME NEW t \in Tabs, Writes(t) PROVE BaseInv'
  <2>1. Shape' /\ \A u \in Tabs : u # t => Untouched(u)
    BY <1>4, WritesShape
  <2>2. \A u \in Tabs : TabWell(u)'
    BY <1>1, <1>4, <2>1, WritesWell, WellStays
  <2>3. doc' \in Docs
    BY <1>4, Written DEF Writes
  <2>4. run' = run \/ run' = doc'
    BY <1>4 DEF Writes, Accept, Preflight, Start, CheckedStartRefused, CheckedStartCommit,
                Cleanup, RestoreRevision
  <2>5. QED
    BY <1>2, <2>1, <2>2, <2>3, <2>4 DEF BaseInv, Shape
<1>5. ASSUME UNCHANGED tabVars, run' \in {run, NoDoc, doc'}, doc' \in Docs PROVE BaseInv'
  <2>1. Shape' /\ \A u \in Tabs : Untouched(u)
    BY <1>5 DEF tabVars, BaseInv, Shape, Untouched
  <2>2. \A u \in Tabs : TabWell(u)'
    BY <1>1, <2>1, WellStays
  <2>3. QED
    BY <1>2, <1>5, <2>1, <2>2 DEF BaseInv, Shape
<1>6. CASE RunSave \/ RunReplan
  BY <1>5, <1>6, Written DEF RunSave, RunReplan
<1>7. CASE RunEnd \/ UNCHANGED vars
  BY <1>5, <1>7, Submitted DEF RunEnd, vars, storeVars
<1>8. QED
  BY <1>3, <1>4, <1>6, <1>7, Steps DEF Next

----------------------------------------------------------------------------
(* The queue of a tab in each of the steps that change it.                 *)

LEMMA EditQueue ==
  ASSUME BaseInv, NEW t \in Tabs, NEW e \in ProseEdits \cup DraftEdits, Edit(t, e)
  PROVE  /\ view'[t] = WithEdit(view[t], e) /\ EditsOf(view'[t]) = EditsOf(view[t]) \cup {e}
         /\ clean'[t] = FALSE
         /\ Len(queue'[t]) = Len(queue[t])
         /\ \A i \in 1..Len(queue[t]) :
              /\ queue'[t][i].body = queue[t][i].body /\ queue'[t][i].next = queue[t][i].next
              /\ queue'[t][i].touched
              /\ queue'[t][i].phase = queue[t][i].phase
              /\ queue'[t][i].expected = queue[t][i].expected
<1>1. TabWell(t) /\ Shape /\ e \in Edits
  BY DEF BaseInv, Shape, Edits
<1>2. view'[t] = WithEdit(view[t], e) /\ clean'[t] = FALSE
  BY <1>1 DEF Edit, Shape
<1>3. EditsOf(WithEdit(view[t], e)) = EditsOf(view[t]) \cup {e}
  BY <1>1, EditedDocs DEF TabWell
<1>4. queue'[t] = [i \in DOMAIN queue[t] |-> [queue[t][i] EXCEPT !.touched = TRUE]]
  BY <1>1 DEF Edit, Shape
<1>5. queue[t] \in Seq(Request)
  BY <1>1 DEF TabWell
<1>6. QED
  BY <1>2, <1>3, <1>4, <1>5, TouchedQueue

LEMMA SaveQueue ==
  ASSUME BaseInv, NEW t \in Tabs, NEW next \in Continuations, Save(t, next)
  PROVE  /\ Len(queue'[t]) = Len(queue[t]) + 1 /\ Len(queue[t]) \in Nat
         /\ \A i \in 1..Len(queue[t]) : Passed(queue'[t][i], queue[t][i], token[t])
         /\ queue'[t][Len(queue[t]) + 1].body = view[t]
         /\ queue'[t][Len(queue[t]) + 1].touched = FALSE
         /\ queue'[t][Len(queue[t]) + 1].next = next
         /\ \/ queue'[t][Len(queue[t]) + 1].phase = "queued"
            \/ /\ queue'[t][Len(queue[t]) + 1].phase = "sent"
               /\ queue'[t][Len(queue[t]) + 1].expected = token[t]
         /\ queue'[t][1].phase # "queued"
<1>1. TabWell(t) /\ Shape
  BY DEF BaseInv, Shape
<1> DEFINE x == [phase |-> "queued", body |-> view[t], touched |-> FALSE, next |-> next, expected |-> 0]
           q == queue[t]  at == token[t]
<1>2. /\ x \in Request /\ x.phase = "queued"
      /\ x.body = view[t] /\ x.touched = FALSE /\ x.next = next
  <2>1. next \in {"nothing", "start", "preflight", "checkedStart"}
    BY DEF Continuations
  <2>2. view[t] \in Docs
    BY <1>1 DEF TabWell
  <2>3. QED
    BY <2>1, <2>2 DEF Request
<1>3. queue'[t] = SentOn(Append(q, x), at)
  BY <1>1 DEF Save, Shape
<1>4. q \in Seq(Request) /\ at \in Nat /\ stamp \in Nat
  BY <1>1, Submitted DEF TabWell
<1> HIDE DEF x, q, at
<1>5. /\ Len(queue'[t]) = Len(q) + 1
      /\ \A i \in 1..Len(q) : Passed(queue'[t][i], q[i], at)
      /\ Passed(queue'[t][Len(q) + 1], x, at) /\ queue'[t][1].phase # "queued"
  BY <1>2, <1>3, <1>4, AppendPasses
<1>6. Len(q) \in Nat
  BY <1>4, LenProperties
<1>7. QED
  BY <1>2, <1>5, <1>6 DEF Passed, Same, q, at

LEMMA RestQueue ==
  ASSUME BaseInv, NEW t \in Tabs, Lose(t) \/ Refuse(t) \/ HandleAnswer(t)
  PROVE  /\ queue[t] # <<>> /\ Len(queue[t]) \in Nat /\ 1 \in 1..Len(queue[t])
         /\ Len(queue'[t]) = Len(queue[t]) - 1
         /\ \A i \in 1..Len(queue[t]) - 1 : Passed(queue'[t][i], queue[t][i + 1], token'[t])
         /\ Lose(t) \/ Refuse(t) => token'[t] = token[t] /\ view'[t] = view[t] /\ clean'[t] = clean[t]
         /\ HandleAnswer(t) =>
              /\ queue[t][1].phase = "answered" /\ IsVersion(queue[t][1].body, queue[t][1].expected)
              /\ token'[t] = queue[t][1].expected
              /\ queue[t][1].touched => view'[t] = view[t] /\ clean'[t] = clean[t]
              /\ ~queue[t][1].touched => view'[t] = queue[t][1].body
<1>1. TabWell(t) /\ Shape /\ queue[t] # <<>>
  BY DEF BaseInv, Shape, Lose, Refuse, HandleAnswer
<1> DEFINE q == queue[t]  at == token'[t]
<1>2. q \in Seq(Request)
  BY <1>1 DEF TabWell
<1>3. Len(q) \in Nat /\ 1 \in 1..Len(q)
  BY <1>1, <1>2, LenProperties, EmptySeq
<1>4. HandleAnswer(t) =>
        /\ q[1].phase = "answered" /\ IsVersion(q[1].body, q[1].expected)
        /\ at = q[1].expected /\ q[1].expected \in Nat
        /\ queue'[t] = SentOn(Tail(q), q[1].expected)
  <2> SUFFICES ASSUME HandleAnswer(t)
               PROVE  /\ q[1].phase = "answered" /\ IsVersion(q[1].body, q[1].expected)
                      /\ at = q[1].expected /\ q[1].expected \in Nat
                      /\ queue'[t] = SentOn(Tail(q), q[1].expected)
    OBVIOUS
  <2>1. /\ q[1].phase = "answered" /\ at = q[1].expected
        /\ queue'[t] = SentOn(Tail(q), q[1].expected)
    BY <1>1 DEF HandleAnswer, Answered, Shape
  <2>2. IsVersion(q[1].body, q[1].expected)
    BY <1>1, <1>3, <2>1 DEF TabWell
  <2>3. QED
    BY <2>1, <2>2 DEF IsVersion
<1>5. Lose(t) \/ Refuse(t) =>
        /\ at = token[t] /\ at \in Nat /\ view'[t] = view[t] /\ clean'[t] = clean[t]
        /\ queue'[t] = SentOn(Tail(q), at)
  <2> SUFFICES ASSUME Lose(t) \/ Refuse(t)
               PROVE  /\ at = token[t] /\ at \in Nat /\ view'[t] = view[t] /\ clean'[t] = clean[t]
                      /\ queue'[t] = SentOn(Tail(q), at)
    OBVIOUS
  <2>1. view' = view /\ clean' = clean /\ token' = token /\ queue'[t] = SentOn(Tail(q), token[t])
    BY <1>1 DEF Lose, Refuse, Shape
  <2>2. token[t] \in Nat
    BY <1>1, Submitted DEF TabWell
  <2>3. QED
    BY <2>1, <2>2
<1>6. HandleAnswer(t) => /\ q[1].touched => view'[t] = view[t] /\ clean'[t] = clean[t]
                         /\ ~q[1].touched => view'[t] = q[1].body
  <2> SUFFICES ASSUME HandleAnswer(t)
               PROVE  /\ q[1].touched => view'[t] = view[t] /\ clean'[t] = clean[t]
                      /\ ~q[1].touched => view'[t] = q[1].body
    OBVIOUS
  <2>1. /\ view'[t] = IF Adopts(q[1]) THEN q[1].body ELSE view[t]
        /\ clean' = [clean EXCEPT ![t] = @ \/ Adopts(q[1])]
    BY <1>1 DEF HandleAnswer, Answered, Shape
  <2>2. q[1].touched \in BOOLEAN
    <3>1. q[1] \in Request
      BY <1>2, <1>3, ElementOfSeq
    <3>2. QED
      BY <3>1 DEF Request
  <2>3. clean \in [Tabs -> BOOLEAN]
    BY <1>1 DEF Shape
  <2>4. clean'[t] = (clean[t] \/ Adopts(q[1]))
    BY <2>1, <2>3
  <2>5. q[1].touched => ~Adopts(q[1])
    BY DEF Adopts
  <2>6. ~q[1].touched => Adopts(q[1])
    BY DEF Adopts
  <2>7. clean[t] \in BOOLEAN
    BY <2>3
  <2> HIDE DEF q
  <2>8. q[1].touched => clean'[t] = clean[t]
    BY <2>4, <2>5, <2>7, Zenon
  <2>9. QED
    BY <2>1, <2>5, <2>6, <2>8
<1>7. queue'[t] = SentOn(Tail(q), at) /\ at \in Nat
  BY <1>4, <1>5
<1>8. /\ Len(queue'[t]) = Len(q) - 1
      /\ \A i \in 1..Len(q) - 1 : Passed(queue'[t][i], q[i + 1], at)
  <2> HIDE DEF q, at
  <2>1. QED
    BY <1>1, <1>2, <1>7, RestPasses DEF q
<1>9. QED
  BY <1>1, <1>3, <1>4, <1>5, <1>6, <1>8

LEMMA AcceptQueue ==
  ASSUME BaseInv, NEW t \in Tabs, Accept(t)
  PROVE  /\ 1 \in 1..Len(queue[t]) /\ Len(queue'[t]) = Len(queue[t])
         /\ queue[t][1].phase = "sent" /\ queue[t][1].expected = stamp
         /\ queue'[t][1].phase = "answered" /\ queue'[t][1].body = doc'
         /\ queue'[t][1].expected = stamp'
         /\ queue'[t][1].touched = queue[t][1].touched /\ queue'[t][1].next = queue[t][1].next
         /\ \A i \in 1..Len(queue[t]) : i # 1 => queue'[t][i] = queue[t][i]
         /\ queue[t][1].body \in Docs /\ doc' = Merged(doc, queue[t][1].body)
         /\ doc'.chapters = queue[t][1].body.chapters
         /\ EditsOf(doc') = EditsOf(queue[t][1].body)
<1>1. TabWell(t) /\ Shape /\ queue[t] # <<>>
  BY DEF BaseInv, Shape, Accept
<1> DEFINE q == queue[t]  d == doc'  at == stamp'  r == queue'[t]
<1>2. q \in Seq(Request) /\ q # <<>> /\ d \in Docs /\ at \in Nat
  BY <1>1, Written DEF TabWell
<1>3. Len(q) \in Nat /\ 1 \in 1..Len(q)
  BY <1>1, <1>2, LenProperties, EmptySeq
<1>4. r = AnsweredAs(q, d, at)
  BY <1>1 DEF Accept, Shape, AnsweredAs
<1>5. /\ q[1].phase = "sent" /\ q[1].expected = stamp
      /\ doc' = Merged(doc, q[1].body)
  BY Written DEF Accept, SaveVersioned
<1>6. q[1] \in Request
  BY <1>2, <1>3, ElementOfSeq
<1> HIDE DEF q, d, at, r
<1>7. /\ Len(r) = Len(q) /\ r[1].phase = "answered" /\ r[1].body = d /\ r[1].expected = at
      /\ r[1].touched = q[1].touched /\ r[1].next = q[1].next
      /\ \A i \in 1..Len(q) : i # 1 => r[i] = q[i]
  BY ONLY <1>2, <1>4, AnsweredQueue
<1>8. q[1].body \in Docs
  BY <1>6 DEF Request
<1>9. QED
  BY <1>3, <1>5, <1>7, <1>8, MergedChapters DEF q, d, at, r

----------------------------------------------------------------------------
(***************************************************************************)
(* Recovery.  The edits of the stored version and of the kept revisions    *)
(* only grow as long as the retention drops nothing, which it cannot do    *)
(* before more versions have been stored than it keeps.  An answer that is *)
(* still on its way is counted as acknowledged.                            *)
(***************************************************************************)
KeptEdits == EditsOf(doc) \cup UNION {EditsOf(history[k]) : k \in DOMAIN history}

TabKept(t) ==
  \A i \in 1..Len(queue[t]) :
    queue[t][i].phase = "answered" => EditsOf(queue[t][i].body) \subseteq KeptEdits

RecoverInv ==
  /\ Len(history) < stamp
  /\ acked \subseteq KeptEdits
  /\ \A t \in Tabs : TabKept(t)

LEMMA KeptGrows ==
  ASSUME BaseInv, KeepRevisions >= MaxStamp, Len(history) < stamp, StoreStep
  PROVE  /\ KeptEdits \subseteq KeptEdits' /\ EditsOf(doc') \subseteq KeptEdits'
         /\ Len(history') < stamp'
<1>1. /\ history \in Seq(Docs) /\ doc \in Docs /\ stamp \in Nat /\ Len(history) \in Nat
      /\ DOMAIN history = 1..Len(history)
  BY Submitted, LenProperties
<1>2. CASE doc' = doc /\ stamp' = stamp /\ history' = history
  BY <1>2 DEF KeptEdits
<1>3. CASE /\ stamp < MaxStamp /\ stamp' = stamp + 1
           /\ history' = Newest(Append(history, doc), KeepRevisions)
  <2>1. /\ Append(history, doc) \in Seq(Docs) /\ Len(Append(history, doc)) = Len(history) + 1
        /\ \A i \in 1..Len(history) : Append(history, doc)[i] = history[i]
        /\ Append(history, doc)[Len(history) + 1] = doc
    BY <1>1, AppendProperties
  <2>2. ~(Len(Append(history, doc)) > KeepRevisions)
    BY <1>1, <1>3, <2>1, SizesAssumption
  <2>3. history' = Append(history, doc)
    BY <1>3, <2>2 DEF Newest
  <2>4. DOMAIN history' = 1..Len(history) + 1
    BY <2>1, <2>3, LenProperties
  <2>5. ASSUME NEW k \in DOMAIN history
        PROVE  k \in DOMAIN history' /\ history'[k] = history[k]
    BY <1>1, <2>1, <2>3, <2>4
  <2>6. Len(history) + 1 \in DOMAIN history' /\ history'[Len(history) + 1] = doc
    BY <1>1, <2>1, <2>3, <2>4
  <2>7. EditsOf(doc) \subseteq KeptEdits'
    BY <2>6 DEF KeptEdits
  <2>8. \A k \in DOMAIN history : EditsOf(history[k]) \subseteq KeptEdits'
    BY <2>5 DEF KeptEdits
  <2>9. EditsOf(doc') \subseteq KeptEdits'
    BY DEF KeptEdits
  <2>10. QED
    BY <1>1, <1>3, <2>1, <2>3, <2>7, <2>8, <2>9 DEF KeptEdits
<1>4. QED
  BY <1>2, <1>3 DEF StoreStep

LEMMA LocalKept ==
  ASSUME BaseInv, RecoverInv, NEW t \in Tabs, Local(t)
  PROVE  /\ acked' \subseteq KeptEdits
         /\ \A i \in 1..Len(queue'[t]) :
              queue'[t][i].phase = "answered" => EditsOf(queue'[t][i].body) \subseteq KeptEdits
<1>1. TabKept(t) /\ acked \subseteq KeptEdits
  BY DEF RecoverInv
<1>2. CASE \E e \in ProseEdits \cup DraftEdits : Edit(t, e)
  <2>1. PICK e \in ProseEdits \cup DraftEdits : Edit(t, e)
    BY <1>2
  <2>2. acked' = acked
    BY <2>1 DEF Edit
  <2>3. Len(queue'[t]) = Len(queue[t])
        /\ \A i \in 1..Len(queue[t]) : queue'[t][i].body = queue[t][i].body /\ queue'[t][i].phase = queue[t][i].phase
    BY <2>1, EditQueue
  <2>4. QED
    BY <1>1, <2>2, <2>3 DEF TabKept
<1>3. CASE \E next \in Continuations : Save(t, next)
  <2>1. PICK next \in Continuations : Save(t, next)
    BY <1>3
  <2>2. acked' = acked
    BY <2>1 DEF Save
  <2>3. ASSUME NEW i \in 1..Len(queue'[t]), queue'[t][i].phase = "answered"
        PROVE  i \in 1..Len(queue[t]) /\ queue'[t][i] = queue[t][i]
    <3>1. CASE i \in 1..Len(queue[t])
      <4>1. Passed(queue'[t][i], queue[t][i], token[t])
        BY <2>1, <3>1, SaveQueue
      <4>2. QED
        BY <2>3, <3>1, <4>1 DEF Passed
    <3>2. queue'[t][Len(queue[t]) + 1].phase # "answered"
      <4>1. queue'[t][Len(queue[t]) + 1].phase \in {"queued", "sent"}
        BY <2>1, SaveQueue
      <4>2. QED
        BY <4>1
    <3>3. i \in 1..Len(queue[t]) \/ i = Len(queue[t]) + 1
      <4>1. Len(queue'[t]) = Len(queue[t]) + 1 /\ Len(queue[t]) \in Nat
        BY <2>1, SaveQueue
      <4>2. QED
        BY <4>1
    <3>4. QED
      BY <2>3, <3>1, <3>2, <3>3
  <2>4. QED
    BY <1>1, <2>2, <2>3 DEF TabKept
<1>4. CASE Lose(t) \/ Refuse(t) \/ HandleAnswer(t)
  <2>1. /\ 1 \in 1..Len(queue[t]) /\ Len(queue[t]) \in Nat /\ Len(queue'[t]) = Len(queue[t]) - 1
        /\ \A i \in 1..Len(queue[t]) - 1 : Passed(queue'[t][i], queue[t][i + 1], token'[t])
        /\ HandleAnswer(t) => queue[t][1].phase = "answered"
    BY <1>4, RestQueue
  <2>2. acked' \subseteq KeptEdits
    <3>1. CASE HandleAnswer(t)
      <4>1. acked' = acked \cup EditsOf(queue[t][1].body)
        BY <3>1 DEF HandleAnswer
      <4>2. QED
        BY <1>1, <2>1, <3>1, <4>1 DEF TabKept
    <3>2. CASE Lose(t) \/ Refuse(t)
      BY <1>1, <3>2 DEF Lose, Refuse
    <3>3. QED
      BY <1>4, <3>1, <3>2
  <2>3. ASSUME NEW i \in 1..Len(queue'[t]), queue'[t][i].phase = "answered"
        PROVE  i + 1 \in 1..Len(queue[t]) /\ queue'[t][i] = queue[t][i + 1]
    <3>1. i \in 1..Len(queue[t]) - 1 /\ i + 1 \in 1..Len(queue[t])
      BY <2>1
    <3>2. Passed(queue'[t][i], queue[t][i + 1], token'[t])
      BY <2>1, <3>1
    <3>3. QED
      BY <2>3, <3>1, <3>2 DEF Passed
  <2>4. QED
    BY <1>1, <2>2, <2>3 DEF TabKept
<1>5. CASE \/ LoadProject(t) \/ ProjectGet(t) \/ AdoptLoaded(t)
           \/ AdoptStamp(t) \/ AdoptStarted(t) \/ CallFails(t) \/ CheckedStartBegin(t)
  <2>1. queue' = queue /\ acked' = acked
    BY <1>5 DEF LoadProject, ProjectGet, AdoptLoaded, AdoptStamp, AdoptStarted, CallFails,
                CheckedStartBegin
  <2>2. QED
    BY <1>1, <2>1 DEF TabKept
<1>6. QED
  BY <1>2, <1>3, <1>4, <1>5 DEF Local

LEMMA WritesKept ==
  ASSUME BaseInv, RecoverInv, NEW t \in Tabs, Writes(t),
         KeptEdits \subseteq KeptEdits', EditsOf(doc') \subseteq KeptEdits'
  PROVE  acked' \subseteq KeptEdits' /\ TabKept(t)'
<1>1. TabKept(t) /\ acked \subseteq KeptEdits'
  BY DEF RecoverInv
<1>2. CASE Accept(t)
  <2>1. acked' = acked
    BY <1>2 DEF Accept
  <2>2. /\ Len(queue'[t]) = Len(queue[t]) /\ queue'[t][1].body = doc'
        /\ \A i \in 1..Len(queue[t]) : i # 1 => queue'[t][i] = queue[t][i]
    BY <1>2, AcceptQueue
  <2>3. \A i \in 1..Len(queue'[t]) :
          queue'[t][i].phase = "answered" => EditsOf(queue'[t][i].body) \subseteq KeptEdits'
    BY <1>1, <2>2 DEF TabKept
  <2>4. QED
    BY <1>1, <2>1, <2>3 DEF TabKept
<1>3. CASE Cleanup(t)
  <2>1. acked' = acked \cup {CleanupFix} /\ queue' = queue
    BY <1>3 DEF Cleanup
  <2>2. CleanupFix \in EditsOf(doc')
    <3>1. doc' = Merged(doc, WithEdit(doc, CleanupFix)) /\ doc \in Docs /\ CleanupFix \in Edits
      BY <1>3, Written, Submitted DEF Edits
    <3>2. EditsOf(doc') = EditsOf(WithEdit(doc, CleanupFix))
      BY <3>1, MergedChapters
    <3>3. CleanupFix \in EditsOf(WithEdit(doc, CleanupFix))
      BY <3>1, EditedDocs
    <3>4. QED
      BY <3>2, <3>3
  <2>3. QED
    BY <1>1, <2>1, <2>2 DEF TabKept
<1>4. CASE \/ Preflight(t) \/ Start(t) \/ CheckedStartRefused(t) \/ CheckedStartCommit(t)
           \/ \E k \in 1..KeepRevisions : RestoreRevision(t, k)
  <2>1. acked' = acked /\ queue' = queue
    BY <1>4 DEF Preflight, Start, CheckedStartRefused, CheckedStartCommit, RestoreRevision
  <2>2. QED
    BY <1>1, <2>1 DEF TabKept
<1>5. QED
  BY <1>2, <1>3, <1>4 DEF Writes

LEMMA StepRecover ==
  ASSUME BaseInv, RecoverInv, KeepRevisions >= MaxStamp, [Next]_vars
  PROVE  RecoverInv'
<1>1. StoreStep
  BY NextStoreStep
<1>2. /\ KeptEdits \subseteq KeptEdits' /\ EditsOf(doc') \subseteq KeptEdits'
      /\ Len(history') < stamp'
  BY <1>1, KeptGrows DEF RecoverInv
<1>3. ASSUME NEW u \in Tabs, queue'[u] = queue[u] PROVE TabKept(u)'
  BY <1>2, <1>3 DEF RecoverInv, TabKept
<1>4. ASSUME NEW t \in Tabs, Local(t) PROVE RecoverInv'
  <2>1. /\ acked' \subseteq KeptEdits
        /\ \A i \in 1..Len(queue'[t]) :
             queue'[t][i].phase = "answered" => EditsOf(queue'[t][i].body) \subseteq KeptEdits
    BY <1>4, LocalKept
  <2>2. TabKept(t)'
    BY <1>2, <2>1 DEF TabKept
  <2>3. \A u \in Tabs : u # t => queue'[u] = queue[u]
    BY <1>4, LocalShape DEF Untouched
  <2>4. QED
    BY <1>2, <1>3, <2>1, <2>2, <2>3 DEF RecoverInv
<1>5. ASSUME NEW t \in Tabs, Writes(t) PROVE RecoverInv'
  <2>1. acked' \subseteq KeptEdits' /\ TabKept(t)'
    BY <1>2, <1>5, WritesKept
  <2>2. \A u \in Tabs : u # t => queue'[u] = queue[u]
    BY <1>5, WritesShape DEF Untouched
  <2>3. QED
    BY <1>2, <1>3, <2>1, <2>2 DEF RecoverInv
<1>6. CASE RunSave \/ RunReplan \/ RunEnd \/ UNCHANGED vars
  <2>1. acked' = acked /\ queue' = queue
    BY <1>6 DEF RunSave, RunReplan, RunEnd, tabVars, vars
  <2>2. QED
    BY <1>2, <1>3, <2>1 DEF RecoverInv
<1>7. QED
  BY <1>4, <1>5, <1>6, Steps DEF Next

----------------------------------------------------------------------------
(***************************************************************************)
(* The editor.  While saves are queued nothing but the author changes what *)
(* the tab shows, so the texts of the queue are stages of it, in order,    *)
(* and a request that no edit has touched is for what is shown now.  That  *)
(* makes it harmless to adopt the answer to it.                            *)
(***************************************************************************)
TabOrdered(t) ==
  /\ queue[t] # <<>> => reload[t] = NoReload
  /\ \A i, j \in 1..Len(queue[t]) : i < j =>
       /\ EditsOf(queue[t][i].body) \subseteq EditsOf(queue[t][j].body)
       /\ queue[t][j].touched => queue[t][i].touched
  /\ \A i \in 1..Len(queue[t]) :
       /\ EditsOf(queue[t][i].body) \subseteq EditsOf(view[t])
       /\ queue[t][i].touched => ~clean[t]
       /\ ~queue[t][i].touched => queue[t][i].body.chapters = view[t].chapters

QueueInv == \A t \in Tabs : TabOrdered(t)

LEMMA SameChapters ==
  ASSUME NEW d, NEW e, d.chapters = e.chapters
  PROVE  EditsOf(d) = EditsOf(e)
BY DEF EditsOf

\* The answer to a save leaves the texts that the tab shows as they are.
LEMMA AnswerKeepsText ==
  ASSUME BaseInv, NEW t \in Tabs, TabOrdered(t), HandleAnswer(t)
  PROVE  /\ view'[t].chapters = view[t].chapters /\ EditsOf(view'[t]) = EditsOf(view[t])
         /\ queue[t][1].touched => clean'[t] = clean[t]
<1>1. /\ 1 \in 1..Len(queue[t])
      /\ queue[t][1].touched => view'[t] = view[t] /\ clean'[t] = clean[t]
      /\ ~queue[t][1].touched => view'[t] = queue[t][1].body
  BY RestQueue
<1>2. view'[t].chapters = view[t].chapters
  BY <1>1 DEF TabOrdered
<1>3. QED
  BY <1>1, <1>2, SameChapters

\* A tab without queued saves has nothing to keep in order.
LEMMA EmptyIsOrdered ==
  ASSUME BaseInv, NEW t \in Tabs, queue[t] = <<>>, queue'[t] = queue[t]
  PROVE  TabOrdered(t)'
<1>1. Len(<<>>) = 0
  BY EmptySeq
<1>2. QED
  BY <1>1 DEF TabOrdered

LEMMA LocalOrdered ==
  ASSUME BaseInv, NEW t \in Tabs, TabOrdered(t), "adoptWhileSaving" \notin Races, Local(t)
  PROVE  TabOrdered(t)'
<1>1. Shape /\ TabWell(t)
  BY DEF BaseInv, Shape
<1>2. CASE \E e \in ProseEdits \cup DraftEdits : Edit(t, e)
  <2>1. PICK e \in ProseEdits \cup DraftEdits : Edit(t, e)
    BY <1>2
  <2>2. /\ EditsOf(view'[t]) = EditsOf(view[t]) \cup {e} /\ clean'[t] = FALSE
        /\ Len(queue'[t]) = Len(queue[t])
        /\ \A i \in 1..Len(queue[t]) : queue'[t][i].body = queue[t][i].body /\ queue'[t][i].touched
    BY <2>1, EditQueue
  <2>3. reload' = reload
    BY <2>1 DEF Edit
  <2>4. queue[t] = <<>> => queue'[t] = <<>>
    <3>1. queue[t] = <<>> => DOMAIN queue[t] = {}
      BY EmptySeq
    <3>2. queue'[t] = [i \in DOMAIN queue[t] |-> [queue[t][i] EXCEPT !.touched = TRUE]]
      BY <1>1, <2>1 DEF Edit, Shape
    <3>3. queue[t] \in Seq(Request)
      BY <1>1 DEF TabWell
    <3>4. queue'[t] \in Seq(Request) /\ Len(queue'[t]) = Len(queue[t])
      BY <3>2, <3>3, TouchedQueue
    <3>5. QED
      BY <3>4, EmptySeq
  <2>5. \A i, j \in 1..Len(queue'[t]) : i < j =>
          /\ EditsOf(queue'[t][i].body) \subseteq EditsOf(queue'[t][j].body)
          /\ queue'[t][j].touched => queue'[t][i].touched
    BY <2>2 DEF TabOrdered
  <2>6. \A i \in 1..Len(queue'[t]) :
          /\ EditsOf(queue'[t][i].body) \subseteq EditsOf(view'[t])
          /\ queue'[t][i].touched => ~clean'[t]
          /\ ~queue'[t][i].touched => queue'[t][i].body.chapters = view'[t].chapters
    BY <2>2 DEF TabOrdered
  <2>7. QED
    BY <2>3, <2>4, <2>5, <2>6 DEF TabOrdered
<1>3. CASE \E next \in Continuations : Save(t, next)
  <2>1. PICK next \in Continuations : Save(t, next)
    BY <1>3
  <2> DEFINE n == Len(queue[t])
  <2>2. /\ Len(queue'[t]) = n + 1 /\ n \in Nat
        /\ \A i \in 1..n : Passed(queue'[t][i], queue[t][i], token[t])
        /\ queue'[t][n + 1].body = view[t] /\ queue'[t][n + 1].touched = FALSE
    BY <2>1, SaveQueue
  <2>3. view' = view /\ clean' = clean /\ reload' = reload /\ reload[t] = NoReload
    BY <1>1, <2>1 DEF Save
  <2>4. \A i \in 1..n : queue'[t][i].body = queue[t][i].body /\ queue'[t][i].touched = queue[t][i].touched
    BY <2>2 DEF Passed, Same
  <2> HIDE DEF n
  <2>5. ASSUME NEW i \in 1..Len(queue'[t]), NEW j \in 1..Len(queue'[t]), i < j
        PROVE  /\ EditsOf(queue'[t][i].body) \subseteq EditsOf(queue'[t][j].body)
               /\ queue'[t][j].touched => queue'[t][i].touched
    <3>1. i \in 1..n
      BY <2>2, <2>5
    <3>2. CASE j \in 1..n
      BY <2>4, <2>5, <3>1, <3>2 DEF TabOrdered, n
    <3>3. CASE j = n + 1
      <4>1. EditsOf(queue[t][i].body) \subseteq EditsOf(view[t])
        BY <3>1 DEF TabOrdered, n
      <4>2. QED
        BY <2>2, <2>4, <3>1, <3>3, <4>1
    <3>4. QED
      BY <2>2, <3>2, <3>3
  <2>6. ASSUME NEW i \in 1..Len(queue'[t])
        PROVE  /\ EditsOf(queue'[t][i].body) \subseteq EditsOf(view'[t])
               /\ queue'[t][i].touched => ~clean'[t]
               /\ ~queue'[t][i].touched => queue'[t][i].body.chapters = view'[t].chapters
    <3>1. CASE i \in 1..n
      BY <2>3, <2>4, <3>1 DEF TabOrdered, n
    <3>2. CASE i = n + 1
      BY <2>2, <2>3, <3>2
    <3>3. QED
      BY <2>2, <3>1, <3>2
  <2>7. QED
    BY <2>3, <2>5, <2>6 DEF TabOrdered
<1>4. CASE Lose(t) \/ Refuse(t) \/ HandleAnswer(t)
  <2> DEFINE n == Len(queue[t])
  <2>1. /\ queue[t] # <<>> /\ 1 \in 1..n /\ n \in Nat /\ Len(queue'[t]) = n - 1
        /\ \A i \in 1..n - 1 : Passed(queue'[t][i], queue[t][i + 1], token'[t])
    BY <1>4, RestQueue
  <2>2. \A i \in 1..n - 1 : /\ queue'[t][i].body = queue[t][i + 1].body
                            /\ queue'[t][i].touched = queue[t][i + 1].touched
    BY <2>1 DEF Passed, Same
  <2>3. reload' = reload /\ reload[t] = NoReload
    BY <1>4, <2>1 DEF Lose, Refuse, HandleAnswer, TabOrdered
  <2>4. view'[t].chapters = view[t].chapters /\ EditsOf(view'[t]) = EditsOf(view[t])
    <3>1. CASE HandleAnswer(t)
      BY <3>1, AnswerKeepsText
    <3>2. CASE Lose(t) \/ Refuse(t)
      BY <3>2, RestQueue
    <3>3. QED
      BY <1>4, <3>1, <3>2
  <2>5. queue[t][1].touched => clean'[t] = clean[t]
    <3>1. CASE HandleAnswer(t)
      BY <3>1, AnswerKeepsText
    <3>2. CASE Lose(t) \/ Refuse(t)
      BY <3>2, RestQueue
    <3>3. QED
      BY <1>4, <3>1, <3>2
  <2>6. \A i \in 1..n - 1 : i + 1 \in 1..n /\ 1 < i + 1
    BY <2>1
  <2>7. \A i \in 1..n - 1 : queue[t][i + 1].touched => ~clean'[t]
    BY <2>1, <2>5, <2>6 DEF TabOrdered
  <2> HIDE DEF n
  <2>8. ASSUME NEW i \in 1..Len(queue'[t]), NEW j \in 1..Len(queue'[t]), i < j
        PROVE  /\ EditsOf(queue'[t][i].body) \subseteq EditsOf(queue'[t][j].body)
               /\ queue'[t][j].touched => queue'[t][i].touched
    <3>1. i \in 1..n - 1 /\ j \in 1..n - 1 /\ i + 1 < j + 1 /\ i + 1 \in 1..n /\ j + 1 \in 1..n
      BY <2>1, <2>8
    <3>2. /\ EditsOf(queue[t][i + 1].body) \subseteq EditsOf(queue[t][j + 1].body)
          /\ queue[t][j + 1].touched => queue[t][i + 1].touched
      BY <3>1 DEF TabOrdered, n
    <3>3. QED
      BY <2>2, <3>1, <3>2
  <2>9. ASSUME NEW i \in 1..Len(queue'[t])
        PROVE  /\ EditsOf(queue'[t][i].body) \subseteq EditsOf(view'[t])
               /\ queue'[t][i].touched => ~clean'[t]
               /\ ~queue'[t][i].touched => queue'[t][i].body.chapters = view'[t].chapters
    <3>1. i \in 1..n - 1 /\ i + 1 \in 1..n
      BY <2>1
    <3>2. /\ EditsOf(queue[t][i + 1].body) \subseteq EditsOf(view[t])
          /\ ~queue[t][i + 1].touched => queue[t][i + 1].body.chapters = view[t].chapters
      BY <3>1 DEF TabOrdered, n
    <3>3. QED
      BY <2>2, <2>4, <2>7, <3>1, <3>2
  <2>10. QED
    BY <2>3, <2>8, <2>9 DEF TabOrdered
<1>5. CASE LoadProject(t) \/ ProjectGet(t) \/ AdoptLoaded(t) \/ AdoptStarted(t)
  <2>1. queue'[t] = queue[t]
    BY <1>5 DEF LoadProject, ProjectGet, AdoptLoaded, AdoptStarted
  <2>2. reload[t] # NoReload => queue[t] = <<>>
    BY DEF TabOrdered
  <2>3. ProjectGet(t) \/ AdoptLoaded(t) => reload[t] # NoReload
    BY DEF ProjectGet, AdoptLoaded, NoReload
  <2>4. queue[t] = <<>>
    BY <1>5, <2>2, <2>3 DEF LoadProject, AdoptStarted
  <2>5. QED
    BY <2>1, <2>4, EmptyIsOrdered
<1>6. CASE AdoptStamp(t) \/ CallFails(t) \/ CheckedStartBegin(t)
  <2>1. queue' = queue /\ clean' = clean /\ reload' = reload
    BY <1>6 DEF AdoptStamp, CallFails, CheckedStartBegin
  <2>2. view'[t].chapters = view[t].chapters
    <3>1. CASE AdoptStamp(t)
      <4>1. view'[t] = [view[t] EXCEPT !.plan = call[t].plan]
        BY <1>1, <3>1 DEF AdoptStamp, Shape
      <4>2. view[t] \in Docs /\ call[t].plan \in Plans
        BY <1>1, <3>1 DEF AdoptStamp, TabWell
      <4>3. QED
        BY <4>1, <4>2, EditedDocs
    <3>2. CASE CallFails(t) \/ CheckedStartBegin(t)
      BY <3>2 DEF CallFails, CheckedStartBegin
    <3>3. QED
      BY <1>6, <3>1, <3>2
  <2>3. EditsOf(view'[t]) = EditsOf(view[t])
    BY <2>2, SameChapters
  <2>4. QED
    BY <2>1, <2>2, <2>3 DEF TabOrdered
<1>7. QED
  BY <1>2, <1>3, <1>4, <1>5, <1>6 DEF Local

LEMMA WritesOrdered ==
  ASSUME BaseInv, NEW t \in Tabs, TabOrdered(t), Writes(t)
  PROVE  TabOrdered(t)'
<1>1. CASE Accept(t)
  <2>1. /\ 1 \in 1..Len(queue[t]) /\ Len(queue'[t]) = Len(queue[t])
        /\ queue'[t][1].body = doc' /\ queue'[t][1].touched = queue[t][1].touched
        /\ \A i \in 1..Len(queue[t]) : i # 1 => queue'[t][i] = queue[t][i]
        /\ doc'.chapters = queue[t][1].body.chapters
        /\ EditsOf(doc') = EditsOf(queue[t][1].body)
    BY <1>1, AcceptQueue
  <2>2. view' = view /\ clean' = clean /\ reload' = reload /\ queue[t] # <<>>
    BY <1>1 DEF Accept
  <2>3. \A i \in 1..Len(queue[t]) :
          /\ EditsOf(queue'[t][i].body) = EditsOf(queue[t][i].body)
          /\ queue'[t][i].body.chapters = queue[t][i].body.chapters
          /\ queue'[t][i].touched = queue[t][i].touched
    BY <2>1
  <2>4. \A i, j \in 1..Len(queue[t]) : i < j =>
          /\ EditsOf(queue'[t][i].body) \subseteq EditsOf(queue'[t][j].body)
          /\ queue'[t][j].touched => queue'[t][i].touched
    BY <2>3 DEF TabOrdered
  <2>5. \A i \in 1..Len(queue[t]) :
          /\ EditsOf(queue'[t][i].body) \subseteq EditsOf(view'[t])
          /\ queue'[t][i].touched => ~clean'[t]
          /\ ~queue'[t][i].touched => queue'[t][i].body.chapters = view'[t].chapters
    BY <2>2, <2>3 DEF TabOrdered
  <2>6. QED
    BY <2>1, <2>2, <2>4, <2>5 DEF TabOrdered
<1>2. CASE Preflight(t) \/ Start(t) \/ CheckedStartRefused(t) \/ CheckedStartCommit(t)
  <2>1. queue' = queue /\ view' = view /\ clean' = clean /\ reload' = reload
    BY <1>2 DEF Preflight, Start, CheckedStartRefused, CheckedStartCommit
  <2>2. QED
    BY <2>1 DEF TabOrdered
<1>3. CASE Cleanup(t) \/ \E k \in 1..KeepRevisions : RestoreRevision(t, k)
  <2>1. queue[t] = <<>> /\ queue'[t] = queue[t]
    BY <1>3 DEF Cleanup, RestoreRevision, ReloadAfter
  <2>2. QED
    BY <2>1, EmptyIsOrdered
<1>4. QED
  BY <1>1, <1>2, <1>3 DEF Writes

LEMMA StepQueue ==
  ASSUME BaseInv, QueueInv, "adoptWhileSaving" \notin Races, [Next]_vars
  PROVE  QueueInv'
<1>1. ASSUME NEW u \in Tabs, Untouched(u) PROVE TabOrdered(u)'
  <2>1. /\ view'[u] = view[u] /\ clean'[u] = clean[u]
        /\ queue'[u] = queue[u] /\ reload'[u] = reload[u]
    BY <1>1 DEF Untouched
  <2>2. TabOrdered(u)
    BY DEF QueueInv
  <2>3. QED
    BY <2>1, <2>2 DEF TabOrdered
<1>2. ASSUME NEW t \in Tabs, Local(t) PROVE QueueInv'
  BY <1>1, <1>2, LocalShape, LocalOrdered DEF QueueInv
<1>3. ASSUME NEW t \in Tabs, Writes(t) PROVE QueueInv'
  BY <1>1, <1>3, WritesShape, WritesOrdered DEF QueueInv
<1>4. CASE RunSave \/ RunReplan \/ RunEnd \/ UNCHANGED vars
  <2>1. \A u \in Tabs : Untouched(u)
    BY <1>4 DEF RunSave, RunReplan, RunEnd, tabVars, vars, Untouched
  <2>2. QED
    BY <1>1, <2>1 DEF QueueInv
<1>5. QED
  BY <1>2, <1>3, <1>4, Steps DEF Next

----------------------------------------------------------------------------
(***************************************************************************)
(* With the windows closed.  A tab whose token is the stored stamp has     *)
(* every stored edit on its screen and in its queued saves, a tab that     *)
(* also shows "saved" shows the stored text, and nobody writes beside a    *)
(* run, so the copy the run works on is the stored version.                *)
(***************************************************************************)
TabCalm(t) ==
  /\ call[t].phase \in {"none", "start", "started"}
  /\ clean[t] /\ token[t] = stamp => view[t].chapters = doc.chapters
  /\ token[t] = stamp => EditsOf(doc) \subseteq EditsOf(view[t])
  /\ \A i \in 1..Len(queue[t]) :
       /\ queue[t][i].next \in {"nothing", "start"}
       /\ token[t] = stamp \/ (queue[t][i].phase = "sent" /\ queue[t][i].expected = stamp)
            => EditsOf(doc) \subseteq EditsOf(queue[t][i].body)

CalmInv ==
  /\ restores \in Nat
  /\ run # NoDoc => run = doc
  /\ \A t \in Tabs : TabCalm(t)

\* A new stored version makes every token that is in use stale.
LEMMA CalmStays ==
  ASSUME BaseInv, StoreStep, NEW t \in Tabs, TabCalm(t),
         view'[t] = view[t], token'[t] = token[t], clean'[t] = clean[t]
  PROVE  /\ clean'[t] /\ token'[t] = stamp' => view'[t].chapters = doc'.chapters
         /\ token'[t] = stamp' => EditsOf(doc') \subseteq EditsOf(view'[t])
         /\ \A i \in 1..Len(queue[t]) :
              token'[t] = stamp' \/ (queue[t][i].phase = "sent" /\ queue[t][i].expected = stamp')
                => EditsOf(doc') \subseteq EditsOf(queue[t][i].body)
<1>1. /\ stamp \in Nat /\ token[t] \in 0..stamp
      /\ \A i \in 1..Len(queue[t]) : queue[t][i].expected <= stamp
      /\ queue[t] \in Seq(Request)
  BY Submitted DEF BaseInv, TabWell
<1>2. \A i \in 1..Len(queue[t]) : queue[t][i].expected \in Nat
  <2> SUFFICES ASSUME NEW i \in 1..Len(queue[t]) PROVE queue[t][i].expected \in Nat
    OBVIOUS
  <2>1. queue[t][i] \in Request
    BY <1>1, ElementOfSeq
  <2>2. QED
    BY <2>1 DEF Request
<1>3. CASE doc' = doc /\ stamp' = stamp
  BY <1>3 DEF TabCalm
<1>4. CASE stamp' = stamp + 1
  BY <1>1, <1>2, <1>4
<1>5. QED
  BY <1>3, <1>4 DEF StoreStep

LEMMA LocalCalm ==
  ASSUME BaseInv, QueueInv, CalmInv, Races = {}, NEW t \in Tabs, Local(t)
  PROVE  TabCalm(t)'
<1>1. /\ Shape /\ TabWell(t) /\ TabOrdered(t) /\ TabCalm(t)
      /\ doc' = doc /\ stamp' = stamp
      /\ Len(<<>>) = 0
  BY LocalStays, EmptySeq DEF BaseInv, QueueInv, CalmInv, Shape, storeVars
<1>2. CASE \E e \in ProseEdits \cup DraftEdits : Edit(t, e)
  <2>1. PICK e \in ProseEdits \cup DraftEdits : Edit(t, e)
    BY <1>2
  <2>2. /\ EditsOf(view'[t]) = EditsOf(view[t]) \cup {e} /\ clean'[t] = FALSE
        /\ Len(queue'[t]) = Len(queue[t])
        /\ \A i \in 1..Len(queue[t]) :
             /\ queue'[t][i].body = queue[t][i].body /\ queue'[t][i].next = queue[t][i].next
             /\ queue'[t][i].phase = queue[t][i].phase
             /\ queue'[t][i].expected = queue[t][i].expected
    BY <2>1, EditQueue
  <2>3. token' = token /\ call' = call
    BY <2>1 DEF Edit
  <2>4. QED
    BY <1>1, <2>2, <2>3 DEF TabCalm
<1>3. CASE \E next \in Continuations : Save(t, next)
  <2>1. PICK next \in Continuations : Save(t, next)
    BY <1>3
  <2> DEFINE n == Len(queue[t])
  <2>2. /\ Len(queue'[t]) = n + 1 /\ n \in Nat
        /\ \A i \in 1..n : Passed(queue'[t][i], queue[t][i], token[t])
        /\ queue'[t][n + 1].body = view[t] /\ queue'[t][n + 1].next = next
        /\ \/ queue'[t][n + 1].phase = "queued"
           \/ queue'[t][n + 1].phase = "sent" /\ queue'[t][n + 1].expected = token[t]
    BY <2>1, SaveQueue
  <2>3. view' = view /\ clean' = clean /\ token' = token /\ call' = call
    BY <2>1 DEF Save
  <2>4. next \in {"nothing", "start"}
    BY DEF Continuations
  <2> HIDE DEF n
  <2>5. ASSUME NEW i \in 1..Len(queue'[t])
        PROVE  /\ queue'[t][i].next \in {"nothing", "start"}
               /\ token[t] = stamp \/ (queue'[t][i].phase = "sent" /\ queue'[t][i].expected = stamp)
                    => EditsOf(doc) \subseteq EditsOf(queue'[t][i].body)
    <3>1. CASE i \in 1..n
      <4>1. Passed(queue'[t][i], queue[t][i], token[t])
        BY <2>2, <3>1
      <4>2. QED
        BY <1>1, <3>1, <4>1 DEF TabCalm, Passed, Same, n
    <3>2. CASE i = n + 1
      <4>1. token[t] = stamp => EditsOf(doc) \subseteq EditsOf(view[t])
        BY <1>1 DEF TabCalm
      <4>2. QED
        BY <2>2, <2>4, <3>2, <4>1
    <3>3. QED
      BY <2>2, <3>1, <3>2
  <2>6. QED
    BY <1>1, <2>3, <2>5 DEF TabCalm
<1>4. CASE Lose(t) \/ Refuse(t)
  <2> DEFINE n == Len(queue[t])
  <2>1. /\ n \in Nat /\ Len(queue'[t]) = n - 1
        /\ \A i \in 1..n - 1 : Passed(queue'[t][i], queue[t][i + 1], token'[t])
        /\ token'[t] = token[t] /\ view'[t] = view[t] /\ clean'[t] = clean[t]
    BY <1>4, RestQueue
  <2>2. call' = call
    BY <1>4 DEF Lose, Refuse
  <2> HIDE DEF n
  <2>3. ASSUME NEW i \in 1..Len(queue'[t])
        PROVE  /\ queue'[t][i].next \in {"nothing", "start"}
               /\ token[t] = stamp \/ (queue'[t][i].phase = "sent" /\ queue'[t][i].expected = stamp)
                    => EditsOf(doc) \subseteq EditsOf(queue'[t][i].body)
    <3>1. i \in 1..n - 1 /\ i + 1 \in 1..n
      BY <2>1
    <3>2. Passed(queue'[t][i], queue[t][i + 1], token[t])
      BY <2>1, <3>1
    <3>3. QED
      BY <1>1, <3>1, <3>2 DEF TabCalm, Passed, Same, n
  <2>4. QED
    BY <1>1, <2>1, <2>2, <2>3 DEF TabCalm
<1>5. CASE HandleAnswer(t)
  <2> DEFINE n == Len(queue[t])
             answer == queue[t][1]
  <2>1. /\ n \in Nat /\ 1 \in 1..n /\ Len(queue'[t]) = n - 1
        /\ \A i \in 1..n - 1 : Passed(queue'[t][i], queue[t][i + 1], token'[t])
        /\ IsVersion(answer.body, answer.expected) /\ token'[t] = answer.expected
        /\ answer.touched => view'[t] = view[t] /\ clean'[t] = clean[t]
        /\ ~answer.touched => view'[t] = answer.body
    BY <1>5, RestQueue
  <2>2. call'[t] = IF answer.next = "nothing" THEN call[t] ELSE [phase |-> answer.next]
    BY <1>1, <1>5 DEF HandleAnswer, Shape
  <2>3. call'[t].phase \in {"none", "start", "started"}
    BY <1>1, <2>1, <2>2 DEF TabCalm
  <2>4. token'[t] = stamp => answer.body = doc
    BY <2>1 DEF IsVersion
  <2>5. answer.touched => ~clean[t]
    BY <1>1, <2>1 DEF TabOrdered
  <2>6. EditsOf(view'[t]) = EditsOf(view[t])
    BY <1>1, <1>5, AnswerKeepsText
  <2>7. token'[t] = stamp => EditsOf(doc) \subseteq EditsOf(view'[t])
    BY <1>1, <2>1, <2>4, <2>6 DEF TabOrdered
  <2>8. clean'[t] /\ token'[t] = stamp => view'[t].chapters = doc.chapters
    BY <2>1, <2>4, <2>5
  <2>9. ASSUME NEW i \in 1..Len(queue'[t])
        PROVE  /\ queue'[t][i].next \in {"nothing", "start"}
               /\ token'[t] = stamp \/ (queue'[t][i].phase = "sent" /\ queue'[t][i].expected = stamp)
                    => EditsOf(doc) \subseteq EditsOf(queue'[t][i].body)
    <3>1. i \in 1..n - 1 /\ i + 1 \in 1..n /\ 1 < i + 1
      BY <2>1
    <3>2. Passed(queue'[t][i], queue[t][i + 1], token'[t])
      BY <2>1, <3>1
    <3>3. EditsOf(answer.body) \subseteq EditsOf(queue[t][i + 1].body)
      BY <1>1, <2>1, <3>1 DEF TabOrdered
    <3>4. token'[t] = stamp => EditsOf(doc) \subseteq EditsOf(queue[t][i + 1].body)
      BY <2>4, <3>3
    <3>5. /\ queue[t][i + 1].next \in {"nothing", "start"}
          /\ queue[t][i + 1].phase = "sent" /\ queue[t][i + 1].expected = stamp
               => EditsOf(doc) \subseteq EditsOf(queue[t][i + 1].body)
      BY <1>1, <3>1 DEF TabCalm
    <3> HIDE DEF n, answer
    <3>6. QED
      BY <3>2, <3>4, <3>5 DEF Passed, Same
  <2>10. QED
    BY <1>1, <2>3, <2>7, <2>8, <2>9 DEF TabCalm
<1>6. CASE LoadProject(t) \/ ProjectGet(t) \/ CallFails(t)
  <2>1. /\ queue' = queue /\ view' = view /\ token' = token /\ clean' = clean
        /\ call'[t] = call[t] \/ call'[t] = NoCall
    BY <1>1, <1>6 DEF LoadProject, ProjectGet, CallFails, Shape
  <2>2. call'[t].phase \in {"none", "start", "started"}
    BY <1>1, <2>1 DEF TabCalm, NoCall
  <2>3. QED
    BY <1>1, <2>1, <2>2 DEF TabCalm
<1>7. CASE AdoptLoaded(t)
  <2>1. /\ reload[t].phase = "answered" /\ queue' = queue /\ call' = call
        /\ view'[t] = reload[t].doc /\ token'[t] = reload[t].at
    BY <1>1, <1>7 DEF AdoptLoaded, Shape
  <2>2. queue[t] = <<>>
    BY <1>1, <2>1 DEF TabOrdered, NoReload
  <2>3. token'[t] = stamp => view'[t] = doc
    BY <1>1, <2>1 DEF TabWell, IsVersion
  <2>4. QED
    BY <1>1, <2>1, <2>2, <2>3 DEF TabCalm
<1>8. CASE AdoptStarted(t)
  <2>1. /\ call[t].phase = "started" /\ queue' = queue /\ queue[t] = <<>>
        /\ view'[t] = call[t].doc /\ token'[t] = call[t].at /\ call'[t] = NoCall
    BY <1>1, <1>8 DEF AdoptStarted, Shape
  <2>2. token'[t] = stamp => view'[t] = doc
    BY <1>1, <2>1 DEF TabWell, IsVersion
  <2>3. QED
    BY <1>1, <2>1, <2>2 DEF TabCalm, NoCall
<1>9. CASE AdoptStamp(t) \/ CheckedStartBegin(t)
  BY <1>1, <1>9 DEF AdoptStamp, CheckedStartBegin, TabCalm
<1>10. QED
  BY <1>2, <1>3, <1>4, <1>5, <1>6, <1>7, <1>8, <1>9 DEF Local

LEMMA WritesCalm ==
  ASSUME BaseInv, CalmInv, Races = {}, NEW t \in Tabs, Writes(t)
  PROVE  /\ TabCalm(t)' /\ restores' \in Nat /\ (run' # NoDoc => run' = doc')
         /\ Accept(t) \/ Start(t) \/ Cleanup(t) \/ \E k \in 1..KeepRevisions : RestoreRevision(t, k)
<1>1. Shape /\ TabCalm(t) /\ StoreStep /\ restores \in Nat
  BY Written DEF BaseInv, CalmInv, Shape, Writes
<1>2. CASE Accept(t)
  <2>1. /\ view' = view /\ token' = token /\ clean' = clean /\ call' = call
        /\ run' = run /\ run = NoDoc /\ restores' = restores
    BY <1>2 DEF Accept
  <2>2. /\ 1 \in 1..Len(queue[t]) /\ Len(queue'[t]) = Len(queue[t]) /\ queue'[t][1].body = doc'
        /\ queue'[t][1].next = queue[t][1].next
        /\ \A i \in 1..Len(queue[t]) : i # 1 => queue'[t][i] = queue[t][i]
    BY <1>2, AcceptQueue
  <2>3. ASSUME NEW i \in 1..Len(queue'[t])
        PROVE  /\ queue'[t][i].next \in {"nothing", "start"}
               /\ token'[t] = stamp' \/ (queue'[t][i].phase = "sent" /\ queue'[t][i].expected = stamp')
                    => EditsOf(doc') \subseteq EditsOf(queue'[t][i].body)
    <3>1. queue[t][i].next \in {"nothing", "start"}
      BY <1>1, <2>2 DEF TabCalm
    <3>2. CASE i = 1
      BY <2>2, <3>1, <3>2
    <3>3. CASE i # 1
      BY <1>1, <2>1, <2>2, <3>1, <3>3, CalmStays
    <3>4. QED
      BY <3>2, <3>3
  <2>4. /\ clean'[t] /\ token'[t] = stamp' => view'[t].chapters = doc'.chapters
        /\ token'[t] = stamp' => EditsOf(doc') \subseteq EditsOf(view'[t])
    BY <1>1, <2>1, CalmStays
  <2>5. TabCalm(t)'
    BY <1>1, <2>1, <2>3, <2>4 DEF TabCalm
  <2>6. QED
    BY <1>1, <1>2, <2>1, <2>5
<1>3. ASSUME view' = view, token' = token, clean' = clean, queue' = queue,
             call'[t].phase \in {"none", "start", "started"}
      PROVE  TabCalm(t)'
  <2>1. \A i \in 1..Len(queue[t]) : queue[t][i].next \in {"nothing", "start"}
    BY <1>1 DEF TabCalm
  <2>2. QED
    BY <1>1, <1>3, <2>1, CalmStays DEF TabCalm
<1>4. CASE Start(t)
  <2>1. /\ view' = view /\ token' = token /\ clean' = clean /\ queue' = queue
        /\ call'[t] = [phase |-> "started", doc |-> doc', at |-> stamp']
        /\ run' = doc' /\ restores' = restores
    BY <1>1, <1>4 DEF Start, Shape
  <2>2. call'[t].phase = "started"
    BY <2>1
  <2>3. QED
    BY <1>1, <1>3, <1>4, <2>1, <2>2
<1>5. CASE Cleanup(t) \/ \E k \in 1..KeepRevisions : RestoreRevision(t, k)
  <2>1. /\ view' = view /\ token' = token /\ clean' = clean /\ queue' = queue /\ call' = call
        /\ run' = run /\ run = NoDoc /\ restores' \in {restores, restores + 1}
    BY <1>5 DEF Cleanup, RestoreRevision, ReloadAfter
  <2>2. call'[t].phase \in {"none", "start", "started"} /\ restores' \in Nat
    BY <1>1, <2>1 DEF TabCalm
  <2>3. QED
    BY <1>3, <1>5, <2>1, <2>2
<1>6. CASE Preflight(t) \/ CheckedStartRefused(t) \/ CheckedStartCommit(t)
  BY <1>1, <1>6 DEF TabCalm, Preflight, CheckedStartRefused, CheckedStartCommit
<1>7. QED
  BY <1>2, <1>4, <1>5, <1>6 DEF Writes

LEMMA StepCalm ==
  ASSUME BaseInv, QueueInv, CalmInv, Races = {}, [Next]_vars
  PROVE  CalmInv'
<1>1. StoreStep
  BY NextStoreStep
<1>2. ASSUME NEW u \in Tabs, Untouched(u) PROVE TabCalm(u)'
  <2>1. TabCalm(u)
    BY DEF CalmInv
  <2>2. /\ view'[u] = view[u] /\ token'[u] = token[u] /\ clean'[u] = clean[u]
        /\ queue'[u] = queue[u] /\ call'[u] = call[u]
    BY <1>2 DEF Untouched
  <2>3. /\ clean'[u] /\ token'[u] = stamp' => view'[u].chapters = doc'.chapters
        /\ token'[u] = stamp' => EditsOf(doc') \subseteq EditsOf(view'[u])
        /\ \A i \in 1..Len(queue[u]) :
             token'[u] = stamp' \/ (queue[u][i].phase = "sent" /\ queue[u][i].expected = stamp')
               => EditsOf(doc') \subseteq EditsOf(queue[u][i].body)
    BY <1>1, <2>1, <2>2, CalmStays
  <2>4. QED
    BY <2>1, <2>2, <2>3 DEF TabCalm
<1>3. ASSUME NEW t \in Tabs, Local(t) PROVE CalmInv'
  <2>1. run' = run /\ doc' = doc
    BY <1>3, LocalStays DEF storeVars
  <2>2. restores' = restores
    BY <1>3 DEF Local, Edit, Save, HandleAnswer, Lose, Refuse, LoadProject, ProjectGet, AdoptLoaded,
                AdoptStamp, AdoptStarted, CallFails, CheckedStartBegin
  <2>3. \A u \in Tabs : TabCalm(u)'
    BY <1>2, <1>3, LocalShape, LocalCalm
  <2>4. QED
    BY <2>1, <2>2, <2>3 DEF CalmInv
<1>4. ASSUME NEW t \in Tabs, Writes(t) PROVE CalmInv'
  <2>1. TabCalm(t)' /\ restores' \in Nat /\ (run' # NoDoc => run' = doc')
    BY <1>4, WritesCalm
  <2>2. \A u \in Tabs : TabCalm(u)'
    BY <1>2, <1>4, <2>1, WritesShape
  <2>3. QED
    BY <2>1, <2>2 DEF CalmInv
<1>5. CASE RunSave \/ RunReplan \/ RunEnd \/ UNCHANGED vars
  <2>1. \A u \in Tabs : Untouched(u)
    BY <1>5 DEF RunSave, RunReplan, RunEnd, tabVars, vars, Untouched
  <2>2. restores' = restores /\ (run' \in {NoDoc, doc'} \/ (run' = run /\ doc' = doc))
    BY <1>5 DEF RunSave, RunReplan, RunEnd, vars, storeVars
  <2>3. QED
    BY <1>2, <2>1, <2>2 DEF CalmInv
<1>6. QED
  BY <1>3, <1>4, <1>5, Steps DEF Next

----------------------------------------------------------------------------
(***************************************************************************)
(* The memory mark.  Chapter 1 is settled for the empty text for good, so  *)
(* memory is stale as soon as it has one.  save marks it when the          *)
(* submitted text differs from the stored one and keeps the submitted mark *)
(* when it does not, so a document without the mark must not be submitted  *)
(* with the text that is stored: under the stored stamp it either is the   *)
(* marked document or has an edit that the stored one lacks.               *)
(***************************************************************************)
Known == typed \cup {RunEdit, CleanupFix}

Sound(d, known) ==
  /\ d.chapters[1].settled = {} /\ d.chapters[2].settled = NoText
  /\ EditsOf(d) \subseteq known

Marked(d) == d.chapters[1].text # {} => d.stale = 1
SameText(d, e) == d.chapters[1].text = e.chapters[1].text

TabMarked(t) ==
  /\ Sound(view[t], Known)
  /\ token[t] = stamp /\ SameText(view[t], doc) => Marked(view[t])
  /\ Len(queue[t]) <= 1
  /\ \A i \in 1..Len(queue[t]) :
       /\ Sound(queue[t][i].body, Known)
       /\ queue[t][i].touched => ~SameText(queue[t][i].body, view[t])
       /\ queue[t][i].phase = "sent" /\ queue[t][i].expected = stamp /\ SameText(queue[t][i].body, doc)
            => Marked(queue[t][i].body)
  /\ reload[t].phase = "answered" => Sound(reload[t].doc, Known)
  /\ call[t].phase = "started" => Sound(call[t].doc, Known)

MarkInv ==
  /\ Sound(doc, Known) /\ Marked(doc)
  /\ \A k \in DOMAIN history : Sound(history[k], Known) /\ Marked(history[k])
  /\ \A t \in Tabs : TabMarked(t)

\* What an edit and new planning content leave alone.
LEMMA EditedParts ==
  ASSUME NEW d \in Docs
  PROVE  /\ \A e \in Edits :
              /\ WithEdit(d, e).chapters[1].settled = d.chapters[1].settled
              /\ WithEdit(d, e).chapters[2].settled = d.chapters[2].settled
              /\ WithEdit(d, e).stale = d.stale
              /\ Place(e) = 1 => WithEdit(d, e).chapters[1].text = d.chapters[1].text \cup {e}
              /\ Place(e) = 2 => WithEdit(d, e).chapters[1].text = d.chapters[1].text
         /\ \A p : /\ [d EXCEPT !.plan = p].stale = d.stale
                   /\ [d EXCEPT !.plan = p].chapters = d.chapters
<1>1. d.chapters \in [1..2 -> Chapter] /\ Chapters = 1..2
  BY InstanceAssumption DEF Docs, Chapters
<1>2. ASSUME NEW e \in Edits
      PROVE  /\ WithEdit(d, e).chapters[1].settled = d.chapters[1].settled
             /\ WithEdit(d, e).chapters[2].settled = d.chapters[2].settled
             /\ WithEdit(d, e).stale = d.stale
             /\ Place(e) = 1 => WithEdit(d, e).chapters[1].text = d.chapters[1].text \cup {e}
             /\ Place(e) = 2 => WithEdit(d, e).chapters[1].text = d.chapters[1].text
  <2> DEFINE p == Place(e)
             c == [d.chapters[p] EXCEPT !.text = @ \cup {e}]
  <2>1. p \in 1..2
    BY DEF Place
  <2>2. WithEdit(d, e) = [d EXCEPT !.chapters = [d.chapters EXCEPT ![p] = c]]
    BY <1>1, <2>1 DEF WithEdit
  <2>3. c.text = d.chapters[p].text \cup {e} /\ c.settled = d.chapters[p].settled
    <3>1. d.chapters[p] \in Chapter
      BY <1>1, <2>1
    <3>2. QED
      BY <3>1 DEF Chapter
  <2> HIDE DEF p, c
  <2>4. /\ WithEdit(d, e).chapters = [d.chapters EXCEPT ![p] = c]
        /\ WithEdit(d, e).stale = d.stale
    BY <2>2 DEF Docs
  <2>5. WithEdit(d, e).chapters[1] = (IF p = 1 THEN c ELSE d.chapters[1])
        /\ WithEdit(d, e).chapters[2] = (IF p = 2 THEN c ELSE d.chapters[2])
    BY <1>1, <2>1, <2>4
  <2>6. QED
    BY <2>1, <2>3, <2>4, <2>5 DEF p
<1>3. \A p : [d EXCEPT !.plan = p].stale = d.stale /\ [d EXCEPT !.plan = p].chapters = d.chapters
  BY DEF Docs
<1>4. QED
  BY <1>2, <1>3

\* What save makes of a sound document is marked when it has to be.
LEMMA MergedMarked ==
  ASSUME NEW old \in Docs, NEW new \in Docs, NEW known, Sound(old, known), Sound(new, known),
         SameText(new, old) => Marked(new)
  PROVE  Sound(Merged(old, new), known) /\ Marked(Merged(old, new))
<1>1. /\ Merged(old, new).chapters = new.chapters
      /\ Merged(old, new).stale = Invalidated(old, new)
  BY DEF Merged
<1>2. Sound(Merged(old, new), known)
  BY <1>1 DEF Sound, EditsOf
<1>3. SUFFICES ASSUME new.chapters[1].text # {} PROVE Invalidated(old, new) = 1
  BY <1>1, <1>2 DEF Marked
<1>4. /\ old.chapters[1].settled = {} /\ new.chapters[1].settled = {}
      /\ old.chapters[2].settled = NoText /\ {} # NoText
      /\ Chapters = 1..2 /\ new.stale \in 0..2
  BY InstanceAssumption, ValuesAssumption DEF Sound, Chapters, Docs
<1>5. CASE SameText(new, old)
  <2>1. new.stale = 1
    BY <1>3, <1>5 DEF Marked
  <2>2. ChangedFrom(old, new) = {}
    BY <1>4, <1>5 DEF ChangedFrom, SameText
  <2>3. QED
    BY <2>1, <2>2 DEF Invalidated
<1>6. CASE ~SameText(new, old)
  <2>1. ChangedFrom(old, new) = {1}
    BY <1>3, <1>4, <1>6 DEF ChangedFrom, SameText
  <2> DEFINE S == {1} \cup ({new.stale} \ {0})
  <2>2. ChangedFrom(old, new) \cap Chapters = {1}
    BY <1>4, <2>1
  <2>3. Invalidated(old, new) = Min(S)
    BY <2>2 DEF Invalidated
  <2>4. 1 \in S /\ \A y \in S : y \in Nat /\ 1 <= y
    BY <1>4
  <2> HIDE DEF S
  <2>5. Min(S) = 1
    BY <2>4 DEF Min
  <2>6. QED
    BY <2>3, <2>5
<1>7. QED
  BY <1>5, <1>6

LEMMA SoundGrows ==
  ASSUME NEW d, NEW known, NEW more, known \subseteq more, Sound(d, known)
  PROVE  Sound(d, more)
BY DEF Sound

\* The text of a settled chapter that gets an edit is not the text that lacks it.
LEMMA NewEdit ==
  ASSUME NEW d \in Docs, NEW e \in Edits, NEW c, e \notin EditsOf(c), Place(e) = 1
  PROVE  ~SameText(WithEdit(d, e), c) /\ ~SameText(c, WithEdit(d, e))
BY EditedParts DEF SameText, EditsOf

LEMMA LocalMarked ==
  ASSUME BaseInv, QueueInv, CalmInv, MarkInv, Races = {}, MaxQueue = 1, NEW t \in Tabs, Local(t)
  PROVE  TabMarked(t)' /\ Known \subseteq Known'
<1>1. /\ Shape /\ TabWell(t) /\ TabOrdered(t) /\ TabCalm(t) /\ TabMarked(t)
      /\ doc' = doc /\ stamp' = stamp
      /\ Len(<<>>) = 0 /\ view[t] \in Docs
      /\ Sound(doc, Known) /\ Marked(doc)
  BY LocalStays, EmptySeq DEF BaseInv, QueueInv, CalmInv, MarkInv, Shape, storeVars, TabWell
<1>2. CASE \E e \in ProseEdits \cup DraftEdits : Edit(t, e)
  <2>1. PICK e \in ProseEdits \cup DraftEdits : Edit(t, e)
    BY <1>2
  <2>2. /\ view'[t] = WithEdit(view[t], e) /\ EditsOf(view'[t]) = EditsOf(view[t]) \cup {e}
        /\ Len(queue'[t]) = Len(queue[t])
        /\ \A i \in 1..Len(queue[t]) :
             /\ queue'[t][i].body = queue[t][i].body
             /\ queue'[t][i].phase = queue[t][i].phase
             /\ queue'[t][i].expected = queue[t][i].expected
    BY <2>1, EditQueue
  <2>3. /\ token' = token /\ reload' = reload /\ call' = call /\ typed' = typed \cup {e}
        /\ e \notin typed /\ (e \in DraftEdits => queue[t] = <<>>)
    BY <2>1 DEF Edit
  <2>4. e \in Edits /\ e \notin Known /\ Known' = Known \cup {e}
    BY <2>3, EditsAssumption DEF Known, Edits
  <2>5. Known \subseteq Known'
    BY <2>4
  <2>6. Sound(view'[t], Known')
    <3>1. EditsOf(view'[t]) \subseteq Known'
      BY <1>1, <2>2, <2>4 DEF TabMarked, Sound
    <3>2. /\ WithEdit(view[t], e).chapters[1].settled = view[t].chapters[1].settled
          /\ WithEdit(view[t], e).chapters[2].settled = view[t].chapters[2].settled
      BY <1>1, <2>4, EditedParts
    <3>3. Sound(view[t], Known)
      BY <1>1 DEF TabMarked
    <3> QED BY <2>2, <3>1, <3>2, <3>3 DEF Sound
  <2>7. ASSUME NEW i \in 1..Len(queue[t]) PROVE Sound(queue[t][i].body, Known')
    BY <1>1, <2>5, SoundGrows DEF TabMarked
  <2>8. /\ reload'[t].phase = "answered" => Sound(reload'[t].doc, Known')
        /\ call'[t].phase = "started" => Sound(call'[t].doc, Known')
    BY <1>1, <2>3, <2>5, SoundGrows DEF TabMarked
  <2>9. ASSUME NEW i \in 1..Len(queue[t])
        PROVE  queue[t][i].phase = "sent" /\ queue[t][i].expected = stamp /\ SameText(queue[t][i].body, doc)
                 => Marked(queue[t][i].body)
    BY <1>1 DEF TabMarked
  <2>10. CASE Place(e) = 1
    <3>1. ~SameText(view'[t], doc)
      <4>1. EditsOf(doc) \subseteq Known
        BY <1>1 DEF Sound
      <4>2. QED
        BY <1>1, <2>2, <2>4, <2>10, <4>1, NewEdit
    <3>2. \A i \in 1..Len(queue[t]) : ~SameText(queue[t][i].body, view'[t])
      <4>1. \A i \in 1..Len(queue[t]) : e \notin EditsOf(queue[t][i].body)
        BY <1>1, <2>4 DEF TabMarked, Sound
      <4> QED BY <1>1, <2>2, <2>4, <2>10, <4>1, NewEdit
    <3>3. QED
      BY <1>1, <2>2, <2>3, <2>5, <2>6, <2>7, <2>8, <2>9, <3>1, <3>2 DEF TabMarked
  <2>11. CASE Place(e) = 2
    <3>1. queue[t] = <<>>
      BY <2>3, <2>11 DEF Place
    <3>2. view'[t].chapters[1].text = view[t].chapters[1].text /\ view'[t].stale = view[t].stale
      BY <1>1, <2>2, <2>4, <2>11, EditedParts
    <3>3. token'[t] = stamp /\ SameText(view'[t], doc) => Marked(view'[t])
      BY <1>1, <2>3, <3>2 DEF TabMarked, SameText, Marked
    <3>4. QED
      BY <1>1, <2>2, <2>3, <2>5, <2>6, <2>8, <3>1, <3>3 DEF TabMarked
  <2>12. QED
    BY <2>10, <2>11 DEF Place
<1>3. CASE \E next \in Continuations : Save(t, next)
  <2>1. PICK next \in Continuations : Save(t, next)
    BY <1>3
  <2>2. /\ Len(queue'[t]) = Len(queue[t]) + 1 /\ Len(queue[t]) \in Nat
        /\ queue'[t][Len(queue[t]) + 1].body = view[t]
        /\ queue'[t][Len(queue[t]) + 1].touched = FALSE
        /\ \/ queue'[t][Len(queue[t]) + 1].phase = "queued"
           \/ /\ queue'[t][Len(queue[t]) + 1].phase = "sent"
              /\ queue'[t][Len(queue[t]) + 1].expected = token[t]
    BY <2>1, SaveQueue
  <2>3. /\ view' = view /\ token' = token /\ reload' = reload /\ call' = call /\ typed' = typed
        /\ Len(queue[t]) < 1
    BY <2>1 DEF Save
  <2>4. /\ Len(queue'[t]) = 1 /\ queue'[t][1].body = view[t] /\ queue'[t][1].touched = FALSE
        /\ queue'[t][1].phase = "sent" => queue'[t][1].expected = token[t]
    <3>1. Len(queue[t]) = 0
      BY <2>2, <2>3
    <3>2. QED
      BY <2>2, <3>1
  <2>5. \A i \in 1..Len(queue'[t]) :
          /\ Sound(queue'[t][i].body, Known)
          /\ queue'[t][i].touched => ~SameText(queue'[t][i].body, view[t])
          /\ queue'[t][i].phase = "sent" /\ queue'[t][i].expected = stamp /\ SameText(queue'[t][i].body, doc)
               => Marked(queue'[t][i].body)
    BY <1>1, <2>4 DEF TabMarked
  <2>6. Known' = Known
    BY <2>3 DEF Known
  <2>7. QED
    BY <1>1, <2>3, <2>4, <2>5, <2>6 DEF TabMarked
<1>4. CASE Lose(t) \/ Refuse(t) \/ HandleAnswer(t)
  <2>1. /\ 1 \in 1..Len(queue[t]) /\ Len(queue[t]) \in Nat /\ Len(queue'[t]) = Len(queue[t]) - 1
        /\ Lose(t) \/ Refuse(t) => token'[t] = token[t] /\ view'[t] = view[t]
        /\ HandleAnswer(t) =>
             /\ IsVersion(queue[t][1].body, queue[t][1].expected)
             /\ token'[t] = queue[t][1].expected
             /\ queue[t][1].touched => view'[t] = view[t]
             /\ ~queue[t][1].touched => view'[t] = queue[t][1].body
    BY <1>4, RestQueue
  <2>2. Len(queue'[t]) = 0
    <3>1. Len(queue[t]) <= 1
      BY <1>1 DEF TabMarked
    <3>2. Len(queue[t]) = 1
      <4>1. 1 \in 1..Len(queue[t]) /\ Len(queue[t]) \in Nat
        BY <2>1
      <4> DEFINE n == Len(queue[t])
      <4> HIDE DEF n
      <4>2. 1 \in 1..n /\ n \in Nat /\ n <= 1
        BY <3>1, <4>1 DEF n
      <4>3. n = 1
        BY ONLY <4>2
      <4>4. QED
        BY <4>3 DEF n
    <3>3. QED
      BY <2>1, <3>2
  <2>3. Known' = Known /\ reload' = reload /\ (call'[t] = call[t] \/ call'[t].phase # "started")
    <3>1. typed' = typed /\ reload' = reload
      BY <1>4 DEF Lose, Refuse, HandleAnswer
    <3>2. call'[t] = call[t] \/ call'[t] = [phase |-> queue[t][1].next]
      BY <1>1, <1>4 DEF Lose, Refuse, HandleAnswer, Shape
    <3>3. queue[t][1].next \in {"nothing", "start"}
      BY <1>1, <2>1 DEF TabCalm
    <3>4. QED
      BY <3>1, <3>2, <3>3 DEF Known
  <2>4. Sound(view'[t], Known)
    <3>1. Sound(queue[t][1].body, Known) /\ Sound(view[t], Known)
      BY <1>1, <2>1 DEF TabMarked
    <3>2. view'[t] \in {view[t], queue[t][1].body}
      BY <1>4, <2>1
    <3>3. QED
      BY <3>1, <3>2
  <2>5. token'[t] = stamp /\ SameText(view'[t], doc) => Marked(view'[t])
    <3>1. CASE Lose(t) \/ Refuse(t)
      BY <1>1, <2>1, <3>1 DEF TabMarked
    <3>2. CASE HandleAnswer(t)
      <4> SUFFICES ASSUME token'[t] = stamp, SameText(view'[t], doc) PROVE Marked(view'[t])
        OBVIOUS
      <4>1. queue[t][1].body = doc
        BY <2>1, <3>2 DEF IsVersion
      <4>2. CASE queue[t][1].touched
        <5>1. ~SameText(doc, view[t])
          BY <1>1, <2>1, <4>1, <4>2 DEF TabMarked
        <5>2. view'[t] = view[t]
          BY <2>1, <3>2, <4>2
        <5>3. QED
          BY <5>1, <5>2 DEF SameText
      <4>3. CASE ~queue[t][1].touched
        <5>1. view'[t] = doc
          BY <2>1, <3>2, <4>1, <4>3
        <5>2. QED
          BY <1>1, <5>1
      <4>4. QED
        BY <4>2, <4>3
    <3>3. QED
      BY <1>4, <3>1, <3>2
  <2>6. QED
    BY <1>1, <2>2, <2>3, <2>4, <2>5 DEF TabMarked
<1>5. CASE LoadProject(t) \/ ProjectGet(t) \/ CallFails(t)
  <2>1. /\ queue' = queue /\ view' = view /\ token' = token /\ typed' = typed
        /\ \/ reload'[t] = reload[t] \/ reload'[t] = [phase |-> "asked"]
           \/ reload'[t] = [phase |-> "answered", doc |-> doc, at |-> stamp]
        /\ call'[t] = call[t] \/ call'[t] = NoCall
    BY <1>1, <1>5 DEF LoadProject, ProjectGet, CallFails, Shape
  <2>2. /\ reload'[t].phase = "answered" => Sound(reload'[t].doc, Known)
        /\ call'[t].phase = "started" => Sound(call'[t].doc, Known)
    BY <1>1, <2>1 DEF TabMarked, NoCall
  <2>3. Known' = Known
    BY <2>1 DEF Known
  <2>4. QED
    BY <1>1, <2>1, <2>2, <2>3 DEF TabMarked
<1>6. CASE AdoptLoaded(t) \/ AdoptStarted(t)
  <2>1. /\ queue' = queue /\ typed' = typed
        /\ reload'[t] = reload[t] \/ reload'[t] = NoReload
        /\ call'[t] = call[t] \/ call'[t] = NoCall
        /\ \/ reload[t].phase = "answered" /\ view'[t] = reload[t].doc /\ token'[t] = reload[t].at
           \/ /\ call[t].phase = "started" /\ view'[t] = call[t].doc /\ token'[t] = call[t].at
              /\ queue[t] = <<>>
    BY <1>1, <1>6 DEF AdoptLoaded, AdoptStarted, Shape
  <2>2. queue[t] = <<>>
    <3>1. reload[t].phase = "answered" => reload[t] # NoReload
      BY DEF NoReload
    <3>2. QED
      BY <1>1, <2>1, <3>1 DEF TabOrdered
  <2>3. Sound(view'[t], Known) /\ (token'[t] = stamp => view'[t] = doc)
    BY <1>1, <2>1 DEF TabMarked, TabWell, IsVersion
  <2>4. /\ reload'[t].phase = "answered" => Sound(reload'[t].doc, Known)
        /\ call'[t].phase = "started" => Sound(call'[t].doc, Known)
    BY <1>1, <2>1 DEF TabMarked, NoCall, NoReload
  <2>5. Known' = Known
    BY <2>1 DEF Known
  <2>6. QED
    BY <1>1, <2>1, <2>2, <2>3, <2>4, <2>5 DEF TabMarked
<1>7. CASE AdoptStamp(t) \/ CheckedStartBegin(t)
  BY <1>1, <1>7 DEF AdoptStamp, CheckedStartBegin, TabCalm
<1>8. QED
  BY <1>2, <1>3, <1>4, <1>5, <1>6, <1>7 DEF Local

\* The version that a step stores is marked, and so are the revisions it keeps.
LEMMA StoredMarked ==
  ASSUME BaseInv, MarkInv, StoreStep, NEW s \in Docs, Sound(s, Known),
         SameText(s, doc) => Marked(s), doc' = Merged(doc, s)
  PROVE  /\ Sound(doc', Known) /\ Marked(doc')
         /\ \A k \in DOMAIN history' : Sound(history'[k], Known) /\ Marked(history'[k])
<1>1. /\ doc \in Docs /\ history \in Seq(Docs)
      /\ Sound(doc, Known) /\ Marked(doc)
      /\ \A k \in DOMAIN history : Sound(history[k], Known) /\ Marked(history[k])
  BY Submitted DEF MarkInv
<1>2. Sound(doc', Known) /\ Marked(doc')
  BY <1>1, MergedMarked
<1>3. CASE history' = history
  BY <1>1, <1>2, <1>3
<1>4. CASE history' = Newest(Append(history, doc), KeepRevisions)
  <2> DEFINE a == Append(history, doc)
  <2>1. /\ a \in Seq(Docs) /\ Len(a) = Len(history) + 1 /\ Len(history) \in Nat
        /\ DOMAIN history = 1..Len(history)
        /\ (\A i \in 1..Len(history) : a[i] = history[i]) /\ a[Len(history) + 1] = doc
    BY <1>1, AppendProperties, LenProperties
  <2>2. \A i \in 1..Len(a) : Sound(a[i], Known) /\ Marked(a[i])
    BY <1>1, <2>1
  <2> HIDE DEF a
  <2>3. /\ Newest(a, KeepRevisions) \in Seq(Docs)
        /\ \E off \in Nat : \A i \in 1..Len(Newest(a, KeepRevisions)) :
             i + off \in 1..Len(a) /\ Newest(a, KeepRevisions)[i] = a[i + off]
    <3>1. a \in Seq(Docs) /\ KeepRevisions \in Nat
      BY <2>1, SizesAssumption
    <3>2. QED
      BY ONLY <3>1, NewestIsSuffix
  <2>4. DOMAIN Newest(a, KeepRevisions) = 1..Len(Newest(a, KeepRevisions))
    BY <2>3, LenProperties
  <2>5. history' = Newest(a, KeepRevisions)
    BY <1>4 DEF a
  <2>6. QED
    BY <1>2, <2>2, <2>3, <2>4, <2>5
<1>5. QED
  BY <1>3, <1>4 DEF StoreStep

\* Every version that is submitted with the windows closed can be stored.
LEMMA WrittenMarked ==
  ASSUME BaseInv, QueueInv, CalmInv, MarkInv, Races = {},
         \/ \E t \in Tabs : Writes(t)
         \/ RunSave \/ RunReplan
  PROVE  /\ Sound(doc', Known) /\ Marked(doc')
         /\ \A k \in DOMAIN history' : Sound(history'[k], Known) /\ Marked(history'[k])
<1>1. /\ doc \in Docs /\ history \in Seq(Docs) /\ Sound(doc, Known) /\ Marked(doc)
      /\ RunEdit \in Edits /\ CleanupFix \in Edits /\ RunEdit \in Known /\ CleanupFix \in Known
  BY Submitted DEF MarkInv, Edits, Known
<1>2. /\ [doc EXCEPT !.plan = stamp].chapters = doc.chapters
      /\ [doc EXCEPT !.plan = stamp].stale = doc.stale
  BY <1>1, EditedParts
<1>3. /\ Sound([doc EXCEPT !.plan = stamp], Known) /\ Marked([doc EXCEPT !.plan = stamp])
  BY <1>1, <1>2 DEF Sound, Marked, EditsOf
<1>4. ASSUME NEW e \in {RunEdit, CleanupFix} PROVE Sound(WithEdit(doc, e), Known)
  <2>1. e \in Edits /\ e \in Known
    BY <1>1
  <2>2. EditsOf(WithEdit(doc, e)) = EditsOf(doc) \cup {e}
    BY <1>1, <2>1, EditedDocs
  <2>3. QED
    BY <1>1, <2>1, <2>2, EditedParts DEF Sound
<1>5. ASSUME NEW t \in Tabs, Accept(t)
      PROVE  /\ Sound(doc', Known) /\ Marked(doc')
             /\ \A k \in DOMAIN history' : Sound(history'[k], Known) /\ Marked(history'[k])
  <2> DEFINE s == queue[t][1].body
  <2>1. /\ 1 \in 1..Len(queue[t]) /\ queue[t][1].phase = "sent" /\ queue[t][1].expected = stamp
        /\ s \in Docs /\ doc' = Merged(doc, s)
    BY <1>5, AcceptQueue
  <2>2. Sound(s, Known) /\ (SameText(s, doc) => Marked(s))
    BY <2>1 DEF MarkInv, TabMarked
  <2>3. StoreStep
    BY <1>5, Written
  <2> HIDE DEF s
  <2>4. QED
    BY <2>1, <2>2, <2>3, StoredMarked
<1>6. ASSUME (\E t \in Tabs : Start(t)) \/ RunReplan
      PROVE  /\ Sound(doc', Known) /\ Marked(doc')
             /\ \A k \in DOMAIN history' : Sound(history'[k], Known) /\ Marked(history'[k])
  <2>1. StoreStep /\ doc' = Merged(doc, [doc EXCEPT !.plan = stamp])
    BY <1>6, Written
  <2>2. CanWrite
    BY <1>6 DEF Start, RunReplan
  <2>3. [doc EXCEPT !.plan = stamp] \in Docs
    BY <2>2, Submitted
  <2> DEFINE s == [doc EXCEPT !.plan = stamp]
  <2>4. s \in Docs /\ Sound(s, Known) /\ Marked(s) /\ doc' = Merged(doc, s)
    BY <1>3, <2>1, <2>3
  <2> HIDE DEF s
  <2>5. QED
    BY <2>1, <2>4, StoredMarked
<1>7. ASSUME NEW t \in Tabs, Cleanup(t)
      PROVE  /\ Sound(doc', Known) /\ Marked(doc')
             /\ \A k \in DOMAIN history' : Sound(history'[k], Known) /\ Marked(history'[k])
  <2>1. StoreStep /\ doc' = Merged(doc, WithEdit(doc, CleanupFix))
    BY <1>7, Written
  <2>2. CleanupFix \notin doc.chapters[1].text
    BY <1>7 DEF Cleanup
  <2>3. WithEdit(doc, CleanupFix).chapters[1].text = doc.chapters[1].text \cup {CleanupFix}
    BY <1>1, EditedParts DEF Place
  <2>4. ~SameText(WithEdit(doc, CleanupFix), doc)
    BY <2>2, <2>3 DEF SameText
  <2>5. WithEdit(doc, CleanupFix) \in Docs
    BY Submitted
  <2> DEFINE s == WithEdit(doc, CleanupFix)
  <2>6. s \in Docs /\ Sound(s, Known) /\ ~SameText(s, doc) /\ doc' = Merged(doc, s)
    BY <1>4, <2>1, <2>4, <2>5
  <2> HIDE DEF s
  <2>7. QED
    BY <2>1, <2>6, StoredMarked
<1>8. ASSUME NEW t \in Tabs, NEW k \in 1..KeepRevisions, RestoreRevision(t, k)
      PROVE  /\ Sound(doc', Known) /\ Marked(doc')
             /\ \A j \in DOMAIN history' : Sound(history'[j], Known) /\ Marked(history'[j])
  <2>1. StoreStep /\ k \in DOMAIN history /\ doc' = Merged(doc, history[k])
    BY <1>8, Written
  <2>2. history[k] \in Docs /\ Sound(history[k], Known) /\ Marked(history[k])
    BY <2>1, Submitted DEF MarkInv
  <2>3. QED
    BY <2>1, <2>2, StoredMarked
<1>9. ASSUME RunSave
      PROVE  /\ Sound(doc', Known) /\ Marked(doc')
             /\ \A k \in DOMAIN history' : Sound(history'[k], Known) /\ Marked(history'[k])
  <2>1. StoreStep /\ doc' = Merged(doc, WithEdit(run, RunEdit)) /\ run = doc
    BY <1>9, Written DEF RunSave, CalmInv
  <2>2. Place(RunEdit) = 2
    BY EditsAssumption DEF Place
  <2>3. /\ WithEdit(doc, RunEdit).chapters[1].text = doc.chapters[1].text
        /\ WithEdit(doc, RunEdit).stale = doc.stale
    BY <1>1, <2>2, EditedParts
  <2>4. Marked(WithEdit(doc, RunEdit))
    BY <1>1, <2>3 DEF Marked
  <2>5. WithEdit(doc, RunEdit) \in Docs
    BY <1>1, EditedDocs
  <2> DEFINE s == WithEdit(doc, RunEdit)
  <2>6. s \in Docs /\ Sound(s, Known) /\ Marked(s) /\ doc' = Merged(doc, s)
    BY <1>4, <2>1, <2>4, <2>5
  <2> HIDE DEF s
  <2>7. QED
    BY <2>1, <2>6, StoredMarked
<1>10. QED
  BY <1>5, <1>6, <1>7, <1>8, <1>9, WritesCalm

\* A tab whose screen and queue a write leaves alone keeps what is said of them.
LEMMA MarkedStays ==
  ASSUME BaseInv, StoreStep, NEW t \in Tabs, TabMarked(t), Known' = Known,
         view'[t] = view[t], token'[t] = token[t]
  PROVE  /\ Sound(view'[t], Known')
         /\ token'[t] = stamp' /\ SameText(view'[t], doc') => Marked(view'[t])
         /\ \A i \in 1..Len(queue[t]) :
              /\ Sound(queue[t][i].body, Known')
              /\ queue[t][i].touched => ~SameText(queue[t][i].body, view'[t])
              /\ queue[t][i].phase = "sent" /\ queue[t][i].expected = stamp' /\ SameText(queue[t][i].body, doc')
                   => Marked(queue[t][i].body)
<1>1. /\ stamp \in Nat /\ token[t] \in 0..stamp /\ queue[t] \in Seq(Request)
      /\ \A i \in 1..Len(queue[t]) : queue[t][i].expected <= stamp
  BY Submitted DEF BaseInv, TabWell
<1>2. \A i \in 1..Len(queue[t]) : queue[t][i].expected \in Nat
  <2> SUFFICES ASSUME NEW i \in 1..Len(queue[t]) PROVE queue[t][i].expected \in Nat
    OBVIOUS
  <2>1. queue[t][i] \in Request
    BY <1>1, ElementOfSeq
  <2>2. QED
    BY <2>1 DEF Request
<1>3. CASE doc' = doc /\ stamp' = stamp
  BY <1>3 DEF TabMarked
<1>4. CASE stamp' = stamp + 1
  <2>1. token'[t] # stamp' /\ \A i \in 1..Len(queue[t]) : queue[t][i].expected # stamp'
    BY <1>1, <1>2, <1>4
  <2>2. QED
    BY <2>1 DEF TabMarked
<1>5. QED
  BY <1>3, <1>4 DEF StoreStep

LEMMA WritesMarked ==
  ASSUME BaseInv, QueueInv, CalmInv, MarkInv, Races = {}, NEW t \in Tabs, Writes(t)
  PROVE  TabMarked(t)' /\ Known' = Known
<1>1. /\ Shape /\ TabMarked(t) /\ StoreStep /\ Sound(doc', Known)
      /\ Accept(t) \/ Start(t) \/ Cleanup(t) \/ \E k \in 1..KeepRevisions : RestoreRevision(t, k)
  BY Written, WritesCalm, WrittenMarked DEF BaseInv, MarkInv, Shape, Writes
<1>2. /\ view' = view /\ token' = token /\ typed' = typed
      /\ Accept(t) \/ queue' = queue
      /\ reload'[t] = reload[t] \/ reload'[t] = [phase |-> "asked"]
      /\ call'[t] = call[t] \/ call'[t] = [phase |-> "started", doc |-> doc', at |-> stamp']
  BY <1>1 DEF Accept, Start, Cleanup, RestoreRevision, ReloadAfter, Shape
<1>3. Known' = Known
  BY <1>2 DEF Known
<1>4. /\ reload'[t].phase = "answered" => Sound(reload'[t].doc, Known')
      /\ call'[t].phase = "started" => Sound(call'[t].doc, Known')
  <2>1. reload'[t].phase = "answered" => Sound(reload'[t].doc, Known')
    <3>1. CASE reload'[t] = reload[t]
      BY <1>1, <1>3, <3>1 DEF TabMarked
    <3>2. CASE reload'[t] = [phase |-> "asked"]
      BY <3>2
    <3>3. QED
      BY <1>2, <3>1, <3>2
  <2>2. call'[t].phase = "started" => Sound(call'[t].doc, Known')
    <3>1. CASE call'[t] = call[t]
      BY <1>1, <1>3, <3>1 DEF TabMarked
    <3>2. CASE call'[t] = [phase |-> "started", doc |-> doc', at |-> stamp']
      <4>1. call'[t].doc = doc'
        BY <3>2
      <4>2. QED
        BY <1>1, <1>3, <4>1
    <3>3. QED
      BY <1>2, <3>1, <3>2
  <2>3. QED
    BY <2>1, <2>2
<1>5. /\ Sound(view'[t], Known')
      /\ token'[t] = stamp' /\ SameText(view'[t], doc') => Marked(view'[t])
      /\ \A i \in 1..Len(queue[t]) :
           /\ Sound(queue[t][i].body, Known')
           /\ queue[t][i].touched => ~SameText(queue[t][i].body, view'[t])
           /\ queue[t][i].phase = "sent" /\ queue[t][i].expected = stamp' /\ SameText(queue[t][i].body, doc')
                => Marked(queue[t][i].body)
  BY <1>1, <1>2, <1>3, MarkedStays
<1>6. /\ Len(queue'[t]) <= 1
      /\ \A i \in 1..Len(queue'[t]) :
           /\ Sound(queue'[t][i].body, Known')
           /\ queue'[t][i].touched => ~SameText(queue'[t][i].body, view'[t])
           /\ queue'[t][i].phase = "sent" /\ queue'[t][i].expected = stamp' /\ SameText(queue'[t][i].body, doc')
                => Marked(queue'[t][i].body)
  <2>1. CASE Accept(t)
    <3>1. /\ 1 \in 1..Len(queue[t]) /\ Len(queue'[t]) = Len(queue[t])
          /\ queue'[t][1].phase = "answered" /\ queue'[t][1].body = doc'
          /\ queue'[t][1].touched = queue[t][1].touched
          /\ \A i \in 1..Len(queue[t]) : i # 1 => queue'[t][i] = queue[t][i]
          /\ doc'.chapters = queue[t][1].body.chapters
      BY <2>1, AcceptQueue
    <3>2. queue[t][1].touched => ~SameText(doc', view'[t])
      BY <1>5, <3>1 DEF SameText
    <3>3. ASSUME NEW i \in 1..Len(queue'[t])
          PROVE  /\ Sound(queue'[t][i].body, Known')
                 /\ queue'[t][i].touched => ~SameText(queue'[t][i].body, view'[t])
                 /\ queue'[t][i].phase = "sent" /\ queue'[t][i].expected = stamp' /\ SameText(queue'[t][i].body, doc')
                      => Marked(queue'[t][i].body)
      <4>1. CASE i = 1
        BY <1>1, <1>3, <3>1, <3>2, <4>1
      <4>2. CASE i # 1
        BY <1>5, <3>1, <4>2
      <4>3. QED
        BY <4>1, <4>2
    <3>4. Len(queue[t]) <= 1
      BY <1>1 DEF TabMarked
    <3>5. QED
      BY <3>1, <3>3, <3>4
  <2>2. CASE queue' = queue
    BY <1>1, <1>5, <2>2 DEF TabMarked
  <2>3. QED
    BY <1>2, <2>1, <2>2
<1>7. QED
  BY <1>3, <1>4, <1>5, <1>6 DEF TabMarked

LEMMA OtherMarked ==
  ASSUME BaseInv, MarkInv, StoreStep, NEW u \in Tabs, Untouched(u), Known \subseteq Known',
         Known' = Known \/ (doc' = doc /\ stamp' = stamp)
  PROVE  TabMarked(u)'
<1>1. /\ TabMarked(u) /\ view'[u] = view[u] /\ token'[u] = token[u] /\ queue'[u] = queue[u]
      /\ reload'[u] = reload[u] /\ call'[u] = call[u]
  BY DEF MarkInv, Untouched
<1>2. /\ reload[u].phase = "answered" => Sound(reload[u].doc, Known')
      /\ call[u].phase = "started" => Sound(call[u].doc, Known')
      /\ Sound(view[u], Known') /\ \A i \in 1..Len(queue[u]) : Sound(queue[u][i].body, Known')
  BY <1>1, SoundGrows DEF TabMarked
<1>3. CASE doc' = doc /\ stamp' = stamp
  <2>1. /\ token[u] = stamp /\ SameText(view[u], doc) => Marked(view[u])
        /\ Len(queue[u]) <= 1
        /\ \A i \in 1..Len(queue[u]) :
             /\ queue[u][i].touched => ~SameText(queue[u][i].body, view[u])
             /\ queue[u][i].phase = "sent" /\ queue[u][i].expected = stamp /\ SameText(queue[u][i].body, doc)
                  => Marked(queue[u][i].body)
    BY <1>1 DEF TabMarked
  <2>2. QED
    BY <1>1, <1>2, <1>3, <2>1 DEF TabMarked
<1>4. CASE Known' = Known
  <2>1. /\ Sound(view'[u], Known')
        /\ token'[u] = stamp' /\ SameText(view'[u], doc') => Marked(view'[u])
        /\ \A i \in 1..Len(queue[u]) :
             /\ Sound(queue[u][i].body, Known')
             /\ queue[u][i].touched => ~SameText(queue[u][i].body, view'[u])
             /\ queue[u][i].phase = "sent" /\ queue[u][i].expected = stamp' /\ SameText(queue[u][i].body, doc')
                  => Marked(queue[u][i].body)
    BY <1>1, <1>4, MarkedStays
  <2>2. Len(queue[u]) <= 1
    BY <1>1 DEF TabMarked
  <2>3. QED
    BY <1>1, <1>2, <2>1, <2>2 DEF TabMarked
<1>5. QED
  BY <1>3, <1>4

LEMMA StepMark ==
  ASSUME BaseInv, QueueInv, CalmInv, MarkInv, Races = {}, MaxQueue = 1, [Next]_vars
  PROVE  MarkInv'
<1>1. StoreStep
  BY NextStoreStep
<1>2. ASSUME NEW t \in Tabs, Local(t) PROVE MarkInv'
  <2>1. TabMarked(t)' /\ Known \subseteq Known'
    BY <1>2, LocalMarked
  <2>2. doc' = doc /\ stamp' = stamp /\ history' = history
    BY <1>2, LocalStays DEF storeVars
  <2>3. \A u \in Tabs : TabMarked(u)'
    BY <1>1, <1>2, <2>1, <2>2, LocalShape, OtherMarked
  <2>4. /\ Sound(doc', Known') /\ Marked(doc')
        /\ \A k \in DOMAIN history' : Sound(history'[k], Known') /\ Marked(history'[k])
    BY <2>1, <2>2, SoundGrows DEF MarkInv
  <2>5. QED
    BY <2>3, <2>4 DEF MarkInv
<1>3. ASSUME NEW t \in Tabs, Writes(t) PROVE MarkInv'
  <2>1. TabMarked(t)' /\ Known' = Known
    BY <1>3, WritesMarked
  <2>2. \A u \in Tabs : TabMarked(u)'
    BY <1>1, <1>3, <2>1, WritesShape, OtherMarked
  <2>3. /\ Sound(doc', Known) /\ Marked(doc')
        /\ \A k \in DOMAIN history' : Sound(history'[k], Known) /\ Marked(history'[k])
    BY <1>3, WrittenMarked
  <2>4. QED
    BY <2>1, <2>2, <2>3 DEF MarkInv
<1>4. ASSUME UNCHANGED tabVars PROVE Known' = Known /\ \A u \in Tabs : TabMarked(u)'
  <2>1. Known' = Known /\ \A u \in Tabs : Untouched(u)
    BY <1>4 DEF tabVars, Known, Untouched
  <2>2. QED
    BY <1>1, <2>1, OtherMarked
<1>5. CASE RunSave \/ RunReplan
  <2>1. Known' = Known /\ \A u \in Tabs : TabMarked(u)'
    BY <1>4, <1>5 DEF RunSave, RunReplan
  <2>2. /\ Sound(doc', Known) /\ Marked(doc')
        /\ \A k \in DOMAIN history' : Sound(history'[k], Known) /\ Marked(history'[k])
    BY <1>5, WrittenMarked
  <2>3. QED
    BY <2>1, <2>2 DEF MarkInv
<1>6. CASE RunEnd \/ UNCHANGED vars
  <2>1. Known' = Known /\ \A u \in Tabs : TabMarked(u)'
    BY <1>4, <1>6 DEF RunEnd, vars
  <2>2. doc' = doc /\ history' = history
    BY <1>6 DEF RunEnd, vars, storeVars
  <2>3. QED
    BY <2>1, <2>2 DEF MarkInv
<1>7. QED
  BY <1>2, <1>3, <1>5, <1>6, Steps DEF Next

----------------------------------------------------------------------------
(* The theorems.                                                           *)

LEMMA InitAll ==
  ASSUME Init
  PROVE  RecoverInv /\ QueueInv /\ CalmInv /\ MarkInv
<1>1. /\ <<>> \in Seq(Docs) /\ Len(<<>>) = 0 /\ DOMAIN <<>> = {}
  BY EmptySeq
<1>2. /\ doc.chapters[1].text = {} /\ doc.chapters[1].settled = {}
      /\ doc.chapters[2].text = {} /\ doc.chapters[2].settled = NoText
  <2>1. Chapters = 1..2 /\ EmptyText = {}
    BY InstanceAssumption DEF Chapters
  <2>2. doc = [BlankDoc EXCEPT !.chapters[1].settled = EmptyText]
    BY DEF Init
  <2>3. QED
    BY <2>1, <2>2 DEF BlankDoc
<1>3. EditsOf(doc) = {}
  BY <1>2 DEF EditsOf
<1>4. Sound(doc, Known) /\ Marked(doc)
  BY <1>2, <1>3 DEF Sound, Marked
<1>5. RecoverInv
  BY <1>1 DEF Init, RecoverInv, TabKept
<1>6. QueueInv
  BY <1>1 DEF Init, QueueInv, TabOrdered
<1>7. CalmInv
  <2>1. restores \in Nat /\ (run # NoDoc => run = doc)
    BY DEF Init
  <2>2. ASSUME NEW t \in Tabs PROVE TabCalm(t)
    <3>1. /\ view[t] = doc /\ queue[t] = <<>> /\ call[t] = NoCall
      BY DEF Init
    <3>2. QED
      BY <1>1, <3>1 DEF TabCalm, NoCall
  <2>3. QED
    BY <2>1, <2>2 DEF CalmInv
<1>8. MarkInv
  BY <1>1, <1>4 DEF Init, MarkInv, TabMarked, NoCall, NoReload
<1>9. QED
  BY <1>5, <1>6, <1>7, <1>8

\* Whatever is open: types, retention limits and the order of the revisions.
THEOREM WorkbenchInductive == Spec => []BaseInv
<1>1. QED
  BY InitBase, StepBase, PTL DEF Spec

\* What an author has been told is saved can be found again, in the project or
\* in a revision, whichever windows are open and however many tabs and runs
\* overwrite each other, as long as no more versions are stored than the
\* retention keeps (40 in the code).
THEOREM AcknowledgedRecoverable ==
  KeepRevisions >= MaxStamp => (Spec => []AcknowledgedIsRecoverable)
<1> SUFFICES ASSUME KeepRevisions >= MaxStamp PROVE Spec => []AcknowledgedIsRecoverable
  OBVIOUS
<1>1. Init => BaseInv /\ RecoverInv
  BY InitBase, InitAll
<1>2. BaseInv /\ RecoverInv /\ [Next]_vars => (BaseInv /\ RecoverInv)'
  BY StepBase, StepRecover
<1>3. RecoverInv => AcknowledgedIsRecoverable
  BY DEF RecoverInv, KeptEdits, AcknowledgedIsRecoverable
<1>4. QED
  BY <1>1, <1>2, <1>3, PTL DEF Spec

\* The text on the screen is only taken away by loading the project or by
\* starting a run, if neither happens while a save is under way.
THEOREM TypingKept == "adoptWhileSaving" \notin Races => (Spec => TypingIsKept)
<1> SUFFICES ASSUME "adoptWhileSaving" \notin Races PROVE Spec => TypingIsKept
  OBVIOUS
<1>1. Init => BaseInv /\ QueueInv
  BY InitBase, InitAll
<1>2. BaseInv /\ QueueInv /\ [Next]_vars => (BaseInv /\ QueueInv)'
  BY StepBase, StepQueue
<1>3. ASSUME BaseInv, QueueInv, [Next]_vars
      PROVE  [\A t \in Tabs : \/ EditsOf(view[t]) \subseteq EditsOf(view'[t])
                              \/ reload[t].phase = "answered"
                              \/ call[t].phase = "started"]_vars
  <2> SUFFICES ASSUME Next, NEW u \in Tabs
               PROVE  \/ EditsOf(view[u]) \subseteq EditsOf(view'[u])
                      \/ reload[u].phase = "answered"
                      \/ call[u].phase = "started"
    BY <1>3
  <2>1. ASSUME NEW t \in Tabs, Local(t) \/ Writes(t), t # u
        PROVE  EditsOf(view[u]) \subseteq EditsOf(view'[u])
    BY <1>3, <2>1, LocalShape, WritesShape DEF Untouched
  <2>2. ASSUME NEW e \in ProseEdits \cup DraftEdits, Edit(u, e)
        PROVE  EditsOf(view[u]) \subseteq EditsOf(view'[u])
    BY <1>3, <2>2, EditQueue
  <2>3. CASE HandleAnswer(u)
    BY <1>3, <2>3, AnswerKeepsText DEF QueueInv
  <2>4. CASE AdoptStamp(u)
    <3>1. view'[u] = [view[u] EXCEPT !.plan = call[u].plan] /\ view[u] \in Docs
      BY <1>3, <2>4 DEF AdoptStamp, BaseInv, TabWell
    <3>2. view'[u].chapters = view[u].chapters
      BY <3>1, EditedParts
    <3>3. QED
      BY <3>2, SameChapters
  <2>5. CASE AdoptLoaded(u) \/ AdoptStarted(u)
    BY <2>5 DEF AdoptLoaded, AdoptStarted
  <2>6. CASE \/ \E next \in Continuations : Save(u, next)
             \/ Lose(u) \/ Refuse(u) \/ LoadProject(u) \/ ProjectGet(u)
             \/ CallFails(u) \/ CheckedStartBegin(u) \/ Writes(u)
    BY <2>6 DEF Save, Lose, Refuse, LoadProject, ProjectGet, CallFails, CheckedStartBegin,
                Writes, Accept, Preflight, Start, CheckedStartRefused, CheckedStartCommit,
                Cleanup, RestoreRevision
  <2>7. CASE RunSave \/ RunReplan \/ RunEnd
    BY <2>7 DEF RunSave, RunReplan, RunEnd, tabVars
  <2>8. QED
    BY <2>1, <2>2, <2>3, <2>4, <2>5, <2>6, <2>7, Steps DEF Next, Local
<1>4. QED
  BY <1>1, <1>2, <1>3, PTL DEF Spec, TypingIsKept

\* With the windows closed, a tab that shows "saved" and whose next save would
\* be accepted shows what is stored.
THEOREM SavedIsStored == Races = {} => (Spec => []SavedMeansStored)
<1> SUFFICES ASSUME Races = {} PROVE Spec => []SavedMeansStored
  OBVIOUS
<1>1. Init => BaseInv /\ QueueInv /\ CalmInv
  BY InitBase, InitAll
<1>2. BaseInv /\ QueueInv /\ CalmInv /\ [Next]_vars => (BaseInv /\ QueueInv /\ CalmInv)'
  BY StepBase, StepQueue, StepCalm
<1>3. CalmInv => SavedMeansStored
  BY DEF CalmInv, TabCalm, SavedMeansStored
<1>4. QED
  BY <1>1, <1>2, <1>3, PTL DEF Spec

\* With the windows closed, no stored edit is lost but by a restore.
THEOREM NothingOverwritten == Races = {} => (Spec => NoSilentOverwrite)
<1> SUFFICES ASSUME Races = {} PROVE Spec => NoSilentOverwrite
  OBVIOUS
<1>1. Init => BaseInv /\ QueueInv /\ CalmInv
  BY InitBase, InitAll
<1>2. BaseInv /\ QueueInv /\ CalmInv /\ [Next]_vars => (BaseInv /\ QueueInv /\ CalmInv)'
  BY StepBase, StepQueue, StepCalm
<1>3. ASSUME BaseInv, QueueInv, CalmInv, [Next]_vars
      PROVE  [EditsOf(doc) \subseteq EditsOf(doc') \/ restores' # restores]_vars
  <2> SUFFICES ASSUME Next PROVE EditsOf(doc) \subseteq EditsOf(doc') \/ restores' # restores
    BY <1>3
  <2>1. /\ doc \in Docs /\ restores \in Nat
        /\ \A e \in {RunEdit, CleanupFix} : EditsOf(WithEdit(doc, e)) = EditsOf(doc) \cup {e}
        /\ EditsOf([doc EXCEPT !.plan = stamp]) = EditsOf(doc)
    <3>1. doc \in Docs /\ restores \in Nat /\ {RunEdit, CleanupFix} \subseteq Edits
      BY <1>3, Submitted DEF CalmInv, Edits
    <3>2. [doc EXCEPT !.plan = stamp].chapters = doc.chapters
      BY <3>1, EditedParts
    <3>3. QED
      BY <3>1, <3>2, EditedDocs, SameChapters
  <2>2. ASSUME NEW t \in Tabs, Local(t) PROVE doc' = doc
    BY <2>2, LocalStays DEF storeVars
  <2>3. ASSUME NEW t \in Tabs, Accept(t) PROVE EditsOf(doc) \subseteq EditsOf(doc')
    <3>1. /\ 1 \in 1..Len(queue[t]) /\ queue[t][1].phase = "sent" /\ queue[t][1].expected = stamp
          /\ EditsOf(doc') = EditsOf(queue[t][1].body)
      BY <1>3, <2>3, AcceptQueue
    <3>2. QED
      BY <1>3, <3>1 DEF CalmInv, TabCalm
  <2>4. ASSUME NEW t \in Tabs, Start(t) \/ RunReplan PROVE EditsOf(doc) \subseteq EditsOf(doc')
    BY <1>3, <2>1, <2>4, Written, MergedChapters
  <2>5. ASSUME NEW t \in Tabs, Cleanup(t) PROVE EditsOf(doc) \subseteq EditsOf(doc')
    BY <1>3, <2>1, <2>5, Written, MergedChapters
  <2>6. ASSUME NEW t \in Tabs, NEW k \in 1..KeepRevisions, RestoreRevision(t, k)
        PROVE  restores' # restores
    BY <2>1, <2>6 DEF RestoreRevision
  <2>7. CASE RunSave
    <3>1. run = doc
      BY <1>3, <2>7 DEF RunSave, CalmInv
    <3>2. QED
      BY <1>3, <2>1, <2>7, <3>1, Written, MergedChapters
  <2>8. CASE RunReplan
    BY <1>3, <2>1, <2>8, Written, MergedChapters
  <2>9. CASE RunEnd
    BY <2>9 DEF RunEnd, storeVars
  <2>10. ASSUME NEW t \in Tabs, Writes(t)
         PROVE  EditsOf(doc) \subseteq EditsOf(doc') \/ restores' # restores
    BY <1>3, <2>3, <2>4, <2>5, <2>6, <2>10, WritesCalm
  <2>11. QED
    BY <2>2, <2>7, <2>8, <2>9, <2>10, Steps DEF Next
<1>4. QED
  BY <1>1, <1>2, <1>3, PTL DEF Spec, NoSilentOverwrite

\* With the windows closed and one save of a tab at a time, memory derived from
\* a text that is gone is marked.  (With two saves queued it need not be.)
THEOREM StaleIsMarked == Races = {} /\ MaxQueue = 1 => (Spec => []StaleMemoryIsMarked)
<1> SUFFICES ASSUME Races = {}, MaxQueue = 1 PROVE Spec => []StaleMemoryIsMarked
  OBVIOUS
<1>1. Init => BaseInv /\ QueueInv /\ CalmInv /\ MarkInv
  BY InitBase, InitAll
<1>2. BaseInv /\ QueueInv /\ CalmInv /\ MarkInv /\ [Next]_vars
        => (BaseInv /\ QueueInv /\ CalmInv /\ MarkInv)'
  BY StepBase, StepQueue, StepCalm, StepMark
<1>3. MarkInv => StaleMemoryIsMarked
  <2> SUFFICES ASSUME MarkInv, NEW i \in Chapters,
                      doc.chapters[i].settled \notin {NoText, doc.chapters[i].text}
               PROVE  doc.stale \in 1..i
    BY DEF StaleMemoryIsMarked
  <2>1. i \in 1..2
    BY InstanceAssumption DEF Chapters
  <2>2. i = 1
    BY <2>1 DEF MarkInv, Sound
  <2>3. doc.stale = 1
    BY <2>2 DEF MarkInv, Sound, Marked
  <2>4. QED
    BY <2>2, <2>3
<1>4. QED
  BY <1>1, <1>2, <1>3, PTL DEF Spec
=============================================================================
