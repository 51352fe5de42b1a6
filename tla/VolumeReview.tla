---------------------------- MODULE VolumeReview ----------------------------
(***************************************************************************)
(* Whole-volume review (review/volume_review.py): a model reads the        *)
(* written chapters of a volume and asks for repairs, which join the       *)
(* project's repair queue.  The author may work while his own request is   *)
(* out, and its answer is merged into the project as it then is; the       *)
(* director saves the copy it gave out.                                    *)
(***************************************************************************)
EXTENDS Integers, Sequences, SequencesExt, FiniteSets, FiniteSetsExt

CONSTANTS
  VolumeChapters, \* the chapters of the volume
  Texts,          \* what a chapter may say, "" for an unwritten one
  Faults,         \* what a repair may be about
  Alike(_, _),    \* DUPLICATE_RATIO: two faults told in nearly the same words
  MaxTasks,       \* MAX_TASKS of a report
  MaxQueue,       \* bound: items the queue gets
  MaxEdits        \* bound: changes of a text

ASSUME ReviewAssumption ==
  /\ "" \in Texts /\ MaxTasks \in Nat \ {0} /\ {MaxQueue, MaxEdits} \subseteq Nat
  /\ \A f, g \in Faults : Alike(f, f) /\ (Alike(f, g) <=> Alike(g, f))

VARIABLES
  work,     \* the stored project: [text: per chapter, queue: sequence of [id, chapter, fault, status]]
  reviewed, \* volume_reviews of the volume: [there, hashes, tasks; read: what the model was given]
  asking,   \* the review under way: [by, copy: the project it works on]
  nextItem, \* identity of the next queue item
  changed   \* edits made, bounded

reviewVars == <<work, reviewed, asking, nextItem, changed>>

NoReview == [there |-> FALSE, hashes |-> {}, read |-> {}, tasks |-> <<>>]
NotAsking == [by |-> "none", copy |-> [text |-> [c \in VolumeChapters |-> ""], queue |-> <<>>]]

WrittenChapters(book) == {c \in VolumeChapters : book.text[c] # ""}

\* chapter_hashes: of the chapters that have text
Hashes(book) == {<<c, book.text[c]>> : c \in WrittenChapters(book)}

\* is_stale
Stale == reviewed.hashes # Hashes(work)

ReviewInit ==
  /\ work \in [text : [VolumeChapters -> Texts], queue : {<<>>}]
  /\ reviewed = NoReview /\ asking = NotAsking /\ nextItem = 1 /\ changed = 0

----------------------------------------------------------------------------
(* The queue.                                                              *)

OpenStates == {"queued", "in_progress"}

Item(id, c, f) == [id |-> id, chapter |-> c, fault |-> f, status |-> "queued"]

IsTask(item, task) == item.chapter = task.chapter /\ item.fault = task.fault

\* enqueue_repair: an item of the same issue that is not dismissed is taken as it stands
ExistingItems(queue, task) == {i \in 1..Len(queue) : IsTask(queue[i], task) /\ queue[i].status # "dismissed"}

IsDismissed(queue, task) == \E i \in 1..Len(queue) : IsTask(queue[i], task) /\ queue[i].status = "dismissed"

\* the open items that say nearly the same of the chapter
Duplicates(queue, task) ==
  {i \in 1..Len(queue) : /\ queue[i].chapter = task.chapter /\ queue[i].status \in OpenStates
                         /\ Alike(queue[i].fault, task.fault)}

Told(state, task, status, id) ==
  [state EXCEPT !.tasks = Append(@, [chapter |-> task.chapter, fault |-> task.fault, status |-> status, id |-> id])]

\* Mutant of Enqueue: what the author has dismissed is not looked up.
EnqueueDismissed(state, task) ==
  LET q == state.queue
      same == ExistingItems(q, task)
      near == Duplicates(q, task)
  IN IF near # {} THEN Told(state, task, "duplicate", q[Min(near)].id)
     ELSE IF same # {} THEN Told([state EXCEPT !.queue[Min(same)].status = "queued"], task, "queued", q[Min(same)].id)
     ELSE Told([state EXCEPT !.queue = Append(@, Item(state.next, task.chapter, task.fault)), !.next = @ + 1],
               task, "queued", state.next)

\* enqueue_review_tasks, of one task: dismissed before, a duplicate, a resolved one that is opened again,
\* or new
Enqueue(state, task) ==
  LET q == state.queue
      same == ExistingItems(q, task)
      near == Duplicates(q, task)
  IN IF IsDismissed(q, task) THEN Told(state, task, "dismissed", 0)
     ELSE IF near # {} THEN Told(state, task, "duplicate", q[Min(near)].id)
     ELSE IF same # {} THEN Told([state EXCEPT !.queue[Min(same)].status = "queued"], task, "queued", q[Min(same)].id)
     ELSE Told([state EXCEPT !.queue = Append(@, Item(state.next, task.chapter, task.fault)), !.next = @ + 1],
               task, "queued", state.next)

\* one task after another
EnqueuedUpTo(queue, tasks) ==
  LET told[k \in 0..Len(tasks)] ==
        IF k = 0 THEN [queue |-> queue, tasks |-> <<>>, next |-> nextItem] ELSE Enqueue(told[k - 1], tasks[k]) IN
  told

TasksEnqueued(queue, tasks) == EnqueuedUpTo(queue, tasks)[Len(tasks)]

----------------------------------------------------------------------------
(* The review.  The endpoint refuses a second one, and any while a         *)
(* director works; both refuse a volume without text.                      *)

BeginReview(by) ==
  /\ asking.by = "none" /\ WrittenChapters(work) # {}
  /\ asking' = [by |-> by, copy |-> work]
  /\ UNCHANGED <<work, reviewed, nextItem, changed>>

\* no answer, or one make_validator refuses: it judges the pace of too few chapters
ReviewFails ==
  /\ asking.by # "none" /\ asking' = NotAsking
  /\ UNCHANGED <<work, reviewed, nextItem, changed>>

\* normalize_report: repairs of chapters that were given, at most so many
Reports == SeqOf([chapter : WrittenChapters(asking.copy), fault : Faults], MaxTasks)

\* Mutant of Entry: the hashes are those of the project the report is stored in.
EntryOfLatest(tasks) == [there |-> TRUE, hashes |-> Hashes(work), read |-> Hashes(asking.copy), tasks |-> tasks]

\* run_volume_review: the report, with the hashes of what was read
Entry(tasks) == [there |-> TRUE, hashes |-> Hashes(asking.copy), read |-> Hashes(asking.copy), tasks |-> tasks]

\* volume_review_run: only items the project does not have yet are added
IsKnown(item) == \E i \in 1..Len(work.queue) : work.queue[i].id = item.id

MergedUpTo(queue) ==
  LET merged[k \in 0..Len(queue)] ==
        IF k = 0 THEN work.queue ELSE IF IsKnown(queue[k]) THEN merged[k - 1] ELSE Append(merged[k - 1], queue[k]) IN
  merged

QueueMerged(queue) == MergedUpTo(queue)[Len(queue)]

ReviewAnswered ==
  \E tasks \in Reports :
    LET all == TasksEnqueued(asking.copy.queue, tasks)
    IN /\ asking.by # "none" /\ all.next <= MaxQueue + 1
       /\ work' = IF asking.by = "director" THEN [asking.copy EXCEPT !.queue = all.queue]
                  ELSE [work EXCEPT !.queue = QueueMerged(all.queue)]
       /\ reviewed' = Entry(all.tasks) /\ nextItem' = all.next
       /\ asking' = NotAsking /\ UNCHANGED changed

----------------------------------------------------------------------------
(* The author, who is kept out while a director works.                     *)

AuthorMay == asking.by # "director"

WriteText(c, text) ==
  /\ AuthorMay /\ changed < MaxEdits /\ text # work.text[c]
  /\ work' = [work EXCEPT !.text[c] = text] /\ changed' = changed + 1
  /\ UNCHANGED <<reviewed, asking, nextItem>>

\* an audit finds the fault: enqueue_repair
AuditFinds(c, f) ==
  /\ AuthorMay /\ nextItem <= MaxQueue /\ work.text[c] # ""
  /\ ExistingItems(work.queue, [chapter |-> c, fault |-> f]) = {}
  /\ work' = [work EXCEPT !.queue = Append(@, Item(nextItem, c, f))] /\ nextItem' = nextItem + 1
  /\ UNCHANGED <<reviewed, asking, changed>>

\* the queue page, the repair of a chapter or a passed audit
SetStatus(i, status) ==
  /\ AuthorMay /\ status # work.queue[i].status
  /\ work' = [work EXCEPT !.queue[i].status = status]
  /\ UNCHANGED <<reviewed, asking, nextItem, changed>>

ReviewNext ==
  \/ (\E by \in {"author", "director"} : BeginReview(by)) \/ ReviewFails \/ ReviewAnswered
  \/ \E c \in VolumeChapters, text \in Texts : WriteText(c, text)
  \/ \E c \in VolumeChapters, f \in Faults : AuditFinds(c, f)
  \/ \E i \in 1..Len(work.queue), status \in OpenStates \cup {"resolved", "dismissed"} : SetStatus(i, status)

ReviewSpec == ReviewInit /\ [][ReviewNext]_reviewVars

----------------------------------------------------------------------------
(* Properties.                                                             *)

\* A report that is not shown as out of date was made from the very text the volume now has, and no
\* queue has two items of one identity, whatever was written and queued while the model read.
FreshReportsAreOfTheText ==
  /\ reviewed.there /\ ~Stale => reviewed.read = Hashes(work)
  /\ \A i, j \in 1..Len(work.queue) : work.queue[i].id = work.queue[j].id => i = j

\* A review's answer never opens what the author had dismissed when it began, leaves every item the
\* author touched meanwhile as the author left it, and puts every task it reports as queued into the
\* queue, open unless the author's project had that item settled.
ReviewKeepsTheQueue ==
  [][reviewed' # reviewed =>
       /\ \A i \in 1..Len(work'.queue) :
            IsDismissed(asking.copy.queue, work'.queue[i]) =>
              \E j \in 1..Len(work.queue) : work.queue[j].id = work'.queue[i].id
       /\ asking.by = "author" => \A i \in 1..Len(work.queue) : work'.queue[i] = work.queue[i]
       /\ \A k \in 1..Len(reviewed'.tasks) : reviewed'.tasks[k].status = "queued" =>
            \E i \in 1..Len(work'.queue) :
              /\ work'.queue[i].id = reviewed'.tasks[k].id /\ IsTask(work'.queue[i], reviewed'.tasks[k])
              /\ \/ work'.queue[i].status = "queued"
                 \/ asking.by = "author" /\ i <= Len(work.queue)]_reviewVars

\* A review that runs beside the author neither passes an old text for the present one nor undoes what the
\* author did to the repair queue meanwhile: the two parts above.
ReviewIsSound ==
  /\ []FreshReportsAreOfTheText
  /\ ReviewKeepsTheQueue
=============================================================================
