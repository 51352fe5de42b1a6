------------------------------ MODULE ProseRun ------------------------------
(***************************************************************************)
(* How the director obtains the draft of one chapter (director/prose.py,   *)
(* writing/prose_recovery.py, the stream of llm/client.py): one or more    *)
(* candidates, each written scene by scene, each scene received from a     *)
(* stream that may be cut off, refused or truncated, with receipts in the  *)
(* task row from which a later run goes on.                                *)
(*                                                                         *)
(* A text is a sequence of pieces, a piece <<request, k>> the k-th thing   *)
(* the model wrote for a request; pieces are longer than the 24 characters *)
(* an echo must have to be recognised.  The prompt of a request is fixed   *)
(* by the candidate, the rehearsal, the text so far and the kind of take.  *)
(***************************************************************************)
EXTENDS Naturals, Sequences, FiniteSets, SequencesExt, FiniteSetsExt

CONSTANTS
  Candidates,        \* candidate_count_for the chapter
  Scenes,            \* scenes of the chapter
  RecoveryAttempts,  \* director_stream_recovery_attempts
  KeepReceipts,      \* receipts kept in the checkpoint (32)
  MaxPieces,         \* bound: pieces of one answer
  MaxEchoes,         \* bound: echoes an answer opens with
  MaxRequests        \* bound: answers that begin

ASSUME ProseAssumption ==
  /\ {Candidates, Scenes, RecoveryAttempts, KeepReceipts, MaxPieces} \subseteq Nat \ {0}
  /\ {MaxEchoes, MaxRequests} \subseteq Nat

VARIABLES
  live,      \* the task row's status is "running"
  receipts,  \* prose_stream_checkpoint.receipts, the latest last
  pool,      \* chapter_candidates: drafts, and the selected one or 0
  cache,     \* rehearsal_cache: the rehearsal used, 0 before it
  at,        \* place of the runner
  drafts,    \* candidates in memory
  scene, done,      \* the scene being written, the text before it
  take, segment,    \* which request of the scene, and what it has so far
  combined, pieces, \* receive_prose: text kept, pieces of this answer
  attempts,     \* attempts of the recovery
  asked,     \* answers begun so far
  blocked,   \* history: answers ended by the content filter
  handed      \* the draft handed to the chapter, <<>> before

rowVars == <<live, receipts, pool, cache>>
takeVars == <<drafts, scene, done, take, segment>>
streamVars == <<combined, pieces, attempts>>
proseVars == <<rowVars, at, takeVars, streamVars, asked, blocked, handed>>

ProseInit ==
  /\ live = TRUE /\ receipts = <<>> /\ cache = 0
  /\ pool = [drafts |-> <<>>, selected |-> 0]
  /\ at = "start" /\ drafts = <<>> /\ scene = 1 /\ done = <<>>
  /\ take = "first" /\ segment = <<>>
  /\ combined = <<>> /\ pieces = <<>> /\ attempts = 0
  /\ asked = 0 /\ blocked = {} /\ handed = <<>>

----------------------------------------------------------------------------
(* Texts.                                                                  *)

\* the longest end of base that extra begins with
Overlap(base, extra) ==
  Max({n \in 0..Min({Len(base), Len(extra)}) :
         SubSeq(base, Len(base) - n + 1, Len(base)) = SubSeq(extra, 1, n)})

WithoutEcho(base, extra) == SubSeq(extra, Overlap(base, extra) + 1, Len(extra))

\* Mutant of Continuation: echoes of the text so far are kept.
ContinuationAsIs(base, extra) == extra

\* _clean_repair_continuation: up to three echoes are stripped
Continuation(base, extra) ==
  WithoutEcho(base, WithoutEcho(base, WithoutEcho(base, extra)))

\* _join_prose
Joined(previous, incoming) ==
  IF previous = <<>> THEN incoming ELSE previous \o Continuation(previous, incoming)

----------------------------------------------------------------------------
(* Receipts.                                                               *)

\* what the fingerprint of a request depends on
Input == [candidate |-> Len(drafts) + 1, rehearsal |-> cache, done |-> done,
          take |-> take, segment |-> IF take = "more" THEN segment ELSE <<>>]

ReceiptsFor(input) == {i \in DOMAIN receipts : receipts[i].input = input}

Prior == IF ReceiptsFor(Input) = {}
         THEN [input |-> Input, text |-> <<>>, complete |-> FALSE]
         ELSE receipts[Max(ReceiptsFor(Input))]

LastOf(k, s) == SubSeq(s, IF Len(s) > k THEN Len(s) - k + 1 ELSE 1, Len(s))

\* the first receipts without those for an input
OthersUpTo(kept, input) ==
  LET upTo[n \in 0..Len(kept)] ==
        IF n = 0 THEN <<>>
        ELSE IF kept[n].input = input THEN upTo[n - 1] ELSE Append(upTo[n - 1], kept[n])
  IN upTo

\* save_checkpoint: one receipt for each input, the latest ones kept
Persist(text, complete) ==
  receipts' = LastOf(KeepReceipts,
                     Append(OthersUpTo(receipts, Input)[Len(receipts)],
                            [input |-> Input, text |-> text, complete |-> complete]))

----------------------------------------------------------------------------
(* The candidates of the chapter.                                          *)

Receiving == {"open", "stream"}
ProseWorking == Receiving \cup {"rehearse", "receive", "check", "compare"}

NoStream == combined' = <<>> /\ pieces' = <<>> /\ attempts' = 0
NoTake == scene' = 1 /\ done' = <<>> /\ take' = "first" /\ segment' = <<>>

\* the coroutine is gone; what it had in memory goes with it
Ended == at' = "idle" /\ drafts' = <<>> /\ NoTake /\ NoStream

\* Mutant of Start: the stored selection is not looked at.
StartAfresh ==
  /\ at = "start"
  /\ drafts' = IF Candidates > 1 THEN pool.drafts ELSE <<>>
  /\ at' = IF Len(drafts') = Candidates THEN "compare" ELSE "rehearse"
  /\ UNCHANGED <<handed, rowVars, scene, done, take, segment, streamVars, asked, blocked>>

\* _director_initial_draft: a stored selection is used as it is, stored
\* candidates are kept, and the missing ones are written
Start ==
  /\ at = "start"
  /\ IF Candidates > 1 /\ pool.selected # 0
     THEN at' = "drafted" /\ handed' = pool.drafts[pool.selected] /\ UNCHANGED drafts
     ELSE /\ drafts' = IF Candidates > 1 THEN pool.drafts ELSE <<>>
          /\ at' = IF Len(drafts') = Candidates THEN "compare" ELSE "rehearse"
          /\ UNCHANGED handed
  /\ UNCHANGED <<rowVars, scene, done, take, segment, streamVars, asked, blocked>>

\* _chapter_rehearsal: made once for a chapter and cached in the row
Rehearse ==
  /\ at = "rehearse"
  /\ cache' = 1
  /\ at' = "receive"
  /\ UNCHANGED <<live, receipts, pool, takeVars, streamVars, asked, blocked, handed>>

\* a draft is finished: every candidate is stored when it is
FinishDraft(text) ==
  IF Candidates = 1
  THEN /\ handed' = text /\ at' = "drafted"
       /\ UNCHANGED <<pool, drafts>>
  ELSE /\ drafts' = Append(drafts, text)
       /\ pool' = [drafts |-> drafts', selected |-> 0]
       /\ at' = IF Len(drafts') = Candidates THEN "compare" ELSE "rehearse"
       /\ UNCHANGED handed

\* select_best_candidate (module CandidateSelection says which one it is)
Compare ==
  /\ at = "compare"
  /\ IF Len(drafts) = 1
     THEN handed' = drafts[1] /\ UNCHANGED pool
     ELSE \E i \in DOMAIN drafts :
            handed' = drafts[i] /\ pool' = [drafts |-> drafts, selected |-> i]
  /\ at' = "drafted"
  /\ UNCHANGED <<live, receipts, cache, takeVars, streamVars, asked, blocked>>

\* a candidate fails: earlier ones are used, without any the run is paused
Failed ==
  IF drafts # <<>>
  THEN at' = "compare" /\ NoTake /\ NoStream /\ UNCHANGED <<live, drafts>>
  ELSE live' = FALSE /\ Ended

----------------------------------------------------------------------------
(* One scene.                                                              *)

\* Mutant of Receive: receipts are looked up and their completion ignored.
ReceiveAlways ==
  /\ at = "receive"
  /\ at' = "open" /\ combined' = Prior.text /\ pieces' = <<>> /\ attempts' = 0
  /\ UNCHANGED <<rowVars, takeVars, asked, blocked, handed>>

\* receive_prose: a complete receipt is the answer, any other is continued
Receive ==
  /\ at = "receive"
  /\ IF Prior.complete /\ Prior.text # <<>>
     THEN /\ at' = "check" /\ combined' = Prior.text
          /\ UNCHANGED <<pieces, attempts>>
     ELSE /\ at' = "open" /\ combined' = Prior.text
          /\ pieces' = <<>> /\ attempts' = 0
  /\ UNCHANGED <<rowVars, takeVars, asked, blocked, handed>>

\* the scene as this take has it; a top-up goes behind what there was
Taken == IF take = "more" THEN segment \o Continuation(segment, combined) ELSE combined

\* constraint violations or too short a text: the scene is asked for again
Retake ==
  /\ at = "check" /\ take = "first" /\ Scenes > 1
  /\ take' = "again" /\ at' = "receive" /\ NoStream
  /\ UNCHANGED <<rowVars, drafts, scene, done, segment, asked, blocked, handed>>

\* still short: some more of it
TopUp ==
  /\ at = "check" /\ take # "more" /\ Scenes > 1
  /\ take' = "more" /\ segment' = Taken /\ at' = "receive" /\ NoStream
  /\ UNCHANGED <<rowVars, drafts, scene, done, asked, blocked, handed>>

\* the text of the scene goes behind the text before it
SceneDone ==
  /\ at = "check" /\ Continuation(done, Taken) # <<>>
  /\ LET text == done \o Continuation(done, Taken) IN
     IF scene < Scenes
     THEN /\ scene' = scene + 1 /\ done' = text /\ at' = "receive"
          /\ UNCHANGED <<pool, drafts, handed>>
     ELSE FinishDraft(text) /\ scene' = 1 /\ done' = <<>>
  /\ take' = "first" /\ segment' = <<>> /\ NoStream
  /\ UNCHANGED <<live, receipts, cache, asked, blocked>>

\* violations after the second take, or hardly any text
SceneRefused ==
  /\ at = "check"
  /\ Failed
  /\ UNCHANGED <<receipts, pool, cache, asked, blocked, handed>>

----------------------------------------------------------------------------
(* The stream: _chat_stream inside the attempts of receive_prose.          *)

\* the last piece the model has been shown
Shown == IF combined # <<>> THEN combined ELSE IF take = "more" THEN segment ELSE done

\* the server answers; the first piece is saved at once
Answer ==
  /\ at = "open" /\ asked < MaxRequests
  /\ asked' = asked + 1
  /\ at' = "stream"
  /\ \/ pieces' = << <<asked', 1>> >>
     \/ Shown # <<>> /\ MaxEchoes > 0 /\ pieces' = << Last(Shown) >>
  /\ Persist(Joined(combined, pieces'), FALSE)
  /\ UNCHANGED <<live, pool, cache, takeVars, combined, attempts, blocked, handed>>

\* a further piece; it is saved when two seconds have passed
Piece ==
  /\ at = "stream" /\ Len(pieces) < MaxPieces
  /\ \/ pieces' = Append(pieces, <<asked, Len(pieces) + 1>>)
     \/ /\ Shown # <<>> /\ Len(pieces) < MaxEchoes /\ \A i \in DOMAIN pieces : pieces[i] = Last(Shown)
        /\ pieces' = Append(pieces, Last(Shown))
  /\ \/ Persist(Joined(combined, pieces'), FALSE)
     \/ UNCHANGED receipts
  /\ UNCHANGED <<live, pool, cache, at, takeVars, combined, attempts, asked, blocked, handed>>

Gathered == Joined(combined, pieces)

Again == attempts' = attempts + 1 /\ combined' = Gathered /\ pieces' = <<>> /\ at' = "open"

\* TransportError, after text or when _open_stream has no attempt left (module
\* ModelCall): the text is kept and
\* continued, at most RecoveryAttempts - 1 times
Interrupted ==
  /\ at \in Receiving
  /\ Persist(Gathered, FALSE)
  /\ IF attempts + 1 < RecoveryAttempts
     THEN Again /\ UNCHANGED <<live, takeVars>>
     ELSE Failed
  /\ UNCHANGED <<pool, cache, asked, blocked, handed>>

\* finished at the token limit or in mid-sentence: likewise
Truncated ==
  /\ at = "stream"
  /\ Persist(Gathered, FALSE)
  /\ IF attempts + 1 < RecoveryAttempts
     THEN Again /\ UNCHANGED <<live, takeVars>>
     ELSE Failed
  /\ UNCHANGED <<pool, cache, asked, blocked, handed>>

Completed ==
  /\ at = "stream"
  /\ Persist(Gathered, TRUE)
  /\ at' = "check" /\ combined' = Gathered
  /\ UNCHANGED <<live, pool, cache, takeVars, pieces, attempts, asked, blocked, handed>>

\* Mutant of Filtered: what came before the filter stays in the checkpoint.
FilteredKept ==
  /\ at = "stream"
  /\ Persist(Gathered, FALSE)
  /\ blocked' = blocked \cup {asked}
  /\ Failed
  /\ UNCHANGED <<pool, cache, asked, handed>>

\* the content filter: nothing of the answer may be continued
Filtered ==
  /\ at = "stream"
  /\ Persist(<<>>, FALSE)
  /\ blocked' = blocked \cup {asked}
  /\ Failed
  /\ UNCHANGED <<pool, cache, asked, handed>>

\* any other error, or the 900 seconds of wait_for are over
Broken ==
  /\ at \in Receiving
  /\ Persist(Gathered, FALSE)
  /\ Failed
  /\ UNCHANGED <<pool, cache, asked, blocked, handed>>

----------------------------------------------------------------------------
(* The task around it.                                                     *)

\* director_pause cancels the job: what has been received is saved
Pause ==
  /\ live /\ at \in ProseWorking
  /\ live' = FALSE
  /\ IF at \in Receiving THEN Persist(Gathered, FALSE) ELSE UNCHANGED receipts
  /\ Ended
  /\ UNCHANGED <<pool, cache, asked, blocked, handed>>

\* the process dies; the next poll pauses the row.  It may also die when the
\* draft has been handed over and is not in the chapter's checkpoint yet
ProseCrash ==
  /\ at \in ProseWorking \cup {"drafted"}
  /\ live' = FALSE
  /\ Ended
  /\ UNCHANGED <<receipts, pool, cache, asked, blocked, handed>>

ProseResume ==
  /\ at = "idle" /\ ~live
  /\ live' = TRUE /\ at' = "start"
  /\ UNCHANGED <<receipts, pool, cache, takeVars, streamVars, asked, blocked, handed>>

ProseStep ==
  \/ Start \/ Rehearse \/ Compare
  \/ Receive \/ Retake \/ TopUp \/ SceneDone \/ SceneRefused
  \/ Answer \/ Piece \/ Interrupted \/ Truncated \/ Completed
  \/ Filtered \/ Broken

ProseNext == ProseStep \/ Pause \/ ProseCrash \/ ProseResume

ProseSpec == ProseInit /\ [][ProseNext]_proseVars

----------------------------------------------------------------------------
(* Properties.                                                             *)

\* a text built without losing or repeating what the model wrote
Sound(text) == IsInjective(text)

ProseTypeOK ==
  /\ live \in BOOLEAN /\ cache \in 0..2
  /\ at \in ProseWorking \cup {"idle", "start", "drafted"}
  /\ Len(receipts) <= KeepReceipts
  /\ pool.selected \in 0..Len(pool.drafts) /\ Len(pool.drafts) <= Candidates
  /\ scene \in 1..Scenes /\ take \in {"first", "again", "more"}
  /\ attempts \in 0..RecoveryAttempts - 1
  /\ asked \in 0..MaxRequests /\ blocked \subseteq 1..asked

\* No draft and no candidate says the same thing twice, whatever was cut off
\* and continued over whatever pauses, and though the model opens an answer
\* with an echo (or two) of what it was shown last.
NothingRepeated ==
  /\ Sound(handed) /\ Sound(done)
  /\ \A i \in DOMAIN drafts : Sound(drafts[i])
  /\ \A i \in DOMAIN pool.drafts : Sound(pool.drafts[i])

Requests(text) == {text[i][1] : i \in DOMAIN text}

\* "A blocked partial response must never become a resumable success": no
\* receipt, candidate or draft holds text of an answer that was blocked.
BlockedIsDropped ==
  /\ \A i \in DOMAIN receipts : Requests(receipts[i].text) \cap blocked = {}
  /\ \A i \in DOMAIN pool.drafts : Requests(pool.drafts[i]) \cap blocked = {}
  /\ Requests(handed) \cap blocked = {}

\* A scene that was received to its end is not asked for again, after
\* whatever pauses and crashes: its receipt serves, as long as it is kept, and
\* the rehearsal in its prompt is still the same.
FinishedSceneStays ==
  [][asked' # asked =>
       \A i \in DOMAIN receipts :
         receipts[i].complete /\ receipts[i].text # <<>> =>
           [receipts[i].input EXCEPT !.rehearsal = cache] # Input]_proseVars

\* Once the candidates have been compared, the chapter's draft is the
\* selected one, and none is written again.
SelectionStands ==
  [][pool.selected # 0 => pool' = pool /\ asked' = asked
       /\ (handed' # handed => handed' = pool.drafts[pool.selected])]_proseVars

\* Whatever is cut off, continued, blocked or lost with the process, the drafts of a chapter hold what
\* the model wrote, once, nothing that was blocked, and nothing is bought twice: the four parts above.
DraftingIsSound ==
  /\ [](NothingRepeated /\ BlockedIsDropped)
  /\ FinishedSceneStays /\ SelectionStands
=============================================================================
