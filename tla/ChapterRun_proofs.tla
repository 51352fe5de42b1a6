-------------------------- MODULE ChapterRun_proofs --------------------------
(***************************************************************************)
(* Theorems about the two runners of the director that write text,         *)
(* production (ChapterRun), for every number of chapters, revisions and    *)
(* texts, and every limit of the breaker, and refinement (Refinement); and *)
(* about the review of a whole volume (VolumeReview).                      *)
(***************************************************************************)
EXTENDS ChapterRun, Refinement, VolumeReview, FiniteSetTheorems, SequenceTheorems, WellFoundedInduction, TLAPS

\* Where the runner is: its chapter follows the index, which is saved
\* whenever it moves, and a run is active only under a running row.
Position ==
  /\ pc # "idle" => status = "running" /\ row.index = mem.index
  /\ pc \notin {"idle", "after"} => cur = mem.index + 1
  /\ pc = "after" => cur = mem.index
  /\ pc \notin {"idle", "head"} => cur \in Chapters

\* What the book holds of the chapter the runner is at, and its revisions.
Stage ==
  /\ pc \in {"plan", "draft", "audit", "revise"} => text[cur] = 0
  /\ pc \in {"textSaved", "extract", "repair"} => text[cur] # 0
  /\ pc = "revise" => attempt < MaxAttempts
  /\ pc = "repair" => lock[cur] = text[cur]
  /\ pc = "index" => text[cur] # 0 /\ exec[cur] # "memory_pending"

\* Where a chapter's deltas come from: text, lock, commit and ledger.
Provenance ==
  \A c \in Chapters :
    /\ text[c] = 0 => lock[c] = 0
    /\ lock[c] = 0 => ledger[c] = 0 /\ commit[c] = "none"
    /\ exec[c] = "quality_debt" => lock[c] = 0
    /\ c \in partial /\ c < staleFrom => ledger[c] # 0
    /\ ledger[c] # 0 /\ c < staleFrom => ledger[c] = text[c] /\ lock[c] = text[c]

\* The counters bound the streak: a retry resets them only where a run begins.
Counting ==
  /\ row.debts \subseteq 1..row.index + 1
  /\ pc # "idle" => mem.debts \subseteq 1..mem.index + 1
  /\ pc = "idle" => streak = NoStreak
  /\ pc # "index" /\ streak # NoStreak => mem.debts \subseteq 1..mem.index
  /\ streak.quality <= mem.quality /\ streak.systemic <= mem.systemic
  /\ BreakerBoundsARun

\* TypeOK by parts: the book, and the runner.
BookTypes ==
  /\ text \in [Chapters -> 0..MaxTexts]
  /\ exec \in [Chapters -> {"never_run", "memory_pending", "accepted", "quality_debt"}]
  /\ lock \in [Chapters -> 0..MaxTexts]
  /\ ledger \in [Chapters -> 0..MaxTexts]
  /\ partial \subseteq Chapters
  /\ commit \in [Chapters -> {"none", "pending", "committed"}]
  /\ staleFrom \in 1..N + 1

RunTypes ==
  /\ pc \in Places /\ cur \in 1..N + 1
  /\ attempt \in 0..MaxAttempts
  /\ streak \in [quality: Nat, systemic: Nat]

FlagTypes == fresh \in BOOLEAN /\ strict \in BOOLEAN

RowTypes == status \in {"running", "paused", "completed"} /\ row \in Progress /\ mem \in Progress

Types == BookTypes /\ RowTypes /\ RunTypes /\ FlagTypes

IInv == Types /\ Position /\ Stage /\ Provenance /\ NothingPassedOver /\ Counting

----------------------------------------------------------------------------
(* What becomes of the task's progress.                                    *)

\* The fields of a record of progress.
LEMMA ProgressFields ==
  ASSUME NEW m \in Progress
  PROVE  /\ m.index \in 0..N /\ m.debts \in SUBSET Chapters
         /\ m.quality \in 0..QualityLimit /\ m.systemic \in 0..SystemicLimit
         /\ m.draft \in 0..N /\ m.sound \in BOOLEAN
  BY DEF Progress

\* One field of it may be replaced by any value of its type.
LEMMA ProgressUpdated ==
  ASSUME NEW m \in Progress
  PROVE  /\ \A x \in 0..N : [m EXCEPT !.index = x] \in Progress
         /\ \A x \in SUBSET Chapters : [m EXCEPT !.debts = x] \in Progress
         /\ \A x \in 0..QualityLimit : [m EXCEPT !.quality = x] \in Progress
         /\ \A x \in 0..SystemicLimit : [m EXCEPT !.systemic = x] \in Progress
         /\ \A x \in 0..N : [m EXCEPT !.draft = x] \in Progress
         /\ \A x \in BOOLEAN : [m EXCEPT !.sound = x] \in Progress
  BY DEF Progress

\* A finished chapter moves the index to it and drops at most its debt.
LEMMA DoneFields ==
  ASSUME NEW m \in Progress, cur \in Chapters
  PROVE  /\ Done(m) \in Progress /\ Done(m).index = cur
         /\ Done(m).debts \subseteq m.debts
         /\ Done(m).quality = m.quality /\ Done(m).systemic = m.systemic
  <1> DEFINE left == IF exec[cur] = "accepted" THEN m.debts \ {cur} ELSE m.debts
             m1 == [m EXCEPT !.index = cur]
             m2 == [m1 EXCEPT !.debts = left]
  <1>1. left \subseteq m.debts /\ left \in SUBSET Chapters /\ cur \in 0..N
    BY ProgressFields, SizeAssumption DEF Chapters
  <1>2. Done(m) = m2
    BY DEF Done, Progress
  <1> HIDE DEF left
  <1>3. m2.index = cur /\ m2.debts = left /\ m2.quality = m.quality /\ m2.systemic = m.systemic
    BY DEF Progress
  <1>4. m1 \in Progress
    BY <1>1, ProgressUpdated
  <1> HIDE DEF m1
  <1>5. m2 \in Progress
    BY <1>1, <1>4, ProgressUpdated
  <1>6. QED
    BY <1>1, <1>2, <1>3, <1>5

\* Dropping the draft checkpoint touches nothing else.
LEMMA UncheckedFields ==
  ASSUME NEW m \in Progress
  PROVE  /\ Unchecked(m) \in Progress /\ Unchecked(m).index = m.index
         /\ Unchecked(m).debts = m.debts
         /\ Unchecked(m).quality = m.quality /\ Unchecked(m).systemic = m.systemic
  <1> DEFINE m1 == [m EXCEPT !.draft = 0]
             m2 == [m1 EXCEPT !.sound = TRUE]
  <1>1. Unchecked(m).index = m.index /\ Unchecked(m).debts = m.debts
        /\ Unchecked(m).quality = m.quality /\ Unchecked(m).systemic = m.systemic
    BY DEF Unchecked, Progress
  <1>2. m1 \in Progress
    BY ProgressUpdated, SizeAssumption
  <1> HIDE DEF m1
  <1>3. m2 \in Progress
    BY <1>2, ProgressUpdated
  <1>4. QED
    BY <1>1, <1>3 DEF Unchecked, m1

\* A saved draft checkpoint touches nothing else.
LEMMA CheckpointFields ==
  ASSUME NEW m \in Progress, cur \in Chapters, NEW sound \in BOOLEAN
  PROVE  LET d == [m EXCEPT !.draft = cur, !.sound = sound] IN
         /\ d \in Progress /\ d.index = m.index /\ d.debts = m.debts
         /\ d.quality = m.quality /\ d.systemic = m.systemic
  <1> DEFINE m1 == [m EXCEPT !.draft = cur]
             m2 == [m1 EXCEPT !.sound = sound]
  <1>1. m2.index = m.index /\ m2.debts = m.debts
        /\ m2.quality = m.quality /\ m2.systemic = m.systemic
    BY DEF Progress
  <1>2. m1 \in Progress
    BY ProgressUpdated, SizeAssumption DEF Chapters
  <1> HIDE DEF m1
  <1>3. m2 \in Progress
    BY <1>2, ProgressUpdated
  <1>4. QED
    BY <1>1, <1>3 DEF m1

Forgiven(m, c) == [m EXCEPT !.debts = @ \ {c}, !.quality = 0, !.systemic = 0]

\* A chapter that passes loses its debt and resets the counters.
LEMMA ForgivenFields ==
  ASSUME NEW m \in Progress, NEW c
  PROVE  /\ Forgiven(m, c) \in Progress /\ Forgiven(m, c).index = m.index
         /\ Forgiven(m, c).debts \subseteq m.debts
         /\ Forgiven(m, c).quality = 0 /\ Forgiven(m, c).systemic = 0
  <1> DEFINE m1 == [m EXCEPT !.debts = @ \ {c}]
             m2 == [m1 EXCEPT !.quality = 0]
             m3 == [m2 EXCEPT !.systemic = 0]
  <1>1. /\ m3.index = m.index /\ m3.debts \subseteq m.debts
        /\ m3.quality = 0 /\ m3.systemic = 0
    BY DEF Progress
  <1>2. m1 \in Progress
    BY ProgressUpdated DEF Progress
  <1> HIDE DEF m1
  <1>3. m2 \in Progress
    BY <1>2, ProgressUpdated, LimitAssumption
  <1> HIDE DEF m2
  <1>4. m3 \in Progress
    BY <1>3, ProgressUpdated, LimitAssumption
  <1>5. QED
    BY <1>1, <1>4 DEF Forgiven, m1, m2

\* The director's own way to the same record.
LEMMA ClearedFields ==
  ASSUME NEW m \in Progress
  PROVE  /\ Cleared(m) \in Progress /\ Cleared(m).index = m.index
         /\ Cleared(m).debts \subseteq m.debts
         /\ Cleared(m).quality = 0 /\ Cleared(m).systemic = 0
  <1>1. Cleared(m) = Forgiven(m, cur)
    BY DEF Cleared, Forgiven
  <1>2. QED
    BY <1>1, ForgivenFields

\* A counter below its limit is raised by one, and stays within the limit.
LEMMA CountToFields ==
  ASSUME NEW limit \in Nat, NEW k \in 0..limit
  PROVE  CountTo(limit, k) \in 0..limit /\ (CountTo(limit, k) # limit => CountTo(limit, k) = k + 1)
  BY DEF CountTo

Recorded(m, q, y) == [m EXCEPT !.debts = @ \cup {cur}, !.quality = q, !.systemic = y]

\* A rejected draft's chapter is recorded, with counters q and y.
LEMMA RecordedFields ==
  ASSUME NEW m \in Progress, cur \in Chapters,
         NEW q \in 0..QualityLimit, NEW y \in 0..SystemicLimit
  PROVE  /\ Recorded(m, q, y) \in Progress /\ Recorded(m, q, y).index = m.index
         /\ Recorded(m, q, y).debts \subseteq m.debts \cup {cur}
         /\ Recorded(m, q, y).quality = q /\ Recorded(m, q, y).systemic = y
  <1> DEFINE m1 == [m EXCEPT !.debts = @ \cup {cur}]
             m2 == [m1 EXCEPT !.quality = q]
             m3 == [m2 EXCEPT !.systemic = y]
  <1>1. /\ m3.index = m.index /\ m3.debts = m.debts \cup {cur}
        /\ m3.quality = q /\ m3.systemic = y
    BY DEF Progress
  <1>2. m1 \in Progress
    BY ProgressUpdated DEF Progress
  <1> HIDE DEF m1
  <1>3. m2 \in Progress
    BY <1>2, ProgressUpdated
  <1> HIDE DEF m2
  <1>4. m3 \in Progress
    BY <1>3, ProgressUpdated
  <1>5. QED
    BY <1>1, <1>4 DEF m1, m2, Recorded

----------------------------------------------------------------------------
(* The story memory.                                                       *)

USE DEF Chapters

\* A book that is not touched keeps its types and its provenance.
LEMMA BookKept ==
  ASSUME BookTypes, Provenance, UNCHANGED bookVars
  PROVE  BookTypes' /\ Provenance'
  <1>1. UNCHANGED <<text, exec, lock, ledger, partial, commit, staleFrom>>
    BY DEF bookVars, memoryVars
  <1>2. BookTypes'
    BY <1>1 DEF BookTypes
  <1>3. Provenance'
    BY <1>1 DEF Provenance
  <1>4. QED
    BY <1>2, <1>3

\* Settling the text that was locked, in order, keeps the provenance of
\* every chapter; a quality debt is never settled.
LEMMA SettleSafe ==
  ASSUME BookTypes, Provenance, NEW c \in Chapters, NEW complete \in BOOLEAN,
         Settle(c, complete), text[c] # 0, lock[c] = text[c],
         UNCHANGED <<text, lock>>,
         \A d \in Chapters : exec'[d] = "quality_debt" => exec[d] = "quality_debt",
         \A d \in Chapters \ {c} : commit'[d] = commit[d]
  PROVE  /\ ledger' \in [Chapters -> 0..MaxTexts]
         /\ partial' \subseteq Chapters
         /\ staleFrom' \in 1..N + 1
         /\ Provenance'
  <1> DEFINE held(d) == IF d = c THEN text[c]
                        ELSE IF d > c /\ staleFrom = c THEN 0 ELSE ledger[d]
  <1>1. ledger' \in [Chapters -> 0..MaxTexts] /\ \A d \in Chapters : ledger'[d] = held(d)
    <2>1. ledger' = [d \in Chapters |-> held(d)]
      BY DEF Settle
    <2>2. \A d \in Chapters : held(d) \in 0..MaxTexts
      BY SizeAssumption DEF BookTypes
    <2> HIDE DEF held
    <2>3. QED
      BY <2>1, <2>2
  <1> HIDE DEF held
  <1>2. /\ staleFrom' \in 1..N + 1
        /\ \/ staleFrom = c /\ staleFrom' = c + 1
           \/ staleFrom = N + 1 /\ staleFrom' = N + 1
    BY SizeAssumption DEF BookTypes, Settle, InOrder, NextStale
  <1>3. partial' \subseteq partial \cup {c}
    BY DEF Settle
  <1>4. Provenance'
    <2> SUFFICES ASSUME NEW d \in Chapters
                 PROVE  /\ text[d] = 0 => lock[d] = 0
                        /\ lock[d] = 0 => ledger'[d] = 0 /\ commit'[d] = "none"
                        /\ exec'[d] = "quality_debt" => lock[d] = 0
                        /\ d \in partial' /\ d < staleFrom' => ledger'[d] # 0
                        /\ ledger'[d] # 0 /\ d < staleFrom' => ledger'[d] = text[d] /\ lock[d] = text[d]
      BY DEF Provenance
    <2>1. CASE d = c
      BY <2>1, <1>1 DEF Provenance, held
    <2>2. CASE d # c
      <3>1. /\ text[d] = 0 => lock[d] = 0
            /\ lock[d] = 0 => ledger[d] = 0 /\ commit[d] = "none"
            /\ exec[d] = "quality_debt" => lock[d] = 0
            /\ d \in partial /\ d < staleFrom => ledger[d] # 0
            /\ ledger[d] # 0 /\ d < staleFrom => ledger[d] = text[d] /\ lock[d] = text[d]
        BY DEF Provenance
      <3>2. ledger'[d] = ledger[d] \/ (d > c /\ staleFrom = c /\ ledger'[d] = 0)
        BY <2>2, <1>1 DEF held
      <3>3. d < staleFrom' => d < staleFrom /\ ledger'[d] = ledger[d]
        <4>1. CASE staleFrom = c /\ staleFrom' = c + 1
          BY <4>1, <2>2, <3>2, SizeAssumption
        <4>2. CASE staleFrom = N + 1 /\ staleFrom' = N + 1
          BY <4>2, <3>2, SizeAssumption
        <4>3. QED
          BY <1>2, <4>1, <4>2
      <3>4. commit'[d] = commit[d] /\ (d \in partial' => d \in partial)
        BY <2>2, <1>3
      <3>5. QED
        BY <3>1, <3>2, <3>3, <3>4
    <2>3. QED
      BY <2>1, <2>2
  <1>5. QED
    BY <1>1, <1>2, <1>3, <1>4 DEF BookTypes

\* Prose is replaced: what was settled from the old text becomes stale.
LEMMA InvalidatedSafe ==
  ASSUME BookTypes, NEW c \in Chapters
  PROVE  /\ Invalidated(c) \in 1..N + 1 /\ Invalidated(c) <= staleFrom
         /\ lock[c] # 0 => Invalidated(c) <= c
         /\ lock[c] = 0 => Invalidated(c) = staleFrom
  BY SizeAssumption DEF BookTypes, Invalidated

\* A draft enters an empty chapter, which no lock and no memory knows.
LEMMA WriteSafe ==
  ASSUME BookTypes, Provenance, cur \in Chapters, text[cur] = 0,
         NEW state \in {"memory_pending", "quality_debt"}, Write(state),
         UNCHANGED <<ledger, partial>>,
         \/ state = "quality_debt" /\ lock' = lock
         \/ state = "memory_pending" /\ lock' = [lock EXCEPT ![cur] = text'[cur]]
  PROVE  /\ text'[cur] # 0 /\ exec'[cur] = state
         /\ \A c \in Chapters \ {cur} : text'[c] = text[c] /\ exec'[c] = exec[c]
         /\ BookTypes' /\ Provenance'
  <1>1. /\ text' \in [Chapters -> 0..MaxTexts] /\ text'[cur] = 1
        /\ \A c \in Chapters \ {cur} : text'[c] = text[c]
    BY SizeAssumption DEF BookTypes, Write
  <1>2. /\ exec' \in [Chapters -> {"never_run", "memory_pending", "accepted", "quality_debt"}]
        /\ exec'[cur] = state
        /\ \A c \in Chapters \ {cur} : exec'[c] = exec[c]
    BY DEF BookTypes, Write
  <1>3. /\ commit' \in [Chapters -> {"none", "pending", "committed"}]
        /\ commit'[cur] = "none"
        /\ \A c \in Chapters \ {cur} : commit'[c] = commit[c]
    BY DEF BookTypes, Write
  <1>4. lock[cur] = 0 /\ ledger[cur] = 0
    BY DEF Provenance
  <1>5. staleFrom' = staleFrom
    BY <1>4 DEF Write, Invalidated
  <1>6. /\ lock' \in [Chapters -> 0..MaxTexts]
        /\ lock'[cur] = IF state = "quality_debt" THEN 0 ELSE 1
        /\ \A c \in Chapters \ {cur} : lock'[c] = lock[c]
    <2>1. CASE state = "quality_debt" /\ lock' = lock
      BY <2>1, <1>4 DEF BookTypes
    <2>2. CASE state = "memory_pending" /\ lock' = [lock EXCEPT ![cur] = text'[cur]]
      BY <2>2, <1>1 DEF BookTypes
    <2>3. QED
      BY <2>1, <2>2
  <1>7. Provenance'
    <2> SUFFICES ASSUME NEW c \in Chapters
                 PROVE  /\ text'[c] = 0 => lock'[c] = 0
                        /\ lock'[c] = 0 => ledger[c] = 0 /\ commit'[c] = "none"
                        /\ exec'[c] = "quality_debt" => lock'[c] = 0
                        /\ c \in partial /\ c < staleFrom => ledger[c] # 0
                        /\ ledger[c] # 0 /\ c < staleFrom => ledger[c] = text'[c] /\ lock'[c] = text'[c]
      BY <1>5 DEF Provenance
    <2>1. CASE c = cur
      BY <2>1, <1>1, <1>2, <1>3, <1>4, <1>6 DEF Provenance
    <2>2. CASE c # cur
      BY <2>2, <1>1, <1>2, <1>3, <1>6 DEF Provenance
    <2>3. QED
      BY <2>1, <2>2
  <1>8. QED
    BY <1>1, <1>2, <1>3, <1>5, <1>6, <1>7 DEF BookTypes, Write

----------------------------------------------------------------------------
(* One lemma for each group of actions: the invariant is preserved.        *)

\* Where a run begins and where it has ended, nothing has been counted.
LEMMA NothingCounted ==
  /\ NoProgress \in Progress /\ NoStreak \in [quality: Nat, systemic: Nat]
  /\ NoProgress.quality = 0 /\ NoProgress.systemic = 0
  /\ NoProgress.index = 0 /\ NoProgress.debts = {}
  /\ NoStreak.quality = 0 /\ NoStreak.systemic = 0
  BY SizeAssumption, LimitAssumption DEF NoProgress, NoStreak, Progress

\* A run ends in a pause at a checkpoint that has passed no further chapter.
LEMMA PauseSafe ==
  ASSUME IInv, NEW m \in Progress, m.index = row.index,
         m.debts \subseteq 1..m.index + 1, PauseAt(m)
  PROVE  IInv'
  <1> USE DEF IInv, Types, PauseAt, Gone
  <1>1. BookTypes' /\ Provenance'
    BY BookKept
  <1>2. RowTypes' /\ RunTypes' /\ FlagTypes'
    <2>1. RowTypes' /\ RunTypes'
      BY NothingCounted, SizeAssumption DEF RowTypes, RunTypes, Places
    <2>2. FlagTypes'
      BY DEF FlagTypes
    <2>3. QED
      BY <2>1, <2>2
  <1>3. Position' /\ Stage'
    BY DEF Position, Stage
  <1>4. NothingPassedOver'
    BY DEF NothingPassedOver, bookVars
  <1>5. Counting'
    BY NothingCounted, LimitAssumption DEF Counting, BreakerBoundsARun
  <1>6. QED
    BY <1>1, <1>2, <1>3, <1>4, <1>5

\* The process dies: only what was saved remains.
LEMMA CrashSafe ==
  ASSUME IInv, Crash
  PROVE  IInv'
  <1> USE DEF IInv, Types, Crash, Gone
  <1>1. BookTypes' /\ Provenance'
    BY BookKept
  <1>2. RowTypes' /\ RunTypes' /\ FlagTypes'
    <2>1. RowTypes' /\ RunTypes'
      BY NothingCounted, SizeAssumption DEF RowTypes, RunTypes, Places
    <2>2. FlagTypes'
      BY DEF FlagTypes
    <2>3. QED
      BY <2>1, <2>2
  <1>3. Position' /\ Stage'
    BY DEF Position, Stage
  <1>4. NothingPassedOver'
    BY DEF NothingPassedOver, bookVars
  <1>5. Counting'
    BY NothingCounted, LimitAssumption DEF Counting, BreakerBoundsARun
  <1>6. QED
    BY <1>1, <1>2, <1>3, <1>4, <1>5

\* The next poll pauses what a dead process left behind.
LEMMA ReconcileSafe ==
  ASSUME IInv, Reconcile
  PROVE  IInv'
  <1> USE DEF IInv, Types, Reconcile, runVars
  <1>1. BookTypes' /\ Provenance'
    BY BookKept
  <1>2. RowTypes' /\ RunTypes' /\ FlagTypes'
    BY DEF RowTypes, RunTypes, FlagTypes
  <1>3. Position' /\ Stage'
    BY DEF Position, Stage
  <1>4. NothingPassedOver' /\ Counting'
    BY DEF NothingPassedOver, bookVars, Counting, BreakerBoundsARun
  <1>5. QED
    BY <1>1, <1>2, <1>3, <1>4

\* A run begins again at the row's index.
LEMMA ResumeSafe ==
  ASSUME IInv, Resume
  PROVE  IInv'
  <1> USE DEF IInv, Types, Resume
  <1>1. BookTypes' /\ Provenance'
    BY BookKept
  <1>2. row.index \in 0..N /\ row \in Progress
    BY ProgressFields DEF RowTypes
  <1>3. RowTypes' /\ RunTypes' /\ FlagTypes'
    BY <1>2, SizeAssumption DEF RowTypes, RunTypes, FlagTypes, Places
  <1>4. Position' /\ Stage'
    BY <1>2 DEF Position, Stage
  <1>5. NothingPassedOver'
    BY DEF NothingPassedOver, bookVars
  <1>6. Counting'
    BY NothingCounted, ProgressFields, <1>2, LimitAssumption DEF Counting, BreakerBoundsARun
  <1>7. QED
    BY <1>1, <1>3, <1>4, <1>5, <1>6

\* The loop head: a chapter is skipped, recovered, or begun.
LEMMA HeadSafe ==
  ASSUME IInv, BeginRecovery \/ SkipWritten \/ BeginChapter
  PROVE  IInv'
  <1> USE DEF IInv, Types, AtHead
  <1>1. UNCHANGED <<bookVars, status, streak, strict>>
    BY DEF BeginRecovery, SkipWritten, BeginChapter
  <1>2. BookTypes' /\ Provenance'
    BY <1>1, BookKept
  <1>3. cur \in Chapters /\ cur = mem.index + 1 /\ row.index = mem.index
    BY SizeAssumption DEF BeginRecovery, SkipWritten, BeginChapter, Position, RunTypes
  <1>4. CASE SkipWritten
    <2> USE <1>4 DEF SkipWritten, SaveTask, NextChapter
    <2>1. /\ Done(mem) \in Progress /\ Done(mem).index = cur
          /\ Done(mem).debts \subseteq mem.debts
          /\ Done(mem).quality = mem.quality /\ Done(mem).systemic = mem.systemic
      BY <1>3, DoneFields DEF RowTypes
    <2>2. RowTypes' /\ RunTypes' /\ FlagTypes'
      <3>1. RowTypes'
        BY <2>1, <1>1 DEF RowTypes
      <3>2. RunTypes'
        BY <1>1, <1>3, SizeAssumption DEF RunTypes, Places
      <3>3. FlagTypes'
        BY <1>1 DEF FlagTypes
      <3>4. QED
        BY <3>1, <3>2, <3>3
    <2>3. Position' /\ Stage'
      BY <2>1, <1>3 DEF Position, Stage
    <2>4. NothingPassedOver'
      <3>1. \A c \in 1..cur : c \in 1..row.index \/ c = cur
        BY <1>3, ProgressFields DEF RowTypes
      <3>2. QED
        BY <2>1, <3>1, <1>1 DEF NothingPassedOver, bookVars
    <2>5. Counting'
      <3>1. mem.debts \subseteq 1..cur
        BY <1>3 DEF Counting
      <3>2. \A c \in 1..cur : c \in 1..cur + 1
        BY <1>3, SizeAssumption
      <3>3. QED
        BY <2>1, <3>1, <3>2, <1>1 DEF Counting, BreakerBoundsARun
    <2>6. QED
      BY <1>2, <2>2, <2>3, <2>4, <2>5
  <1>5. CASE BeginRecovery \/ BeginChapter
    <2>1. /\ UNCHANGED <<row, mem, cur, attempt, fresh>>
          /\ pc = "head"
          /\ \/ pc' = "extract" /\ text[cur] # 0
             \/ pc' = "plan" /\ text[cur] = 0
      BY <1>5 DEF BeginRecovery, BeginChapter
    <2>2. RowTypes' /\ RunTypes' /\ FlagTypes'
      BY <2>1, <1>1 DEF RowTypes, RunTypes, FlagTypes, Places, Awaits
    <2>3. Position' /\ Stage'
      BY <2>1, <1>1, <1>3 DEF Position, Stage, bookVars
    <2>4. NothingPassedOver' /\ Counting'
      BY <2>1, <1>1 DEF NothingPassedOver, bookVars, Counting, BreakerBoundsARun
    <2>5. QED
      BY <1>2, <2>2, <2>3, <2>4
  <1>6. QED
    BY <1>4, <1>5

\* Planning, drafting and revising: only the draft checkpoint is saved.
LEMMA DraftSafe ==
  ASSUME IInv, PlanReady \/ DraftReady \/ Revise \/ RevisionReady
  PROVE  IInv'
  <1> USE DEF IInv, Types
  <1>1. /\ pc \in {"plan", "draft", "audit", "revise"}
        /\ pc' \in {"draft", "audit", "revise"}
        /\ UNCHANGED <<bookVars, status, cur, fresh, streak, strict>>
    BY DEF PlanReady, DraftReady, Revise, RevisionReady
  <1>2. BookTypes' /\ Provenance'
    BY <1>1, BookKept
  <1>3. cur \in Chapters
    BY <1>1 DEF Position
  <1>4. attempt' \in 0..MaxAttempts
    <2>1. CASE RevisionReady
      BY <2>1, SizeAssumption DEF RevisionReady, Stage, RunTypes
    <2>2. CASE ~RevisionReady
      BY <2>2 DEF PlanReady, DraftReady, Revise, RunTypes
    <2>3. QED
      BY <2>1, <2>2
  <1>5. \/ row' = row /\ mem' = mem
        \/ /\ mem' \in Progress /\ row' = mem'
           /\ mem'.index = mem.index /\ mem'.debts = mem.debts
           /\ mem'.quality = mem.quality /\ mem'.systemic = mem.systemic
    <2>1. CASE UNCHANGED <<row, mem>>
      BY <2>1
    <2>2. CASE SaveTask(Unchecked(mem))
      BY <2>2, UncheckedFields DEF SaveTask, RowTypes
    <2>3. CASE \E sound \in BOOLEAN : Checkpointed(sound)
      <3>1. PICK sound \in BOOLEAN : Checkpointed(sound)
        BY <2>3
      <3> DEFINE d == [mem EXCEPT !.draft = cur, !.sound = sound]
      <3>2. /\ d \in Progress /\ d.index = mem.index /\ d.debts = mem.debts
            /\ d.quality = mem.quality /\ d.systemic = mem.systemic
        BY <1>3, CheckpointFields DEF RowTypes
      <3>3. mem' = d /\ row' = d
        BY <3>1 DEF Checkpointed, SaveTask
      <3> HIDE DEF d
      <3>4. QED
        BY <3>2, <3>3
    <2>4. QED
      BY <2>1, <2>2, <2>3 DEF PlanReady, DraftReady, Revise, RevisionReady
  <1>6. RowTypes' /\ RunTypes' /\ FlagTypes'
    BY <1>1, <1>4, <1>5 DEF RowTypes, RunTypes, FlagTypes, Places, Awaits
  <1>7. Position'
    BY <1>1, <1>3, <1>5 DEF Position
  <1>8. Stage'
    <2>1. pc' = "revise" => attempt' < MaxAttempts
      BY DEF PlanReady, DraftReady, Revise, RevisionReady
    <2>2. text'[cur'] = 0
      BY <1>1 DEF Stage, bookVars
    <2>3. QED
      BY <1>1, <2>1, <2>2 DEF Stage
  <1>9. NothingPassedOver'
    BY <1>1, <1>5 DEF NothingPassedOver, bookVars, Position
  <1>10. Counting'
    BY <1>1, <1>5 DEF Counting, BreakerBoundsARun, Position
  <1>11. QED
    BY <1>2, <1>6, <1>7, <1>8, <1>9, <1>10

\* A passing draft enters the book, locked, and clears the counters.
LEMMA AcceptSafe ==
  ASSUME IInv, AcceptDraft
  PROVE  IInv'
  <1> USE DEF IInv, Types
  <1>1. /\ pc = "audit" /\ cur \in Chapters /\ cur = mem.index + 1 /\ row.index = mem.index
        /\ text[cur] = 0 /\ mem \in Progress /\ mem.index \in 0..N
    BY ProgressFields DEF AcceptDraft, Position, Stage, RowTypes
  <1>2. /\ Cleared(mem) \in Progress /\ Cleared(mem).index = mem.index
        /\ Cleared(mem).debts \subseteq mem.debts
        /\ Cleared(mem).quality = 0 /\ Cleared(mem).systemic = 0
    BY <1>1, ClearedFields
  <1>3. mem.debts \subseteq 1..mem.index + 1
    BY <1>1 DEF Counting
  <1>4. CASE Blocked(Cleared(mem))
    <2>1. PauseAt(Cleared(mem))
      BY <1>4 DEF Blocked
    <2>2. QED
      BY <2>1, <1>1, <1>2, <1>3, PauseSafe
  <1>5. CASE ~Blocked(Cleared(mem))
    <2>1. /\ Write("memory_pending")
          /\ lock' = [lock EXCEPT ![cur] = text'[cur]]
          /\ mem' = Cleared(mem) /\ pc' = "textSaved" /\ streak' = NoStreak
          /\ UNCHANGED <<ledger, partial, status, row, cur, attempt, strict>>
      BY <1>5 DEF AcceptDraft
    <2>2. /\ text'[cur] # 0
          /\ \A c \in Chapters \ {cur} : text'[c] = text[c] /\ exec'[c] = exec[c]
          /\ BookTypes' /\ Provenance'
      BY <2>1, <1>1, WriteSafe
    <2>3. RowTypes' /\ RunTypes'
      BY <2>1, <1>2, NothingCounted DEF RowTypes, RunTypes, Places
    <2>4. FlagTypes'
      BY <2>1 DEF FlagTypes, Write
    <2>5. Position' /\ Stage'
      BY <2>1, <2>2, <1>1, <1>2 DEF Position, Stage
    <2>6. NothingPassedOver'
      <3>1. \A c \in 1..row.index : c \in Chapters \ {cur}
        BY <1>1, SizeAssumption
      <3>2. QED
        BY <2>1, <2>2, <3>1 DEF NothingPassedOver
    <2>7. Counting'
      BY <2>1, <1>1, <1>2, <1>3, NothingCounted, LimitAssumption DEF Counting, BreakerBoundsARun
    <2>8. QED
      BY <2>2, <2>3, <2>4, <2>5, <2>6, <2>7
  <1>6. QED
    BY <1>4, <1>5

\* A rejected draft pauses the run or enters the book as a quality debt: the
\* counters, raised with it, stay below the limits that would have paused it.
LEMMA RejectSafe ==
  ASSUME IInv, RejectDraft
  PROVE  IInv'
  <1> USE DEF IInv, Types
  <1>1. /\ pc = "audit" /\ cur \in Chapters /\ cur = mem.index + 1 /\ row.index = mem.index
        /\ text[cur] = 0 /\ mem \in Progress /\ mem.index \in 0..N
    BY ProgressFields DEF RejectDraft, Position, Stage, RowTypes
  <1>2. PICK contract \in BOOLEAN, near \in BOOLEAN, systemic \in BOOLEAN :
          LET m == Indebted(mem, cur \in mem.debts /\ ~contract, near, systemic) IN
          \/ (Tripped(m) \/ strict) /\ PauseAt(m)
          \/ ~Tripped(m) /\ ~strict /\ Blocked(m)
          \/ /\ ~Tripped(m) /\ ~strict /\ m.sound
             /\ Write("quality_debt")
             /\ mem' = m /\ pc' = "index"
             /\ streak' = [quality |-> IF near THEN streak.quality ELSE streak.quality + 1,
                           systemic |-> IF systemic THEN streak.systemic + 1 ELSE 0]
             /\ UNCHANGED <<lock, ledger, partial, status, row, cur, attempt, strict>>
    BY DEF RejectDraft
  <1> DEFINE retry == cur \in mem.debts /\ ~contract
             m == Indebted(mem, retry, near, systemic)
             q == IF retry THEN 1 ELSE IF near THEN mem.quality
                  ELSE CountTo(QualityLimit, mem.quality)
             y == IF ~systemic THEN 0 ELSE IF retry THEN 1
                  ELSE CountTo(SystemicLimit, mem.systemic)
  <1>3. q \in 0..QualityLimit /\ y \in 0..SystemicLimit
    <2>1. mem.quality \in 0..QualityLimit /\ mem.systemic \in 0..SystemicLimit
      BY <1>1, ProgressFields
    <2>2. /\ CountTo(QualityLimit, mem.quality) \in 0..QualityLimit
          /\ CountTo(SystemicLimit, mem.systemic) \in 0..SystemicLimit
      BY <2>1, CountToFields, LimitAssumption
    <2>3. 1 \in 0..QualityLimit /\ 0 \in 0..SystemicLimit /\ 1 \in 0..SystemicLimit
      BY LimitAssumption
    <2> HIDE DEF retry
    <2>4. QED
      BY <2>1, <2>2, <2>3
  <1>4. /\ m \in Progress /\ m.index = mem.index /\ m.debts \subseteq mem.debts \cup {cur}
        /\ m.quality = q /\ m.systemic = y
    <2>1. m = Recorded(mem, q, y)
      BY DEF Indebted, Recorded
    <2> HIDE DEF m, q, y
    <2>2. QED
      BY <2>1, <1>1, <1>3, RecordedFields
  <1> HIDE DEF retry, q, y
  <1> HIDE DEF m
  <1>5. m.debts \subseteq 1..m.index + 1
    BY <1>1, <1>4 DEF Counting
  <1>6. CASE PauseAt(m)
    BY <1>6, <1>1, <1>4, <1>5, PauseSafe
  <1>7. CASE ~PauseAt(m)
    <2>1. /\ ~Tripped(m) /\ Write("quality_debt") /\ mem' = m /\ pc' = "index"
          /\ streak' = [quality |-> IF near THEN streak.quality ELSE streak.quality + 1,
                        systemic |-> IF systemic THEN streak.systemic + 1 ELSE 0]
          /\ UNCHANGED <<lock, ledger, partial, status, row, cur, attempt, strict>>
      BY <1>2, <1>7 DEF Blocked, m, retry
    <2>2. /\ text'[cur] # 0 /\ exec'[cur] = "quality_debt"
          /\ \A c \in Chapters \ {cur} : text'[c] = text[c] /\ exec'[c] = exec[c]
          /\ BookTypes' /\ Provenance'
      BY <2>1, <1>1, WriteSafe
    <2>3. streak.quality \in Nat /\ streak.systemic \in Nat
      BY DEF RunTypes
    <2>4. /\ streak'.quality = IF near THEN streak.quality ELSE streak.quality + 1
          /\ streak'.systemic = IF systemic THEN streak.systemic + 1 ELSE 0
          /\ streak' \in [quality: Nat, systemic: Nat]
      BY <2>1, <2>3
    <2>5. RowTypes' /\ RunTypes'
      BY <2>1, <2>4, <1>4 DEF RowTypes, RunTypes, Places
    <2>6. FlagTypes'
      BY <2>1 DEF FlagTypes, Write
    <2>7. Position' /\ Stage'
      BY <2>1, <2>2, <1>1, <1>4 DEF Position, Stage
    <2>8. NothingPassedOver'
      <3>1. \A c \in 1..row.index : c \in Chapters \ {cur}
        BY <1>1, SizeAssumption
      <3>2. QED
        BY <2>1, <2>2, <3>1 DEF NothingPassedOver
    <2>9. streak'.quality <= m.quality /\ streak'.systemic <= m.systemic
      <3>1. mem.quality \in 0..QualityLimit /\ mem.systemic \in 0..SystemicLimit
        BY <1>1, ProgressFields
      <3>2. m.quality < QualityLimit /\ m.systemic < SystemicLimit
        BY <2>1, <1>4, LimitAssumption, ProgressFields DEF Tripped
      <3>3. CASE retry
        <4>1. streak = NoStreak
          BY <3>3, <1>1 DEF retry, Counting
        <4>2. QED
          BY <3>3, <4>1, <2>4, <1>4, NothingCounted DEF q, y
      <3>4. CASE ~retry
        <4>1. streak.quality <= mem.quality /\ streak.systemic <= mem.systemic
          BY DEF Counting
        <4>2. ~near => m.quality = mem.quality + 1
          <5>1. CountTo(QualityLimit, mem.quality) # QualityLimit => CountTo(QualityLimit, mem.quality) = mem.quality + 1
            BY <3>1, CountToFields, LimitAssumption
          <5>2. QED
            BY <5>1, <3>2, <3>4, <1>4, LimitAssumption DEF q, y
        <4>3. systemic => m.systemic = mem.systemic + 1
          <5>1. CountTo(SystemicLimit, mem.systemic) # SystemicLimit => CountTo(SystemicLimit, mem.systemic) = mem.systemic + 1
            BY <3>1, CountToFields, LimitAssumption
          <5>2. QED
            BY <5>1, <3>2, <3>4, <1>4, LimitAssumption DEF q, y
        <4>4. QED
          BY <3>1, <3>4, <4>1, <4>2, <4>3, <2>3, <2>4, <1>4, LimitAssumption DEF q, y
      <3>5. QED
        BY <3>3, <3>4
    <2>10. BreakerBoundsARun'
      <3>1. m.quality < QualityLimit /\ m.systemic < SystemicLimit
        BY <2>1, <1>4, LimitAssumption, ProgressFields DEF Tripped
      <3>2. m.quality \in Nat /\ m.systemic \in Nat
        BY <1>4, ProgressFields, LimitAssumption
      <3>3. QED
        BY <2>4, <2>9, <3>1, <3>2, LimitAssumption DEF BreakerBoundsARun
    <2>11. Counting'
      BY <2>1, <2>9, <2>10, <1>4, <1>5 DEF Counting
    <2>12. QED
      BY <2>2, <2>5, <2>6, <2>7, <2>8, <2>11
  <1>8. QED
    BY <1>6, <1>7

\* The row follows the text, which has been saved before it.
LEMMA TextSavedSafe ==
  ASSUME IInv, TextSaved
  PROVE  IInv'
  <1> USE DEF IInv, Types, TextSaved
  <1>1. BookTypes' /\ Provenance'
    BY BookKept
  <1>2. RowTypes' /\ RunTypes' /\ FlagTypes'
    BY DEF RowTypes, RunTypes, FlagTypes, Places, Awaits
  <1>3. Position' /\ Stage'
    BY DEF Position, Stage, bookVars
  <1>4. NothingPassedOver' /\ Counting'
    BY DEF NothingPassedOver, bookVars, Counting, BreakerBoundsARun, Position
  <1>5. QED
    BY <1>1, <1>2, <1>3, <1>4

\* The runner settles the chapter whose locked text it extracted.
LEMMA SettledSafe ==
  ASSUME IInv, pc \in {"extract", "repair"}, lock[cur] = text[cur],
         NEW complete \in BOOLEAN, Settled(complete),
         UNCHANGED <<status, row, mem, cur, attempt, fresh, streak, strict>>
  PROVE  IInv'
  <1> USE DEF IInv, Types, Settled
  <1>1. /\ cur \in Chapters /\ cur = mem.index + 1 /\ row.index = mem.index
        /\ text[cur] # 0 /\ mem.index \in 0..N
    BY ProgressFields DEF Position, Stage, RowTypes
  <1>2. /\ exec' \in [Chapters -> {"never_run", "memory_pending", "accepted", "quality_debt"}]
        /\ exec'[cur] = "accepted"
        /\ \A c \in Chapters \ {cur} : exec'[c] = exec[c]
    BY <1>1 DEF BookTypes
  <1>3. \A d \in Chapters : exec'[d] = "quality_debt" => exec[d] = "quality_debt"
    BY <1>2
  <1>4. /\ ledger' \in [Chapters -> 0..MaxTexts] /\ partial' \subseteq Chapters
        /\ staleFrom' \in 1..N + 1 /\ Provenance'
    BY <1>1, <1>3, SettleSafe
  <1>5. BookTypes'
    BY <1>2, <1>4 DEF BookTypes
  <1>6. RowTypes' /\ RunTypes' /\ FlagTypes'
    BY DEF RowTypes, RunTypes, FlagTypes, Places
  <1>7. Position' /\ Stage'
    BY <1>1, <1>2 DEF Position, Stage
  <1>8. NothingPassedOver'
    <2>1. \A c \in 1..row.index : c \in Chapters \ {cur}
      BY <1>1, SizeAssumption
    <2>2. QED
      BY <2>1, <1>2 DEF NothingPassedOver
  <1>9. Counting'
    <2>1. mem.debts \subseteq 1..mem.index + 1
      BY DEF Counting
    <2>2. QED
      BY <2>1 DEF Counting, BreakerBoundsARun
  <1>10. QED
    BY <1>4, <1>5, <1>6, <1>7, <1>8, <1>9

\* The extraction of the memory returns, is refused, or is repaired.
LEMMA MemorySafe ==
  ASSUME IInv, MemoryReady \/ RepairReady
  PROVE  IInv'
  <1>1. CASE RepairReady
    <2>1. PICK complete \in BOOLEAN : Settled(complete)
      BY <1>1 DEF RepairReady
    <2>2. pc = "repair" /\ lock[cur] = text[cur]
      BY <1>1 DEF RepairReady, IInv, Stage
    <2>3. UNCHANGED <<status, row, mem, cur, attempt, fresh, streak, strict>>
      BY <1>1 DEF RepairReady
    <2>4. QED
      BY <2>1, <2>2, <2>3, SettledSafe
  <1>2. CASE MemoryReady /\ Settled(TRUE)
    <2>1. pc = "extract" /\ lock[cur] = text[cur]
      BY <1>2 DEF MemoryReady, Extractable
    <2>2. UNCHANGED <<status, row, mem, cur, attempt, fresh, streak, strict>>
      BY <1>2 DEF MemoryReady
    <2>3. QED
      BY <1>2, <2>1, <2>2, SettledSafe
  <1>3. CASE MemoryReady /\ ~Settled(TRUE)
    <2> USE DEF IInv, Types
    <2>1. /\ pc = "extract" /\ lock[cur] = text[cur] /\ pc' = "repair"
          /\ UNCHANGED <<bookVars, status, row, mem, cur, attempt, fresh, streak, strict>>
      BY <1>3 DEF MemoryReady, Extractable
    <2>2. BookTypes' /\ Provenance'
      BY <2>1, BookKept
    <2>3. RowTypes' /\ RunTypes' /\ FlagTypes'
      BY <2>1 DEF RowTypes, RunTypes, FlagTypes, Places, Awaits
    <2>4. Position' /\ Stage'
      BY <2>1 DEF Position, Stage, bookVars
    <2>5. NothingPassedOver' /\ Counting'
      BY <2>1 DEF NothingPassedOver, bookVars, Counting, BreakerBoundsARun
    <2>6. QED
      BY <2>2, <2>3, <2>4, <2>5
  <1>4. QED
    BY <1>1, <1>2, <1>3

\* The index moves past a chapter that has a text and is not pending.
LEMMA SaveIndexSafe ==
  ASSUME IInv, SaveIndex
  PROVE  IInv'
  <1> USE DEF IInv, Types, SaveIndex, SaveTask
  <1> DEFINE m == Unchecked(Done(mem))
  <1>1. /\ cur \in Chapters /\ cur = mem.index + 1 /\ row.index = mem.index
        /\ mem \in Progress /\ mem.index \in 0..N
        /\ text[cur] # 0 /\ exec[cur] # "memory_pending"
    BY ProgressFields DEF Position, Stage, RowTypes
  <1>2. /\ m \in Progress /\ m.index = cur /\ m.debts \subseteq mem.debts
        /\ m.quality = mem.quality /\ m.systemic = mem.systemic
    BY <1>1, DoneFields, UncheckedFields
  <1>3. mem' = m /\ row' = m
    OBVIOUS
  <1> HIDE DEF m
  <1>4. BookTypes' /\ Provenance'
    BY BookKept
  <1>5. \/ pc' = "after" /\ cur' = cur /\ attempt' = attempt /\ fresh' = fresh
        \/ pc' = "head" /\ cur' = cur + 1 /\ attempt' = 0 /\ fresh' = FALSE
    BY DEF NextChapter
  <1>6. RowTypes'
    BY <1>2, <1>3 DEF RowTypes
  <1>7. RunTypes'
    BY <1>1, <1>5, SizeAssumption DEF RunTypes, Places, Awaits
  <1>8. FlagTypes'
    BY <1>5 DEF FlagTypes
  <1>9. Position' /\ Stage'
    BY <1>1, <1>2, <1>3, <1>5 DEF Position, Stage
  <1>10. NothingPassedOver'
    <2>1. \A c \in 1..cur : c \in 1..row.index \/ c = cur
      BY <1>1
    <2>2. QED
      BY <2>1, <1>1, <1>2, <1>3 DEF NothingPassedOver, bookVars
  <1>11. Counting'
    <2>1. mem.debts \subseteq 1..cur
      BY <1>1 DEF Counting
    <2>2. \A c \in 1..cur : c \in 1..cur + 1
      BY <1>1, SizeAssumption
    <2>3. QED
      BY <2>1, <2>2, <1>2, <1>3, <1>5 DEF Counting, BreakerBoundsARun
  <1>12. QED
    BY <1>4, <1>6, <1>7, <1>8, <1>9, <1>10, <1>11

\* After a chapter the run goes on or a strict one is paused; at the end it
\* completes.
LEMMA AfterSafe ==
  ASSUME IInv, AfterChapter \/ Complete
  PROVE  IInv'
  <1> USE DEF IInv, Types
  <1>1. mem.debts \subseteq 1..mem.index + 1 /\ row.index = mem.index /\ mem \in Progress
    BY DEF AfterChapter, Complete, Counting, Position, RowTypes
  <1>2. CASE PauseAt(mem)
    BY <1>1, <1>2, PauseSafe
  <1>3. CASE AfterChapter /\ ~PauseAt(mem)
    <2>1. /\ pc = "after" /\ pc' = "head" /\ cur' = cur + 1 /\ attempt' = 0 /\ fresh' = FALSE
          /\ UNCHANGED <<bookVars, status, row, mem, streak, strict>>
      BY <1>3 DEF AfterChapter, NextChapter
    <2>2. cur \in Chapters /\ cur = mem.index
      BY <2>1 DEF Position
    <2>3. BookTypes' /\ Provenance'
      BY <2>1, BookKept
    <2>4. RowTypes' /\ FlagTypes'
      BY <2>1 DEF RowTypes, FlagTypes
    <2>5. RunTypes'
      BY <2>1, <2>2, SizeAssumption DEF RunTypes, Places
    <2>6. Position' /\ Stage'
      BY <2>1, <2>2 DEF Position, Stage
    <2>7. NothingPassedOver' /\ Counting'
      BY <2>1 DEF NothingPassedOver, bookVars, Counting, BreakerBoundsARun
    <2>8. QED
      BY <2>3, <2>4, <2>5, <2>6, <2>7
  <1>4. CASE Complete
    <2> USE <1>4 DEF Complete, Gone
    <2>1. BookTypes' /\ Provenance'
      BY BookKept
    <2>2. RowTypes' /\ RunTypes'
      BY <1>1, NothingCounted, SizeAssumption DEF RowTypes, RunTypes, Places
    <2>3. FlagTypes'
      BY DEF FlagTypes
    <2>4. Position' /\ Stage'
      BY DEF Position, Stage
    <2>5. NothingPassedOver'
      BY <1>1 DEF NothingPassedOver, bookVars
    <2>6. Counting'
      BY <1>1, NothingCounted, LimitAssumption DEF Counting, BreakerBoundsARun
    <2>7. QED
      BY <2>1, <2>2, <2>3, <2>4, <2>5, <2>6
  <1>5. QED
    BY <1>2, <1>3, <1>4

----------------------------------------------------------------------------
(* The author.  No run is active then, so only the book and the row move.  *)

\* The row loses debts, and nothing else of it grows.
LEMMA AuthorSafe ==
  ASSUME IInv, Free, AuthorRests, BookTypes', Provenance', row' \in Progress,
         row'.index = row.index, row'.debts \subseteq row.debts,
         \A c \in Chapters : text[c] # 0 => text'[c] # 0,
         \A c \in Chapters : exec'[c] = "memory_pending" => exec[c] = "memory_pending"
  PROVE  IInv'
  <1> USE DEF IInv, Types, Free, AuthorRests, runVars
  <1>1. pc = "idle" /\ pc' = "idle" /\ UNCHANGED <<status, mem, cur, attempt, fresh, strict, streak>>
    BY DEF Position
  <1>2. RowTypes' /\ RunTypes' /\ FlagTypes'
    BY <1>1 DEF RowTypes, RunTypes, FlagTypes
  <1>3. Position' /\ Stage'
    BY <1>1 DEF Position, Stage
  <1>4. NothingPassedOver'
    <2>1. \A c \in 1..row.index : c \in Chapters
      BY SizeAssumption, ProgressFields DEF RowTypes
    <2>2. QED
      BY <2>1 DEF NothingPassedOver
  <1>5. Counting'
    BY <1>1 DEF Counting, BreakerBoundsARun
  <1>6. QED
    BY <1>2, <1>3, <1>4, <1>5

\* An edit of prose that was locked makes what follows stale; prose that was
\* not locked is in no memory.
LEMMA EditSafe ==
  ASSUME IInv, NEW c \in Chapters, Edit(c)
  PROVE  IInv'
  <1> USE DEF IInv, Types, Edit
  <1>1. /\ text' \in [Chapters -> 0..MaxTexts] /\ text'[c] # 0
        /\ \A d \in Chapters \ {c} : text'[d] = text[d]
    <2>1. text \in [Chapters -> 0..MaxTexts] /\ text[c] \in 0..MaxTexts /\ text[c] < MaxTexts
      BY DEF BookTypes
    <2>2. text[c] + 1 \in 0..MaxTexts /\ text[c] + 1 # 0
      BY <2>1, SizeAssumption
    <2>3. QED
      BY <2>1, <2>2
  <1>2. /\ commit' \in [Chapters -> {"none", "pending", "committed"}] /\ commit'[c] = "none"
        /\ \A d \in Chapters \ {c} : commit'[d] = commit[d]
    BY DEF BookTypes
  <1>3. /\ staleFrom' \in 1..N + 1 /\ staleFrom' <= staleFrom
        /\ lock[c] # 0 => staleFrom' <= c
    BY InvalidatedSafe
  <1>4. BookTypes'
    BY <1>1, <1>2, <1>3 DEF BookTypes
  <1>5. Provenance'
    <2> SUFFICES ASSUME NEW d \in Chapters
                 PROVE  /\ text'[d] = 0 => lock[d] = 0
                        /\ lock[d] = 0 => ledger[d] = 0 /\ commit'[d] = "none"
                        /\ exec[d] = "quality_debt" => lock[d] = 0
                        /\ d \in partial /\ d < staleFrom' => ledger[d] # 0
                        /\ ledger[d] # 0 /\ d < staleFrom' => ledger[d] = text'[d] /\ lock[d] = text'[d]
      BY DEF Provenance
    <2>1. d < staleFrom' => d < staleFrom
      BY <1>3 DEF BookTypes
    <2>2. CASE d = c
      <3>1. lock[c] # 0 => ~(c < staleFrom')
        BY <1>3
      <3>2. QED
        BY <2>1, <2>2, <3>1, <1>1, <1>2 DEF Provenance
    <2>3. CASE d # c
      BY <2>1, <2>3, <1>1, <1>2 DEF Provenance
    <2>4. QED
      BY <2>2, <2>3
  <1>6. QED
    BY <1>1, <1>4, <1>5, AuthorSafe DEF RowTypes

\* An acceptance locks the present text; the director forgives its debt.
LEMMA AcceptByEditorSafe ==
  ASSUME IInv, NEW c \in Chapters, AcceptByEditor(c)
  PROVE  IInv'
  <1> USE DEF IInv, Types, AcceptByEditor, memoryVars
  <1>1. /\ lock' \in [Chapters -> 0..MaxTexts] /\ lock'[c] = text[c]
        /\ \A d \in Chapters \ {c} : lock'[d] = lock[d]
    BY DEF BookTypes
  <1>2. /\ exec' \in [Chapters -> {"never_run", "memory_pending", "accepted", "quality_debt"}]
        /\ exec'[c] # "quality_debt"
        /\ exec'[c] = "memory_pending" => exec[c] = "memory_pending"
        /\ \A d \in Chapters \ {c} : exec'[d] = exec[d]
    BY DEF BookTypes
  <1>3. /\ commit' \in [Chapters -> {"none", "pending", "committed"}]
        /\ \A d \in Chapters \ {c} : commit'[d] = commit[d]
    BY DEF BookTypes
  <1>4. row' = row \/ row' = Forgiven(row, c)
    BY DEF Forgiven
  <1>5. row' \in Progress /\ row'.index = row.index /\ row'.debts \subseteq row.debts
    BY <1>4, ForgivenFields DEF RowTypes
  <1>6. BookTypes'
    BY <1>1, <1>2, <1>3 DEF BookTypes
  <1>7. Provenance'
    <2> SUFFICES ASSUME NEW d \in Chapters
                 PROVE  /\ text[d] = 0 => lock'[d] = 0
                        /\ lock'[d] = 0 => ledger[d] = 0 /\ commit'[d] = "none"
                        /\ exec'[d] = "quality_debt" => lock'[d] = 0
                        /\ d \in partial /\ d < staleFrom => ledger[d] # 0
                        /\ ledger[d] # 0 /\ d < staleFrom => ledger[d] = text[d] /\ lock'[d] = text[d]
      BY DEF Provenance
    <2>1. CASE d = c
      BY <2>1, <1>1, <1>2 DEF Provenance
    <2>2. CASE d # c
      BY <2>2, <1>1, <1>2, <1>3 DEF Provenance
    <2>3. QED
      BY <2>1, <2>2
  <1>8. QED
    BY <1>2, <1>5, <1>6, <1>7, AuthorSafe

\* The author settles what was accepted, or repairs what is incomplete.
LEMMA AuthorSettlesSafe ==
  ASSUME IInv, NEW c \in Chapters, SettleByEditor(c) \/ RepairByEditor(c)
  PROVE  IInv'
  <1> USE DEF IInv, Types
  <1>1. PICK complete \in BOOLEAN : Settle(c, complete)
    BY DEF SettleByEditor, RepairByEditor
  <1>2. /\ Free /\ AuthorRests /\ UNCHANGED <<text, exec, lock, row>>
        /\ commit' \in [Chapters -> {"none", "pending", "committed"}]
        /\ \A d \in Chapters \ {c} : commit'[d] = commit[d]
    BY DEF SettleByEditor, RepairByEditor, BookTypes
  <1>3. text[c] # 0 /\ lock[c] = text[c]
    <2>1. CASE SettleByEditor(c)
      BY <2>1 DEF SettleByEditor, Provenance
    <2>2. CASE RepairByEditor(c)
      <3>1. c \in partial /\ c < staleFrom
        BY <2>2, SizeAssumption DEF RepairByEditor
      <3>2. QED
        BY <3>1 DEF Provenance
    <2>3. QED
      BY <2>1, <2>2
  <1>4. /\ ledger' \in [Chapters -> 0..MaxTexts] /\ partial' \subseteq Chapters
        /\ staleFrom' \in 1..N + 1 /\ Provenance'
    BY <1>1, <1>2, <1>3, SettleSafe
  <1>5. BookTypes'
    BY <1>2, <1>4 DEF BookTypes
  <1>6. QED
    BY <1>2, <1>4, <1>5, AuthorSafe DEF RowTypes

\* A poll drops the debts of accepted chapters.
LEMMA PollSafe ==
  ASSUME IInv, PollDebts
  PROVE  IInv'
  <1> USE DEF IInv, Types, PollDebts
  <1> DEFINE left == {c \in row.debts : exec[c] # "accepted"}
  <1>1. left \in SUBSET Chapters /\ left \subseteq row.debts
    BY ProgressFields DEF RowTypes
  <1>2. row' = [row EXCEPT !.debts = left]
    OBVIOUS
  <1> HIDE DEF left
  <1>3. row' \in Progress /\ row'.index = row.index /\ row'.debts \subseteq row.debts
    BY <1>1, <1>2, ProgressUpdated DEF RowTypes, Progress
  <1>4. BookTypes' /\ Provenance'
    BY BookKept
  <1>5. QED
    BY <1>3, <1>4, AuthorSafe DEF bookVars

----------------------------------------------------------------------------
(* The invariant, and what follows from it.                                *)

\* A book without text, and a run at its first chapter.
LEMMA InitIInv == Init => IInv
  <1> SUFFICES ASSUME Init PROVE IInv
    OBVIOUS
  <1> USE DEF Init
  <1>1. BookTypes
    BY SizeAssumption DEF BookTypes
  <1>2. NoProgress \in Progress
    BY SizeAssumption, LimitAssumption DEF NoProgress, Progress
  <1>3. RowTypes /\ RunTypes /\ FlagTypes
    <2>1. RowTypes /\ RunTypes
      BY <1>2, SizeAssumption DEF RowTypes, RunTypes, NoStreak, Places, Awaits
    <2>2. FlagTypes
      BY DEF FlagTypes
    <2>3. QED
      BY <2>1, <2>2
  <1>4. Position /\ Stage
    BY DEF Position, Stage, NoProgress
  <1>5. Provenance
    BY DEF Provenance
  <1>6. NothingPassedOver /\ Counting
    BY LimitAssumption DEF NothingPassedOver, Counting, BreakerBoundsARun, NoProgress, NoStreak
  <1>7. QED
    BY <1>1, <1>3, <1>4, <1>5, <1>6 DEF IInv, Types

\* A run that ends where the saved row is.
LEMMA AbandonSafe ==
  ASSUME IInv, Abandon
  PROVE  IInv'
  <1>1. row \in Progress /\ row.debts \subseteq 1..row.index + 1
    BY DEF IInv, Types, RowTypes, Counting
  <1>2. QED
    BY <1>1, PauseSafe DEF Abandon

\* Nothing changes.
LEMMA StutterSafe ==
  ASSUME IInv, UNCHANGED vars
  PROVE  IInv'
  <1> USE DEF IInv, Types, vars, runVars
  <1>1. BookTypes' /\ Provenance'
    BY BookKept
  <1>2. RowTypes' /\ RunTypes' /\ FlagTypes'
    BY DEF RowTypes, RunTypes, FlagTypes
  <1>3. Position' /\ Stage'
    BY DEF Position, Stage, bookVars
  <1>4. NothingPassedOver' /\ Counting'
    BY DEF NothingPassedOver, bookVars, Counting, BreakerBoundsARun
  <1>5. QED
    BY <1>1, <1>2, <1>3, <1>4

\* Every step keeps the invariant.
LEMMA NextIInv == IInv /\ [Next]_vars => IInv'
  <1> SUFFICES ASSUME IInv, [Next]_vars PROVE IInv'
    OBVIOUS
  <1>1. CASE BeginRecovery \/ SkipWritten \/ BeginChapter
    BY <1>1, HeadSafe
  <1>2. CASE PlanReady \/ DraftReady \/ Revise \/ RevisionReady
    BY <1>2, DraftSafe
  <1>3. CASE RejectDraft
    BY <1>3, RejectSafe
  <1>4. CASE AcceptDraft
    BY <1>4, AcceptSafe
  <1>5. CASE TextSaved
    BY <1>5, TextSavedSafe
  <1>6. CASE MemoryReady \/ RepairReady
    BY <1>6, MemorySafe
  <1>7. CASE MemoryRefused \/ Interrupt
    BY <1>7, AbandonSafe DEF MemoryRefused, Interrupt
  <1>8. CASE SaveIndex
    BY <1>8, SaveIndexSafe
  <1>9. CASE AfterChapter \/ Complete
    BY <1>9, AfterSafe
  <1>10. ASSUME NEW c \in Chapters, Edit(c)
         PROVE  IInv'
    BY <1>10, EditSafe
  <1>11. ASSUME NEW c \in Chapters, AcceptByEditor(c)
         PROVE  IInv'
    BY <1>11, AcceptByEditorSafe
  <1>12. ASSUME NEW c \in Chapters, SettleByEditor(c) \/ RepairByEditor(c)
         PROVE  IInv'
    BY <1>12, AuthorSettlesSafe
  <1>13. CASE PollDebts
    BY <1>13, PollSafe
  <1>14. CASE Crash
    BY <1>14, CrashSafe
  <1>15. CASE Reconcile
    BY <1>15, ReconcileSafe
  <1>16. CASE Resume
    BY <1>16, ResumeSafe
  <1>17. CASE UNCHANGED vars
    BY <1>17, StutterSafe
  <1>18. QED
    BY <1>1, <1>2, <1>3, <1>4, <1>5, <1>6, <1>7, <1>8, <1>9, <1>10, <1>11, <1>12, <1>13,
       <1>14, <1>15, <1>16, <1>17 DEF Next, RunnerStep, AuthorStep

\* The invariant holds in every state of every run, crash or edit.
THEOREM Inductive == Spec => []IInv
  <1>1. Init => IInv
    BY InitIInv
  <1>2. IInv /\ [Next]_vars => IInv'
    BY NextIInv
  <1>3. QED
    BY <1>1, <1>2, PTL DEF Spec

\* The book, the task row and the runner keep their types.
THEOREM RunTypeCorrect == Spec => []TypeOK
  <1>1. IInv => TypeOK
    BY DEF IInv, Types, BookTypes, RowTypes, RunTypes, FlagTypes, TypeOK
  <1>2. QED
    BY <1>1, Inductive, PTL

\* The story memory before the stale boundary is the memory of the texts the
\* chapters have now and were locked with (temporal_context.py,
\* memory_settlement.py, director/chapters.py).
THEOREM MemoryFollowsText == Spec => []MemoryIsOfLockedText
  <1>1. IInv => MemoryIsOfLockedText
    BY DEF IInv, Provenance, MemoryIsOfLockedText
  <1>2. QED
    BY <1>1, Inductive, PTL

\* chapter_index passes no chapter that is empty or unsettled, wherever the
\* runs before were cut off (director/chapters.py 84-129 and 515-529).
THEOREM NonePassedOver == Spec => []NothingPassedOver
  <1>1. IInv => NothingPassedOver
    BY DEF IInv
  <1>2. QED
    BY <1>1, Inductive, PTL

\* The breaker of director/chapters.py 362-387 bounds the debts one run
\* writes in succession.
THEOREM BreakerHolds == Spec => []BreakerBoundsARun
  <1>1. IInv => BreakerBoundsARun
    BY DEF IInv, Counting
  <1>2. QED
    BY <1>1, Inductive, PTL

\* Only the author, while no run is active, replaces prose that is there.
THEOREM WrittenKept == Spec => WrittenTextIsKept
  <1>1. IInv /\ [Next]_vars =>
          \A c \in Chapters : text[c] # 0 /\ text'[c] # text[c] => status # "running"
    <2> SUFFICES ASSUME IInv, [Next]_vars, NEW c \in Chapters,
                        text[c] # 0, text'[c] # text[c]
                 PROVE  status # "running"
      OBVIOUS
    <2>1. text \in [Chapters -> 0..MaxTexts] /\ (pc = "audit" => text[cur] = 0)
      BY DEF IInv, Types, BookTypes, Stage
    <2>2. ASSUME NEW state, Write(state), pc = "audit"
          PROVE  FALSE
      BY <2>1, <2>2 DEF Write
    <2>3. ~RejectDraft /\ ~AcceptDraft
      BY <2>2 DEF RejectDraft, AcceptDraft, Blocked, PauseAt, bookVars
    <2>4. CASE \E d \in Chapters : Edit(d)
      BY <2>4 DEF Edit, Free
    <2>5. CASE RunnerStep
      BY <2>5, <2>3 DEF RunnerStep, BeginRecovery, SkipWritten, BeginChapter, PlanReady,
         DraftReady, Revise, RevisionReady, TextSaved, MemoryReady, MemoryRefused, RepairReady,
         Settled, Abandon, PauseAt, SaveIndex, AfterChapter, Complete, bookVars
    <2>6. CASE AuthorStep
      BY <2>4, <2>6 DEF AuthorStep, AcceptByEditor, SettleByEditor, RepairByEditor, PollDebts,
         bookVars
    <2>7. CASE Interrupt \/ Crash \/ Reconcile \/ Resume \/ UNCHANGED vars
      BY <2>7 DEF Interrupt, Abandon, PauseAt, Crash, Reconcile, Resume, vars, bookVars
    <2>8. QED
      BY <2>5, <2>6, <2>7 DEF Next
  <1>2. QED
    BY <1>1, Inductive, PTL DEF Spec, WrittenTextIsKept

\* A settlement in order finds every earlier chapter's deltas current.
LEMMA EarlierAreCurrent ==
  ASSUME IInv, NEW c \in Chapters, InOrder(c), NEW d \in 1..c - 1
  PROVE  ledger[d] \in {0, text[d]}
  <1>1. d \in Chapters /\ d < staleFrom
    BY SizeAssumption DEF InOrder
  <1>2. QED
    BY <1>1 DEF IInv, Provenance

\* Deltas enter the memory in the order of the chapters: only a settlement
\* adds any, and its prepare_memory_rebuild refuses an earlier stale chapter.
THEOREM InOrderSettled == Spec => SettledInOrder
  <1>1. IInv /\ [Next]_vars =>
          \A c \in Chapters : ledger'[c] \notin {0, ledger[c]} =>
             \A d \in 1..c - 1 : ledger[d] \in {0, text[d]}
    <2> SUFFICES ASSUME IInv, [Next]_vars, NEW c \in Chapters, ledger'[c] \notin {0, ledger[c]},
                        NEW d \in 1..c - 1
                 PROVE  ledger[d] \in {0, text[d]}
      OBVIOUS
    <2>1. ASSUME NEW e \in Chapters, NEW complete \in BOOLEAN, Settle(e, complete)
          PROVE  ledger[d] \in {0, text[d]}
      <3>1. InOrder(e) /\ e = c
        BY <2>1 DEF Settle
      <3>2. QED
        BY <3>1, EarlierAreCurrent
    <2>2. CASE MemoryReady \/ RepairReady
      <3>1. cur \in Chapters
        BY <2>2 DEF MemoryReady, RepairReady, IInv, Position
      <3>2. \E complete \in BOOLEAN : Settle(cur, complete)
        BY <2>2 DEF MemoryReady, RepairReady, Settled, bookVars, memoryVars
      <3>3. QED
        BY <2>1, <3>1, <3>2
    <2>3. CASE \E e \in Chapters : SettleByEditor(e) \/ RepairByEditor(e)
      BY <2>1, <2>3 DEF SettleByEditor, RepairByEditor
    <2>4. ASSUME ~(MemoryReady \/ RepairReady),
                 ~\E e \in Chapters : SettleByEditor(e) \/ RepairByEditor(e)
          PROVE  ledger' = ledger
      <3>1. CASE RunnerStep
        BY <2>4, <3>1 DEF RunnerStep, BeginRecovery, SkipWritten, BeginChapter, PlanReady,
           DraftReady, Revise, RevisionReady, RejectDraft, AcceptDraft, Blocked, TextSaved,
           MemoryRefused, Abandon, PauseAt, SaveIndex, AfterChapter, Complete, bookVars, memoryVars
      <3>2. CASE AuthorStep
        BY <2>4, <3>2 DEF AuthorStep, Edit, AcceptByEditor, PollDebts, bookVars, memoryVars
      <3>3. CASE Interrupt \/ Crash \/ Reconcile \/ Resume \/ UNCHANGED vars
        BY <3>3 DEF Interrupt, Abandon, PauseAt, Crash, Reconcile, Resume, vars, bookVars,
           memoryVars
      <3>4. QED
        BY <3>1, <3>2, <3>3 DEF Next
    <2>5. QED
      BY <2>2, <2>3, <2>4
  <1>2. QED
    BY <1>1, Inductive, PTL DEF Spec, SettledInOrder

-----------------------------------------------------------------------------
(* Refinement: every book, number of attempts, rounds, stops and steps of    *)
(* the editor.                                                               *)


\* An item of the queue is a record; what matters is that no two items that were not dismissed say the
\* same of a chapter.
ItemShape(x) == x = [chapter |-> x.chapter, issue |-> x.issue, status |-> x.status, k |-> x.k]
InForce(x) == x.status # "dismissed"
SameKey(x, y) == x.chapter = y.chapter /\ x.issue = y.issue
QueueOk(q) ==
  /\ \A x \in q : ItemShape(x) /\ x.chapter \in Targets
  /\ \A x, y \in q : InForce(x) /\ InForce(y) /\ SameKey(x, y) => x = y

OnDesk(d) ==
  /\ d = [at |-> d.at, draft |-> d.draft, attempt |-> d.attempt, best |-> d.best, rank |-> d.rank, passes |-> d.passes]
  /\ d.passes \in BOOLEAN

\* The rank is that of the best text so far.
RankOk(d) ==
  \/ d.rank = <<-1, 0, 0>> /\ ~d.passes
  \/ \E o \in Opinions : d.rank = RefineRank(d.best, o) /\ d.passes = o.passes

RowOk(r) ==
  /\ r = [status |-> r.status, round |-> r.round, targets |-> r.targets, index |-> r.index, debts |-> r.debts,
          focus |-> r.focus, kept |-> r.kept, outcome |-> r.outcome]
  /\ r.targets \in Seq(Targets) /\ r.index \in Nat \ {0}
  /\ r.outcome \in [Targets -> {"none", "accepted", "review"}]

\* The best text is the one to accept exactly if one was seen to pass; once it is settled it is in the book.
DeskOk(d, seen, stored, held, state) ==
  /\ OnDesk(d) /\ RankOk(d)
  /\ seen # {} => d.passes /\ d.best.whole
  /\ d.passes /\ d.best.whole => d.best \in seen
  /\ d.at = "report" /\ d.passes /\ d.best.whole => stored = d.best /\ held = stored /\ state = "accepted"

OnTargets(f) == f = [c \in Targets |-> f[c]]

RefineInv ==
  /\ QueueOk(queue) /\ RowOk(refineRow)
  /\ OnTargets(content) /\ OnTargets(locked) /\ OnTargets(execution) /\ OnTargets(fit)
  /\ incomplete \in [Targets -> BOOLEAN]
  /\ desk.at # "idle" =>
       /\ Refining /\ refineRow.index <= Len(refineRow.targets)
       /\ DeskOk(desk, fit[Current], content[Current], locked[Current], execution[Current].status)

----------------------------------------------------------------------------
(* The repair queue.                                                       *)

Restated(x, s) == [x EXCEPT !.status = s]

LEMMA RestatedIs ==
  ASSUME NEW x, ItemShape(x), NEW s
  PROVE  /\ ItemShape(Restated(x, s)) /\ SameKey(Restated(x, s), x) /\ Restated(x, s).status = s
         /\ Restated(x, s).chapter = x.chapter /\ Restated(x, s).issue = x.issue
BY DEF ItemShape, Restated, SameKey

\* Every item as f says.
Mapped(q, f) == {f[x] : x \in q}

\* Items may change their status, as long as none that was dismissed comes back.
LEMMA StatusKeeps ==
  ASSUME NEW q, QueueOk(q), NEW f,
         \A x \in q : ItemShape(f[x]) /\ SameKey(f[x], x) /\ (InForce(f[x]) => InForce(x))
  PROVE  QueueOk(Mapped(q, f))
<1>3. PICK r : r = Mapped(q, f)
  OBVIOUS
<1>4. r = {f[x] : x \in q}
  BY <1>3 DEF Mapped
<1>1. ASSUME NEW y \in r PROVE ItemShape(y) /\ y.chapter \in Targets
  <2>1. PICK x \in q : y = f[x]
    BY <1>4
  <2> QED BY <2>1 DEF QueueOk, SameKey
<1>2. ASSUME NEW y \in r, NEW z \in r, InForce(y), InForce(z), SameKey(y, z) PROVE y = z
  <2>1. PICK u \in q : y = f[u]
    BY <1>4
  <2>2. PICK w \in q : z = f[w]
    BY <1>4
  <2>3. InForce(u) /\ InForce(w) /\ SameKey(u, w)
    BY <1>2, <2>1, <2>2 DEF SameKey
  <2> QED BY <2>1, <2>2, <2>3 DEF QueueOk
<1> QED BY <1>1, <1>2, <1>3 DEF QueueOk

LEMMA EnqueuedIs ==
  ASSUME NEW q, QueueOk(q), NEW c \in Targets, NEW i
  PROVE  /\ QueueOk(IssueEnqueued(q, c, i)) /\ q \subseteq IssueEnqueued(q, c, i)
         /\ \A x \in IssueEnqueued(q, c, i) :
              x \in q \/ /\ ItemShape(x) /\ x.chapter = c /\ x.issue = i /\ x.status = "queued"
                         /\ \A y \in q : y.chapter = c /\ y.issue = i => ~InForce(y)
         /\ \E x \in IssueEnqueued(q, c, i) : x.chapter = c /\ x.issue = i /\ InForce(x)
<1>1. CASE \E x \in Keyed(q, c, i) : x.status # "dismissed"
  <2>1. IssueEnqueued(q, c, i) = q
    BY <1>1 DEF IssueEnqueued
  <2> QED BY <1>1, <2>1 DEF Keyed, InForce
<1>2. CASE ~\E x \in Keyed(q, c, i) : x.status # "dismissed"
  <2>1. PICK n : n = NewItem(q, c, i)
    OBVIOUS
  <2>2. IssueEnqueued(q, c, i) = q \cup {n}
    BY <1>2, <2>1 DEF IssueEnqueued
  <2>3. ItemShape(n) /\ n.chapter = c /\ n.issue = i /\ n.status = "queued"
    BY <2>1 DEF NewItem, ItemShape
  <2>4. \A y \in q : y.chapter = c /\ y.issue = i => ~InForce(y)
    BY <1>2 DEF Keyed, InForce
  <2>5. QueueOk(q \cup {n})
    BY <2>3, <2>4 DEF QueueOk, SameKey
  <2>6. InForce(n)
    BY <2>3 DEF InForce
  <2> QED BY <2>2, <2>3, <2>4, <2>5, <2>6
<1> QED BY <1>1, <1>2

LEMMA EnqueuedAllIs ==
  ASSUME NEW q, QueueOk(q), NEW c \in Targets, NEW issues
  PROVE  QueueOk(EnqueuedAll(q, c, issues)) /\ q \subseteq EnqueuedAll(q, c, issues)
<1>1. PICK r : r = EnqueuedAll(q, c, issues)
  OBVIOUS
<1>2. \A x \in r : x \in q \/ \E i \in issues : x \in IssueEnqueued(q, c, i)
  BY <1>1 DEF EnqueuedAll
<1>3. q \subseteq r
  BY <1>1 DEF EnqueuedAll
<1>4. \A x \in r : ItemShape(x) /\ x.chapter \in Targets
  BY <1>2, EnqueuedIs DEF QueueOk
<1>5. ASSUME NEW x \in r, NEW y \in r, InForce(x), InForce(y), SameKey(x, y) PROVE x = y
  <2>1. CASE x \in q /\ y \in q
    BY <1>5, <2>1 DEF QueueOk
  <2>2. CASE x \notin q
    <3>1. PICK i \in issues : x \in IssueEnqueued(q, c, i)
      BY <1>2, <2>2
    <3>2. x.chapter = c /\ x.issue = i /\ \A z \in q : z.chapter = c /\ z.issue = i => ~InForce(z)
      BY <2>2, <3>1, EnqueuedIs
    <3>3. y \notin q
      BY <1>5, <3>2 DEF SameKey
    <3>4. PICK j \in issues : y \in IssueEnqueued(q, c, j)
      BY <1>2, <3>3
    <3>5. y.issue = j
      BY <3>3, <3>4, EnqueuedIs
    <3>6. i = j
      BY <1>5, <3>2, <3>5 DEF SameKey
    <3> QED BY <1>5, <3>1, <3>4, <3>6, EnqueuedIs DEF QueueOk
  <2>3. CASE y \notin q
    <3>1. PICK i \in issues : y \in IssueEnqueued(q, c, i)
      BY <1>2, <2>3
    <3>2. y.chapter = c /\ y.issue = i /\ \A z \in q : z.chapter = c /\ z.issue = i => ~InForce(z)
      BY <2>3, <3>1, EnqueuedIs
    <3>3. x \notin q
      BY <1>5, <3>2 DEF SameKey
    <3>4. PICK j \in issues : x \in IssueEnqueued(q, c, j)
      BY <1>2, <3>3
    <3>5. x.issue = j
      BY <3>3, <3>4, EnqueuedIs
    <3>6. i = j
      BY <1>5, <3>2, <3>5 DEF SameKey
    <3> QED BY <1>5, <3>1, <3>4, <3>6, EnqueuedIs DEF QueueOk
  <2> QED BY <2>1, <2>2, <2>3
<1> QED BY <1>1, <1>3, <1>4, <1>5 DEF QueueOk

\* Whichever open items are resolved.
LEMMA ResolvedKeeps ==
  ASSUME NEW q, QueueOk(q), NEW which, NEW r,
         r = {IF x.status \in Open /\ x \in which THEN Restated(x, "resolved") ELSE x : x \in q}
  PROVE  QueueOk(r)
<1>1. PICK f : f = [x \in q |-> IF x.status \in Open /\ x \in which THEN Restated(x, "resolved") ELSE x]
  OBVIOUS
<1>2. r = Mapped(q, f)
  BY <1>1 DEF Mapped
<1>3. ASSUME NEW x \in q PROVE ItemShape(f[x]) /\ SameKey(f[x], x) /\ (InForce(f[x]) => InForce(x))
  <2>1. ItemShape(x)
    BY DEF QueueOk
  <2>2. CASE x.status \in Open /\ x \in which
    <3>1. f[x] = Restated(x, "resolved")
      BY <1>1, <2>2
    <3>2. InForce(x)
      BY <2>2 DEF Open, InForce
    <3> QED BY <2>1, <3>1, <3>2, RestatedIs
  <2>3. CASE ~(x.status \in Open /\ x \in which)
    <3>1. f[x] = x
      BY <1>1, <2>3
    <3> QED BY <2>1, <3>1 DEF SameKey
  <2> QED BY <2>2, <2>3
<1> QED BY <1>2, <1>3, StatusKeeps

StagesAsked(q, c) == \E x \in q : x.chapter = c /\ x.issue = "stages" /\ x.status \in Open \cup {"dismissed"}

LEMMA SyncedIs ==
  ASSUME NEW q, QueueOk(q), NEW c \in Targets, NEW p \in BOOLEAN
  PROVE  QueueOk(Synced(q, c, p)) /\ (p => StagesAsked(Synced(q, c, p), c))
<1>1. CASE ~p
  <2>1. PICK which : which = {x \in q : x.chapter = c /\ x.issue = "stages"}
    OBVIOUS
  <2>2. Synced(q, c, p) = {IF x.status \in Open /\ x \in which THEN Restated(x, "resolved") ELSE x : x \in q}
    BY <1>1, <2>1 DEF Synced, Resolved, Restated
  <2> QED BY <1>1, <2>2, ResolvedKeeps
<1>2. CASE p /\ \E x \in Keyed(q, c, "stages") : x.status \in Open \cup {"dismissed"}
  <2>1. Synced(q, c, p) = q
    BY <1>2 DEF Synced
  <2> QED BY <1>2, <2>1 DEF StagesAsked, Keyed
<1>3. CASE p /\ ~\E x \in Keyed(q, c, "stages") : x.status \in Open \cup {"dismissed"}
  <2>1. PICK e : e = IssueEnqueued(q, c, "stages")
    OBVIOUS
  <2>2. PICK r : r = Synced(q, c, p)
    OBVIOUS
  <2>3. PICK f : f = [x \in e |-> IF x.chapter = c /\ x.issue = "stages" THEN Restated(x, "queued") ELSE x]
    OBVIOUS
  <2>4. r = Mapped(e, f)
    <3>1. r = {IF x.chapter = c /\ x.issue = "stages" THEN Restated(x, "queued") ELSE x : x \in e}
      BY <1>3, <2>1, <2>2 DEF Synced, Restated
    <3> QED BY <2>3, <3>1 DEF Mapped
  <2>5. QueueOk(e)
    BY <2>1, EnqueuedIs
  <2>6. \A x \in e : x.chapter = c /\ x.issue = "stages" => InForce(x)
    <3>1. \A x \in q : x.chapter = c /\ x.issue = "stages" => InForce(x)
      BY <1>3 DEF Keyed, InForce
    <3>2. \A x \in e : x \in q \/ x.status = "queued"
      BY <2>1, EnqueuedIs
    <3> QED BY <3>1, <3>2 DEF InForce
  <2>7. ASSUME NEW x \in e PROVE ItemShape(f[x]) /\ SameKey(f[x], x) /\ (InForce(f[x]) => InForce(x))
    <3>1. ItemShape(x)
      BY <2>5 DEF QueueOk
    <3>2. CASE x.chapter = c /\ x.issue = "stages"
      <4>1. f[x] = Restated(x, "queued")
        BY <2>3, <3>2
      <4>2. ItemShape(f[x]) /\ SameKey(f[x], x)
        BY <3>1, <4>1, RestatedIs
      <4> QED BY <2>6, <3>2, <4>2
    <3>3. CASE ~(x.chapter = c /\ x.issue = "stages")
      BY <2>3, <3>1, <3>3 DEF SameKey
    <3> QED BY <3>2, <3>3
  <2>8. QueueOk(r)
    BY <2>4, <2>5, <2>7, StatusKeeps
  <2>9. StagesAsked(r, c)
    <3>1. PICK x \in e : x.chapter = c /\ x.issue = "stages"
      BY <2>1, EnqueuedIs
    <3>2. f[x] = Restated(x, "queued") /\ ItemShape(x)
      BY <2>3, <2>5, <3>1 DEF QueueOk
    <3>3. f[x].chapter = c /\ f[x].issue = "stages" /\ f[x].status = "queued"
      BY <3>1, <3>2, RestatedIs
    <3> QED BY <2>4, <3>3 DEF StagesAsked, Open, Mapped
  <2> QED BY <2>2, <2>8, <2>9
<1> QED BY <1>1, <1>2, <1>3

LEMMA RebuiltForIs ==
  ASSUME NEW q, QueueOk(q), NEW c \in Targets, incomplete \in [Targets -> BOOLEAN]
  PROVE  QueueOk(RebuiltFor(q, c)) /\ (incomplete[c] => StagesAsked(RebuiltFor(q, c), c))
<1>1. PICK s : s = Synced(q, c, incomplete[c])
  OBVIOUS
<1>2. QueueOk(s) /\ (incomplete[c] => StagesAsked(s, c))
  BY <1>1, SyncedIs
<1>3. PICK r : r = RebuiltFor(q, c)
  OBVIOUS
<1>4. CASE execution[c].status = "accepted" /\ locked[c] # NoText
  <2>1. PICK which : which = {x \in s : x.chapter = c /\ x.issue \notin {"memory", "stages"}}
    OBVIOUS
  <2>2. r = {IF x.status \in Open /\ x \in which THEN Restated(x, "resolved") ELSE x : x \in s}
    BY <1>1, <1>3, <1>4, <2>1 DEF RebuiltFor, Resolved, Restated
  <2>3. QueueOk(r)
    BY <1>2, <2>2, ResolvedKeeps
  <2>4. \A x \in s : x.issue = "stages" => x \in r
    BY <2>1, <2>2
  <2> QED BY <1>2, <1>3, <2>3, <2>4 DEF StagesAsked
<1>5. CASE ~(execution[c].status = "accepted" /\ locked[c] # NoText)
  <2>1. PICK found : found = IF execution[c].status = "quality_debt" /\ execution[c].issues = {}
                             THEN {"debt"} ELSE execution[c].issues
    OBVIOUS
  <2>2. r = EnqueuedAll(s, c, found)
    BY <1>1, <1>3, <1>5, <2>1 DEF RebuiltFor
  <2>3. QueueOk(r) /\ s \subseteq r
    BY <1>2, <2>2, EnqueuedAllIs
  <2> QED BY <1>2, <1>3, <2>3 DEF StagesAsked
<1> QED BY <1>4, <1>5

LEMMA RebuiltIs ==
  ASSUME NEW q, QueueOk(q), incomplete \in [Targets -> BOOLEAN]
  PROVE  /\ QueueOk(Rebuilt(q))
         /\ \A c \in Targets : incomplete[c] => StagesAsked(Rebuilt(q), c)
<1>1. PICK r : r = Rebuilt(q)
  OBVIOUS
<1>2. \A x : x \in r <=> \E c \in Targets : x \in RebuiltFor(q, c) /\ x.chapter = c
  BY <1>1 DEF Rebuilt
<1>3. \A c \in Targets : QueueOk(RebuiltFor(q, c)) /\ (incomplete[c] => StagesAsked(RebuiltFor(q, c), c))
  BY RebuiltForIs
<1>4. QueueOk(r)
  <2>1. \A x \in r : ItemShape(x) /\ x.chapter \in Targets /\ x \in RebuiltFor(q, x.chapter)
    BY <1>2, <1>3 DEF QueueOk
  <2>2. ASSUME NEW x \in r, NEW y \in r, InForce(x), InForce(y), SameKey(x, y) PROVE x = y
    <3>1. x \in RebuiltFor(q, x.chapter) /\ y \in RebuiltFor(q, x.chapter) /\ x.chapter \in Targets
      BY <2>1, <2>2 DEF SameKey
    <3> QED BY <1>3, <2>2, <3>1 DEF QueueOk
  <2> QED BY <2>1, <2>2 DEF QueueOk
<1>5. \A c \in Targets : incomplete[c] => StagesAsked(r, c)
  BY <1>2, <1>3 DEF StagesAsked
<1> QED BY <1>1, <1>4, <1>5

----------------------------------------------------------------------------
(* A round.                                                                *)

\* The desk is empty, and the queue and the chapters are in order.
LEMMA DeskEmpty ==
  ASSUME QueueOk(queue'), RowOk(refineRow'), OnTargets(content'), OnTargets(locked'), OnTargets(execution'),
         OnTargets(fit'), incomplete' \in [Targets -> BOOLEAN], desk'.at = "idle"
  PROVE  RefineInv'
BY DEF RefineInv

LEMMA Untouched ==
  ASSUME RefineInv
  PROVE  /\ QueueOk(queue) /\ RowOk(refineRow) /\ OnTargets(content) /\ OnTargets(locked) /\ OnTargets(execution)
         /\ OnTargets(fit) /\ incomplete \in [Targets -> BOOLEAN]
BY DEF RefineInv

LEMMA SeenIs ==
  ASSUME RefineInv, desk.at # "idle"
  PROVE  /\ Refining /\ Current \in Targets /\ refineRow.index <= Len(refineRow.targets)
         /\ DeskOk(desk, fit[Current], content[Current], locked[Current], execution[Current].status)
<1>1. Refining /\ refineRow.index <= Len(refineRow.targets) /\ RowOk(refineRow)
      /\ DeskOk(desk, fit[Current], content[Current], locked[Current], execution[Current].status)
  BY DEF RefineInv
<1>2. Current \in Targets
  <2>1. refineRow.index \in 1..Len(refineRow.targets) /\ refineRow.targets \in Seq(Targets)
    BY <1>1 DEF RowOk
  <2> QED BY <2>1 DEF Current
<1> QED BY <1>1, <1>2

LEMMA OrderIs ==
  ASSUME NEW chosen \in SUBSET Targets, NEW order \in SetToSeqs(chosen)
  PROVE  order \in Seq(Targets)
<1>1. IsFiniteSet(chosen)
  BY RefineAssumption, FS_Subset
<1>2. PICK n \in Nat : n = Cardinality(chosen)
  BY <1>1, FS_CardinalityType
<1>3. order \in [1..n -> chosen]
  BY <1>2 DEF SetToSeqs
<1>4. order \in [1..n -> Targets]
  BY <1>3
<1> QED BY <1>2, <1>4

LEMMA RowIs ==
  ASSUME NEW a, NEW b, NEW x \in Seq(Targets), NEW y \in Nat \ {0}, NEW z, NEW v, NEW w,
         NEW u \in [Targets -> {"none", "accepted", "review"}]
  PROVE  RowOk([status |-> a, round |-> b, targets |-> x, index |-> y, debts |-> z, focus |-> v, kept |-> w, outcome |-> u])
BY DEF RowOk

\* What the actions make of the row.
WithStatus(r, s) == [r EXCEPT !.status = s]
WithDebts(r, d) == [r EXCEPT !.debts = d]
Onward(r, i, d) == [r EXCEPT !.index = i, !.debts = d]
Reported(r, i, d, o, k) == [r EXCEPT !.index = i, !.debts = d, !.outcome = o, !.kept = k]
Started(r, s, n, f, t, i, d, o) ==
  [r EXCEPT !.status = s, !.round = n, !.focus = f, !.targets = t, !.index = i, !.debts = d, !.outcome = o]

LEMMA StatusMoves ==
  ASSUME NEW r, RowOk(r), NEW s
  PROVE  RowOk(WithStatus(r, s)) /\ WithStatus(r, s).outcome = r.outcome
<1>1. PICK a, b, x, y, z, v, w, u :
        /\ r = [status |-> a, round |-> b, targets |-> x, index |-> y, debts |-> z, focus |-> v, kept |-> w, outcome |-> u]
        /\ x \in Seq(Targets) /\ y \in Nat \ {0} /\ u \in [Targets -> {"none", "accepted", "review"}]
  BY DEF RowOk
<1>2. PICK q : q = WithStatus(r, s)
  OBVIOUS
<1>3. q = [status |-> s, round |-> b, targets |-> x, index |-> y, debts |-> z, focus |-> v, kept |-> w, outcome |-> u]
  BY <1>1, <1>2 DEF WithStatus
<1>4. RowOk(q)
  BY <1>1, <1>3, RowIs
<1>5. q.outcome = r.outcome
  BY <1>1, <1>3
<1> QED BY <1>2, <1>4, <1>5

LEMMA DebtsMove ==
  ASSUME NEW r, RowOk(r), NEW d
  PROVE  RowOk(WithDebts(r, d)) /\ WithDebts(r, d).outcome = r.outcome
<1>1. PICK a, b, x, y, z, v, w, u :
        /\ r = [status |-> a, round |-> b, targets |-> x, index |-> y, debts |-> z, focus |-> v, kept |-> w, outcome |-> u]
        /\ x \in Seq(Targets) /\ y \in Nat \ {0} /\ u \in [Targets -> {"none", "accepted", "review"}]
  BY DEF RowOk
<1>2. PICK q : q = WithDebts(r, d)
  OBVIOUS
<1>3. q = [status |-> a, round |-> b, targets |-> x, index |-> y, debts |-> d, focus |-> v, kept |-> w, outcome |-> u]
  BY <1>1, <1>2 DEF WithDebts
<1>4. RowOk(q)
  BY <1>1, <1>3, RowIs
<1>5. q.outcome = r.outcome
  BY <1>1, <1>3
<1> QED BY <1>2, <1>4, <1>5

LEMMA RowSteps ==
  ASSUME NEW r, RowOk(r), NEW i \in Nat \ {0}, NEW d
  PROVE  RowOk(Onward(r, i, d)) /\ Onward(r, i, d).outcome = r.outcome
<1>1. PICK a, b, x, y, z, v, w, u :
        /\ r = [status |-> a, round |-> b, targets |-> x, index |-> y, debts |-> z, focus |-> v, kept |-> w, outcome |-> u]
        /\ x \in Seq(Targets) /\ y \in Nat \ {0} /\ u \in [Targets -> {"none", "accepted", "review"}]
  BY DEF RowOk
<1>2. PICK q : q = Onward(r, i, d)
  OBVIOUS
<1>3. q = [status |-> a, round |-> b, targets |-> x, index |-> i, debts |-> d, focus |-> v, kept |-> w, outcome |-> u]
  BY <1>1, <1>2 DEF Onward
<1>4. RowOk(q)
  BY <1>1, <1>3, RowIs
<1>5. q.outcome = r.outcome
  BY <1>1, <1>3
<1> QED BY <1>2, <1>4, <1>5

LEMMA RowReports ==
  ASSUME NEW r, RowOk(r), NEW i \in Nat \ {0}, NEW d, NEW k,
         NEW o \in [Targets -> {"none", "accepted", "review"}]
  PROVE  RowOk(Reported(r, i, d, o, k)) /\ Reported(r, i, d, o, k).outcome = o
<1>1. PICK a, b, x, y, z, v, w, u :
        /\ r = [status |-> a, round |-> b, targets |-> x, index |-> y, debts |-> z, focus |-> v, kept |-> w, outcome |-> u]
        /\ x \in Seq(Targets) /\ y \in Nat \ {0} /\ u \in [Targets -> {"none", "accepted", "review"}]
  BY DEF RowOk
<1>2. PICK q : q = Reported(r, i, d, o, k)
  OBVIOUS
<1>3. q = [status |-> a, round |-> b, targets |-> x, index |-> i, debts |-> d, focus |-> v, kept |-> k, outcome |-> o]
  BY <1>1, <1>2 DEF Reported
<1>4. RowOk(q)
  BY <1>1, <1>3, RowIs
<1>5. q.outcome = o
  BY <1>1, <1>3
<1> QED BY <1>2, <1>4, <1>5

LEMMA RowStarts ==
  ASSUME NEW r, RowOk(r), NEW s, NEW n, NEW f, NEW t \in Seq(Targets), NEW i \in Nat \ {0}, NEW d,
         NEW o \in [Targets -> {"none", "accepted", "review"}]
  PROVE  RowOk(Started(r, s, n, f, t, i, d, o)) /\ Started(r, s, n, f, t, i, d, o).outcome = o
<1>1. PICK a, b, x, y, z, v, w, u :
        /\ r = [status |-> a, round |-> b, targets |-> x, index |-> y, debts |-> z, focus |-> v, kept |-> w, outcome |-> u]
        /\ x \in Seq(Targets) /\ y \in Nat \ {0} /\ u \in [Targets -> {"none", "accepted", "review"}]
  BY DEF RowOk
<1>2. PICK q : q = Started(r, s, n, f, t, i, d, o)
  OBVIOUS
<1>3. q = [status |-> s, round |-> n, targets |-> t, index |-> i, debts |-> d, focus |-> f, kept |-> w, outcome |-> o]
  BY <1>1, <1>2 DEF Started
<1>4. RowOk(q)
  BY <1>1, <1>3, RowIs
<1>5. q.outcome = o
  BY <1>1, <1>3
<1> QED BY <1>2, <1>4, <1>5

\* What the actions make of the desk.
Judged(d, b, k, p, a) == [d EXCEPT !.best = b, !.rank = k, !.passes = p, !.at = a]
Revised(d, t, x, a) == [d EXCEPT !.draft = t, !.attempt = x, !.at = a]
MovedTo(d, a) == [d EXCEPT !.at = a]

LEMMA DeskJudges ==
  ASSUME NEW d, OnDesk(d), NEW b, NEW k, NEW p \in BOOLEAN, NEW a
  PROVE  LET n == Judged(d, b, k, p, a) IN OnDesk(n) /\ n.best = b /\ n.rank = k /\ n.passes = p /\ n.at = a
<1>1. PICK da, dd, dx, db, dk, dp :
        d = [at |-> da, draft |-> dd, attempt |-> dx, best |-> db, rank |-> dk, passes |-> dp] /\ dp \in BOOLEAN
  BY DEF OnDesk
<1>2. PICK n : n = Judged(d, b, k, p, a)
  OBVIOUS
<1>3. n = [at |-> a, draft |-> dd, attempt |-> dx, best |-> b, rank |-> k, passes |-> p]
  BY <1>1, <1>2 DEF Judged
<1> QED BY <1>1, <1>2, <1>3 DEF OnDesk

LEMMA DeskRevises ==
  ASSUME NEW d, OnDesk(d), NEW t, NEW x, NEW a
  PROVE  LET n == Revised(d, t, x, a) IN OnDesk(n) /\ n.best = d.best /\ n.rank = d.rank /\ n.passes = d.passes /\ n.at = a
<1>1. PICK da, dd, dx, db, dk, dp :
        d = [at |-> da, draft |-> dd, attempt |-> dx, best |-> db, rank |-> dk, passes |-> dp] /\ dp \in BOOLEAN
  BY DEF OnDesk
<1>2. PICK n : n = Revised(d, t, x, a)
  OBVIOUS
<1>3. n = [at |-> a, draft |-> t, attempt |-> x, best |-> db, rank |-> dk, passes |-> dp]
  BY <1>1, <1>2 DEF Revised
<1> QED BY <1>1, <1>2, <1>3 DEF OnDesk

LEMMA DeskMoves ==
  ASSUME NEW d, OnDesk(d), NEW a
  PROVE  LET n == MovedTo(d, a) IN OnDesk(n) /\ n.best = d.best /\ n.rank = d.rank /\ n.passes = d.passes /\ n.at = a
<1>1. PICK da, dd, dx, db, dk, dp :
        d = [at |-> da, draft |-> dd, attempt |-> dx, best |-> db, rank |-> dk, passes |-> dp] /\ dp \in BOOLEAN
  BY DEF OnDesk
<1>2. PICK n : n = MovedTo(d, a)
  OBVIOUS
<1>3. n = [at |-> a, draft |-> dd, attempt |-> dx, best |-> db, rank |-> dk, passes |-> dp]
  BY <1>1, <1>2 DEF MovedTo
<1> QED BY <1>1, <1>2, <1>3 DEF OnDesk

LEMMA DeskUsed ==
  ASSUME QueueOk(queue'), refineRow' = refineRow, RowOk(refineRow), OnTargets(content'), OnTargets(locked'),
         OnTargets(execution'), OnTargets(fit'), incomplete' \in [Targets -> BOOLEAN], Refining,
         refineRow.index <= Len(refineRow.targets), NEW c, c = Current, NEW state, state = execution'[c].status,
         DeskOk(desk', fit'[c], content'[c], locked'[c], state)
  PROVE  RefineInv'
<1>1. Current' = c /\ Refining'
  BY DEF Current, Refining
<1> QED BY <1>1 DEF RefineInv

LEMMA OneWritten ==
  ASSUME NEW f, OnTargets(f), NEW c \in Targets, NEW v, NEW g, g = [f EXCEPT ![c] = v]
  PROVE  OnTargets(g) /\ g[c] = v /\ \A x \in Targets \ {c} : g[x] = f[x]
BY DEF OnTargets

LEMMA KeepStart == RefineInv /\ StartRefine => RefineInv'
<1> SUFFICES ASSUME RefineInv, StartRefine PROVE RefineInv'
  OBVIOUS
<1>1. desk.at = "idle"
  BY DEF RefineInv, StartRefine
<1>2. queue' = Rebuilt(queue) /\ desk' = desk /\ content' = content /\ locked' = locked /\ execution' = execution
      /\ incomplete' = incomplete /\ fit' = fit
  BY DEF StartRefine, chapterVars
<1>3. QueueOk(queue')
  BY <1>2, Untouched, RebuiltIs
<1>10. PICK focus \in SUBSET Written, base \in SUBSET Targets :
         \E order \in SetToSeqs(focus \cup base) :
            refineRow' = [refineRow EXCEPT !.status = "running", !.round = @ + 1, !.focus = focus,
                           !.targets = order, !.index = 1, !.debts = focus \cup base,
                           !.outcome = [c \in Targets |-> "none"]]
  BY DEF StartRefine
<1>12. PICK chosen \in SUBSET Targets : chosen = focus \cup base
  BY DEF Written
<1>4. PICK order \in SetToSeqs(chosen) :
        refineRow' = [refineRow EXCEPT !.status = "running", !.round = @ + 1, !.focus = focus,
                           !.targets = order, !.index = 1, !.debts = chosen,
                           !.outcome = [c \in Targets |-> "none"]]
  BY <1>10, <1>12
<1>5. order \in Seq(Targets)
  BY OrderIs
<1>6. PICK n : n = refineRow.round + 1
  OBVIOUS
<1>7. PICK o \in [Targets -> {"none", "accepted", "review"}] : o = [c \in Targets |-> "none"]
  OBVIOUS
<1>8. refineRow' = Started(refineRow, "running", n, focus, order, 1, chosen, o)
  BY <1>4, <1>6, <1>7 DEF Started
<1>9. RowOk(refineRow')
  BY <1>5, <1>8, Untouched, RowStarts
<1>11. OnTargets(content') /\ OnTargets(locked') /\ OnTargets(execution') /\ OnTargets(fit')
       /\ incomplete' \in [Targets -> BOOLEAN]
  BY <1>2, Untouched
<1>13. desk'.at = "idle"
  BY <1>1, <1>2
<1> QED BY <1>3, <1>9, <1>11, <1>13, DeskEmpty

LEMMA KeepSkip == RefineInv /\ SkipShort => RefineInv'
<1> SUFFICES ASSUME RefineInv, SkipShort PROVE RefineInv'
  OBVIOUS
<1>1. PICK c : c = Current
  OBVIOUS
<1>2. RowOk(refineRow) /\ QueueOk(queue)
  BY Untouched
<1>3. c \in Targets
  <2>1. refineRow.index \in 1..Len(refineRow.targets) /\ refineRow.targets \in Seq(Targets)
    BY <1>2 DEF RowOk, SkipShort
  <2> QED BY <1>1, <2>1 DEF Current
<1>4. queue' = IssueEnqueued(queue, c, "missing") /\ desk' = desk /\ content' = content /\ locked' = locked
      /\ execution' = execution /\ incomplete' = incomplete /\ fit' = fit /\ desk.at = "idle"
  BY <1>1 DEF SkipShort, chapterVars, Running
<1>5. QueueOk(queue')
  BY <1>2, <1>3, <1>4, EnqueuedIs
<1>6. PICK i \in Nat \ {0} : i = refineRow.index + 1
  BY <1>2 DEF RowOk
<1>7. PICK d : d = refineRow.debts \cup {c}
  OBVIOUS
<1>8. refineRow' = Onward(refineRow, i, d)
  BY <1>1, <1>6, <1>7 DEF SkipShort, Onward
<1>9. RowOk(refineRow')
  BY <1>2, <1>8, RowSteps
<1>10. OnTargets(content') /\ OnTargets(locked') /\ OnTargets(execution') /\ OnTargets(fit')
       /\ incomplete' \in [Targets -> BOOLEAN]
  BY <1>4, Untouched
<1>11. desk'.at = "idle"
  BY <1>4
<1> QED BY <1>5, <1>9, <1>10, <1>11, DeskEmpty

LEMMA KeepTake == RefineInv /\ TakeChapter => RefineInv'
<1> SUFFICES ASSUME RefineInv, TakeChapter PROVE RefineInv'
  OBVIOUS
<1>1. PICK c : c = Current
  OBVIOUS
<1>2. RowOk(refineRow) /\ QueueOk(queue) /\ OnTargets(fit)
  BY Untouched
<1>3. Refining /\ refineRow.index <= Len(refineRow.targets)
  BY DEF TakeChapter, Running
<1>4. c \in Targets
  <2>1. refineRow.index \in 1..Len(refineRow.targets) /\ refineRow.targets \in Seq(Targets)
    BY <1>2, <1>3 DEF RowOk
  <2> QED BY <1>1, <2>1 DEF Current
<1>5. queue' = queue /\ refineRow' = refineRow /\ content' = content /\ locked' = locked /\ execution' = execution
      /\ incomplete' = incomplete
  BY DEF TakeChapter, chapterVars
<1>6. desk' = [at |-> "audit", draft |-> content[c], attempt |-> 0,
              best |-> NoText, rank |-> <<-1, 0, 0>>, passes |-> FALSE]
  BY <1>1 DEF TakeChapter
<1>7. OnTargets(fit') /\ fit'[c] = {}
  BY <1>1, <1>2, <1>4 DEF TakeChapter, OnTargets
<1>8. OnDesk(desk') /\ RankOk(desk') /\ desk'.at = "audit" /\ ~desk'.passes
  BY <1>6 DEF OnDesk, RankOk
<1>9. PICK s : s = execution'[c].status
  OBVIOUS
<1>10. DeskOk(desk', fit'[c], content'[c], locked'[c], s)
  BY <1>7, <1>8 DEF DeskOk
<1> QED BY <1>1, <1>2, <1>3, <1>5, <1>7, <1>9, <1>10, Untouched, DeskUsed

\* The order of the ranks.
LEMMA AboveIs ==
  ASSUME NEW a \in Int, NEW b \in Int, NEW s \in Int, NEW x \in Int, NEW y \in Int, NEW z \in Int
  PROVE  Above(<<a, b, s>>, <<x, y, z>>) <=> a > x \/ (a = x /\ b > y) \/ (a = x /\ b = y /\ s > z)
<1>1. PICK p, q : p = <<a, b, s>> /\ q = <<x, y, z>>
  OBVIOUS
<1>2. p[1] = a /\ p[2] = b /\ p[3] = s /\ q[1] = x /\ q[2] = y /\ q[3] = z
  BY <1>1
<1>3. ASSUME Above(p, q) PROVE a > x \/ (a = x /\ b > y) \/ (a = x /\ b = y /\ s > z)
  <2>1. PICK i \in 1..3 : p[i] > q[i] /\ \A j \in 1..(i - 1) : p[j] = q[j]
    BY <1>3 DEF Above
  <2>2. i = 1 \/ i = 2 \/ i = 3
    BY <2>1
  <2>3. CASE i = 1
    BY <1>2, <2>1, <2>3
  <2>4. CASE i = 2
    <3>1. 1 \in 1..(i - 1)
      BY <2>4
    <3> QED BY <1>2, <2>1, <2>4, <3>1
  <2>5. CASE i = 3
    <3>1. 1 \in 1..(i - 1) /\ 2 \in 1..(i - 1)
      BY <2>5
    <3> QED BY <1>2, <2>1, <2>5, <3>1
  <2> QED BY <2>2, <2>3, <2>4, <2>5
<1>4. ASSUME a > x PROVE Above(p, q)
  BY <1>2, <1>4 DEF Above
<1>5. ASSUME a = x /\ b > y PROVE Above(p, q)
  <2>1. p[2] > q[2] /\ \A j \in 1..(2 - 1) : p[j] = q[j]
    BY <1>2, <1>5
  <2> QED BY <2>1 DEF Above
<1>6. ASSUME a = x /\ b = y /\ s > z PROVE Above(p, q)
  <2>1. p[3] > q[3] /\ \A j \in 1..(3 - 1) : p[j] = q[j]
    BY <1>2, <1>6
  <2> QED BY <2>1 DEF Above
<1> QED BY <1>1, <1>3, <1>4, <1>5, <1>6

Passed(t, o) == o.passes /\ t.whole

\* What the rank says of a text and an audit.
LEMMA RankIs ==
  ASSUME NEW t, NEW o \in Opinions
  PROVE  \E a \in 0..1, b \in {0, -1, -2}, s \in 1..2 :
           RefineRank(t, o) = <<a, b, s>> /\ (Passed(t, o) <=> a = 1 /\ b = 0)
<1>1. o.passes \in BOOLEAN /\ o.blockers \in 0..1 /\ o.score \in 1..2 /\ (o.passes => o.blockers = 0)
  BY DEF Opinions
<1>2. PICK n, s : n = o.blockers /\ s = o.score
  OBVIOUS
<1>3. n \in {0, 1} /\ s \in 1..2 /\ (o.passes => n = 0)
  BY <1>1, <1>2
<1>4. CASE o.passes /\ t.whole
  <2>1. RefineRank(t, o) = <<1, 0, s>>
    BY <1>2, <1>3, <1>4 DEF RefineRank
  <2> QED BY <1>3, <1>4, <2>1 DEF Passed
<1>5. CASE o.passes /\ ~t.whole
  <2>1. RefineRank(t, o) = <<1, -1, s>>
    BY <1>2, <1>3, <1>5 DEF RefineRank
  <2> QED BY <1>3, <1>5, <2>1 DEF Passed
<1>6. CASE ~o.passes
  <2>1. PICK b \in {0, -1, -2} : b = 0 - (n + (IF t.whole THEN 0 ELSE 1))
    BY <1>3
  <2>2. RefineRank(t, o) = <<0, b, s>>
    BY <1>2, <1>6, <2>1 DEF RefineRank
  <2> QED BY <1>3, <1>6, <2>2 DEF Passed
<1> QED BY <1>1, <1>4, <1>5, <1>6

\* A text that passes goes before one that does not, and not after one that does.
LEMMA PassedGoesBefore ==
  ASSUME NEW t, NEW o \in Opinions, NEW u, NEW v \in Opinions
  PROVE  /\ Above(RefineRank(t, o), RefineRank(u, v)) /\ Passed(u, v) => Passed(t, o)
         /\ ~Above(RefineRank(t, o), RefineRank(u, v)) /\ Passed(t, o) => Passed(u, v)
         /\ Above(RefineRank(t, o), <<-1, 0, 0>>)
<1>1. PICK a \in 0..1, b \in {0, -1, -2}, s \in 1..2 :
        RefineRank(t, o) = <<a, b, s>> /\ (Passed(t, o) <=> a = 1 /\ b = 0)
  BY RankIs
<1>2. PICK x \in 0..1, y \in {0, -1, -2}, z \in 1..2 :
        RefineRank(u, v) = <<x, y, z>> /\ (Passed(u, v) <=> x = 1 /\ y = 0)
  BY RankIs
<1>3. Above(<<a, b, s>>, <<x, y, z>>) <=> a > x \/ (a = x /\ b > y) \/ (a = x /\ b = y /\ s > z)
  BY AboveIs
<1>4. Above(<<a, b, s>>, <<-1, 0, 0>>)
  BY AboveIs
<1> QED BY <1>1, <1>2, <1>3, <1>4

Wins(d, o) == Above(RefineRank(d.draft, o), d.rank)

LEMMA KeepAudit == RefineInv /\ AuditDraft => RefineInv'
<1> SUFFICES ASSUME RefineInv, AuditDraft PROVE RefineInv'
  OBVIOUS
<1>1. PICK c : c = Current
  OBVIOUS
<1>2. desk.at = "audit"
  BY DEF AuditDraft, Running
<1>3. /\ Refining /\ c \in Targets /\ refineRow.index <= Len(refineRow.targets)
      /\ DeskOk(desk, fit[c], content[c], locked[c], execution[c].status)
  BY <1>1, <1>2, SeenIs
<1>4. queue' = queue /\ refineRow' = refineRow /\ content' = content /\ locked' = locked /\ execution' = execution
      /\ incomplete' = incomplete
  BY DEF AuditDraft, chapterVars
<1>19. PICK o \in Opinions :
       LET better == Above(RefineRank(desk.draft, o), desk.rank)
           enough == o.passes /\ ~(desk.attempt = 0 /\ Current \in refineRow.focus) IN
       /\ desk' = [desk EXCEPT
            !.best = IF better THEN desk.draft ELSE @,
            !.rank = IF better THEN RefineRank(desk.draft, o) ELSE @,
            !.passes = IF better THEN o.passes ELSE @,
            !.at = IF enough \/ desk.attempt = RevisionAttempts THEN "settle" ELSE "revise"]
       /\ fit' = [fit EXCEPT ![Current] =
                    @ \cup (IF o.passes /\ desk.draft.whole THEN {desk.draft} ELSE {})]
  BY DEF AuditDraft
<1>20. PICK enough : enough = (o.passes /\ ~(desk.attempt = 0 /\ Current \in refineRow.focus))
  OBVIOUS
<1>5. /\ desk' = [desk EXCEPT
            !.best = IF Wins(desk, o) THEN desk.draft ELSE @,
            !.rank = IF Wins(desk, o) THEN RefineRank(desk.draft, o) ELSE @,
            !.passes = IF Wins(desk, o) THEN o.passes ELSE @,
            !.at = IF enough \/ desk.attempt = RevisionAttempts THEN "settle" ELSE "revise"]
      /\ fit' = [fit EXCEPT ![c] =
                    @ \cup (IF o.passes /\ desk.draft.whole THEN {desk.draft} ELSE {})]
  BY <1>1, <1>19, <1>20 DEF Wins
<1>6. o.passes \in BOOLEAN /\ desk.passes \in BOOLEAN /\ OnDesk(desk) /\ RankOk(desk)
  BY <1>3 DEF Opinions, DeskOk, OnDesk
<1>7. PICK t, b, k, a : /\ t = desk.draft /\ b = (IF Wins(desk, o) THEN t ELSE desk.best)
                        /\ k = (IF Wins(desk, o) THEN RefineRank(t, o) ELSE desk.rank)
                        /\ a = (IF enough \/ desk.attempt = RevisionAttempts THEN "settle" ELSE "revise")
  OBVIOUS
<1>8. PICK p \in BOOLEAN : p = (IF Wins(desk, o) THEN o.passes ELSE desk.passes)
  BY <1>6
<1>9. desk' = Judged(desk, b, k, p, a)
  BY <1>5, <1>7, <1>8, Zenon DEF Judged
<1>10. OnDesk(desk') /\ desk'.best = b /\ desk'.rank = k /\ desk'.passes = p /\ desk'.at = a
  BY <1>6, <1>9, DeskJudges
<1>11. a # "report"
  BY <1>7
<1>12. PICK seen : seen = fit[c] \cup (IF Passed(t, o) THEN {t} ELSE {})
  OBVIOUS
<1>13. OnTargets(fit') /\ fit'[c] = seen
  BY <1>3, <1>5, <1>7, <1>12, Untouched DEF OnTargets, Passed
<1>14. RankOk(desk')
  <2>1. CASE Wins(desk, o)
    BY <1>7, <1>8, <1>10, <2>1 DEF RankOk
  <2>2. CASE ~Wins(desk, o)
    BY <1>6, <1>7, <1>8, <1>10, <2>2 DEF RankOk
  <2> QED BY <2>1, <2>2
<1>15. /\ fit[c] # {} => desk.passes /\ desk.best.whole
       /\ desk.passes /\ desk.best.whole => desk.best \in fit[c]
  BY <1>3 DEF DeskOk
<1>16. CASE Wins(desk, o)
  <2>1. b = t /\ (p <=> o.passes)
    BY <1>7, <1>8, <1>16
  <2>2. fit[c] # {} => Passed(t, o)
    <3>1. CASE desk.rank = <<-1, 0, 0>> /\ ~desk.passes
      BY <1>15, <3>1
    <3>2. ASSUME NEW v \in Opinions, desk.rank = RefineRank(desk.best, v), desk.passes = v.passes
          PROVE  fit[c] # {} => Passed(t, o)
      <4>1. Above(RefineRank(t, o), RefineRank(desk.best, v))
        BY <1>7, <1>16, <3>2 DEF Wins
      <4>2. Passed(desk.best, v) => Passed(t, o)
        BY <4>1, PassedGoesBefore
      <4> QED BY <1>15, <3>2, <4>2 DEF Passed
    <3> QED BY <1>6, <3>1, <3>2 DEF RankOk
  <2>3. seen # {} => Passed(t, o)
    BY <1>12, <2>2
  <2>4. Passed(t, o) => t \in seen
    BY <1>12
  <2>5. seen # {} => p /\ b.whole
    BY <2>1, <2>3 DEF Passed
  <2>6. p /\ b.whole => b \in seen
    BY <2>1, <2>4 DEF Passed
  <2>7. DeskOk(desk', fit'[c], content'[c], locked'[c], execution'[c].status)
    BY <1>10, <1>11, <1>13, <1>14, <2>5, <2>6 DEF DeskOk
  <2> QED BY <1>1, <1>3, <1>4, <1>13, <2>7, Untouched, DeskUsed
<1>17. CASE ~Wins(desk, o)
  <2>1. b = desk.best /\ (p <=> desk.passes)
    BY <1>7, <1>8, <1>17
  <2>2. Passed(t, o) => desk.passes /\ desk.best.whole
    <3>1. CASE desk.rank = <<-1, 0, 0>>
      BY <1>7, <1>17, <3>1, PassedGoesBefore DEF Wins
    <3>2. ASSUME NEW v \in Opinions, desk.rank = RefineRank(desk.best, v), desk.passes = v.passes
          PROVE  Passed(t, o) => desk.passes /\ desk.best.whole
      <4>1. ~Above(RefineRank(t, o), RefineRank(desk.best, v))
        BY <1>7, <1>17, <3>2 DEF Wins
      <4>2. Passed(t, o) => Passed(desk.best, v)
        BY <4>1, PassedGoesBefore
      <4> QED BY <3>2, <4>2 DEF Passed
    <3> QED BY <1>6, <3>1, <3>2 DEF RankOk
  <2>3. seen # {} => p /\ b.whole
    BY <1>12, <1>15, <2>1, <2>2
  <2>4. p /\ b.whole => b \in seen
    BY <1>12, <1>15, <2>1
  <2>5. DeskOk(desk', fit'[c], content'[c], locked'[c], execution'[c].status)
    BY <1>10, <1>11, <1>13, <1>14, <2>3, <2>4 DEF DeskOk
  <2> QED BY <1>1, <1>3, <1>4, <1>13, <2>5, Untouched, DeskUsed
<1> QED BY <1>16, <1>17

LEMMA KeepRevise == RefineInv /\ ReviseDraft => RefineInv'
<1> SUFFICES ASSUME RefineInv, ReviseDraft PROVE RefineInv'
  OBVIOUS
<1>1. PICK c : c = Current
  OBVIOUS
<1>2. desk.at = "revise"
  BY DEF ReviseDraft, Running
<1>3. /\ Refining /\ c \in Targets /\ refineRow.index <= Len(refineRow.targets)
      /\ DeskOk(desk, fit[c], content[c], locked[c], execution[c].status)
  BY <1>1, <1>2, SeenIs
<1>4. queue' = queue /\ refineRow' = refineRow /\ content' = content /\ locked' = locked /\ execution' = execution
      /\ incomplete' = incomplete /\ fit' = fit
  BY DEF ReviseDraft, chapterVars
<1>5. PICK t : desk' = [desk EXCEPT !.draft = t, !.attempt = @ + 1, !.at = "audit"]
  BY DEF ReviseDraft
<1>6. PICK x : x = desk.attempt + 1
  OBVIOUS
<1>7. desk' = Revised(desk, t, x, "audit")
  BY <1>5, <1>6 DEF Revised
<1>8. OnDesk(desk') /\ desk'.best = desk.best /\ desk'.rank = desk.rank /\ desk'.passes = desk.passes /\ desk'.at = "audit"
  BY <1>3, <1>7, DeskRevises DEF DeskOk
<1>9. PICK s : s = execution'[c].status
  OBVIOUS
<1>10. DeskOk(desk', fit'[c], content'[c], locked'[c], s)
  BY <1>3, <1>4, <1>8 DEF DeskOk, RankOk
<1> QED BY <1>1, <1>3, <1>4, <1>9, <1>10, Untouched, DeskUsed

LEMMA KeepAccept == RefineInv /\ SettleAccepted => RefineInv'
<1> SUFFICES ASSUME RefineInv, SettleAccepted PROVE RefineInv'
  OBVIOUS
<1>1. PICK c : c = Current
  OBVIOUS
<1>2. desk.at = "settle" /\ AcceptedByRunner
  BY DEF SettleAccepted, Running
<1>3. /\ Refining /\ c \in Targets /\ refineRow.index <= Len(refineRow.targets)
      /\ DeskOk(desk, fit[c], content[c], locked[c], execution[c].status)
  BY <1>1, <1>2, SeenIs
<1>4. refineRow' = refineRow /\ fit' = fit
  BY DEF SettleAccepted
<1>5. PICK r : r = Resolved(queue, LAMBDA x : x.chapter = Current)
  OBVIOUS
<1>6. QueueOk(r)
  <2>1. PICK which : which = {x \in queue : x.chapter = Current}
    OBVIOUS
  <2>2. r = {IF x.status \in Open /\ x \in which THEN Restated(x, "resolved") ELSE x : x \in queue}
    BY <1>5, <2>1 DEF Resolved, Restated
  <2> QED BY <2>2, Untouched, ResolvedKeeps
<1>7. QueueOk(queue') /\ incomplete' \in [Targets -> BOOLEAN]
  <2>1. \/ queue' = r /\ incomplete' = incomplete
        \/ queue' = IssueEnqueued(r, c, "memory") /\ incomplete' = incomplete
        \/ \E missing \in BOOLEAN : incomplete' = [incomplete EXCEPT ![c] = missing] /\ queue' = Synced(r, c, missing)
    BY <1>1, <1>5 DEF SettleAccepted, Resolved
  <2>2. CASE queue' = r /\ incomplete' = incomplete
    BY <1>6, <2>2, Untouched
  <2>3. CASE queue' = IssueEnqueued(r, c, "memory") /\ incomplete' = incomplete
    BY <1>3, <1>6, <2>3, Untouched, EnqueuedIs
  <2>4. ASSUME NEW missing \in BOOLEAN, incomplete' = [incomplete EXCEPT ![c] = missing], queue' = Synced(r, c, missing)
        PROVE  QueueOk(queue') /\ incomplete' \in [Targets -> BOOLEAN]
    BY <1>3, <1>6, <2>4, Untouched, SyncedIs
  <2> QED BY <2>1, <2>2, <2>3, <2>4
<1>8. content' = [content EXCEPT ![c] = desk.best] /\ locked' = [locked EXCEPT ![c] = desk.best]
  BY <1>1 DEF SettleAccepted, LockChapter
<1>9. OnTargets(content') /\ OnTargets(locked') /\ content'[c] = desk.best /\ locked'[c] = desk.best
  BY <1>3, <1>8, Untouched DEF OnTargets
<1>10. PICK issues : execution' = [execution EXCEPT ![c] = [status |-> "accepted", issues |-> issues]]
  BY <1>1 DEF SettleAccepted
<1>11. OnTargets(execution') /\ execution'[c].status = "accepted"
  BY <1>3, <1>10, Untouched DEF OnTargets
<1>12. desk' = MovedTo(desk, "report")
  BY DEF SettleAccepted, MovedTo
<1>13. OnDesk(desk') /\ desk'.best = desk.best /\ desk'.rank = desk.rank /\ desk'.passes = desk.passes /\ desk'.at = "report"
  BY <1>3, <1>12, DeskMoves DEF DeskOk
<1>14. PICK s : s = execution'[c].status
  OBVIOUS
<1>15. DeskOk(desk', fit'[c], content'[c], locked'[c], s)
  BY <1>3, <1>4, <1>9, <1>11, <1>13, <1>14 DEF DeskOk, RankOk
<1> QED BY <1>1, <1>3, <1>4, <1>7, <1>9, <1>11, <1>14, <1>15, Untouched, DeskUsed

LEMMA KeepRefuse == RefineInv /\ SettleRefused => RefineInv'
<1> SUFFICES ASSUME RefineInv, SettleRefused PROVE RefineInv'
  OBVIOUS
<1>1. PICK c : c = Current
  OBVIOUS
<1>2. desk.at = "settle" /\ ~AcceptedByRunner
  BY DEF SettleRefused, Running
<1>3. /\ Refining /\ c \in Targets /\ refineRow.index <= Len(refineRow.targets)
      /\ DeskOk(desk, fit[c], content[c], locked[c], execution[c].status)
  BY <1>1, <1>2, SeenIs
<1>4. refineRow' = refineRow /\ content' = content /\ locked' = locked /\ execution' = execution
      /\ incomplete' = incomplete /\ fit' = fit
  BY DEF SettleRefused, chapterVars
<1>5. PICK issues : queue' = EnqueuedAll(queue, c, issues)
  BY <1>1 DEF SettleRefused
<1>6. QueueOk(queue')
  BY <1>3, <1>5, Untouched, EnqueuedAllIs
<1>7. desk' = MovedTo(desk, "report")
  BY DEF SettleRefused, MovedTo
<1>8. OnDesk(desk') /\ desk'.best = desk.best /\ desk'.rank = desk.rank /\ desk'.passes = desk.passes /\ desk'.at = "report"
  BY <1>3, <1>7, DeskMoves DEF DeskOk
<1>9. PICK s : s = execution'[c].status
  OBVIOUS
<1>10. DeskOk(desk', fit'[c], content'[c], locked'[c], s)
  BY <1>2, <1>3, <1>4, <1>8 DEF DeskOk, RankOk, AcceptedByRunner
<1> QED BY <1>1, <1>3, <1>4, <1>6, <1>9, <1>10, Untouched, DeskUsed

LEMMA KeepReport == RefineInv /\ ReportRefine => RefineInv'
<1> SUFFICES ASSUME RefineInv, ReportRefine PROVE RefineInv'
  OBVIOUS
<1>1. PICK c : c = Current
  OBVIOUS
<1>2. queue' = queue /\ content' = content /\ locked' = locked /\ execution' = execution
      /\ incomplete' = incomplete /\ fit' = fit /\ desk' = NoDesk
  BY DEF ReportRefine, chapterVars
<1>3. RowOk(refineRow)
  BY Untouched
<1>4. PICK i \in Nat \ {0} : i = refineRow.index + 1
  BY <1>3 DEF RowOk
<1>5. PICK d, k : /\ d = IF AcceptedByRunner THEN refineRow.debts \ {c} ELSE refineRow.debts \cup {c}
                  /\ k = IF AcceptedByRunner THEN refineRow.kept ELSE [refineRow.kept EXCEPT ![c] = desk.best]
  OBVIOUS
<1>6. PICK o : o = [refineRow.outcome EXCEPT ![c] = IF AcceptedByRunner THEN "accepted" ELSE "review"]
  OBVIOUS
<1>7. o \in [Targets -> {"none", "accepted", "review"}]
  BY <1>3, <1>6 DEF RowOk
<1>8. refineRow' = Reported(refineRow, i, d, o, k)
  BY <1>1, <1>4, <1>5, <1>6 DEF ReportRefine, Reported
<1>9. RowOk(refineRow')
  BY <1>3, <1>4, <1>7, <1>8, RowReports
<1>10. OnTargets(content') /\ OnTargets(locked') /\ OnTargets(execution') /\ OnTargets(fit')
       /\ incomplete' \in [Targets -> BOOLEAN] /\ QueueOk(queue')
  BY <1>2, Untouched
<1>11. desk'.at = "idle"
  BY <1>2 DEF NoDesk
<1> QED BY <1>9, <1>10, <1>11, DeskEmpty

\* The steps that move the status of the row alone, with nothing on the desk afterwards.
LEMMA KeepStatus == RefineInv /\ (FinishRefine \/ StopRefine \/ ResumeRefine) => RefineInv'
<1> SUFFICES ASSUME RefineInv, FinishRefine \/ StopRefine \/ ResumeRefine PROVE RefineInv'
  OBVIOUS
<1>1. queue' = queue /\ content' = content /\ locked' = locked /\ execution' = execution
      /\ incomplete' = incomplete /\ fit' = fit
  BY DEF FinishRefine, StopRefine, ResumeRefine, chapterVars
<1>2. desk'.at = "idle"
  <2>1. CASE FinishRefine
    BY <2>1 DEF FinishRefine, Running
  <2>2. CASE StopRefine
    BY <2>2 DEF StopRefine, NoDesk
  <2>3. CASE ResumeRefine
    BY <2>3 DEF ResumeRefine, RefineInv, Refining
  <2> QED BY <2>1, <2>2, <2>3
<1>3. PICK s : refineRow' = WithStatus(refineRow, s)
  BY DEF FinishRefine, StopRefine, ResumeRefine, WithStatus
<1>4. RowOk(refineRow')
  BY <1>3, Untouched, StatusMoves
<1>5. OnTargets(content') /\ OnTargets(locked') /\ OnTargets(execution') /\ OnTargets(fit')
      /\ incomplete' \in [Targets -> BOOLEAN] /\ QueueOk(queue')
  BY <1>1, Untouched
<1> QED BY <1>2, <1>4, <1>5, DeskEmpty

\* The editor works while nothing is refined, hence with nothing on the desk.
LEMMA KeepEdits == RefineInv /\ (AcceptByHand \/ ResetByHand \/ MarkItem \/ RepairStages) => RefineInv'
<1> SUFFICES ASSUME RefineInv, AcceptByHand \/ ResetByHand \/ MarkItem \/ RepairStages PROVE RefineInv'
  OBVIOUS
<1>1. desk' = desk /\ content' = content /\ fit' = fit /\ ~Refining
  BY DEF AcceptByHand, ResetByHand, MarkItem, RepairStages, Editing, chapterVars
<1>2. desk'.at = "idle"
  BY <1>1 DEF RefineInv
<1>3. CASE AcceptByHand
  <2>1. queue' = queue /\ incomplete' = incomplete
    BY <1>3 DEF AcceptByHand
  <2>2. PICK c \in Targets :
          /\ locked' = [locked EXCEPT ![c] = content[c]]
          /\ execution' = [execution EXCEPT ![c].status = IF @ = "quality_debt" THEN "accepted" ELSE @]
          /\ refineRow' = [refineRow EXCEPT !.debts = DebtRemoved(@, c)]
    BY <1>3 DEF AcceptByHand, LockChapter
  <2>3. OnTargets(locked') /\ OnTargets(execution')
    BY <2>2, Untouched DEF OnTargets
  <2>4. PICK d : refineRow' = WithDebts(refineRow, d)
    BY <2>2 DEF WithDebts
  <2>5. RowOk(refineRow')
    BY <2>4, Untouched, DebtsMove
  <2>6. OnTargets(content') /\ OnTargets(fit') /\ incomplete' \in [Targets -> BOOLEAN] /\ QueueOk(queue')
    BY <1>1, <2>1, Untouched
  <2> QED BY <1>2, <2>3, <2>5, <2>6, DeskEmpty
<1>4. CASE ResetByHand
  <2>1. queue' = queue /\ incomplete' = incomplete /\ execution' = execution /\ refineRow' = refineRow
    BY <1>4 DEF ResetByHand
  <2>2. PICK c \in Targets : locked' = [locked EXCEPT ![c] = NoText]
    BY <1>4 DEF ResetByHand
  <2>3. OnTargets(locked')
    BY <2>2, Untouched DEF OnTargets
  <2>4. /\ OnTargets(content') /\ OnTargets(fit') /\ OnTargets(execution') /\ RowOk(refineRow')
        /\ incomplete' \in [Targets -> BOOLEAN] /\ QueueOk(queue')
    BY <1>1, <2>1, Untouched
  <2> QED BY <1>2, <2>3, <2>4, DeskEmpty
<1>5. CASE MarkItem
  <2>1. incomplete' = incomplete /\ execution' = execution /\ refineRow' = refineRow /\ locked' = locked
    BY <1>5 DEF MarkItem, chapterVars
  <2>2. PICK q : q = Rebuilt(queue)
    OBVIOUS
  <2>3. QueueOk(q)
    BY <2>2, Untouched, RebuiltIs
  <2>4. PICK x \in q, s \in {"in_progress", "resolved", "dismissed"} :
          x.status \in Open /\ queue' = (q \ {x}) \cup {Restated(x, s)}
    BY <1>5, <2>2 DEF MarkItem, Restated
  <2>5. PICK y : y = Restated(x, s)
    OBVIOUS
  <2>6. ItemShape(y) /\ SameKey(y, x) /\ y.chapter \in Targets
    <3>1. ItemShape(x) /\ x.chapter \in Targets
      BY <2>3 DEF QueueOk
    <3> QED BY <2>5, <3>1, RestatedIs
  <2>7. InForce(x)
    BY <2>4 DEF InForce, Open
  <2>8. QueueOk(queue')
    <3>1. queue' = (q \ {x}) \cup {y}
      BY <2>4, <2>5
    <3>2. \A z \in q \ {x} : InForce(z) => ~SameKey(z, y)
      BY <2>3, <2>6, <2>7 DEF QueueOk, SameKey
    <3> QED BY <2>3, <2>6, <3>1, <3>2 DEF QueueOk, SameKey
  <2>9. /\ OnTargets(content') /\ OnTargets(fit') /\ OnTargets(execution') /\ RowOk(refineRow')
        /\ incomplete' \in [Targets -> BOOLEAN] /\ OnTargets(locked')
    BY <1>1, <2>1, Untouched
  <2> QED BY <1>2, <2>8, <2>9, DeskEmpty
<1>6. CASE RepairStages
  <2>1. execution' = execution /\ refineRow' = refineRow /\ locked' = locked
    BY <1>6 DEF RepairStages
  <2>2. PICK c \in Targets, missing \in BOOLEAN :
          incomplete' = [incomplete EXCEPT ![c] = missing] /\ queue' = Synced(queue, c, missing)
    BY <1>6 DEF RepairStages
  <2>3. QueueOk(queue')
    BY <2>2, Untouched, SyncedIs
  <2>4. incomplete' \in [Targets -> BOOLEAN]
    BY <2>2, Untouched
  <2>5. /\ OnTargets(content') /\ OnTargets(fit') /\ OnTargets(execution') /\ RowOk(refineRow')
        /\ OnTargets(locked')
    BY <1>1, <2>1, Untouched
  <2> QED BY <1>2, <2>3, <2>4, <2>5, DeskEmpty
<1> QED BY <1>3, <1>4, <1>5, <1>6

LEMMA RefineStarts == RefineInit => RefineInv
<1> SUFFICES ASSUME RefineInit PROVE RefineInv
  OBVIOUS
<1>1. QueueOk(queue)
  BY DEF RefineInit, QueueOk
<1>2. PICK o \in [Targets -> {"none", "accepted", "review"}] : o = [c \in Targets |-> "none"]
  OBVIOUS
<1>12. <<>> \in Seq(Targets)
  OBVIOUS
<1>9. PICK e \in Seq(Targets) : e = <<>>
  BY <1>12
<1>10. PICK n \in Nat \ {0} : n = 1
  OBVIOUS
<1>3. PICK k : k = [c \in Targets |-> NoText]
  OBVIOUS
<1>11. PICK z : z = {}
  OBVIOUS
<1>4. refineRow = [status |-> "none", round |-> 0, targets |-> e, index |-> n, debts |-> z,
            focus |-> z, kept |-> k, outcome |-> o]
  BY <1>2, <1>3, <1>9, <1>10, <1>11 DEF RefineInit
<1>5. RowOk(refineRow)
  BY <1>4, RowIs
<1>6. OnTargets(content) /\ OnTargets(locked) /\ OnTargets(fit)
  BY DEF RefineInit, OnTargets
<1>7. OnTargets(execution)
  BY DEF RefineInit, OnTargets
<1>8. incomplete \in [Targets -> BOOLEAN] /\ desk.at = "idle"
  BY DEF RefineInit, NoDesk
<1> QED BY <1>1, <1>5, <1>6, <1>7, <1>8 DEF RefineInv

LEMMA RefineSteps == RefineInv /\ [RefineNext]_refineVars => RefineInv'
<1>1. RefineInv /\ UNCHANGED refineVars => RefineInv'
  BY DEF RefineInv, refineVars, chapterVars, Refining, Current
<1> QED
  BY <1>1, KeepStart, KeepSkip, KeepTake, KeepAudit, KeepRevise, KeepAccept, KeepRefuse, KeepReport, KeepStatus,
     KeepEdits DEF RefineNext

\* The parts of RefinementIsSound that one state shows.
LEMMA RefineKeeps == RefineInv => FitIsUsed /\ OneOpenItem /\ StagesAreQueued
<1> SUFFICES ASSUME RefineInv PROVE FitIsUsed /\ OneOpenItem /\ StagesAreQueued
  OBVIOUS
<1>1. FitIsUsed
  <2>1. SUFFICES ASSUME desk.at = "report", fit[Current] # {}
                 PROVE  content[Current] \in fit[Current] /\ locked[Current] = content[Current]
    BY DEF FitIsUsed
  <2>2. PICK c : c = Current
    OBVIOUS
  <2>3. PICK s : s = execution[c].status
    OBVIOUS
  <2>4. DeskOk(desk, fit[c], content[c], locked[c], s)
    BY <2>1, <2>2, <2>3, SeenIs
  <2> QED BY <2>1, <2>2, <2>4 DEF DeskOk
<1>2. OneOpenItem
  BY Untouched DEF OneOpenItem, QueueOk, InForce, Open, SameKey
<1>3. StagesAreQueued
  BY Untouched, RebuiltIs DEF StagesAreQueued, StagesAsked
<1> QED BY <1>1, <1>2, <1>3

\* A text goes into the book by the acceptance of the runner alone.
LEMMA FitStep ==
  RefineInv /\ [RefineNext]_refineVars =>
    \A c \in Targets : content'[c] # content[c] => content'[c] \in fit[c] /\ locked'[c] = content'[c]
<1> SUFFICES ASSUME RefineInv, [RefineNext]_refineVars, NEW c \in Targets, content'[c] # content[c]
             PROVE  content'[c] \in fit[c] /\ locked'[c] = content'[c]
  OBVIOUS
<1>1. SettleAccepted
  BY DEF RefineNext, StartRefine, SkipShort, TakeChapter, AuditDraft, ReviseDraft, SettleRefused, ReportRefine, FinishRefine,
         StopRefine, ResumeRefine, AcceptByHand, ResetByHand, MarkItem, RepairStages, refineVars, chapterVars
<1>2. desk.at = "settle" /\ AcceptedByRunner
  BY <1>1 DEF SettleAccepted, Running
<1>3. PICK d : d = Current
  OBVIOUS
<1>4. content' = [content EXCEPT ![d] = desk.best] /\ locked' = [locked EXCEPT ![d] = desk.best]
  BY <1>1, <1>3 DEF SettleAccepted, LockChapter
<1>5. c = d /\ content'[c] = desk.best /\ locked'[c] = desk.best
  BY <1>4, Untouched DEF OnTargets
<1>6. PICK s : s = execution[d].status
  OBVIOUS
<1>7. DeskOk(desk, fit[d], content[d], locked[d], s)
  BY <1>2, <1>3, <1>6, SeenIs
<1>8. desk.best \in fit[d]
  BY <1>2, <1>7 DEF DeskOk, AcceptedByRunner
<1> QED BY <1>5, <1>8

\* A round alone says what became of a chapter.
LEMMA OutcomeStays ==
  RefineInv /\ [RefineNext]_refineVars => \/ StartRefine \/ ReportRefine
                                         \/ refineRow'.outcome = refineRow.outcome
<1> SUFFICES ASSUME RefineInv, [RefineNext]_refineVars, ~StartRefine, ~ReportRefine
             PROVE  refineRow'.outcome = refineRow.outcome
  OBVIOUS
<1>1. CASE refineRow' = refineRow
  BY <1>1
<1>2. CASE SkipShort
  <2>1. PICK i \in Nat \ {0} : i = refineRow.index + 1
    BY Untouched DEF RowOk
  <2>2. PICK d : d = refineRow.debts \cup {Current}
    OBVIOUS
  <2>3. refineRow' = Onward(refineRow, i, d)
    BY <1>2, <2>1, <2>2 DEF SkipShort, Onward
  <2> QED BY <2>3, Untouched, RowSteps
<1>3. CASE FinishRefine \/ StopRefine \/ ResumeRefine
  <2>1. PICK s : refineRow' = WithStatus(refineRow, s)
    BY <1>3 DEF FinishRefine, StopRefine, ResumeRefine, WithStatus
  <2> QED BY <2>1, Untouched, StatusMoves
<1>4. CASE AcceptByHand
  <2>1. PICK d : refineRow' = WithDebts(refineRow, d)
    BY <1>4 DEF AcceptByHand, WithDebts
  <2> QED BY <2>1, Untouched, DebtsMove
<1>5. SkipShort \/ FinishRefine \/ StopRefine \/ ResumeRefine \/ AcceptByHand \/ refineRow' = refineRow
  BY DEF RefineNext, TakeChapter, AuditDraft, ReviseDraft, SettleAccepted, SettleRefused, ResetByHand, MarkItem, RepairStages,
         refineVars
<1> QED BY <1>1, <1>2, <1>3, <1>4, <1>5

LEMMA StoredStep ==
  RefineInv /\ [RefineNext]_refineVars =>
    \A c \in Targets :
       refineRow'.outcome[c] = "accepted" /\ refineRow.outcome[c] # "accepted" =>
         locked'[c] = content'[c] /\ execution'[c].status = "accepted"
<1> SUFFICES ASSUME RefineInv, [RefineNext]_refineVars, NEW c \in Targets,
                    refineRow'.outcome[c] = "accepted", refineRow.outcome[c] # "accepted"
             PROVE  locked'[c] = content'[c] /\ execution'[c].status = "accepted"
  OBVIOUS
<1>1. ~StartRefine
  <2>1. SUFFICES ASSUME StartRefine PROVE FALSE
    OBVIOUS
  <2>2. PICK focus, chosen, order :
        refineRow' = [refineRow EXCEPT !.status = "running", !.round = @ + 1, !.focus = focus,
                           !.targets = order, !.index = 1, !.debts = chosen,
                           !.outcome = [x \in Targets |-> "none"]]
    BY <2>1 DEF StartRefine
  <2>3. PICK a, b, x, y, z, v, w, u :
          refineRow = [status |-> a, round |-> b, targets |-> x, index |-> y, debts |-> z, focus |-> v, kept |-> w, outcome |-> u]
    BY Untouched DEF RowOk
  <2>4. PICK n, o : n = refineRow.round + 1 /\ o = [e \in Targets |-> "none"]
    OBVIOUS
  <2>5. refineRow' = [refineRow EXCEPT !.status = "running", !.round = n, !.focus = focus,
                           !.targets = order, !.index = 1, !.debts = chosen, !.outcome = o]
    BY <2>2, <2>4
  <2>6. refineRow' = [status |-> "running", round |-> n, targets |-> order, index |-> 1, debts |-> chosen, focus |-> focus,
                      kept |-> w, outcome |-> o]
    BY <2>3, <2>5
  <2>7. refineRow'.outcome = o
    BY <2>6
  <2> QED BY <2>4, <2>7
<1>2. ReportRefine
  BY <1>1, OutcomeStays
<1>3. PICK d : d = Current
  OBVIOUS
<1>12. PICK i \in Nat \ {0} : i = refineRow.index + 1
  BY Untouched DEF RowOk
<1>13. PICK debts, k : /\ debts = IF AcceptedByRunner THEN refineRow.debts \ {d} ELSE refineRow.debts \cup {d}
                       /\ k = IF AcceptedByRunner THEN refineRow.kept ELSE [refineRow.kept EXCEPT ![d] = desk.best]
  OBVIOUS
<1>14. PICK o : o = [refineRow.outcome EXCEPT ![d] = IF AcceptedByRunner THEN "accepted" ELSE "review"]
  OBVIOUS
<1>4. refineRow' = Reported(refineRow, i, debts, o, k)
  BY <1>2, <1>3, <1>12, <1>13, <1>14 DEF ReportRefine, Reported
<1>5. o \in [Targets -> {"none", "accepted", "review"}]
  BY <1>14, Untouched DEF RowOk
<1>6. refineRow'.outcome = o
  BY <1>4, <1>5, Untouched, RowReports
<1>7. c = d /\ AcceptedByRunner
  BY <1>6, <1>14, Untouched DEF RowOk
<1>8. desk.at = "report" /\ locked' = locked /\ content' = content /\ execution' = execution
  BY <1>2 DEF ReportRefine, Running, chapterVars
<1>9. PICK s : s = execution[d].status
  OBVIOUS
<1>10. DeskOk(desk, fit[d], content[d], locked[d], s)
  BY <1>3, <1>8, <1>9, SeenIs
<1>11. locked[d] = content[d] /\ s = "accepted"
  BY <1>7, <1>8, <1>10 DEF DeskOk, AcceptedByRunner
<1> QED BY <1>7, <1>8, <1>9, <1>11

\* However many rounds are started, stopped and resumed, and whatever the editor does between them: a chapter
\* one of whose texts passed both gates ends with such a text, locked; nothing else replaces a text; what the
\* row calls accepted is in the book; no open repair is doubled and missing memory stages are asked for
\* (director/refinement.py, review/editorial_workflow.py).
THEOREM RefinementSound == RefineSpec => RefinementIsSound
<1>1. RefineSpec => []RefineInv
  BY RefineStarts, RefineSteps, PTL DEF RefineSpec
<1>2. RefineSpec => [](FitIsUsed /\ OneOpenItem /\ StagesAreQueued)
  BY <1>1, RefineKeeps, PTL
<1>3. RefineSpec => OnlyFitReplaces
  BY <1>1, FitStep, PTL DEF RefineSpec, OnlyFitReplaces
<1>4. RefineSpec => AcceptedIsStored
  BY <1>1, StoredStep, PTL DEF RefineSpec, AcceptedIsStored
<1> QED BY <1>2, <1>3, <1>4 DEF RefinementIsSound

-----------------------------------------------------------------------------
(* VolumeReview: every volume, set of texts, likeness of faults and size of  *)
(* a report, and any number of items and edits.                              *)

RepairStates == OpenStates \cup {"resolved", "dismissed"}
RepairItems == [id : Nat \ {0}, chapter : VolumeChapters, fault : Faults, status : RepairStates]
Volumes == [text : [VolumeChapters -> Texts], queue : Seq(RepairItems)]
ReviewTasks == [chapter : VolumeChapters, fault : Faults]
ToldTasks == [chapter : VolumeChapters, fault : Faults, status : {"queued", "dismissed", "duplicate"}, id : Nat]

\* No two items have one identity, and the next one is of none.
Numbered(items, next) ==
  /\ \A i \in 1..Len(items) : items[i].id < next
  /\ \A i, j \in 1..Len(items) : items[i].id = items[j].id => i = j

SameIssue(a, b) == a.id = b.id /\ a.chapter = b.chapter /\ a.fault = b.fault

\* While the author works, his queue only grows behind the items of the copy; a director's copy is the project.
CopyOk ==
  asking.by # "none" =>
    /\ Numbered(asking.copy.queue, nextItem) /\ Len(asking.copy.queue) <= Len(work.queue)
    /\ \A i \in 1..Len(asking.copy.queue) : SameIssue(asking.copy.queue[i], work.queue[i])
    /\ asking.by = "director" => asking.copy = work

ReviewInv ==
  /\ work \in Volumes /\ asking \in [by : {"none", "author", "director"}, copy : Volumes]
  /\ nextItem \in Nat \ {0} /\ reviewed.hashes = reviewed.read
  /\ Numbered(work.queue, nextItem)
  /\ CopyOk

LEMMA LeastOf ==
  ASSUME NEW S \in SUBSET Nat, S # {}
  PROVE  Min(S) \in S /\ \A y \in S : Min(S) <= y
<1> DEFINE R == OpToRel(<, Nat)
<1>1. IsWellFoundedOn(R, Nat)
  BY NatLessThanWellFounded
<1>2. \A k, m \in S : k < m => <<k, m>> \in R
  BY DEF OpToRel
<1>3. PICK m \in S : \A k \in S : <<k, m>> \notin R
  <2> HIDE DEF R
  <2> QED BY <1>1, WFMin
<1>4. \A k \in S : ~(k < m)
  BY <1>2, <1>3
<1>5. \A k \in S : m <= k
  BY <1>4
<1> QED BY <1>5 DEF Min

----------------------------------------------------------------------------
(* The queue.                                                              *)

Reply(task, state, id) == [chapter |-> task.chapter, fault |-> task.fault, status |-> state, id |-> id]
Queued(q, t, n) == [queue |-> q, tasks |-> t, next |-> n]
Opened(q, i) == [q EXCEPT ![i] = [@ EXCEPT !.status = "queued"]]
AddedItem(q, n, task) == Append(q, Item(n, task.chapter, task.fault))

\* One more task: it was dismissed, has a duplicate, opens an item again, or is a new item.
EnqueueIs(q, t, n, task, new, told, next) ==
  \E state \in {"queued", "dismissed", "duplicate"}, id \in Nat :
    /\ told = Append(t, Reply(task, state, id))
    /\ \/ state # "queued" /\ new = q /\ next = n
       \/ /\ state = "queued" /\ next = n
          /\ \E i \in 1..Len(q) : /\ IsTask(q[i], task) /\ q[i].status # "dismissed" /\ id = q[i].id
                                  /\ new = Opened(q, i)
       \/ /\ state = "queued" /\ id = n /\ next = n + 1 /\ ~IsDismissed(q, task)
          /\ new = AddedItem(q, n, task)

LEMMA ToldIs ==
  ASSUME NEW q, NEW t, NEW n, NEW task, NEW state, NEW id
  PROVE  Told(Queued(q, t, n), task, state, id) = Queued(q, Append(t, Reply(task, state, id)), n)
<1>1. PICK s : s = Queued(q, t, n)
  OBVIOUS
<1>2. PICK told : told = Append(t, Reply(task, state, id))
  OBVIOUS
<1>3. s.tasks = t
  BY <1>1 DEF Queued
<1>4. Told(s, task, state, id) = [s EXCEPT !.tasks = told]
  BY <1>2, <1>3 DEF Told, Reply
<1>5. [s EXCEPT !.tasks = told] = Queued(q, told, n)
  BY <1>1 DEF Queued
<1> QED BY <1>1, <1>2, <1>4, <1>5

LEMMA EnqueueBranches ==
  ASSUME NEW q, NEW t, NEW n, NEW task
  PROVE  Enqueue(Queued(q, t, n), task) =
           IF IsDismissed(q, task) THEN Told(Queued(q, t, n), task, "dismissed", 0)
           ELSE IF Duplicates(q, task) # {} THEN Told(Queued(q, t, n), task, "duplicate", q[Min(Duplicates(q, task))].id)
           ELSE IF ExistingItems(q, task) # {} THEN
             Told(Queued(Opened(q, Min(ExistingItems(q, task))), t, n), task, "queued", q[Min(ExistingItems(q, task))].id)
           ELSE Told(Queued(AddedItem(q, n, task), t, n + 1), task, "queued", n)
<1>1. PICK s : s = Queued(q, t, n)
  OBVIOUS
<1>2. PICK i : i = Min(ExistingItems(q, task))
  OBVIOUS
<1>3. s.queue = q /\ s.next = n /\ s = [queue |-> q, tasks |-> t, next |-> n]
  BY <1>1 DEF Queued
<1>4. [s EXCEPT !.queue[i].status = "queued"] = Queued(Opened(q, i), t, n)
  <2>1. PICK new : new = [q EXCEPT ![i].status = "queued"]
    OBVIOUS
  <2>2. [s EXCEPT !.queue[i].status = "queued"] = [s EXCEPT !.queue = new]
    BY <1>3, <2>1
  <2>3. [s EXCEPT !.queue = new] = [queue |-> new, tasks |-> t, next |-> n]
    BY <1>3
  <2> QED BY <2>1, <2>2, <2>3 DEF Queued, Opened
<1>5. [s EXCEPT !.queue = Append(s.queue, Item(s.next, task.chapter, task.fault)), !.next = s.next + 1]
        = Queued(AddedItem(q, n, task), t, n + 1)
  <2>1. PICK new, next : new = AddedItem(q, n, task) /\ next = n + 1
    OBVIOUS
  <2>2. [s EXCEPT !.queue = new, !.next = next] = [queue |-> new, tasks |-> t, next |-> next]
    <3>1. PICK u : u = [queue |-> new, tasks |-> t, next |-> n]
      OBVIOUS
    <3>2. [s EXCEPT !.queue = new] = u
      BY <1>3, <3>1
    <3>3. [u EXCEPT !.next = next] = [queue |-> new, tasks |-> t, next |-> next]
      BY <3>1
    <3> QED BY <3>2, <3>3
  <2>3. Append(s.queue, Item(s.next, task.chapter, task.fault)) = new /\ s.next + 1 = next
    BY <1>3, <2>1 DEF AddedItem
  <2> QED BY <2>1, <2>2, <2>3 DEF Queued
<1>6. Enqueue(s, task) =
        IF IsDismissed(q, task) THEN Told(s, task, "dismissed", 0)
        ELSE IF Duplicates(q, task) # {} THEN Told(s, task, "duplicate", q[Min(Duplicates(q, task))].id)
        ELSE IF ExistingItems(q, task) # {} THEN Told([s EXCEPT !.queue[i].status = "queued"], task, "queued", q[i].id)
        ELSE Told([s EXCEPT !.queue = Append(s.queue, Item(s.next, task.chapter, task.fault)), !.next = s.next + 1],
                  task, "queued", n)
  BY <1>2, <1>3, Zenon DEF Enqueue
<1> QED BY <1>1, <1>2, <1>4, <1>5, <1>6

LEMMA EnqueueOne ==
  ASSUME NEW q \in Seq(RepairItems), NEW t, NEW n \in Nat, NEW task
  PROVE  \E new, told, next : /\ Enqueue(Queued(q, t, n), task) = Queued(new, told, next)
                              /\ EnqueueIs(q, t, n, task, new, told, next)
<1>2. PICK same, near : same = ExistingItems(q, task) /\ near = Duplicates(q, task)
  OBVIOUS
<1>3. same \in SUBSET (1..Len(q)) /\ near \in SUBSET (1..Len(q)) /\ Len(q) \in Nat
  BY <1>2 DEF ExistingItems, Duplicates
<1>n. same \in SUBSET Nat /\ near \in SUBSET Nat
  BY <1>3
<1>4. \A i \in 1..Len(q) : q[i].id \in Nat
  <2> SUFFICES ASSUME NEW i \in 1..Len(q) PROVE q[i].id \in Nat
    OBVIOUS
  <2>1. q[i] \in RepairItems
    OBVIOUS
  <2> QED BY <2>1 DEF RepairItems
<1>5. CASE IsDismissed(q, task)
  <2>1. PICK told : told = Append(t, Reply(task, "dismissed", 0))
    OBVIOUS
  <2>2. EnqueueIs(q, t, n, task, q, told, n)
    BY <2>1 DEF EnqueueIs
  <2>3. Enqueue(Queued(q, t, n), task) = Queued(q, told, n)
    BY <1>5, <2>1, EnqueueBranches, ToldIs
  <2> QED BY <2>2, <2>3
<1>6. CASE ~IsDismissed(q, task) /\ near # {}
  <2>1. PICK i : i = Min(near)
    OBVIOUS
  <2>2. i \in 1..Len(q) /\ q[i].id \in Nat
    BY <1>3, <1>n, <1>4, <1>6, <2>1, LeastOf
  <2>3. PICK d \in Nat : d = q[i].id
    BY <2>2
  <2>5. PICK told : told = Append(t, Reply(task, "duplicate", d))
    OBVIOUS
  <2>6. EnqueueIs(q, t, n, task, q, told, n)
    BY <2>5 DEF EnqueueIs
  <2>7. Enqueue(Queued(q, t, n), task) = Queued(q, told, n)
    BY <1>2, <1>6, <2>1, <2>3, <2>5, EnqueueBranches, ToldIs
  <2> QED BY <2>6, <2>7
<1>7. CASE ~IsDismissed(q, task) /\ near = {} /\ same # {}
  <2>1. PICK i : i = Min(same)
    OBVIOUS
  <2>2. i \in same /\ i \in 1..Len(q) /\ q[i].id \in Nat
    BY <1>3, <1>n, <1>4, <1>7, <2>1, LeastOf
  <2>3. PICK d \in Nat : d = q[i].id
    BY <2>2
  <2>4. PICK new, told : new = Opened(q, i) /\ told = Append(t, Reply(task, "queued", d))
    OBVIOUS
  <2>5. Enqueue(Queued(q, t, n), task) = Queued(new, told, n)
    <3>1. Enqueue(Queued(q, t, n), task) = Told(Queued(new, t, n), task, "queued", d)
      <4>1. ~IsDismissed(q, task) /\ ~(Duplicates(q, task) # {}) /\ ExistingItems(q, task) # {} /\ i = Min(ExistingItems(q, task))
        BY <1>2, <1>7, <2>1
      <4>2. Enqueue(Queued(q, t, n), task) =
              Told(Queued(Opened(q, Min(ExistingItems(q, task))), t, n), task, "queued", q[Min(ExistingItems(q, task))].id)
        BY <4>1, EnqueueBranches
      <4> QED BY <2>3, <2>4, <4>1, <4>2
    <3> QED BY <2>4, <3>1, ToldIs
  <2>6. IsTask(q[i], task) /\ q[i].status # "dismissed"
    BY <1>2, <2>2 DEF ExistingItems
  <2>7. EnqueueIs(q, t, n, task, new, told, n)
    BY <2>2, <2>3, <2>4, <2>6 DEF EnqueueIs
  <2> QED BY <2>5, <2>7
<1>8. CASE ~IsDismissed(q, task) /\ near = {} /\ same = {}
  <2>1. PICK new, told, next : /\ new = AddedItem(q, n, task) /\ next = n + 1
                               /\ told = Append(t, Reply(task, "queued", n))
    OBVIOUS
  <2>2. Enqueue(Queued(q, t, n), task) = Queued(new, told, next)
    <3>1. Enqueue(Queued(q, t, n), task) = Told(Queued(new, t, next), task, "queued", n)
      BY <1>2, <1>8, <2>1, EnqueueBranches
    <3> QED BY <2>1, <3>1, ToldIs
  <2>3. EnqueueIs(q, t, n, task, new, told, next)
    BY <1>8, <2>1 DEF EnqueueIs
  <2> QED BY <2>2, <2>3
<1> QED BY <1>5, <1>6, <1>7, <1>8

----------------------------------------------------------------------------
(* The tasks of a report, one after another.                               *)

ToldBody(q, tasks, f, m) ==
  [k \in 0..m |-> IF k = 0 THEN [queue |-> q, tasks |-> <<>>, next |-> nextItem] ELSE Enqueue(f[k - 1], tasks[k])]

LEMMA ToldThere ==
  ASSUME NEW q, NEW tasks
  PROVE  \A m \in Nat : \E f : f = ToldBody(q, tasks, f, m)
<1>1. PICK bad \in SUBSET Nat : bad = {m \in Nat : ~\E f : f = ToldBody(q, tasks, f, m)}
  OBVIOUS
<1>2. SUFFICES ASSUME bad # {} PROVE FALSE
  BY <1>1
<1>3. PICK m \in bad : \A y \in bad : m <= y
  BY <1>2, LeastOf
<1>s. PICK s : s = [queue |-> q, tasks |-> <<>>, next |-> nextItem]
  OBVIOUS
<1>4. CASE m = 0
  <2>1. PICK f : f = [k \in 0..0 |-> s]
    OBVIOUS
  <2>2. \A k \in 0..0 : k = 0
    OBVIOUS
  <2>3. f = ToldBody(q, tasks, f, 0)
    BY <1>s, <2>1, <2>2 DEF ToldBody
  <2> QED BY <1>1, <1>3, <1>4, <2>3
<1>5. CASE m # 0
  <2>1. PICK j \in Nat : m = j + 1
    BY <1>5
  <2>2. j \notin bad
    BY <1>3, <2>1
  <2>3. PICK g : g = ToldBody(q, tasks, g, j)
    BY <1>1, <2>2
  <2>4. PICK f : f = [k \in 0..m |-> IF k <= j THEN g[k] ELSE Enqueue(g[j], tasks[m])]
    OBVIOUS
  <2>5. ASSUME NEW k \in 0..m
        PROVE  f[k] = IF k = 0 THEN s ELSE Enqueue(f[k - 1], tasks[k])
    <3>1. CASE k <= j
      <4>1. f[k] = g[k] /\ k \in 0..j
        BY <2>4, <3>1
      <4>2. g[k] = IF k = 0 THEN s ELSE Enqueue(g[k - 1], tasks[k])
        BY <1>s, <2>3, <4>1 DEF ToldBody
      <4>3. k # 0 => f[k - 1] = g[k - 1]
        BY <2>1, <2>4, <3>1
      <4> QED BY <4>1, <4>2, <4>3
    <3>2. CASE ~(k <= j)
      <4>1. k = m /\ k - 1 = j /\ k # 0
        BY <2>1, <3>2
      <4>2. f[k] = Enqueue(g[j], tasks[m])
        BY <2>4, <3>2
      <4>3. f[k - 1] = g[j]
        BY <2>1, <2>4, <4>1
      <4> QED BY <4>1, <4>2, <4>3
    <3> QED BY <3>1, <3>2
  <2>6. f = [k \in 0..m |-> f[k]]
    BY <2>4
  <2>7. f = ToldBody(q, tasks, f, m)
    BY <1>s, <2>5, <2>6 DEF ToldBody
  <2> QED BY <1>1, <2>7
<1> QED BY <1>4, <1>5

LEMMA ToldAt ==
  ASSUME NEW q, NEW tasks, Len(tasks) \in Nat, NEW k \in 0..Len(tasks)
  PROVE  EnqueuedUpTo(q, tasks)[k] = IF k = 0 THEN [queue |-> q, tasks |-> <<>>, next |-> nextItem]
                                     ELSE Enqueue(EnqueuedUpTo(q, tasks)[k - 1], tasks[k])
<1>1. PICK f : f = ToldBody(q, tasks, f, Len(tasks))
  BY ToldThere
<1>2. EnqueuedUpTo(q, tasks) = CHOOSE g : g = ToldBody(q, tasks, g, Len(tasks))
  BY DEF EnqueuedUpTo, ToldBody
<1>3. PICK h : h = EnqueuedUpTo(q, tasks)
  OBVIOUS
<1>4. h = ToldBody(q, tasks, h, Len(tasks))
  BY <1>1, <1>2, <1>3
<1>5. h[k] = IF k = 0 THEN [queue |-> q, tasks |-> <<>>, next |-> nextItem] ELSE Enqueue(h[k - 1], tasks[k])
  BY <1>4 DEF ToldBody
<1> QED BY <1>3, <1>5

\* What the tasks leave of the copy's queue: its items keep their place and issue, one the author had dismissed
\* its state, and others may be open again; behind them are new items of issues that he had not dismissed.
Kept(c, first, q, n) ==
  /\ q \in Seq(RepairItems) /\ Len(c) <= Len(q) /\ n = first + (Len(q) - Len(c))
  /\ \A i \in 1..Len(c) : /\ SameIssue(q[i], c[i])
                          /\ q[i].status = c[i].status \/ (c[i].status # "dismissed" /\ q[i].status = "queued")
  /\ \A i \in Len(c) + 1..Len(q) : /\ q[i].id = first + (i - Len(c)) - 1 /\ q[i].status = "queued"
                                   /\ ~IsDismissed(c, q[i])

\* What is told as queued is in the queue, open.
Replied(q, t) ==
  /\ t \in Seq(ToldTasks)
  /\ \A k \in 1..Len(t) : t[k].status = "queued" =>
       \E i \in 1..Len(q) : q[i].id = t[k].id /\ IsTask(q[i], t[k]) /\ q[i].status = "queued"

LEMMA OpenedIs ==
  ASSUME NEW q \in Seq(RepairItems), NEW i \in 1..Len(q), NEW new, new = Opened(q, i)
  PROVE  /\ new \in Seq(RepairItems) /\ Len(new) = Len(q)
         /\ \A j \in 1..Len(q) : SameIssue(new[j], q[j]) /\ new[j].status = IF j = i THEN "queued" ELSE q[j].status
<1>1. q[i] \in RepairItems
  OBVIOUS
<1>2. PICK item : item = [q[i] EXCEPT !.status = "queued"]
  OBVIOUS
<1>3. item \in RepairItems /\ SameIssue(item, q[i]) /\ item.status = "queued"
  BY <1>1, <1>2 DEF RepairItems, RepairStates, OpenStates, SameIssue
<1>4. new = [q EXCEPT ![i] = item]
  BY <1>2 DEF Opened
<1>5. new \in Seq(RepairItems) /\ Len(new) = Len(q)
  BY <1>3, <1>4
<1>6. \A j \in 1..Len(q) : new[j] = IF j = i THEN item ELSE q[j]
  BY <1>4
<1> QED BY <1>3, <1>5, <1>6 DEF SameIssue

AddedTo(q, n, task, new, last) ==
  /\ new \in Seq(RepairItems) /\ Len(new) = last
  /\ \A j \in 1..Len(q) : new[j] = q[j]
  /\ new[last].id = n /\ IsTask(new[last], task) /\ new[last].status = "queued"

LEMMA AddedItemIs ==
  ASSUME NEW q \in Seq(RepairItems), NEW n \in Nat \ {0}, NEW task \in ReviewTasks
  PROVE  AddedTo(q, n, task, AddedItem(q, n, task), Len(q) + 1)
<1>1. PICK item : item = Item(n, task.chapter, task.fault)
  OBVIOUS
<1>2. item \in RepairItems /\ item.id = n /\ IsTask(item, task) /\ item.status = "queued"
  BY <1>1 DEF Item, IsTask, ReviewTasks, RepairItems, RepairStates, OpenStates
<1>3. PICK new, last : new = AddedItem(q, n, task) /\ new = Append(q, item) /\ last = Len(q) + 1
  BY <1>1 DEF AddedItem
<1>4. new \in Seq(RepairItems) /\ Len(new) = last /\ new[last] = item /\ \A j \in 1..Len(q) : new[j] = q[j]
  BY <1>2, <1>3
<1>5. AddedTo(q, n, task, new, last)
  BY <1>2, <1>4 DEF AddedTo
<1> QED BY <1>3, <1>5

\* What is told of one more task.
LEMMA RepliedOne ==
  ASSUME NEW q, NEW t, NEW new, NEW task \in ReviewTasks, NEW state \in {"queued", "dismissed", "duplicate"}, NEW id \in Nat,
         Replied(q, t), Len(q) \in Nat, Len(new) \in Nat, Len(q) <= Len(new),
         \A i \in 1..Len(q) : SameIssue(new[i], q[i]) /\ (q[i].status = "queued" => new[i].status = "queued"),
         state = "queued" => \E i \in 1..Len(new) : new[i].id = id /\ IsTask(new[i], task) /\ new[i].status = "queued",
         NEW told, told = Append(t, Reply(task, state, id))
  PROVE  Replied(new, told)
<1>1. PICK r : r = Reply(task, state, id)
  OBVIOUS
<1>2. r \in ToldTasks /\ r.status = state /\ r.id = id /\ r.chapter = task.chapter /\ r.fault = task.fault
  BY <1>1 DEF Reply, ToldTasks, ReviewTasks
<1>3. t \in Seq(ToldTasks) /\ told = Append(t, r)
  BY <1>1 DEF Replied
<1>4. told \in Seq(ToldTasks) /\ Len(told) = Len(t) + 1 /\ told[Len(t) + 1] = r /\ \A k \in 1..Len(t) : told[k] = t[k]
  BY <1>2, <1>3
<1>5. ASSUME NEW k \in 1..Len(told), told[k].status = "queued"
      PROVE  \E i \in 1..Len(new) : new[i].id = told[k].id /\ IsTask(new[i], told[k]) /\ new[i].status = "queued"
  <2>1. CASE k = Len(t) + 1
    <3>1. told[k] = r /\ state = "queued"
      BY <1>2, <1>4, <1>5, <2>1
    <3>2. PICK i \in 1..Len(new) : new[i].id = id /\ IsTask(new[i], task) /\ new[i].status = "queued"
      BY <3>1
    <3> QED BY <1>2, <3>1, <3>2 DEF IsTask
  <2>2. CASE k # Len(t) + 1
    <3>1. k \in 1..Len(t) /\ told[k] = t[k]
      BY <1>3, <1>4, <2>2
    <3>2. PICK i \in 1..Len(q) : q[i].id = t[k].id /\ IsTask(q[i], t[k]) /\ q[i].status = "queued"
      BY <1>5, <3>1 DEF Replied
    <3>3. i \in 1..Len(new) /\ SameIssue(new[i], q[i]) /\ new[i].status = "queued"
      BY <3>2
    <3> QED BY <3>1, <3>2, <3>3 DEF IsTask, SameIssue
  <2> QED BY <2>1, <2>2
<1> QED BY <1>4, <1>5 DEF Replied

LEMMA EnqueueKeeps ==
  ASSUME NEW c \in Seq(RepairItems), NEW first \in Nat \ {0}, NEW q, NEW t, NEW n, NEW task \in ReviewTasks,
         Kept(c, first, q, n), Replied(q, t), NEW new, NEW told, NEW next, EnqueueIs(q, t, n, task, new, told, next)
  PROVE  Kept(c, first, new, next) /\ Replied(new, told)
<1>1. PICK state \in {"queued", "dismissed", "duplicate"}, id \in Nat :
        /\ told = Append(t, Reply(task, state, id))
        /\ \/ state # "queued" /\ new = q /\ next = n
           \/ /\ state = "queued" /\ next = n
              /\ \E i \in 1..Len(q) : /\ IsTask(q[i], task) /\ q[i].status # "dismissed" /\ id = q[i].id
                                      /\ new = Opened(q, i)
           \/ /\ state = "queued" /\ id = n /\ next = n + 1 /\ ~IsDismissed(q, task)
              /\ new = AddedItem(q, n, task)
  BY DEF EnqueueIs
<1>2. q \in Seq(RepairItems) /\ Len(c) <= Len(q) /\ n = first + (Len(q) - Len(c)) /\ Len(c) \in Nat /\ Len(q) \in Nat
  BY DEF Kept
<1>3. n \in Nat \ {0}
  BY <1>2
<1>t. told = Append(t, Reply(task, state, id))
  BY <1>1
<1>4. CASE state # "queued" /\ new = q /\ next = n
  <2>1. \A i \in 1..Len(q) : SameIssue(new[i], q[i]) /\ (q[i].status = "queued" => new[i].status = "queued")
    BY <1>4 DEF SameIssue
  <2>a. Len(new) \in Nat /\ Len(q) <= Len(new)
    BY <1>2, <1>4
  <2>b. state = "queued" => \E i \in 1..Len(new) : new[i].id = id /\ IsTask(new[i], task) /\ new[i].status = "queued"
    BY <1>4
  <2>2. Replied(new, told)
    BY <1>2, <1>t, <2>1, <2>a, <2>b, RepliedOne
  <2> QED BY <1>4, <2>2
<1>5. CASE /\ state = "queued" /\ next = n
           /\ \E i \in 1..Len(q) : IsTask(q[i], task) /\ q[i].status # "dismissed" /\ id = q[i].id /\ new = Opened(q, i)
  <2>1. PICK i \in 1..Len(q) : IsTask(q[i], task) /\ q[i].status # "dismissed" /\ id = q[i].id /\ new = Opened(q, i)
    BY <1>5
  <2>2. /\ new \in Seq(RepairItems) /\ Len(new) = Len(q)
        /\ \A j \in 1..Len(q) : SameIssue(new[j], q[j]) /\ new[j].status = IF j = i THEN "queued" ELSE q[j].status
    BY <1>2, <2>1, OpenedIs
  <2>3. i \in 1..Len(new) /\ new[i].id = id /\ IsTask(new[i], task) /\ new[i].status = "queued"
    BY <2>1, <2>2 DEF SameIssue, IsTask
  <2>4. \A j \in 1..Len(q) : SameIssue(new[j], q[j]) /\ (q[j].status = "queued" => new[j].status = "queued")
    BY <2>2
  <2>5. Replied(new, told)
    <3>1. state = "queued" => \E j \in 1..Len(new) : new[j].id = id /\ IsTask(new[j], task) /\ new[j].status = "queued"
      BY <2>3
    <3>2. Len(new) \in Nat /\ Len(q) <= Len(new)
      BY <1>2, <2>2
    <3> QED BY <1>2, <1>t, <2>4, <3>1, <3>2, RepliedOne
  <2>6. ASSUME NEW j \in 1..Len(c)
        PROVE  SameIssue(new[j], c[j]) /\ (new[j].status = c[j].status \/ (c[j].status # "dismissed" /\ new[j].status = "queued"))
    <3>1. j \in 1..Len(q)
      BY <1>2
    <3>2. SameIssue(q[j], c[j]) /\ (q[j].status = c[j].status \/ (c[j].status # "dismissed" /\ q[j].status = "queued"))
      BY DEF Kept
    <3>3. SameIssue(new[j], q[j]) /\ new[j].status = IF j = i THEN "queued" ELSE q[j].status
      BY <2>2, <3>1
    <3> QED BY <2>1, <3>2, <3>3 DEF SameIssue
  <2>7. ASSUME NEW j \in Len(c) + 1..Len(q)
        PROVE  new[j].id = first + (j - Len(c)) - 1 /\ new[j].status = "queued" /\ ~IsDismissed(c, new[j])
    <3>1. j \in 1..Len(q)
      BY <1>2
    <3>2. q[j].id = first + (j - Len(c)) - 1 /\ q[j].status = "queued" /\ ~IsDismissed(c, q[j])
      BY DEF Kept
    <3>3. SameIssue(new[j], q[j]) /\ new[j].status = "queued"
      BY <2>4, <3>1, <3>2
    <3> QED BY <3>2, <3>3 DEF SameIssue, IsDismissed, IsTask
  <2>8. Kept(c, first, new, next)
    BY <1>2, <1>5, <2>2, <2>6, <2>7 DEF Kept
  <2> QED BY <2>5, <2>8
<1>6. CASE state = "queued" /\ id = n /\ next = n + 1 /\ ~IsDismissed(q, task) /\ new = AddedItem(q, n, task)
  <2>1. PICK last \in Nat : last = Len(q) + 1
    BY <1>2
  <2>2. /\ new \in Seq(RepairItems) /\ Len(new) = last
        /\ \A j \in 1..Len(q) : new[j] = q[j]
        /\ new[last].id = n /\ IsTask(new[last], task) /\ new[last].status = "queued"
    <3>1. q \in Seq(RepairItems) /\ new = AddedItem(q, n, task)
      BY <1>2, <1>6
    <3>2. AddedTo(q, n, task, AddedItem(q, n, task), Len(q) + 1)
      BY <1>3, <3>1, AddedItemIs
    <3> QED BY <2>1, <3>1, <3>2 DEF AddedTo
  <2>3. \A j \in 1..Len(q) : SameIssue(new[j], q[j]) /\ (q[j].status = "queued" => new[j].status = "queued")
    BY <2>2 DEF SameIssue
  <2>4. last \in 1..Len(new)
    BY <1>2, <2>1, <2>2
  <2>5. Replied(new, told)
    <3>1. state = "queued" => \E j \in 1..Len(new) : new[j].id = id /\ IsTask(new[j], task) /\ new[j].status = "queued"
      BY <1>6, <2>2, <2>4
    <3>2. Len(new) \in Nat /\ Len(q) <= Len(new)
      BY <1>2, <2>1, <2>2
    <3> QED BY <1>2, <1>t, <2>3, <3>1, <3>2, RepliedOne
  <2>6. \A j \in 1..Len(c) : /\ SameIssue(new[j], c[j])
                             /\ new[j].status = c[j].status \/ (c[j].status # "dismissed" /\ new[j].status = "queued")
    BY <1>2, <2>2 DEF Kept
  <2>7. ~IsDismissed(c, new[last])
    <3> SUFFICES ASSUME NEW j \in 1..Len(c), IsTask(c[j], new[last]), c[j].status = "dismissed"
                 PROVE  FALSE
      BY DEF IsDismissed
    <3>1. j \in 1..Len(q) /\ SameIssue(q[j], c[j]) /\ q[j].status = "dismissed"
      BY <1>2 DEF Kept
    <3>2. IsTask(q[j], task)
      BY <2>2, <3>1 DEF SameIssue, IsTask
    <3> QED BY <1>6, <3>1, <3>2 DEF IsDismissed
  <2>8. ASSUME NEW j \in Len(c) + 1..Len(new)
        PROVE  new[j].id = first + (j - Len(c)) - 1 /\ new[j].status = "queued" /\ ~IsDismissed(c, new[j])
    <3>1. CASE j = last
      <4>1. n = first + (j - Len(c)) - 1
        BY <1>2, <2>1, <3>1
      <4> QED BY <2>2, <2>7, <3>1, <4>1
    <3>2. CASE j # last
      <4>a. PICK a, b \in Nat : a = Len(c) /\ b = Len(q) /\ last = b + 1
        BY <1>2, <2>1
      <4>b. j \in a + 1..last
        BY <2>2, <4>a
      <4>c. j \in a + 1..b /\ j \in 1..b
        BY <3>2, <4>a, <4>b
      <4>1. j \in Len(c) + 1..Len(q) /\ j \in 1..Len(q)
        BY <4>a, <4>c
      <4> QED BY <2>2, <4>1 DEF Kept
    <3> QED BY <3>1, <3>2
  <2>9. next = first + (Len(new) - Len(c)) /\ Len(c) <= Len(new)
    <3>1. Len(new) = last
      BY <2>2
    <3> QED BY <1>2, <1>6, <2>1, <3>1
  <2>10. Kept(c, first, new, next)
    BY <2>2, <2>6, <2>8, <2>9 DEF Kept
  <2> QED BY <2>5, <2>10
<1> QED BY <1>1, <1>4, <1>5, <1>6

ToldOk(c, state) == \E q, t, n : state = Queued(q, t, n) /\ Kept(c, nextItem, q, n) /\ Replied(q, t)

LEMMA TasksEnqueuedIs ==
  ASSUME NEW c \in Seq(RepairItems), nextItem \in Nat \ {0}, NEW tasks \in Seq(ReviewTasks)
  PROVE  ToldOk(c, TasksEnqueued(c, tasks))
<1>1. PICK f : f = EnqueuedUpTo(c, tasks)
  OBVIOUS
<1>2. \A k \in 0..Len(tasks) : f[k] = IF k = 0 THEN Queued(c, <<>>, nextItem) ELSE Enqueue(f[k - 1], tasks[k])
  BY <1>1, ToldAt DEF Queued
<1>3. PICK bad : bad = {k \in 0..Len(tasks) : ~ToldOk(c, f[k])}
  OBVIOUS
<1>n. bad \in SUBSET Nat
  BY <1>3
<1>4. SUFFICES ASSUME bad # {} PROVE FALSE
  BY <1>1, <1>3 DEF TasksEnqueued
<1>5. PICK k \in bad : \A y \in bad : k <= y
  BY <1>4, <1>n, LeastOf
<1>6. CASE k = 0
  <2>1. f[0] = Queued(c, <<>>, nextItem)
    BY <1>2
  <2>2. Kept(c, nextItem, c, nextItem)
    <3>1. Len(c) \in Nat /\ \A i \in 1..Len(c) : SameIssue(c[i], c[i])
      BY DEF SameIssue
    <3>2. Len(c) + 1..Len(c) = {} /\ nextItem = nextItem + (Len(c) - Len(c)) /\ Len(c) <= Len(c)
      BY <3>1
    <3> QED BY <3>1, <3>2 DEF Kept
  <2>3. Replied(c, <<>>)
    BY DEF Replied
  <2> QED BY <1>3, <1>6, <2>1, <2>2, <2>3 DEF ToldOk
<1>7. CASE k # 0
  <2>1. k - 1 \in 0..Len(tasks) /\ k - 1 \notin bad /\ k \in 1..Len(tasks)
    BY <1>3, <1>5, <1>7
  <2>2. PICK q, t, n : f[k - 1] = Queued(q, t, n) /\ Kept(c, nextItem, q, n) /\ Replied(q, t)
    BY <1>3, <2>1 DEF ToldOk
  <2>3. PICK task \in ReviewTasks : task = tasks[k]
    BY <2>1
  <2>4. f[k] = Enqueue(Queued(q, t, n), task)
    BY <1>2, <1>7, <2>1, <2>2, <2>3
  <2>5. q \in Seq(RepairItems) /\ n \in Nat
    BY <2>2 DEF Kept
  <2>6. PICK new, told, next : Enqueue(Queued(q, t, n), task) = Queued(new, told, next) /\ EnqueueIs(q, t, n, task, new, told, next)
    BY <2>5, EnqueueOne
  <2>7. Kept(c, nextItem, new, next) /\ Replied(new, told)
    BY <2>2, <2>6, EnqueueKeeps
  <2>8. ToldOk(c, f[k])
    BY <2>4, <2>6, <2>7 DEF ToldOk
  <2> QED BY <1>3, <2>8
<1> QED BY <1>6, <1>7

----------------------------------------------------------------------------
(* The queue of the copy is merged into the author's.                      *)

MergedBody(q, f, m) ==
  [k \in 0..m |-> IF k = 0 THEN work.queue ELSE IF IsKnown(q[k]) THEN f[k - 1] ELSE Append(f[k - 1], q[k])]

LEMMA MergedThere ==
  ASSUME NEW q
  PROVE  \A m \in Nat : \E f : f = MergedBody(q, f, m)
<1>1. PICK bad \in SUBSET Nat : bad = {m \in Nat : ~\E f : f = MergedBody(q, f, m)}
  OBVIOUS
<1>2. SUFFICES ASSUME bad # {} PROVE FALSE
  BY <1>1
<1>3. PICK m \in bad : \A y \in bad : m <= y
  BY <1>2, LeastOf
<1>s. PICK s : s = work.queue
  OBVIOUS
<1>4. CASE m = 0
  <2>1. PICK f : f = [k \in 0..0 |-> s]
    OBVIOUS
  <2>2. \A k \in 0..0 : k = 0
    OBVIOUS
  <2>3. f = MergedBody(q, f, 0)
    BY <1>s, <2>1, <2>2 DEF MergedBody
  <2> QED BY <1>1, <1>3, <1>4, <2>3
<1>5. CASE m # 0
  <2>1. PICK j \in Nat : m = j + 1
    BY <1>5
  <2>2. j \notin bad
    BY <1>3, <2>1
  <2>3. PICK g : g = MergedBody(q, g, j)
    BY <1>1, <2>2
  <2>4. PICK f : f = [k \in 0..m |-> IF k <= j THEN g[k] ELSE IF IsKnown(q[m]) THEN g[j] ELSE Append(g[j], q[m])]
    OBVIOUS
  <2>5. ASSUME NEW k \in 0..m
        PROVE  f[k] = IF k = 0 THEN s ELSE IF IsKnown(q[k]) THEN f[k - 1] ELSE Append(f[k - 1], q[k])
    <3>1. CASE k <= j
      <4>1. f[k] = g[k] /\ k \in 0..j
        BY <2>4, <3>1
      <4>2. g[k] = IF k = 0 THEN s ELSE IF IsKnown(q[k]) THEN g[k - 1] ELSE Append(g[k - 1], q[k])
        BY <1>s, <2>3, <4>1 DEF MergedBody
      <4>3. k # 0 => f[k - 1] = g[k - 1]
        BY <2>1, <2>4, <3>1
      <4> QED BY <4>1, <4>2, <4>3
    <3>2. CASE ~(k <= j)
      <4>1. k = m /\ k - 1 = j /\ k # 0
        BY <2>1, <3>2
      <4>2. f[k] = IF IsKnown(q[m]) THEN g[j] ELSE Append(g[j], q[m])
        BY <2>4, <3>2
      <4>3. f[k - 1] = g[j]
        BY <2>1, <2>4, <4>1
      <4> QED BY <4>1, <4>2, <4>3
    <3> QED BY <3>1, <3>2
  <2>6. f = [k \in 0..m |-> f[k]]
    BY <2>4
  <2>7. f = MergedBody(q, f, m)
    BY <1>s, <2>5, <2>6 DEF MergedBody
  <2> QED BY <1>1, <2>7
<1> QED BY <1>4, <1>5

LEMMA MergedAt ==
  ASSUME NEW q, Len(q) \in Nat, NEW k \in 0..Len(q)
  PROVE  MergedUpTo(q)[k] = IF k = 0 THEN work.queue ELSE IF IsKnown(q[k]) THEN MergedUpTo(q)[k - 1]
                            ELSE Append(MergedUpTo(q)[k - 1], q[k])
<1>1. PICK f : f = MergedBody(q, f, Len(q))
  BY MergedThere
<1>2. MergedUpTo(q) = CHOOSE g : g = MergedBody(q, g, Len(q))
  BY DEF MergedUpTo, MergedBody
<1>3. PICK h : h = MergedUpTo(q)
  OBVIOUS
<1>4. h = MergedBody(q, h, Len(q))
  BY <1>1, <1>2, <1>3
<1>5. h[k] = IF k = 0 THEN work.queue ELSE IF IsKnown(q[k]) THEN h[k - 1] ELSE Append(h[k - 1], q[k])
  BY <1>4 DEF MergedBody
<1> QED BY <1>3, <1>5

\* After so many items of the copy's queue: the author's queue, and behind it what is new in the copy's.
MergedOk(c, q, k, m) ==
  /\ m \in Seq(RepairItems) /\ Len(m) = Len(work.queue) + (IF k <= Len(c) THEN 0 ELSE k - Len(c))
  /\ \A i \in 1..Len(work.queue) : m[i] = work.queue[i]
  /\ \A j \in Len(c) + 1..k : m[Len(work.queue) + (j - Len(c))] = q[j]

LEMMA MergedIs ==
  ASSUME NEW c \in Seq(RepairItems), NEW q, NEW n, nextItem \in Nat \ {0}, Kept(c, nextItem, q, n),
         work.queue \in Seq(RepairItems), Numbered(work.queue, nextItem), Len(c) <= Len(work.queue),
         \A i \in 1..Len(c) : SameIssue(c[i], work.queue[i])
  PROVE  MergedOk(c, q, Len(q), QueueMerged(q))
<1>1. PICK f, w : f = MergedUpTo(q) /\ w = work.queue
  OBVIOUS
<1>2. q \in Seq(RepairItems) /\ Len(q) \in Nat /\ Len(c) \in Nat /\ Len(c) <= Len(q) /\ w \in Seq(RepairItems) /\ Len(w) \in Nat
  BY <1>1 DEF Kept
<1>3. \A k \in 0..Len(q) : f[k] = IF k = 0 THEN w ELSE IF IsKnown(q[k]) THEN f[k - 1] ELSE Append(f[k - 1], q[k])
  BY <1>1, <1>2, MergedAt
<1>4. PICK bad : bad = {k \in 0..Len(q) : ~MergedOk(c, q, k, f[k])}
  OBVIOUS
<1>n. bad \in SUBSET Nat
  BY <1>4
<1>5. SUFFICES ASSUME bad # {} PROVE FALSE
  BY <1>1, <1>2, <1>4 DEF QueueMerged
<1>6. PICK k \in bad : \A y \in bad : k <= y
  BY <1>5, <1>n, LeastOf
<1>7. k \in 0..Len(q)
  BY <1>4
<1>8. CASE k = 0
  <2>1. f[k] = w
    BY <1>3, <1>7, <1>8
  <2>2. Len(c) + 1..k = {}
    BY <1>2, <1>8
  <2>3. MergedOk(c, q, k, w)
    BY <1>1, <1>2, <1>8, <2>2 DEF MergedOk
  <2> QED BY <1>4, <2>1, <2>3
<1>9. CASE k # 0
  <2>1. k - 1 \in 0..Len(q) /\ k - 1 \notin bad /\ k \in 1..Len(q)
    BY <1>6, <1>7, <1>9
  <2>2. MergedOk(c, q, k - 1, f[k - 1])
    BY <1>4, <2>1
  <2>3. PICK m : m = f[k - 1]
    OBVIOUS
  <2>4. /\ m \in Seq(RepairItems) /\ Len(m) = Len(w) + (IF k - 1 <= Len(c) THEN 0 ELSE k - 1 - Len(c))
        /\ \A i \in 1..Len(w) : m[i] = w[i]
        /\ \A j \in Len(c) + 1..k - 1 : m[Len(w) + (j - Len(c))] = q[j]
    BY <1>1, <2>2, <2>3 DEF MergedOk
  <2>5. CASE k <= Len(c)
    <3>1. k \in 1..Len(c) /\ k \in 1..Len(w)
      BY <1>1, <1>2, <2>1, <2>5
    <3>2. SameIssue(q[k], c[k]) /\ SameIssue(c[k], w[k])
      BY <1>1, <3>1 DEF Kept
    <3>3. IsKnown(q[k])
      BY <1>1, <3>1, <3>2 DEF IsKnown, SameIssue
    <3>4. f[k] = m
      BY <1>3, <1>7, <1>9, <2>3, <3>3
    <3>5. Len(c) + 1..k = {} /\ (IF k <= Len(c) THEN 0 ELSE k - Len(c)) = 0 /\ (IF k - 1 <= Len(c) THEN 0 ELSE k - 1 - Len(c)) = 0
      BY <1>2, <2>1, <2>5
    <3>6. MergedOk(c, q, k, m)
      BY <1>1, <2>4, <3>5 DEF MergedOk
    <3> QED BY <1>4, <3>4, <3>6
  <2>6. CASE ~(k <= Len(c))
    <3>1. k \in Len(c) + 1..Len(q)
      BY <1>2, <2>1, <2>6
    <3>2. q[k].id = nextItem + (k - Len(c)) - 1
      BY <3>1 DEF Kept
    <3>3. q[k].id \in Nat /\ nextItem <= q[k].id
      BY <1>2, <3>1, <3>2
    <3>4. ~IsKnown(q[k])
      <4> SUFFICES ASSUME NEW i \in 1..Len(w), w[i].id = q[k].id PROVE FALSE
        BY <1>1 DEF IsKnown
      <4>1. w[i].id < nextItem
        BY <1>1 DEF Numbered
      <4> QED BY <3>3, <4>1
    <3>5. f[k] = Append(m, q[k])
      BY <1>3, <1>7, <1>9, <2>3, <3>4
    <3>6. PICK x : x = q[k]
      OBVIOUS
    <3>7. x \in RepairItems
      BY <1>2, <2>1, <3>6
    <3>8. PICK new : new = Append(m, x)
      OBVIOUS
    <3>a. PICK a, b, d \in Nat : a = Len(w) /\ b = Len(c) /\ d = Len(m)
      BY <1>2, <2>4
    <3>b. k \in Nat /\ b < k /\ d = a + (IF k - 1 <= b THEN 0 ELSE k - 1 - b)
      BY <1>7, <2>4, <2>6, <3>a
    <3>c. PICK last \in Nat : last = a + (k - b) /\ d + 1 = last
      BY <3>b
    <3>d. k \in Nat /\ b < k /\ d + 1 = a + (k - b)
      BY <3>b, <3>c
    <3>9. last = Len(w) + (k - Len(c))
      BY <3>a, <3>c
    <3>10. Len(m) + 1 = last /\ Len(m) \in Nat
      BY <3>a, <3>c
    <3>11. new \in Seq(RepairItems) /\ Len(new) = last /\ new[last] = x /\ \A i \in 1..Len(m) : new[i] = m[i]
      BY <2>4, <3>7, <3>8, <3>10
    <3>12. \A i \in 1..Len(w) : new[i] = w[i]
      BY <1>2, <2>4, <3>1, <3>9, <3>10, <3>11
    <3>13. ASSUME NEW j \in Len(c) + 1..k PROVE new[Len(w) + (j - Len(c))] = q[j]
      <4>1. CASE j = k
        BY <3>6, <3>9, <3>11, <4>1
      <4>2. CASE j # k
        <5>a. j \in b + 1..k /\ j # k
          BY <3>a, <4>2
        <5>b. j \in b + 1..k - 1 /\ a + (j - b) \in 1..d
          BY <3>d, <5>a
        <5>1. j \in Len(c) + 1..k - 1 /\ Len(w) + (j - Len(c)) \in 1..Len(m)
          BY <3>a, <5>b
        <5> QED BY <2>4, <3>11, <5>1
      <4> QED BY <4>1, <4>2
    <3>14. Len(new) = Len(w) + (IF k <= Len(c) THEN 0 ELSE k - Len(c))
      BY <2>6, <3>9, <3>11
    <3>15. MergedOk(c, q, k, new)
      BY <1>1, <3>11, <3>12, <3>13, <3>14 DEF MergedOk
    <3> QED BY <1>4, <3>5, <3>6, <3>8, <3>15
  <2> QED BY <2>5, <2>6
<1> QED BY <1>8, <1>9

----------------------------------------------------------------------------
(* The answer.                                                             *)

\* What becomes of the queue w of the project when the answer to the copy's queue c arrives.
AnswerOk(c, w, new, n, t) ==
  /\ new \in Seq(RepairItems) /\ Numbered(new, n)
  /\ \A i \in 1..Len(new) : IsDismissed(c, new[i]) => \E j \in 1..Len(w) : w[j].id = new[i].id
  /\ \A k \in 1..Len(t) : t[k].status = "queued" =>
       \E i \in 1..Len(new) : /\ new[i].id = t[k].id /\ IsTask(new[i], t[k])
                              /\ new[i].status = "queued" \/ (i <= Len(w) /\ asking.by = "author")

LEMMA DirectorAnswered ==
  ASSUME NEW c \in Seq(RepairItems), NEW q, NEW t, NEW n, nextItem \in Nat \ {0},
         Kept(c, nextItem, q, n), Replied(q, t), Numbered(c, nextItem)
  PROVE  AnswerOk(c, c, q, n, t)
<1>1. q \in Seq(RepairItems) /\ Len(q) \in Nat /\ Len(c) \in Nat /\ Len(c) <= Len(q) /\ n = nextItem + (Len(q) - Len(c))
  BY DEF Kept
<1>2. \A i \in 1..Len(c) : q[i].id = c[i].id /\ q[i].id < nextItem /\ c[i].id \in Nat
  <2> SUFFICES ASSUME NEW i \in 1..Len(c) PROVE q[i].id = c[i].id /\ q[i].id < nextItem /\ c[i].id \in Nat
    OBVIOUS
  <2>1. c[i] \in RepairItems
    OBVIOUS
  <2> QED BY <2>1 DEF Kept, SameIssue, Numbered, RepairItems
<1>3. \A i \in Len(c) + 1..Len(q) : q[i].id = nextItem + (i - Len(c)) - 1
  BY DEF Kept
<1>4. \A i \in 1..Len(q) : i \in 1..Len(c) \/ i \in Len(c) + 1..Len(q)
  BY <1>1
<1>5. ASSUME NEW i \in 1..Len(q) PROVE q[i].id < n
  <2>1. CASE i \in 1..Len(c)
    BY <1>1, <1>2, <2>1
  <2>2. CASE i \in Len(c) + 1..Len(q)
    BY <1>1, <1>3, <2>2
  <2> QED BY <1>4, <2>1, <2>2
<1>6. ASSUME NEW i \in 1..Len(q), NEW j \in 1..Len(q), q[i].id = q[j].id PROVE i = j
  <2>1. CASE i \in 1..Len(c) /\ j \in 1..Len(c)
    BY <1>2, <1>6, <2>1 DEF Numbered
  <2>2. CASE i \in Len(c) + 1..Len(q) /\ j \in Len(c) + 1..Len(q)
    BY <1>1, <1>3, <1>6, <2>2
  <2>3. ASSUME NEW x \in 1..Len(c), NEW y \in Len(c) + 1..Len(q) PROVE q[x].id # q[y].id
    <3>1. PICK lc, lq \in Nat : lc = Len(c) /\ lq = Len(q)
      BY <1>1
    <3>2. q[x].id \in Nat /\ q[x].id < nextItem
      BY <1>2
    <3>3. q[y].id = nextItem + (y - lc) - 1 /\ y \in lc + 1..lq
      BY <1>3, <3>1
    <3>4. nextItem <= q[y].id
      BY <3>3
    <3> QED BY <3>2, <3>3, <3>4
  <2> QED BY <1>4, <1>6, <2>1, <2>2, <2>3
<1>7. ASSUME NEW i \in 1..Len(q), IsDismissed(c, q[i]) PROVE \E j \in 1..Len(c) : c[j].id = q[i].id
  <2>1. i \in 1..Len(c)
    BY <1>4, <1>7 DEF Kept
  <2> QED BY <1>2, <2>1
<1>8. ASSUME NEW k \in 1..Len(t), t[k].status = "queued"
      PROVE  \E i \in 1..Len(q) : q[i].id = t[k].id /\ IsTask(q[i], t[k]) /\ q[i].status = "queued"
  BY <1>8 DEF Replied
<1> QED BY <1>1, <1>5, <1>6, <1>7, <1>8 DEF AnswerOk, Numbered

LEMMA AuthorAnswered ==
  ASSUME NEW c \in Seq(RepairItems), NEW q, NEW t, NEW n, nextItem \in Nat \ {0},
         Kept(c, nextItem, q, n), Replied(q, t), asking.by = "author",
         NEW w, w = work.queue, w \in Seq(RepairItems), Numbered(w, nextItem), Len(c) <= Len(w),
         \A i \in 1..Len(c) : SameIssue(c[i], w[i]),
         NEW new, new = QueueMerged(q)
  PROVE  AnswerOk(c, w, new, n, t) /\ Len(w) <= Len(new) /\ \A i \in 1..Len(w) : new[i] = w[i]
<1>0. MergedOk(c, q, Len(q), new)
  BY MergedIs
<1>1. /\ q \in Seq(RepairItems) /\ Len(q) \in Nat /\ Len(c) \in Nat /\ Len(c) <= Len(q) /\ n = nextItem + (Len(q) - Len(c))
      /\ Len(w) \in Nat
  BY DEF Kept
<1>2. /\ new \in Seq(RepairItems) /\ Len(new) = Len(w) + (IF Len(q) <= Len(c) THEN 0 ELSE Len(q) - Len(c))
      /\ \A i \in 1..Len(w) : new[i] = w[i]
      /\ \A j \in Len(c) + 1..Len(q) : new[Len(w) + (j - Len(c))] = q[j]
  BY <1>0 DEF MergedOk
<1>c. Len(new) \in Nat
  <2>1. new \in Seq(RepairItems)
    BY <1>2
  <2> QED BY <2>1
<1>a. PICK lw, lc, lq, ln \in Nat : lw = Len(w) /\ lc = Len(c) /\ lq = Len(q) /\ ln = Len(new)
  BY <1>1, <1>c
<1>b. lc <= lq /\ ln = lw + (lq - lc) /\ n = nextItem + (lq - lc)
  <2>1. lc <= lq /\ ln = lw + (IF lq <= lc THEN 0 ELSE lq - lc) /\ n = nextItem + (lq - lc)
    BY <1>1, <1>2, <1>a
  <2> QED BY <2>1
<1>4. \A i \in 1..Len(w) : new[i] = w[i] /\ w[i].id < nextItem /\ w[i].id \in Nat
  <2> SUFFICES ASSUME NEW i \in 1..Len(w) PROVE new[i] = w[i] /\ w[i].id < nextItem /\ w[i].id \in Nat
    OBVIOUS
  <2>1. w[i] \in RepairItems
    OBVIOUS
  <2> QED BY <1>2, <2>1 DEF Numbered, RepairItems
<1>5. ASSUME NEW i \in Len(w) + 1..Len(new)
      PROVE  new[i].id = nextItem + (i - Len(w)) - 1 /\ new[i].status = "queued" /\ ~IsDismissed(c, new[i])
  <2>1. PICK j \in Len(c) + 1..Len(q) : i = Len(w) + (j - Len(c))
    <3>1. i \in lw + 1..ln
      BY <1>a
    <3>2. PICK j \in lc + 1..lq : i = lw + (j - lc)
      <4>1. PICK j \in Int : j = i - lw + lc
        BY <3>1
      <4>2. j \in lc + 1..lq /\ i = lw + (j - lc)
        BY <1>b, <3>1, <4>1
      <4> QED BY <4>2
    <3> QED BY <1>a, <3>2
  <2>2. new[i] = q[j]
    BY <1>2, <2>1
  <2>3. q[j].id = nextItem + (j - Len(c)) - 1 /\ q[j].status = "queued" /\ ~IsDismissed(c, q[j])
    BY DEF Kept
  <2>4. j - lc = i - lw
    <3>1. j \in lc + 1..lq /\ i = lw + (j - lc)
      BY <1>a, <2>1
    <3> QED BY <3>1
  <2> QED BY <1>a, <2>2, <2>3, <2>4
<1>6. \A i \in 1..Len(new) : i \in 1..Len(w) \/ i \in Len(w) + 1..Len(new)
  BY <1>a
<1>7. ASSUME NEW i \in 1..Len(new) PROVE new[i].id < n
  <2>1. CASE i \in 1..Len(w)
    <3>1. new[i].id \in Nat /\ new[i].id < nextItem
      BY <1>4, <2>1
    <3> QED BY <1>b, <3>1
  <2>2. CASE i \in Len(w) + 1..Len(new)
    <3>1. i \in lw + 1..ln /\ new[i].id = nextItem + (i - lw) - 1
      BY <1>5, <1>a, <2>2
    <3> QED BY <1>b, <3>1
  <2> QED BY <1>6, <2>1, <2>2
<1>8. ASSUME NEW i \in 1..Len(new), NEW j \in 1..Len(new), new[i].id = new[j].id PROVE i = j
  <2>1. CASE i \in 1..Len(w) /\ j \in 1..Len(w)
    BY <1>4, <1>8, <2>1 DEF Numbered
  <2>2. CASE i \in Len(w) + 1..Len(new) /\ j \in Len(w) + 1..Len(new)
    <3>1. new[i].id = nextItem + (i - Len(w)) - 1 /\ new[j].id = nextItem + (j - Len(w)) - 1
      BY <1>5, <2>2
    <3>2. nextItem + (i - lw) - 1 = nextItem + (j - lw) - 1
      BY <1>8, <1>a, <3>1
    <3>3. i \in lw + 1..ln /\ j \in lw + 1..ln
      BY <1>a, <2>2
    <3> QED BY <3>2, <3>3
  <2>3. ASSUME NEW x \in 1..Len(w), NEW y \in Len(w) + 1..Len(new) PROVE new[x].id # new[y].id
    <3>1. new[x].id < nextItem /\ new[x].id \in Nat
      BY <1>4
    <3>2. y \in lw + 1..ln /\ new[y].id = nextItem + (y - lw) - 1
      BY <1>5, <1>a
    <3>3. nextItem <= new[y].id
      BY <3>2
    <3> QED BY <3>1, <3>2, <3>3
  <2> QED BY <1>6, <1>8, <2>1, <2>2, <2>3
<1>9. ASSUME NEW i \in 1..Len(new), IsDismissed(c, new[i]) PROVE \E j \in 1..Len(w) : w[j].id = new[i].id
  <2>1. i \in 1..Len(w)
    BY <1>5, <1>6, <1>9
  <2> QED BY <1>4, <2>1
<1>10. ASSUME NEW k \in 1..Len(t), t[k].status = "queued"
       PROVE  \E i \in 1..Len(new) : /\ new[i].id = t[k].id /\ IsTask(new[i], t[k])
                                     /\ new[i].status = "queued" \/ (i <= Len(w) /\ asking.by = "author")
  <2>1. PICK i \in 1..Len(q) : q[i].id = t[k].id /\ IsTask(q[i], t[k]) /\ q[i].status = "queued"
    BY <1>10 DEF Replied
  <2>2. CASE i \in 1..Len(c)
    <3>1. SameIssue(q[i], c[i]) /\ SameIssue(c[i], w[i])
      BY <2>2 DEF Kept
    <3>a. i \in 1..lc /\ lc <= lw
      BY <1>a, <2>2
    <3>b. i \in 1..lw /\ i \in 1..ln
      BY <1>b, <3>a
    <3>2. i \in 1..Len(w) /\ i \in 1..Len(new) /\ new[i] = w[i] /\ i <= Len(w)
      BY <1>4, <1>a, <3>b
    <3>3. new[i].id = t[k].id /\ IsTask(new[i], t[k])
      BY <2>1, <3>1, <3>2 DEF SameIssue, IsTask
    <3> QED BY <3>2, <3>3
  <2>3. CASE i \in Len(c) + 1..Len(q)
    <3>a. i \in lc + 1..lq
      BY <1>a, <2>3
    <3>1. PICK j \in Nat : j = lw + (i - lc)
      BY <3>a
    <3>b. j \in 1..ln
      BY <1>b, <3>1, <3>a
    <3>2. j \in 1..Len(new) /\ new[j] = q[i]
      BY <1>2, <1>a, <2>3, <3>1, <3>b
    <3> QED BY <2>1, <3>2
  <2> QED BY <1>a, <2>2, <2>3
<1>11. AnswerOk(c, w, new, n, t)
  <2>1. Numbered(new, n)
    BY <1>7, <1>8 DEF Numbered
  <2> QED BY <1>2, <1>9, <1>10, <2>1 DEF AnswerOk
<1>12. Len(w) <= Len(new)
  BY <1>a, <1>b
<1> QED BY <1>4, <1>11, <1>12

----------------------------------------------------------------------------
(* The steps.                                                              *)

\* ReviewKeepsTheQueue, of one step.
AnswerFits ==
  /\ \A i \in 1..Len(work'.queue) :
       IsDismissed(asking.copy.queue, work'.queue[i]) =>
         \E j \in 1..Len(work.queue) : work.queue[j].id = work'.queue[i].id
  /\ asking.by = "author" => \A i \in 1..Len(work.queue) : work'.queue[i] = work.queue[i]
  /\ \A k \in 1..Len(reviewed'.tasks) : reviewed'.tasks[k].status = "queued" =>
       \E i \in 1..Len(work'.queue) :
         /\ work'.queue[i].id = reviewed'.tasks[k].id /\ IsTask(work'.queue[i], reviewed'.tasks[k])
         /\ \/ work'.queue[i].status = "queued"
            \/ asking.by = "author" /\ i <= Len(work.queue)

VolumeOf(words, items) == [text |-> words, queue |-> items]

LEMMA VolumeIs ==
  ASSUME NEW book \in Volumes
  PROVE  \E words \in [VolumeChapters -> Texts], items \in Seq(RepairItems) : book = VolumeOf(words, items)
BY DEF Volumes, VolumeOf

LEMMA VolumeParts ==
  ASSUME NEW words \in [VolumeChapters -> Texts], NEW items \in Seq(RepairItems)
  PROVE  /\ VolumeOf(words, items) \in Volumes /\ VolumeOf(words, items).text = words /\ VolumeOf(words, items).queue = items
         /\ \A other : [VolumeOf(words, items) EXCEPT !.queue = other] = VolumeOf(words, other)
         /\ \A other : [VolumeOf(words, items) EXCEPT !.text = other] = VolumeOf(other, items)
BY DEF Volumes, VolumeOf

LEMMA ReportTasks ==
  ASSUME NEW tasks \in Reports
  PROVE  tasks \in Seq(ReviewTasks)
<1>1. PICK W : W = WrittenChapters(asking.copy) /\ W \subseteq VolumeChapters
  BY DEF WrittenChapters
<1>2. PICK T : T = [chapter : W, fault : Faults] /\ T \subseteq ReviewTasks
  BY <1>1 DEF ReviewTasks
<1>3. tasks \in UNION {[1..m -> T] : m \in 0..MaxTasks}
  BY <1>1, <1>2 DEF Reports, SeqOf
<1>4. PICK m \in 0..MaxTasks : tasks \in [1..m -> T]
  BY <1>3
<1>5. m \in Nat
  <2>1. MaxTasks \in Nat
    BY ReviewAssumption
  <2> QED BY <2>1
<1>6. tasks \in [1..m -> ReviewTasks]
  BY <1>2, <1>4
<1> QED BY <1>5, <1>6

LEMMA ReviewStarts == ReviewInit => ReviewInv
<1> SUFFICES ASSUME ReviewInit PROVE ReviewInv
  OBVIOUS
<1>0. <<>> \in Seq(RepairItems) /\ Len(<<>>) = 0
  OBVIOUS
<1>1. PICK none \in Seq(RepairItems) : none = <<>> /\ Len(none) = 0
  BY <1>0, Zenon
<1>2. PICK blank \in [VolumeChapters -> Texts] : blank = [c \in VolumeChapters |-> ""]
  BY ReviewAssumption
<1>3. asking = [by |-> "none", copy |-> VolumeOf(blank, none)] /\ VolumeOf(blank, none) \in Volumes
  BY <1>1, <1>2, VolumeParts DEF ReviewInit, NotAsking, VolumeOf
<1>4. work \in Volumes /\ work.queue = none
  BY <1>1 DEF ReviewInit, Volumes
<1>5. asking \in [by : {"none", "author", "director"}, copy : Volumes] /\ asking.by = "none"
  BY <1>3
<1>6. nextItem \in Nat \ {0} /\ reviewed.hashes = reviewed.read
  BY DEF ReviewInit, NoReview
<1>7. Numbered(work.queue, nextItem)
  BY <1>1, <1>4 DEF Numbered
<1> QED BY <1>4, <1>5, <1>6, <1>7 DEF ReviewInv, CopyOk

LEMMA KeepBegin ==
  ASSUME ReviewInv, NEW by \in {"author", "director"}, BeginReview(by)
  PROVE  ReviewInv' /\ reviewed' = reviewed
<1>1. work \in Volumes /\ Numbered(work.queue, nextItem) /\ nextItem \in Nat \ {0} /\ reviewed.hashes = reviewed.read
  BY DEF ReviewInv
<1>2. work' = work /\ reviewed' = reviewed /\ nextItem' = nextItem /\ asking' = [by |-> by, copy |-> work]
  BY DEF BeginReview
<1>3. asking'.by = by /\ asking'.copy = work /\ asking' \in [by : {"none", "author", "director"}, copy : Volumes]
  BY <1>1, <1>2
<1>4. work.queue \in Seq(RepairItems)
  BY <1>1 DEF Volumes
<1>5. Len(work.queue) <= Len(work.queue) /\ \A i \in 1..Len(work.queue) : SameIssue(work.queue[i], work.queue[i])
  BY <1>4 DEF SameIssue
<1>6. CopyOk'
  BY <1>1, <1>2, <1>3, <1>5 DEF CopyOk
<1> QED BY <1>1, <1>2, <1>3, <1>6 DEF ReviewInv

LEMMA NotAskingIs == NotAsking.by = "none" /\ NotAsking \in [by : {"none", "author", "director"}, copy : Volumes]
<1>0. <<>> \in Seq(RepairItems)
  OBVIOUS
<1>1. PICK none \in Seq(RepairItems) : none = <<>>
  BY <1>0, Zenon
<1>2. PICK blank \in [VolumeChapters -> Texts] : blank = [c \in VolumeChapters |-> ""]
  BY ReviewAssumption
<1>3. NotAsking = [by |-> "none", copy |-> VolumeOf(blank, none)] /\ VolumeOf(blank, none) \in Volumes
  BY <1>1, <1>2, VolumeParts DEF NotAsking, VolumeOf
<1> QED BY <1>3

LEMMA KeepFails == ReviewInv /\ ReviewFails => ReviewInv' /\ reviewed' = reviewed
BY NotAskingIs DEF ReviewInv, ReviewFails, CopyOk

LEMMA KeepAnswer == ReviewInv /\ ReviewAnswered => ReviewInv' /\ AnswerFits
<1> SUFFICES ASSUME ReviewInv, ReviewAnswered PROVE ReviewInv' /\ AnswerFits
  OBVIOUS
<1>1. PICK tasks, all :
        /\ tasks \in Reports
        /\ all = TasksEnqueued(asking.copy.queue, tasks) /\ asking.by # "none"
        /\ work' = IF asking.by = "director" THEN [asking.copy EXCEPT !.queue = all.queue]
                   ELSE [work EXCEPT !.queue = QueueMerged(all.queue)]
        /\ reviewed' = Entry(all.tasks) /\ nextItem' = all.next
        /\ asking' = NotAsking
  BY DEF ReviewAnswered
<1>2. /\ work \in Volumes /\ asking \in [by : {"none", "author", "director"}, copy : Volumes]
      /\ nextItem \in Nat \ {0} /\ Numbered(work.queue, nextItem)
  BY DEF ReviewInv
<1>3. /\ Numbered(asking.copy.queue, nextItem) /\ Len(asking.copy.queue) <= Len(work.queue)
      /\ \A i \in 1..Len(asking.copy.queue) : SameIssue(asking.copy.queue[i], work.queue[i])
      /\ asking.by = "director" => asking.copy = work
  BY <1>1 DEF ReviewInv, CopyOk
<1>4. PICK words \in [VolumeChapters -> Texts], w \in Seq(RepairItems) : work = VolumeOf(words, w)
  BY <1>2, VolumeIs
<1>5. work.queue = w /\ \A other : [work EXCEPT !.queue = other] = VolumeOf(words, other)
  BY <1>4, VolumeParts
<1>6. PICK c \in Seq(RepairItems) : c = asking.copy.queue
  BY <1>2 DEF Volumes
<1>7. tasks \in Seq(ReviewTasks)
  BY <1>1, ReportTasks
<1>8. ToldOk(c, all)
  BY <1>1, <1>2, <1>6, <1>7, TasksEnqueuedIs
<1>9. PICK q, t, n : all = Queued(q, t, n) /\ Kept(c, nextItem, q, n) /\ Replied(q, t)
  BY <1>8 DEF ToldOk
<1>10. all.queue = q /\ all.tasks = t /\ all.next = n
  BY <1>9 DEF Queued
<1>11. PICK new : new = IF asking.by = "director" THEN q ELSE QueueMerged(q)
  OBVIOUS
<1>12. work' = VolumeOf(words, new)
  BY <1>1, <1>3, <1>5, <1>10, <1>11
<1>13. AnswerOk(c, w, new, n, t) /\ (asking.by = "author" => \A i \in 1..Len(w) : new[i] = w[i])
  <2>1. CASE asking.by = "director"
    <3>1. c = w /\ new = q
      BY <1>3, <1>5, <1>6, <1>11, <2>1
    <3>2. Numbered(c, nextItem)
      BY <1>3, <1>6
    <3>3. AnswerOk(c, c, q, n, t)
      BY <1>2, <1>9, <3>2, DirectorAnswered
    <3> QED BY <2>1, <3>1, <3>3
  <2>2. CASE asking.by = "author"
    <3>1. new = QueueMerged(q) /\ w = work.queue
      BY <1>5, <1>11, <2>2
    <3>2. Numbered(w, nextItem) /\ Len(c) <= Len(w) /\ \A i \in 1..Len(c) : SameIssue(c[i], w[i])
      BY <1>2, <1>3, <1>5, <1>6
    <3> QED BY <1>2, <1>9, <2>2, <3>1, <3>2, AuthorAnswered
  <2> QED BY <1>1, <1>2, <2>1, <2>2
<1>14. new \in Seq(RepairItems) /\ Numbered(new, n)
  BY <1>13 DEF AnswerOk
<1>15. work' \in Volumes /\ work'.queue = new
  BY <1>12, <1>14, VolumeParts
<1>16. n \in Nat \ {0}
  <2>1. q \in Seq(RepairItems) /\ Len(c) <= Len(q) /\ n = nextItem + (Len(q) - Len(c))
    BY <1>9 DEF Kept
  <2> QED BY <1>2, <2>1
<1>17. nextItem' = n /\ reviewed'.hashes = reviewed'.read /\ reviewed'.tasks = t
  BY <1>1, <1>10 DEF Entry
<1>18. ReviewInv'
  BY <1>1, <1>14, <1>15, <1>16, <1>17, NotAskingIs DEF ReviewInv, CopyOk
<1>19. AnswerFits
  BY <1>5, <1>6, <1>13, <1>15, <1>17 DEF AnswerFits, AnswerOk
<1> QED BY <1>18, <1>19

\* What the author does keeps the queue behind the copy's.
LEMMA AuthorKeeps ==
  ASSUME ReviewInv, AuthorMay, NEW words \in [VolumeChapters -> Texts], NEW new \in Seq(RepairItems), NEW next \in Nat \ {0},
         work' = VolumeOf(words, new), nextItem' = next, reviewed' = reviewed, asking' = asking,
         Numbered(new, next), nextItem <= next, Len(work.queue) <= Len(new),
         \A i \in 1..Len(work.queue) : SameIssue(work.queue[i], new[i])
  PROVE  ReviewInv'
<1>1. work' \in Volumes /\ work'.queue = new
  BY VolumeParts
<1>2. reviewed.hashes = reviewed.read /\ asking \in [by : {"none", "author", "director"}, copy : Volumes]
      /\ nextItem \in Nat /\ work \in Volumes
  BY DEF ReviewInv
<1>3. ASSUME asking.by # "none"
      PROVE  /\ Numbered(asking.copy.queue, next) /\ Len(asking.copy.queue) <= Len(new)
             /\ \A i \in 1..Len(asking.copy.queue) : SameIssue(asking.copy.queue[i], new[i])
  <2>1. /\ Numbered(asking.copy.queue, nextItem) /\ Len(asking.copy.queue) <= Len(work.queue)
        /\ \A i \in 1..Len(asking.copy.queue) : SameIssue(asking.copy.queue[i], work.queue[i])
    BY <1>3 DEF ReviewInv, CopyOk
  <2>2. PICK c \in Seq(RepairItems), w \in Seq(RepairItems) : c = asking.copy.queue /\ w = work.queue
    BY <1>2 DEF Volumes
  <2>3. \A i \in 1..Len(c) : c[i].id \in Nat
    <3> SUFFICES ASSUME NEW i \in 1..Len(c) PROVE c[i].id \in Nat
      OBVIOUS
    <3>1. c[i] \in RepairItems
      OBVIOUS
    <3> QED BY <3>1 DEF RepairItems
  <2>4. Numbered(c, next)
    BY <1>2, <2>1, <2>2, <2>3 DEF Numbered
  <2>5. Len(c) <= Len(w) /\ Len(w) <= Len(new) /\ Len(c) \in Nat /\ Len(w) \in Nat /\ Len(new) \in Nat
    BY <2>1, <2>2
  <2>6. \A i \in 1..Len(c) : i \in 1..Len(w)
    BY <2>5
  <2>7. \A i \in 1..Len(c) : SameIssue(c[i], new[i])
    BY <2>1, <2>2, <2>6 DEF SameIssue
  <2> QED BY <2>2, <2>4, <2>5, <2>7
<1>4. CopyOk'
  BY <1>1, <1>3 DEF CopyOk, AuthorMay
<1> QED BY <1>1, <1>2, <1>4 DEF ReviewInv

LEMMA KeepWrite ==
  ASSUME ReviewInv, NEW c \in VolumeChapters, NEW said \in Texts, WriteText(c, said)
  PROVE  ReviewInv' /\ reviewed' = reviewed
<1>1. PICK words \in [VolumeChapters -> Texts], w \in Seq(RepairItems) : work = VolumeOf(words, w)
  BY VolumeIs DEF ReviewInv
<1>2. work.queue = w /\ work.text = words /\ \A other : [work EXCEPT !.text = other] = VolumeOf(other, w)
  BY <1>1, VolumeParts
<1>3. PICK other \in [VolumeChapters -> Texts] : other = [words EXCEPT ![c] = said]
  OBVIOUS
<1>4. work' = VolumeOf(other, w)
  <2>1. work' = [work EXCEPT !.text = other]
    BY <1>2, <1>3 DEF WriteText
  <2> QED BY <1>2, <2>1
<1>5. AuthorMay /\ reviewed' = reviewed /\ asking' = asking /\ nextItem' = nextItem
  BY DEF WriteText
<1>6. nextItem \in Nat \ {0} /\ Numbered(w, nextItem) /\ nextItem <= nextItem
  BY <1>2 DEF ReviewInv
<1>7. Len(w) <= Len(w) /\ \A i \in 1..Len(w) : SameIssue(w[i], w[i])
  BY DEF SameIssue
<1> QED BY <1>2, <1>4, <1>5, <1>6, <1>7, AuthorKeeps

LEMMA KeepAuditFinds ==
  ASSUME ReviewInv, NEW c \in VolumeChapters, NEW f \in Faults, AuditFinds(c, f)
  PROVE  ReviewInv' /\ reviewed' = reviewed
<1>1. PICK words \in [VolumeChapters -> Texts], w \in Seq(RepairItems) : work = VolumeOf(words, w)
  BY VolumeIs DEF ReviewInv
<1>2. work.queue = w /\ \A other : [work EXCEPT !.queue = other] = VolumeOf(words, other)
  BY <1>1, VolumeParts
<1>3. AuthorMay /\ reviewed' = reviewed /\ asking' = asking /\ nextItem' = nextItem + 1
  BY DEF AuditFinds
<1>4. nextItem \in Nat \ {0} /\ Numbered(w, nextItem)
  BY <1>2 DEF ReviewInv
<1>5. PICK next \in Nat \ {0} : next = nextItem + 1
  BY <1>4
<1>6. PICK item \in RepairItems : item = Item(nextItem, c, f)
  BY <1>4 DEF Item, RepairItems, RepairStates, OpenStates
<1>7. item.id = nextItem
  BY <1>6 DEF Item
<1>8. PICK new, last : new = Append(w, item) /\ last = Len(w) + 1
  OBVIOUS
<1>9. new \in Seq(RepairItems) /\ Len(new) = last /\ new[last] = item /\ \A i \in 1..Len(w) : new[i] = w[i]
  BY <1>8
<1>10. work' = VolumeOf(words, new)
  BY <1>2, <1>6, <1>8 DEF AuditFinds
<1>11. \A i \in 1..Len(w) : w[i].id < nextItem /\ w[i].id \in Nat
  <2> SUFFICES ASSUME NEW i \in 1..Len(w) PROVE w[i].id < nextItem /\ w[i].id \in Nat
    OBVIOUS
  <2>1. w[i] \in RepairItems
    OBVIOUS
  <2> QED BY <1>4, <2>1 DEF RepairItems, Numbered
<1>12. \A i \in 1..Len(new) : i \in 1..Len(w) \/ i = last
  BY <1>8, <1>9
<1>13. ASSUME NEW i \in 1..Len(new) PROVE new[i].id < next
  BY <1>4, <1>5, <1>7, <1>9, <1>11, <1>12
<1>14. ASSUME NEW i \in 1..Len(new), NEW j \in 1..Len(new), new[i].id = new[j].id PROVE i = j
  BY <1>4, <1>7, <1>9, <1>11, <1>12, <1>14 DEF Numbered
<1>15. Numbered(new, next)
  BY <1>13, <1>14 DEF Numbered
<1>16. Len(w) <= Len(new) /\ \A i \in 1..Len(w) : SameIssue(w[i], new[i])
  BY <1>8, <1>9 DEF SameIssue
<1>17. nextItem <= next
  BY <1>4, <1>5
<1>18. ReviewInv'
  BY <1>2, <1>3, <1>5, <1>9, <1>10, <1>15, <1>16, <1>17, AuthorKeeps
<1> QED BY <1>3, <1>18

LEMMA KeepSetStatus ==
  ASSUME ReviewInv, NEW i \in 1..Len(work.queue), NEW state \in RepairStates, SetStatus(i, state)
  PROVE  ReviewInv' /\ reviewed' = reviewed
<1>1. PICK words \in [VolumeChapters -> Texts], w \in Seq(RepairItems) : work = VolumeOf(words, w)
  BY VolumeIs DEF ReviewInv
<1>2. work.queue = w /\ \A other : [work EXCEPT !.queue = other] = VolumeOf(words, other)
  BY <1>1, VolumeParts
<1>3. AuthorMay /\ reviewed' = reviewed /\ asking' = asking /\ nextItem' = nextItem
  BY DEF SetStatus
<1>4. nextItem \in Nat \ {0} /\ Numbered(w, nextItem) /\ nextItem <= nextItem
  BY <1>2 DEF ReviewInv
<1>5. i \in 1..Len(w) /\ w[i] \in RepairItems
  BY <1>2
<1>6. PICK item : item = [w[i] EXCEPT !.status = state]
  OBVIOUS
<1>7. item \in RepairItems /\ SameIssue(item, w[i])
  BY <1>5, <1>6 DEF RepairItems, SameIssue
<1>8. PICK new : new = [w EXCEPT ![i] = item]
  OBVIOUS
<1>9. new \in Seq(RepairItems) /\ Len(new) = Len(w) /\ \A j \in 1..Len(w) : new[j] = IF j = i THEN item ELSE w[j]
  BY <1>5, <1>7, <1>8
<1>10. \A j \in 1..Len(w) : SameIssue(w[j], new[j])
  BY <1>7, <1>9 DEF SameIssue
<1>11. work' = VolumeOf(words, new)
  <2>1. PICK put : put = [w EXCEPT ![i].status = state]
    OBVIOUS
  <2>2. [work EXCEPT !.queue[i].status = state] = [work EXCEPT !.queue = put]
    BY <1>2, <2>1
  <2>3. put = new
    BY <1>6, <1>8, <2>1
  <2>4. work' = [work EXCEPT !.queue[i].status = state]
    BY DEF SetStatus
  <2> QED BY <1>2, <2>2, <2>3, <2>4
<1>12. Numbered(new, nextItem)
  BY <1>4, <1>9, <1>10 DEF Numbered, SameIssue
<1>13. Len(w) <= Len(new)
  BY <1>9
<1>14. ReviewInv'
  BY <1>2, <1>3, <1>4, <1>9, <1>10, <1>11, <1>12, <1>13, AuthorKeeps
<1> QED BY <1>3, <1>14

LEMMA ReviewSteps == ReviewInv /\ [ReviewNext]_reviewVars => ReviewInv' /\ (reviewed' # reviewed => AnswerFits)
<1> SUFFICES ASSUME ReviewInv, [ReviewNext]_reviewVars PROVE ReviewInv' /\ (reviewed' # reviewed => AnswerFits)
  OBVIOUS
<1>1. CASE \E by \in {"author", "director"} : BeginReview(by)
  BY <1>1, KeepBegin
<1>2. CASE ReviewFails
  BY <1>2, KeepFails
<1>3. CASE ReviewAnswered
  BY <1>3, KeepAnswer
<1>4. CASE \E c \in VolumeChapters, words \in Texts : WriteText(c, words)
  BY <1>4, KeepWrite
<1>5. CASE \E c \in VolumeChapters, f \in Faults : AuditFinds(c, f)
  BY <1>5, KeepAuditFinds
<1>6. CASE \E i \in 1..Len(work.queue), state \in OpenStates \cup {"resolved", "dismissed"} : SetStatus(i, state)
  BY <1>6, KeepSetStatus DEF RepairStates
<1>7. CASE UNCHANGED reviewVars
  BY <1>7 DEF reviewVars, ReviewInv, CopyOk, Numbered
<1> QED BY <1>1, <1>2, <1>3, <1>4, <1>5, <1>6, <1>7 DEF ReviewNext

\* Whatever the author writes, queues and settles while a model reads the volume: a report that is not shown as
\* out of date is of the very text the volume has, no two repairs have one identity, what he had dismissed is
\* not opened by the answer, what he touched stays as he left it, and what is reported as queued is in the
\* queue (review/volume_review.py, api/routers/calibration_review.py).
THEOREM ReviewSound == ReviewSpec => ReviewIsSound
<1>1. ReviewSpec => []ReviewInv
  BY ReviewStarts, ReviewSteps, PTL DEF ReviewSpec
<1>2. ReviewInv => FreshReportsAreOfTheText
  BY DEF ReviewInv, FreshReportsAreOfTheText, Stale, Numbered
<1>3. ReviewSpec => ReviewKeepsTheQueue
  <2>1. ReviewInv /\ [ReviewNext]_reviewVars => [reviewed' # reviewed => AnswerFits]_reviewVars
    BY ReviewSteps
  <2> QED BY <1>1, <2>1, PTL DEF ReviewSpec, ReviewKeepsTheQueue, AnswerFits
<1>4. ReviewSpec => []FreshReportsAreOfTheText
  BY <1>1, <1>2, PTL
<1> QED BY <1>3, <1>4 DEF ReviewIsSound
=============================================================================
