---------------------------- MODULE Memory_proofs ----------------------------
(*****************************************************************************)
(* Theorems about the memory of a book: its commits and settlements          *)
(* (MemoryCommit), the stages of an extraction (MemoryStages) and what the   *)
(* memory says (MemoryLedger), for every value of their constants.           *)
(*****************************************************************************)
EXTENDS MemoryCommit, MemoryStages, MemoryLedger, FiniteSetTheorems, NaturalsInduction, WellFoundedInduction, TLAPS

-----------------------------------------------------------------------------
(* MemoryCommit: every number of tabs, texts, accepts and saves.             *)

Texts == Versions \cup {NoVersion}
CommitStatuses == {"pending", "extracted", "degraded", "committed"}
Commits == [hash : Versions, status : CommitStatuses, applied : Nat]

\* What is known of a book, the two flags aside.
IsBook(b) ==
  /\ DOMAIN b = {"text", "lock", "locked", "stale", "settlement", "status", "commit", "commits", "memoryOf", "others", "at"}
  /\ b.text \in Versions /\ {b.lock, b.settlement, b.memoryOf} \subseteq Texts
  /\ b.status \in CommitStatuses \cup {""} /\ {b.commit, b.others, b.at} \subseteq Nat /\ b.commits \in Seq(Commits)

\* Each commit of a book is settled at most once, and a commit that is not committed never was.
EachOnce(b) ==
  \A id \in DOMAIN b.commits :
    /\ Commit(b, id).applied <= 1
    /\ Commit(b, id).status # "committed" => Commit(b, id).applied = 0

\* A book with a commit was locked once.
OnceLocked(b) == b.commits # <<>> => b.lock # NoVersion

\* The status a book shows is that of a commit it has.
Shown(b) == b.status # "" => b.commit \in DOMAIN b.commits /\ Commit(b, b.commit).status = b.status

\* A book that is not stale has the settlement of its text, or none; its memory is of its text if a
\* commit of that text is committed; and the commit it shows is one of its text.
Fresh(b) ==
  /\ b.settlement \in {NoVersion, b.text}
  /\ \A id \in DOMAIN b.commits :
       Commit(b, id).hash = b.text /\ Commit(b, id).status = "committed" => b.memoryOf = b.text
  /\ b.status # "" => Commit(b, b.commit).hash = b.text

Good(b) == IsBook(b) /\ EachOnce(b) /\ OnceLocked(b) /\ Shown(b) /\ (~b.stale => Fresh(b))

\* What no save does to the commits of the book before.
Keeps(s, n) ==
  /\ n.others >= s.others
  /\ \A id \in DOMAIN s.commits :
       /\ id \in DOMAIN n.commits
       /\ Commit(n, id).hash = Commit(s, id).hash
       /\ Commit(s, id).status = "committed" => Commit(n, id).status = "committed"

\* the number of other saves and the version apart, nothing of interest differs
SameBook(b, s) ==
  /\ b.text = s.text /\ b.lock = s.lock /\ b.commits = s.commits /\ b.settlement = s.settlement /\ b.status = s.status
  /\ b.commit = s.commit /\ b.memoryOf = s.memoryOf /\ b.stale = s.stale

\* the text, its lock and its version apart, nothing differs
SameButText(b, s) ==
  /\ b.commits = s.commits /\ b.settlement = s.settlement /\ b.status = s.status /\ b.commit = s.commit
  /\ b.memoryOf = s.memoryOf /\ b.others = s.others /\ b.stale = s.stale

Saved(b) == [SaveInvalidated(b) EXCEPT !.at = stored.at + 1]

----------------------------------------------------------------------------
(* What a save makes of a book.                                            *)

Replaced(b, S, L, A) == [[b EXCEPT !.stale = S, !.locked = L] EXCEPT !.at = A]

\* A save keeps the fields of the book, but the flags and the version.
LEMMA FieldsReplaced ==
  ASSUME NEW b, IsBook(b), NEW S, NEW L, NEW A \in Nat
  PROVE  LET n == Replaced(b, S, L, A)
         IN /\ IsBook(n) /\ n.stale = S /\ n.at = A
            /\ n.text = b.text /\ n.lock = b.lock /\ n.settlement = b.settlement /\ n.status = b.status
            /\ n.commit = b.commit /\ n.commits = b.commits /\ n.memoryOf = b.memoryOf /\ n.others = b.others
BY DEF IsBook, Replaced

ChangedBy(b) == b.text # stored.text /\ (stored.settlement # NoVersion \/ stored.lock # NoVersion)
                /\ b.settlement # b.text

LEMMA SavedFields ==
  ASSUME NEW b, IsBook(b), stored.at \in Nat
  PROVE  LET n == Saved(b)
         IN /\ IsBook(n) /\ n.at = stored.at + 1 /\ (~n.stale => ~b.stale /\ ~ChangedBy(b))
            /\ n.text = b.text /\ n.lock = b.lock /\ n.settlement = b.settlement /\ n.status = b.status
            /\ n.commit = b.commit /\ n.commits = b.commits /\ n.memoryOf = b.memoryOf /\ n.others = b.others
<1> DEFINE S == IF ChangedBy(b) THEN TRUE ELSE b.stale
           L == IF ChangedBy(b) /\ b.lock # b.text THEN FALSE ELSE b.locked
           A == stored.at + 1
<1>1. Saved(b) = Replaced(b, S, L, A)
  BY DEF Saved, SaveInvalidated, ChangedBy, Replaced
<1>2. A \in Nat
  OBVIOUS
<1>3. ~S => ~b.stale /\ ~ChangedBy(b)
  OBVIOUS
<1> HIDE DEF S, L, A
<1>4. LET n == Replaced(b, S, L, A)
      IN /\ IsBook(n) /\ n.stale = S /\ n.at = A
         /\ n.text = b.text /\ n.lock = b.lock /\ n.settlement = b.settlement /\ n.status = b.status
         /\ n.commit = b.commit /\ n.commits = b.commits /\ n.memoryOf = b.memoryOf /\ n.others = b.others
  BY <1>2, FieldsReplaced
<1> QED BY <1>1, <1>3, <1>4 DEF A

\* A book that is good unless the save marks it stale is good when it is saved.
LEMMA GoodSave ==
  ASSUME Good(stored), NEW b, IsBook(b), EachOnce(b), OnceLocked(b), Shown(b), Keeps(stored, b),
         ~b.stale /\ ~ChangedBy(b) => Fresh(b)
  PROVE  Good(Saved(b)) /\ Keeps(stored, Saved(b)) /\ Saved(b).at = stored.at + 1
<1> DEFINE n == Saved(b)
<1>1. /\ IsBook(n) /\ n.at = stored.at + 1 /\ (~n.stale => ~b.stale /\ ~ChangedBy(b))
      /\ n.text = b.text /\ n.lock = b.lock /\ n.settlement = b.settlement /\ n.status = b.status
      /\ n.commit = b.commit /\ n.commits = b.commits /\ n.memoryOf = b.memoryOf /\ n.others = b.others
  BY SavedFields DEF Good, IsBook
<1> HIDE DEF n
<1>2. EachOnce(n) /\ OnceLocked(n) /\ Shown(n)
  BY <1>1 DEF EachOnce, OnceLocked, Shown, Commit
<1>3. Fresh(b) => Fresh(n)
  BY <1>1 DEF Fresh, Commit
<1>4. Keeps(stored, n)
  BY <1>1 DEF Keeps, Commit
<1> QED BY <1>1, <1>2, <1>3, <1>4 DEF Good, n

----------------------------------------------------------------------------
(* What the operations make of it.                                         *)

\* Another text is not saved as if it were the settled one: once there is a
\* commit, a save of another text is a change.
LEMMA OtherTextIsChange ==
  ASSUME Good(stored), NEW b, IsBook(b), SameButText(b, stored), ~b.stale, ~ChangedBy(b)
  PROVE  b.text = stored.text \/ (stored.commits = <<>> /\ stored.settlement = NoVersion)
<1>1. Fresh(stored) /\ b.text \in Versions /\ stored.text \in Versions /\ stored.settlement \in {NoVersion, stored.text}
  BY DEF Good, IsBook, SameButText, Fresh
<1>2. CASE b.settlement = b.text
  BY <1>1, <1>2, CommitAssumption DEF SameButText
<1>3. CASE stored.settlement = NoVersion /\ stored.lock = NoVersion
  BY <1>3 DEF Good, OnceLocked
<1> QED BY <1>2, <1>3 DEF ChangedBy

\* What was true of the stored commits and memory is true of them for a text
\* that the save does not mark as changed.
LEMMA FreshStays ==
  ASSUME Good(stored), NEW b, IsBook(b), SameButText(b, stored), ~b.stale, ~ChangedBy(b)
  PROVE  Fresh(b)
<1>1. Fresh(stored)
  BY DEF Good, SameButText
<1>2. CASE b.text = stored.text
  BY <1>1, <1>2 DEF Fresh, SameButText, Commit
<1>3. CASE stored.commits = <<>> /\ stored.settlement = NoVersion
  <2>1. DOMAIN stored.commits = {}
    BY <1>3
  <2>2. stored.status = ""
    BY <2>1 DEF Good, Shown
  <2>3. DOMAIN b.commits = {} /\ b.settlement = NoVersion /\ b.status = ""
    BY <1>3, <2>1, <2>2 DEF SameButText
  <2> QED BY <2>3 DEF Fresh
<1> QED BY <1>2, <1>3, OtherTextIsChange

\* Typed text is saved.
LEMMA TypedGood ==
  ASSUME Good(stored), NEW b, IsBook(b), SameButText(b, stored), b.lock = stored.lock
  PROVE  Good(Saved(b)) /\ Keeps(stored, Saved(b)) /\ Saved(b).at = stored.at + 1
<1>1. EachOnce(b) /\ OnceLocked(b) /\ Shown(b)
  BY DEF Good, SameButText, EachOnce, OnceLocked, Shown, Commit
<1>2. Keeps(stored, b)
  <2>1. b.others >= stored.others
    <3>1. stored.others \in Nat
      BY DEF Good, IsBook
    <3>2. b.others = stored.others
      BY DEF SameButText
    <3> QED BY <3>1, <3>2
  <2> QED BY <2>1 DEF Keeps, SameButText, Commit
<1> QED BY <1>1, <1>2, FreshStays, GoodSave

WithStatus(c, id, s) == [c EXCEPT ![id].status = s]
WithApplied(c, id) == [c EXCEPT ![id].applied = @ + 1]
WithPending(c, v) == Append(c, [hash |-> v, status |-> "pending", applied |-> 0])

\* A commit of a sequence of commits gets another status.
LEMMA StatusSet ==
  ASSUME NEW c \in Seq(Commits), NEW id \in DOMAIN c, NEW s \in CommitStatuses
  PROVE  /\ WithStatus(c, id, s) \in Seq(Commits) /\ DOMAIN WithStatus(c, id, s) = DOMAIN c
         /\ \A k \in DOMAIN c : /\ WithStatus(c, id, s)[k].hash = c[k].hash
                                /\ WithStatus(c, id, s)[k].applied = c[k].applied
                                /\ WithStatus(c, id, s)[k].status = IF k = id THEN s ELSE c[k].status
<1> DEFINE e == [c[id] EXCEPT !.status = s]
<1>1. c[id] \in Commits
  OBVIOUS
<1>2. e \in Commits /\ e.hash = c[id].hash /\ e.applied = c[id].applied /\ e.status = s
  BY <1>1 DEF Commits
<1> HIDE DEF e
<1> DEFINE d == [c EXCEPT ![id] = e]
<1>3. d \in Seq(Commits) /\ DOMAIN d = DOMAIN c /\ \A k \in DOMAIN c : d[k] = IF k = id THEN e ELSE c[k]
  BY <1>2
<1>4. WithStatus(c, id, s) = d
  BY DEF e, WithStatus
<1> HIDE DEF d
<1>5. /\ d \in Seq(Commits) /\ DOMAIN d = DOMAIN c
      /\ \A k \in DOMAIN c : /\ d[k].hash = c[k].hash /\ d[k].applied = c[k].applied
                             /\ d[k].status = IF k = id THEN s ELSE c[k].status
  BY <1>2, <1>3
<1> QED BY <1>4, <1>5

\* It is settled once more.
LEMMA AppliedSet ==
  ASSUME NEW c \in Seq(Commits), NEW id \in DOMAIN c
  PROVE  /\ WithApplied(c, id) \in Seq(Commits) /\ DOMAIN WithApplied(c, id) = DOMAIN c
         /\ \A k \in DOMAIN c : /\ WithApplied(c, id)[k].hash = c[k].hash
                                /\ WithApplied(c, id)[k].status = c[k].status
                                /\ WithApplied(c, id)[k].applied = IF k = id THEN c[k].applied + 1 ELSE c[k].applied
<1> DEFINE e == [c[id] EXCEPT !.applied = @ + 1]
<1>1. c[id] \in Commits
  OBVIOUS
<1>2. e \in Commits /\ e.hash = c[id].hash /\ e.applied = c[id].applied + 1 /\ e.status = c[id].status
  BY <1>1 DEF Commits
<1> HIDE DEF e
<1> DEFINE d == [c EXCEPT ![id] = e]
<1>3. d \in Seq(Commits) /\ DOMAIN d = DOMAIN c /\ \A k \in DOMAIN c : d[k] = IF k = id THEN e ELSE c[k]
  BY <1>2
<1>4. WithApplied(c, id) = d
  BY DEF e, WithApplied
<1> HIDE DEF d
<1>5. /\ d \in Seq(Commits) /\ DOMAIN d = DOMAIN c
      /\ \A k \in DOMAIN c : /\ d[k].hash = c[k].hash /\ d[k].status = c[k].status
                             /\ d[k].applied = IF k = id THEN c[k].applied + 1 ELSE c[k].applied
  BY <1>2, <1>3
<1> QED BY <1>4, <1>5

\* A commit is appended.
LEMMA CommitAdded ==
  ASSUME NEW c \in Seq(Commits), NEW v \in Versions
  PROVE  /\ WithPending(c, v) \in Seq(Commits) /\ DOMAIN WithPending(c, v) = 1..Len(c) + 1 /\ DOMAIN c = 1..Len(c)
         /\ \A k \in DOMAIN c : WithPending(c, v)[k] = c[k]
         /\ WithPending(c, v)[Len(c) + 1] = [hash |-> v, status |-> "pending", applied |-> 0]
BY DEF Commits, CommitStatuses, WithPending

Restated(b, c, s, id) == [b EXCEPT !.commits = c, !.status = s, !.commit = id]
Resettled(b, c, g) == [b EXCEPT !.commits = c, !.memoryOf = b.text, !.stale = FALSE, !.settlement = g]

\* Fields of a book that is given another status, commit and commits.
LEMMA StatusFields ==
  ASSUME NEW b, IsBook(b), NEW c \in Seq(Commits), NEW s \in CommitStatuses, NEW id \in Nat, NEW n, n = Restated(b, c, s, id)
  PROVE     /\ IsBook(n) /\ n.commits = c /\ n.status = s /\ n.commit = id
            /\ n.text = b.text /\ n.lock = b.lock /\ n.settlement = b.settlement /\ n.stale = b.stale
            /\ n.memoryOf = b.memoryOf /\ n.others = b.others /\ n.at = b.at
BY DEF IsBook, Restated

\* Fields of a book whose memory is settled.
LEMMA SettledFields ==
  ASSUME NEW b, IsBook(b), NEW c \in Seq(Commits), NEW g \in Texts, NEW n, n = Resettled(b, c, g)
  PROVE  /\ IsBook(n) /\ n.commits = c /\ n.settlement = g /\ n.memoryOf = b.text
         /\ n.text = b.text /\ n.lock = b.lock /\ n.status = b.status /\ n.commit = b.commit
         /\ n.others = b.others /\ n.at = b.at
BY DEF IsBook, Resettled, Texts

\* A pending commit for the text is appended to a book that is about to be accepted.
LEMMA NewCommitGood ==
  ASSUME Good(stored), NEW b, IsBook(b), SameButText(b, stored), b.lock = b.text
  PROVE  Good(Saved(NewCommit(b))) /\ Keeps(stored, Saved(NewCommit(b))) /\ Saved(NewCommit(b)).at = stored.at + 1
<1> DEFINE id == Len(b.commits) + 1
           c == WithPending(b.commits, b.text)
           n == Restated(b, c, "pending", id)
<1>1. b.commits \in Seq(Commits) /\ b.text \in Versions /\ b.commits = stored.commits /\ stored.others \in Nat
  BY DEF IsBook, SameButText, Good
<1>2. /\ c \in Seq(Commits) /\ DOMAIN c = 1..id /\ DOMAIN b.commits = 1..Len(b.commits) /\ id \in DOMAIN c
      /\ \A k \in DOMAIN b.commits : c[k] = b.commits[k]
      /\ c[id] = [hash |-> b.text, status |-> "pending", applied |-> 0]
  BY <1>1, CommitAdded
<1>3. NewCommit(b) = n
  BY DEF NewCommit, Restated, WithPending
<1>4. id \in Nat /\ "pending" \in CommitStatuses
  BY <1>1 DEF CommitStatuses
<1>5. DOMAIN b.commits \subseteq DOMAIN c /\ \A k \in DOMAIN c : k \in DOMAIN b.commits \/ k = id
  BY <1>1, <1>2
<1> HIDE DEF c, id
<1>6. /\ IsBook(n) /\ n.commits = c /\ n.status = "pending" /\ n.commit = id
      /\ n.text = b.text /\ n.lock = b.lock /\ n.settlement = b.settlement /\ n.stale = b.stale
      /\ n.memoryOf = b.memoryOf /\ n.others = b.others /\ n.at = b.at
  BY <1>2, <1>4, StatusFields
<1> HIDE DEF n
<1>7. EachOnce(n)
  <2>1. EachOnce(stored)
    BY DEF Good
  <2>2. \A k \in DOMAIN b.commits : c[k].applied <= 1 /\ (c[k].status # "committed" => c[k].applied = 0)
    BY <1>1, <1>2, <2>1 DEF EachOnce, Commit
  <2>3. c[id].applied = 0
    BY <1>2
  <2> QED BY <1>5, <1>6, <2>2, <2>3 DEF EachOnce, Commit
<1>8. OnceLocked(n) /\ Shown(n)
  BY <1>1, <1>2, <1>6, CommitAssumption DEF OnceLocked, Shown, Commit
<1>9. Keeps(stored, n)
  <2>1. n.others = stored.others
    BY <1>6 DEF SameButText
  <2> QED BY <1>1, <1>2, <1>5, <1>6, <2>1 DEF Keeps, Commit
<1>10. ASSUME ~n.stale, ~ChangedBy(n) PROVE Fresh(n)
  <2>1. ~b.stale /\ ~ChangedBy(b)
    BY <1>6, <1>10 DEF ChangedBy
  <2>2. Fresh(b)
    BY <2>1, FreshStays
  <2>3. c[id].status = "pending" /\ c[id].hash = b.text
    BY <1>2
  <2>4. ASSUME NEW k \in DOMAIN c, c[k].hash = b.text, c[k].status = "committed" PROVE b.memoryOf = b.text
    <3>1. k \in DOMAIN b.commits
      BY <1>5, <2>3, <2>4
    <3>2. c[k] = b.commits[k]
      BY <1>2, <3>1
    <3> QED BY <2>2, <2>4, <3>1, <3>2 DEF Fresh, Commit
  <2>5. b.settlement \in {NoVersion, b.text}
    BY <2>2 DEF Fresh
  <2> QED BY <1>6, <2>3, <2>4, <2>5 DEF Fresh, Commit
<1> QED BY <1>3, <1>6, <1>7, <1>8, <1>9, <1>10, GoodSave

\* A book whose commits are those stored, but for one that is not committed
\* or keeps its status, and shows that one, is good to save: reuse and marks.
LEMMA StatusGood ==
  ASSUME Good(stored), NEW b, IsBook(b), SameButText(b, stored), b.lock # NoVersion,
         NEW id \in DOMAIN b.commits, b.commits[id].hash = b.text, NEW s \in CommitStatuses,
         b.commits[id].status = "committed" <=> s = "committed",
         NEW n, n = Restated(b, WithStatus(b.commits, id, s), s, id)
  PROVE  Good(Saved(n)) /\ Keeps(stored, Saved(n)) /\ Saved(n).at = stored.at + 1
<1> DEFINE c == WithStatus(b.commits, id, s)
<1>1. b.commits \in Seq(Commits) /\ b.text \in Versions /\ b.commits = stored.commits /\ stored.others \in Nat
  BY DEF IsBook, SameButText, Good
<1>2. /\ c \in Seq(Commits) /\ DOMAIN c = DOMAIN b.commits
      /\ \A k \in DOMAIN b.commits : /\ c[k].hash = b.commits[k].hash /\ c[k].applied = b.commits[k].applied
                                     /\ c[k].status = IF k = id THEN s ELSE b.commits[k].status
  BY <1>1, StatusSet
<1>3. id \in Nat
  BY <1>1
<1> HIDE DEF c
<1>4. /\ IsBook(n) /\ n.commits = c /\ n.status = s /\ n.commit = id
      /\ n.text = b.text /\ n.lock = b.lock /\ n.settlement = b.settlement /\ n.stale = b.stale
      /\ n.memoryOf = b.memoryOf /\ n.others = b.others /\ n.at = b.at
  BY <1>2, <1>3, StatusFields DEF c
<1>5. \A k \in DOMAIN c : c[k].status = "committed" <=> b.commits[k].status = "committed"
  BY <1>2
<1>6. EachOnce(n)
  BY <1>1, <1>2, <1>4, <1>5 DEF EachOnce, Commit, Good
<1>7. OnceLocked(n) /\ Shown(n)
  BY <1>2, <1>4 DEF OnceLocked, Shown, Commit
<1>8. Keeps(stored, n)
  BY <1>1, <1>2, <1>4, <1>5 DEF Keeps, Commit, SameButText
<1>9. ASSUME ~n.stale, ~ChangedBy(n) PROVE Fresh(n)
  <2>1. ~b.stale /\ ~ChangedBy(b)
    BY <1>4, <1>9 DEF ChangedBy
  <2>2. Fresh(b)
    BY <2>1, FreshStays
  <2>3. ASSUME NEW k \in DOMAIN c, c[k].hash = b.text, c[k].status = "committed" PROVE b.memoryOf = b.text
    <3>1. k \in DOMAIN b.commits /\ b.commits[k].hash = b.text /\ b.commits[k].status = "committed"
      BY <1>2, <1>5, <2>3
    <3> QED BY <2>2, <3>1 DEF Fresh, Commit
  <2>4. c[id].hash = b.text /\ b.settlement \in {NoVersion, b.text}
    BY <1>2, <2>2 DEF Fresh
  <2> QED BY <1>4, <2>3, <2>4 DEF Fresh, Commit
<1> QED BY <1>4, <1>6, <1>7, <1>8, <1>9, GoodSave

\* Settling the commit of the present text.
LEMMA SettledGood ==
  ASSUME Good(stored), NEW id \in DOMAIN stored.commits, stored.commits[id].hash = stored.text,
         stored.commits[id].status # "committed", NEW whole,
         NEW n, n = CommitSettled(stored, id, whole)
  PROVE  Good(Saved(n)) /\ Keeps(stored, Saved(n)) /\ Saved(n).at = stored.at + 1
<1> DEFINE c == WithStatus(stored.commits, id, "committed")
           d == WithApplied(c, id)
           m == Restated(stored, c, "committed", id)
           settlement == IF whole THEN stored.text ELSE NoVersion
<1>1. IsBook(stored) /\ stored.commits \in Seq(Commits) /\ stored.text \in Versions /\ stored.others \in Nat /\ id \in Nat
  <2>1. IsBook(stored)
    BY DEF Good
  <2>2. stored.commits \in Seq(Commits) /\ stored.text \in Versions /\ stored.others \in Nat
    BY <2>1 DEF IsBook
  <2> QED BY <2>1, <2>2
<1>2. /\ c \in Seq(Commits) /\ DOMAIN c = DOMAIN stored.commits
      /\ \A k \in DOMAIN stored.commits : /\ c[k].hash = stored.commits[k].hash /\ c[k].applied = stored.commits[k].applied
                                          /\ c[k].status = IF k = id THEN "committed" ELSE stored.commits[k].status
  <2>1. "committed" \in CommitStatuses
    BY DEF CommitStatuses
  <2> QED BY <1>1, <2>1, StatusSet
<1> HIDE DEF c
<1>3. /\ d \in Seq(Commits) /\ DOMAIN d = DOMAIN c
      /\ \A k \in DOMAIN c : /\ d[k].hash = c[k].hash /\ d[k].status = c[k].status
                             /\ d[k].applied = IF k = id THEN c[k].applied + 1 ELSE c[k].applied
  BY <1>2, AppliedSet
<1>4. Marked(stored, id, "committed") = m
  BY <1>1 DEF Marked, IsBook, Restated, WithStatus, c
<1>5. /\ IsBook(m) /\ m.commits = c /\ m.status = "committed" /\ m.commit = id
      /\ m.text = stored.text /\ m.lock = stored.lock /\ m.settlement = stored.settlement /\ m.stale = stored.stale
      /\ m.memoryOf = stored.memoryOf /\ m.others = stored.others /\ m.at = stored.at
  <2>1. "committed" \in CommitStatuses
    BY DEF CommitStatuses
  <2>2. IsBook(stored) /\ c \in Seq(Commits) /\ id \in Nat /\ m = Restated(stored, c, "committed", id)
    BY <1>1, <1>2
  <2> HIDE DEF d, m, settlement
  <2> QED BY <2>1, <2>2, StatusFields
<1> HIDE DEF m
<1>6. n = Resettled(m, d, settlement)
  BY <1>4, <1>5 DEF CommitSettled, IsBook, Resettled, WithApplied
<1>7. settlement \in {NoVersion, stored.text} /\ settlement \in Texts
  BY <1>1 DEF Texts
<1> HIDE DEF d, settlement
<1>8. /\ IsBook(n) /\ n.commits = d /\ n.status = "committed" /\ n.commit = id /\ n.text = stored.text
      /\ n.lock = stored.lock /\ n.settlement = settlement /\ n.memoryOf = stored.text /\ n.others = stored.others
  <2>1. /\ IsBook(n) /\ n.commits = d /\ n.settlement = settlement /\ n.memoryOf = m.text
        /\ n.text = m.text /\ n.lock = m.lock /\ n.status = m.status /\ n.commit = m.commit /\ n.others = m.others
    BY <1>3, <1>5, <1>6, <1>7, SettledFields
  <2> QED BY <1>5, <2>1
<1>9. EachOnce(n)
  <2>1. stored.commits[id].applied = 0
    BY DEF Good, EachOnce, Commit
  <2>2. \A k \in DOMAIN stored.commits : stored.commits[k].applied <= 1 /\ (stored.commits[k].status # "committed" => stored.commits[k].applied = 0)
    BY DEF Good, EachOnce, Commit
  <2> QED BY <1>2, <1>3, <1>8, <2>1, <2>2 DEF EachOnce, Commit
<1>10. OnceLocked(n)
  <2>1. stored.commits # <<>>
    OBVIOUS
  <2> QED BY <1>8, <2>1 DEF OnceLocked, Good
<1>11. Shown(n)
  BY <1>2, <1>3, <1>8 DEF Shown, Commit
<1>12. Keeps(stored, n)
  BY <1>1, <1>2, <1>3, <1>8 DEF Keeps, Commit
<1>13. Fresh(n)
  BY <1>2, <1>3, <1>7, <1>8 DEF Fresh, Commit
<1> QED BY <1>8, <1>9, <1>10, <1>11, <1>12, <1>13, GoodSave

\* A commit that is not committed is marked.
LEMMA MarkedGood ==
  ASSUME Good(stored), NEW id, Valid(stored, id), Commit(stored, id).status # "committed",
         NEW s \in {"extracted", "degraded"}
  PROVE  Good(Saved(Marked(stored, id, s))) /\ Keeps(stored, Saved(Marked(stored, id, s)))
         /\ Saved(Marked(stored, id, s)).at = stored.at + 1
<1>1. IsBook(stored) /\ SameButText(stored, stored)
  BY DEF Good, SameButText
<1>2. id \in DOMAIN stored.commits /\ stored.commits[id].hash = stored.text /\ stored.commits[id].status # "committed"
  BY DEF Valid, Commit
<1>3. stored.lock # NoVersion
  <2>1. stored.commits # <<>>
    BY <1>2
  <2> QED BY <2>1 DEF Good, OnceLocked
<1>4. s \in CommitStatuses /\ s # "committed"
  BY DEF CommitStatuses
<1>5. Marked(stored, id, s) = Restated(stored, WithStatus(stored.commits, id, s), s, id)
  BY <1>1, <1>2 DEF Marked, IsBook, Restated, WithStatus
<1> QED BY <1>1, <1>2, <1>3, <1>4, <1>5, StatusGood

\* The stored book is saved again.
LEMMA SameGood ==
  ASSUME Good(stored)
  PROVE  Good(Saved(stored)) /\ Keeps(stored, Saved(stored)) /\ Saved(stored).at = stored.at + 1
<1>1. IsBook(stored) /\ SameButText(stored, stored)
  BY DEF Good, SameButText
<1> QED BY <1>1, TypedGood

\* A set of positions of a sequence has a last one.
LEMMA LastOne ==
  ASSUME NEW n \in Nat, NEW E \in SUBSET (1..n), E # {}
  PROVE  \E id \in E : \A k \in E : id >= k
<1> DEFINE D == {n - x : x \in E}
<1>1. D \subseteq Nat /\ D # {}
  OBVIOUS
<1>2. \E m \in D : \A d \in D : ~(<<d, m>> \in OpToRel(<, Nat))
  BY <1>1, WFMin, NatLessThanWellFounded, Zenon
<1>3. PICK m \in D : \A d \in D : ~(d < m)
  BY <1>1, <1>2 DEF OpToRel
<1>4. PICK id \in E : m = n - id
  OBVIOUS
<1>5. ASSUME NEW k \in E PROVE id >= k
  <2>1. n - k \in D
    OBVIOUS
  <2>2. ~(n - k < n - id)
    BY <1>3, <1>4, <2>1
  <2> QED BY <2>2
<1> QED BY <1>5

\* An acceptance opens a commit for the text or takes up the one it has.
LEMMA BegunGood ==
  ASSUME Good(stored), NEW b, IsBook(b), SameButText(b, stored), b.lock = b.text
  PROVE  Good(Saved(Begun(b))) /\ Keeps(stored, Saved(Begun(b))) /\ Saved(Begun(b)).at = stored.at + 1
<1> DEFINE E == ExistingCommits(b)
           id == CHOOSE i \in E : \A k \in E : i >= k
           s == IF b.commits[id].status = "degraded" THEN "pending" ELSE b.commits[id].status
<1>1. b.commits \in Seq(Commits) /\ b.text \in Versions
  BY DEF IsBook
<1>2. CASE E # {} /\ ~b.stale
  <2>1. E \in SUBSET (1..Len(b.commits)) /\ Len(b.commits) \in Nat
    BY <1>1 DEF ExistingCommits
  <2>2. id \in E
    <3>1. \E i \in E : \A k \in E : i >= k
      BY <1>2, <2>1, LastOne
    <3> QED BY <3>1
  <2> HIDE DEF id
  <2>3. id \in DOMAIN b.commits /\ b.commits[id].hash = b.text
    BY <2>2 DEF ExistingCommits
  <2>4. b.commits[id].status \in CommitStatuses
    <3>1. b.commits[id] \in Commits
      BY <1>1, <2>3
    <3> QED BY <3>1 DEF Commits
  <2>5. s \in CommitStatuses /\ (b.commits[id].status = "committed" <=> s = "committed")
    BY <2>4 DEF CommitStatuses
  <2>6. Begun(b) = Restated(b, WithStatus(b.commits, id, s), s, id)
    <3>1. Begun(b) = Reused(b, id)
      BY <1>2 DEF Begun, id
    <3> QED BY <3>1 DEF Reused, Commit, Restated, WithStatus, IsBook
  <2>7. b.lock # NoVersion
    BY <1>1, CommitAssumption
  <2> HIDE DEF s
  <2> QED BY <2>3, <2>5, <2>6, <2>7, StatusGood
<1>3. CASE ~(E # {} /\ ~b.stale)
  <2>1. Begun(b) = NewCommit(b)
    BY <1>3 DEF Begun
  <2> QED BY <2>1, NewCommitGood
<1> QED BY <1>2, <1>3

\* Applying settles the commit of the text, unless it is settled.
LEMMA AppliedGood ==
  ASSUME Good(stored), NEW id, Valid(stored, id), NEW whole
  PROVE  Good(Saved(AppliedBook(stored, id, whole))) /\ Keeps(stored, Saved(AppliedBook(stored, id, whole)))
         /\ Saved(AppliedBook(stored, id, whole)).at = stored.at + 1
<1>1. CASE Commit(stored, id).status = "committed"
  BY <1>1, SameGood DEF AppliedBook
<1>2. CASE Commit(stored, id).status # "committed"
  BY <1>2, SettledGood DEF AppliedBook, Valid, Commit
<1> QED BY <1>1, <1>2

LEMMA DegradedGood ==
  ASSUME Good(stored), NEW id, Valid(stored, id)
  PROVE  Good(Saved(DegradedBook(stored, id))) /\ Keeps(stored, Saved(DegradedBook(stored, id)))
         /\ Saved(DegradedBook(stored, id)).at = stored.at + 1
<1>1. CASE Commit(stored, id).status = "committed"
  BY <1>1, SameGood DEF DegradedBook
<1>2. CASE Commit(stored, id).status # "committed"
  BY <1>2, MarkedGood DEF DegradedBook
<1> QED BY <1>1, <1>2

----------------------------------------------------------------------------
(* The tabs and the extractions.                                           *)

\* A tab's copy that is as new as the book differs from it in its text at most.
TabBook(b, s) ==
  IsBook(b) /\ b.at <= s.at /\ (b.at = s.at => SameButText(b, s) /\ b.lock = s.lock)

\* An extraction whose book is as new as the book read that one; it has a
\* commit of the text it reads.
ReadBook(r, s) ==
  /\ r.book.at \in Nat /\ r.book.at <= s.at /\ (r.book.at = s.at => r.book = s)
  /\ Valid(r.book, r.id)

IsTab(x) == DOMAIN x = {"book", "at", "id", "whole"}

CommitInv ==
  /\ Good(stored)
  /\ DOMAIN tab = Tabs /\ DOMAIN reading = Tabs
  /\ \A t \in Tabs : IsTab(tab[t]) /\ TabBook(tab[t].book, stored)
  /\ \A t \in Tabs : reading[t].on => ReadBook(reading[t], stored)

\* What a step makes of the book and of what the tabs know of it.
Steps ==
  /\ \/ stored' = stored
     \/ Good(stored') /\ Keeps(stored, stored') /\ stored'.at = stored.at + 1
  /\ DOMAIN tab' = Tabs /\ DOMAIN reading' = Tabs
  /\ \A t \in Tabs : IsTab(tab'[t]) /\ (TabBook(tab'[t].book, stored) \/ tab'[t].book = stored')
  /\ \A t \in Tabs : reading'[t].on => ReadBook(reading'[t], stored)

LEMMA StepKeeps ==
  ASSUME CommitInv, Steps
  PROVE  CommitInv' /\ Keeps(stored, stored')
<1>1. Good(stored) /\ stored.at \in Nat /\ stored.others \in Nat
  BY DEF CommitInv, Good, IsBook
<1>2. Good(stored') /\ Keeps(stored, stored')
  <2>1. Keeps(stored, stored)
    BY <1>1 DEF Keeps
  <2> QED BY <1>1, <2>1 DEF Steps
<1>3. IsBook(stored') /\ stored'.at \in Nat
  BY <1>2 DEF Good, IsBook
<1>4. stored' = stored \/ stored.at < stored'.at
  BY <1>1 DEF Steps
<1>5. TabBook(stored', stored')
  BY <1>3 DEF TabBook, SameButText
<1>6. ASSUME NEW b, TabBook(b, stored) PROVE TabBook(b, stored')
  <2>1. CASE stored' = stored
    BY <1>6, <2>1
  <2>2. CASE stored.at < stored'.at
    <3>1. IsBook(b) /\ b.at \in Nat /\ b.at <= stored.at
      BY <1>6 DEF TabBook, IsBook
    <3>2. b.at <= stored'.at /\ b.at # stored'.at
      BY <1>1, <1>3, <2>2, <3>1
    <3> QED BY <3>1, <3>2 DEF TabBook
  <2> QED BY <1>4, <2>1, <2>2
<1>7. ASSUME NEW r, ReadBook(r, stored) PROVE ReadBook(r, stored')
  <2>1. CASE stored' = stored
    BY <1>7, <2>1
  <2>2. CASE stored.at < stored'.at
    <3>1. r.book.at \in Nat /\ r.book.at <= stored.at /\ Valid(r.book, r.id)
      BY <1>7 DEF ReadBook
    <3>2. r.book.at <= stored'.at /\ r.book.at # stored'.at
      BY <1>1, <1>3, <2>2, <3>1
    <3> QED BY <3>1, <3>2 DEF ReadBook
  <2> QED BY <1>4, <2>1, <2>2
<1> QED BY <1>2, <1>5, <1>6, <1>7 DEF CommitInv, Steps

\* What a tab does to its copy and to its place.
LEMMA TabsStep ==
  ASSUME CommitInv, NEW t \in Tabs, NEW x, IsTab(x), TabBook(x.book, stored) \/ x.book = stored',
         tab' = [tab EXCEPT ![t] = x]
  PROVE  /\ DOMAIN tab' = Tabs
         /\ \A u \in Tabs : IsTab(tab'[u]) /\ (TabBook(tab'[u].book, stored) \/ tab'[u].book = stored')
<1>1. DOMAIN tab' = Tabs /\ \A u \in Tabs : tab'[u] = IF u = t THEN x ELSE tab[u]
  BY DEF CommitInv
<1> QED BY <1>1 DEF CommitInv

LEMMA TabsStay ==
  ASSUME CommitInv, tab' = tab
  PROVE  /\ DOMAIN tab' = Tabs
         /\ \A u \in Tabs : IsTab(tab'[u]) /\ (TabBook(tab'[u].book, stored) \/ tab'[u].book = stored')
BY DEF CommitInv

LEMMA ReadingsStay ==
  ASSUME CommitInv, reading' = reading
  PROVE  DOMAIN reading' = Tabs /\ \A t \in Tabs : reading'[t].on => ReadBook(reading'[t], stored)
BY DEF CommitInv

\* A tab goes to another place, and may take the saved book along.
LEMMA AtStep ==
  ASSUME CommitInv, NEW t \in Tabs, NEW place, At(t, place) \/ Loaded(t, place)
  PROVE  /\ DOMAIN tab' = Tabs
         /\ \A u \in Tabs : IsTab(tab'[u]) /\ (TabBook(tab'[u].book, stored) \/ tab'[u].book = stored')
<1>1. IsTab(tab[t]) /\ TabBook(tab[t].book, stored) /\ DOMAIN tab = Tabs
  BY DEF CommitInv
<1>2. CASE At(t, place)
  <2> DEFINE x == [tab[t] EXCEPT !.at = place]
  <2>1. IsTab(x) /\ x.book = tab[t].book
    BY <1>1 DEF IsTab
  <2>2. tab' = [tab EXCEPT ![t] = x]
    BY <1>2 DEF At
  <2> HIDE DEF x
  <2> QED BY <1>1, <2>1, <2>2, TabsStep
<1>3. CASE Loaded(t, place)
  <2> DEFINE x == [tab[t] EXCEPT !.at = place, !.book = stored']
  <2>1. IsTab(x) /\ x.book = stored'
    BY <1>1 DEF IsTab
  <2>2. tab' = [tab EXCEPT ![t] = x]
    BY <1>1, <1>3 DEF Loaded
  <2> HIDE DEF x
  <2> QED BY <2>1, <2>2, TabsStep
<1> QED BY <1>2, <1>3

LEMMA TypeSteps ==
  ASSUME CommitInv, NEW t \in Tabs, NEW v \in Versions, Type(t, v)
  PROVE  Steps
<1> DEFINE b == [tab[t].book EXCEPT !.text = v]
           x == [tab[t] EXCEPT !.book = b]
<1>1. IsTab(tab[t]) /\ TabBook(tab[t].book, stored)
  BY DEF CommitInv
<1>2. TabBook(b, stored)
  BY <1>1 DEF TabBook, IsBook, SameButText
<1> HIDE DEF b
<1>3. IsTab(x) /\ x.book = b
  BY <1>1 DEF IsTab
<1>4. tab' = [tab EXCEPT ![t] = x]
  BY DEF Type, b
<1> HIDE DEF x
<1> QED BY <1>2, <1>3, <1>4, TabsStep, ReadingsStay DEF Steps, Type

LEMMA SaveTabSteps ==
  ASSUME CommitInv, NEW t \in Tabs, SaveTab(t)
  PROVE  Steps
<1> DEFINE b == tab[t].book
<1>1. IsBook(b) /\ SameButText(b, stored) /\ b.lock = stored.lock
  BY DEF CommitInv, TabBook, SaveTab
<1>2. stored' = Saved(b)
  BY DEF SaveTab, Save, Saved
<1> HIDE DEF b
<1>3. Good(stored') /\ Keeps(stored, stored') /\ stored'.at = stored.at + 1
  BY <1>1, <1>2, TypedGood DEF CommitInv
<1> QED BY <1>3, AtStep, ReadingsStay DEF Steps, SaveTab

LEMMA ReloadSteps ==
  ASSUME CommitInv, NEW t \in Tabs, ReloadTab(t)
  PROVE  Steps
<1> DEFINE x == [book |-> stored, at |-> "idle", id |-> 0, whole |-> FALSE]
<1>1. IsTab(x) /\ x.book = stored' /\ tab' = [tab EXCEPT ![t] = x] /\ stored' = stored /\ reading' = reading
  BY DEF ReloadTab, IsTab
<1> HIDE DEF x
<1> QED BY <1>1, TabsStep, ReadingsStay DEF Steps

LEMMA AcceptSteps ==
  ASSUME CommitInv, NEW t \in Tabs, Accept(t)
  PROVE  Steps
<1>1. reading' = reading
  BY DEF Accept
<1>2. CASE stored' = stored /\ tab' = tab
  BY <1>1, <1>2, TabsStay, ReadingsStay DEF Steps
<1>3. CASE ~(stored' = stored /\ tab' = tab)
  <2> DEFINE a == [tab[t].book EXCEPT !.lock = tab[t].book.text, !.locked = TRUE]
             b == Begun(a)
             x == [book |-> stored', id |-> b.commit, whole |-> FALSE,
                   at |-> IF Commit(b, b.commit).status = "committed" THEN "idle" ELSE "accepted"]
  <2>1. MaySave(tab[t].book) /\ stored' = Saved(b) /\ (tab' = [tab EXCEPT ![t] = x] \/ tab' = tab)
    BY <1>3 DEF Accept, Save, Saved
  <2>2. IsBook(tab[t].book) /\ SameButText(tab[t].book, stored)
    BY <2>1 DEF CommitInv, TabBook, MaySave
  <2>3. IsBook(a) /\ SameButText(a, stored) /\ a.lock = a.text
    BY <2>2 DEF IsBook, SameButText, Texts
  <2> HIDE DEF a
  <2>4. Good(stored') /\ Keeps(stored, stored') /\ stored'.at = stored.at + 1
    BY <2>1, <2>3, BegunGood DEF CommitInv
  <2>5. IsTab(x) /\ x.book = stored'
    BY DEF IsTab
  <2> HIDE DEF x, b
  <2> QED BY <1>1, <2>1, <2>4, <2>5, TabsStep, TabsStay, ReadingsStay DEF Steps
<1> QED BY <1>2, <1>3

LEMMA StartReadingSteps ==
  ASSUME CommitInv, NEW t \in Tabs, StartReading(t)
  PROVE  Steps
<1>1. stored' = stored
  BY DEF StartReading
<1>2. DOMAIN reading' = Tabs /\ \A u \in Tabs : reading'[u].on => ReadBook(reading'[u], stored)
  <2>1. CASE reading' = reading
    BY <2>1, ReadingsStay
  <2>2. CASE Valid(stored, tab[t].id) /\ reading' = [reading EXCEPT ![t] = [on |-> TRUE, book |-> stored, id |-> tab[t].id]]
    <3> DEFINE r == [on |-> TRUE, book |-> stored, id |-> tab[t].id]
    <3>1. stored.at \in Nat
      BY DEF CommitInv, Good, IsBook
    <3>2. ReadBook(r, stored)
      BY <2>2, <3>1 DEF ReadBook
    <3>3. DOMAIN reading' = Tabs /\ \A u \in Tabs : reading'[u] = IF u = t THEN r ELSE reading[u]
      BY <2>2 DEF CommitInv
    <3> HIDE DEF r
    <3> QED BY <3>2, <3>3 DEF CommitInv
  <2> QED BY <2>1, <2>2 DEF StartReading
<1>3. At(t, "reading") \/ At(t, "failed")
  BY DEF StartReading
<1> QED BY <1>1, <1>2, <1>3, AtStep DEF Steps

LEMMA FinishReadingSteps ==
  ASSUME CommitInv, NEW t \in Tabs, NEW whole, FinishReading(t, whole)
  PROVE  Steps
<1> DEFINE r == reading[t]
<1>1. ReadBook(r, stored)
  BY DEF CommitInv, FinishReading
<1>2. \/ stored' = stored
      \/ Good(stored') /\ Keeps(stored, stored') /\ stored'.at = stored.at + 1
  <2>1. CASE stored' = stored
    BY <2>1
  <2>2. CASE Commit(r.book, r.id).status # "committed" /\ MaySave(r.book) /\ Save(Marked(r.book, r.id, "extracted"))
    <3>1. r.book = stored /\ Valid(stored, r.id) /\ Commit(stored, r.id).status # "committed"
      BY <1>1, <2>2 DEF ReadBook, MaySave
    <3>2. stored' = Saved(Marked(stored, r.id, "extracted"))
      BY <2>2, <3>1 DEF Save, Saved
    <3> QED BY <3>1, <3>2, MarkedGood DEF CommitInv
  <2> QED BY <2>1, <2>2 DEF FinishReading
<1>3. DOMAIN reading' = Tabs /\ \A u \in Tabs : reading'[u].on => ReadBook(reading'[u], stored)
  <2>1. reading' = [reading EXCEPT ![t] = NotReading]
    BY DEF FinishReading
  <2>2. DOMAIN reading' = Tabs /\ \A u \in Tabs : reading'[u] = IF u = t THEN NotReading ELSE reading[u]
    BY <2>1 DEF CommitInv
  <2> QED BY <2>2 DEF CommitInv, NotReading
<1>4. /\ DOMAIN tab' = Tabs
      /\ \A u \in Tabs : IsTab(tab'[u]) /\ (TabBook(tab'[u].book, stored) \/ tab'[u].book = stored')
  <2>1. IsTab(tab[t]) /\ TabBook(tab[t].book, stored) /\ DOMAIN tab = Tabs
    BY DEF CommitInv
  <2>2. ASSUME NEW place, NEW w, tab' = [tab EXCEPT ![t].at = place, ![t].whole = w]
        PROVE  /\ DOMAIN tab' = Tabs
               /\ \A u \in Tabs : IsTab(tab'[u]) /\ (TabBook(tab'[u].book, stored) \/ tab'[u].book = stored')
    <3> DEFINE x == [tab[t] EXCEPT !.at = place, !.whole = w]
    <3>1. IsTab(x) /\ x.book = tab[t].book
      BY <2>1 DEF IsTab
    <3>2. tab' = [tab EXCEPT ![t] = x]
      BY <2>1, <2>2
    <3> HIDE DEF x
    <3> QED BY <2>1, <3>1, <3>2, TabsStep
  <2>3. \/ \E place, w : tab' = [tab EXCEPT ![t].at = place, ![t].whole = w]
        \/ \E place : At(t, place)
    BY DEF FinishReading, At
  <2> QED BY <2>2, <2>3, AtStep
<1> QED BY <1>2, <1>3, <1>4 DEF Steps

LEMMA ApplySteps ==
  ASSUME CommitInv, NEW t \in Tabs, ApplyMemory(t)
  PROVE  Steps
<1> DEFINE id == tab[t].id
<1>1. \/ stored' = stored
      \/ Good(stored') /\ Keeps(stored, stored') /\ stored'.at = stored.at + 1
  <2>1. CASE Valid(stored, id) /\ Save(AppliedBook(stored, id, tab[t].whole))
    <3>1. stored' = Saved(AppliedBook(stored, id, tab[t].whole))
      BY <2>1 DEF Save, Saved
    <3> QED BY <2>1, <3>1, AppliedGood DEF CommitInv
  <2> QED BY <2>1 DEF ApplyMemory
<1>2. reading' = reading /\ (At(t, "failed") \/ Loaded(t, "idle"))
  BY DEF ApplyMemory
<1> QED BY <1>1, <1>2, AtStep, ReadingsStay DEF Steps

LEMMA DegradeSteps ==
  ASSUME CommitInv, NEW t \in Tabs, Degrade(t)
  PROVE  Steps
<1> DEFINE id == tab[t].id
<1>1. \/ stored' = stored
      \/ Good(stored') /\ Keeps(stored, stored') /\ stored'.at = stored.at + 1
  <2>1. CASE Valid(stored, id) /\ Save(DegradedBook(stored, id))
    <3>1. stored' = Saved(DegradedBook(stored, id))
      BY <2>1 DEF Save, Saved
    <3> QED BY <2>1, <3>1, DegradedGood DEF CommitInv
  <2> QED BY <2>1 DEF Degrade
<1>2. reading' = reading /\ (At(t, "idle") \/ Loaded(t, "idle"))
  BY DEF Degrade
<1> QED BY <1>1, <1>2, AtStep, ReadingsStay DEF Steps

LEMMA OtherSaveSteps ==
  ASSUME CommitInv, OtherSave
  PROVE  Steps
<1> DEFINE n == [stored EXCEPT !.others = @ + 1, !.at = @ + 1]
<1>1. IsBook(stored) /\ stored.others \in Nat /\ stored.at \in Nat
  BY DEF CommitInv, Good, IsBook
<1>2. n = [stored EXCEPT !.others = stored.others + 1, !.at = stored.at + 1]
  OBVIOUS
<1>3. /\ IsBook(n) /\ SameBook(n, stored) /\ n.others = stored.others + 1 /\ n.at = stored.at + 1
  <2> DEFINE o == stored.others + 1
             a == stored.at + 1
             m == [stored EXCEPT !.others = o, !.at = a]
  <2>1. o \in Nat /\ a \in Nat
    BY <1>1
  <2> HIDE DEF o, a
  <2>2. n = m
    BY <1>2 DEF o, a
  <2> HIDE DEF n
  <2>3. IsBook(n) /\ SameBook(n, stored) /\ n.others = o /\ n.at = a
    <3>1. SameBook(n, stored) /\ n.others = o /\ n.at = a
      BY <1>1, <2>1, <2>2 DEF IsBook, SameBook
    <3>2. IsBook(n)
      BY <1>1, <2>1, <2>2 DEF IsBook
    <3> QED BY <3>1, <3>2
  <2> QED BY <2>3 DEF o, a
<1>4. stored' = n
  BY DEF OtherSave
<1> HIDE DEF n
<1>5. Good(n)
  BY <1>3 DEF CommitInv, Good, SameBook, EachOnce, OnceLocked, Shown, Fresh, Commit
<1>6. Keeps(stored, n)
  <2>1. n.others >= stored.others
    BY <1>1, <1>3
  <2> QED BY <1>3, <2>1 DEF Keeps, SameBook, Commit
<1> QED BY <1>3, <1>4, <1>5, <1>6, TabsStay, ReadingsStay DEF Steps, OtherSave

----------------------------------------------------------------------------
LEMMA CommitInvInit == CommitInit => CommitInv
<1> SUFFICES ASSUME CommitInit PROVE CommitInv
  OBVIOUS
<1>1. AnyVersion \in Versions
  BY CommitAssumption DEF AnyVersion
<1>2. Good(stored)
  <2>2. stored.commits = <<>> /\ stored.status = "" /\ stored.settlement = NoVersion
    BY DEF CommitInit
  <2>3. DOMAIN stored.commits = {}
    <3>1. DOMAIN <<>> = {}
      OBVIOUS
    <3>2. stored.commits = <<>>
      BY <2>2
    <3> QED BY <3>1, <3>2
  <2>1. IsBook(stored)
    <3>1. /\ stored.text \in Versions /\ stored.lock = NoVersion /\ stored.settlement = NoVersion /\ stored.memoryOf = NoVersion
          /\ stored.commit = 0 /\ stored.others = 0 /\ stored.at = 0
      BY <1>1 DEF CommitInit
    <3>2. DOMAIN stored = {"text", "lock", "locked", "stale", "settlement", "status", "commit", "commits", "memoryOf", "others", "at"}
      BY DEF CommitInit
    <3>3. <<>> \in Seq(Commits)
      OBVIOUS
    <3>4. stored.commits \in Seq(Commits)
      BY <2>2, <3>3
    <3>5. {stored.lock, stored.settlement, stored.memoryOf} \subseteq Texts /\ {stored.commit, stored.others, stored.at} \subseteq Nat
      BY <3>1 DEF Texts
    <3>6. stored.status \in CommitStatuses \cup {""}
      BY <2>2
    <3> QED BY <3>1, <3>2, <3>4, <3>5, <3>6, Zenon DEF IsBook
  <2> QED BY <2>1, <2>2, <2>3 DEF Good, EachOnce, OnceLocked, Shown, Fresh
<1>3. stored.at \in Nat
  BY <1>2 DEF Good, IsBook
<1>4. DOMAIN tab = Tabs /\ DOMAIN reading = Tabs
  BY DEF CommitInit
<1>5. \A t \in Tabs : IsTab(tab[t]) /\ tab[t].book = stored /\ reading[t] = NotReading
  BY DEF CommitInit, IsTab
<1>6. TabBook(stored, stored)
  BY <1>2, <1>3 DEF TabBook, SameButText, Good
<1> QED BY <1>2, <1>4, <1>5, <1>6 DEF CommitInv, NotReading

LEMMA CommitStep ==
  ASSUME CommitInv, [CommitNext]_commitVars
  PROVE  CommitInv' /\ Keeps(stored, stored')
<1>1. CASE UNCHANGED commitVars
  BY <1>1, StepKeeps, TabsStay, ReadingsStay DEF Steps, commitVars
<1>2. ASSUME NEW t \in Tabs,
             \/ \E v \in Versions : Type(t, v)
             \/ SaveTab(t) \/ ReloadTab(t) \/ Accept(t) \/ StartReading(t)
             \/ \E whole \in BOOLEAN : FinishReading(t, whole)
             \/ ApplyMemory(t) \/ Degrade(t)
      PROVE  Steps
  BY <1>2, TypeSteps, SaveTabSteps, ReloadSteps, AcceptSteps, StartReadingSteps, FinishReadingSteps, ApplySteps, DegradeSteps
<1> QED BY <1>1, <1>2, OtherSaveSteps, StepKeeps DEF CommitNext

\* Several tabs that accept a chapter, again and with lost answers, read it
\* for minutes, apply and degrade settle each commit at most once, for its own
\* text, leave no committed memory of another text unmarked, and lose no
\* chapter that was saved meanwhile.
THEOREM CommitsSound == CommitSpec => CommitIsSound
<1>1. CommitInv => SettledOnce /\ CommittedIsOfTheText
  <2> SUFFICES ASSUME CommitInv PROVE SettledOnce /\ CommittedIsOfTheText
    OBVIOUS
  <2>1. SettledOnce
    BY DEF CommitInv, Good, EachOnce, SettledOnce
  <2>2. CommittedIsOfTheText
    <3> SUFFICES ASSUME stored.status = "committed", ~stored.stale
                 PROVE  stored.memoryOf = stored.text /\ Valid(stored, stored.commit)
      BY DEF CommittedIsOfTheText
    <3>1. Shown(stored) /\ Fresh(stored)
      BY DEF CommitInv, Good
    <3> QED BY <3>1 DEF Shown, Fresh, Valid
  <2> QED BY <2>1, <2>2
<1>2. CommitInv /\ [CommitNext]_commitVars => CommitInv' /\ [stored'.others >= stored.others]_commitVars
  BY CommitStep DEF Keeps
<1>3. CommitInv /\ [CommitNext]_commitVars =>
        [\A id \in DOMAIN stored.commits :
           /\ id \in DOMAIN stored'.commits
           /\ Commit(stored', id).hash = Commit(stored, id).hash
           /\ Commit(stored, id).status = "committed" => Commit(stored', id).status = "committed"]_commitVars
  BY CommitStep DEF Keeps
<1> QED BY CommitInvInit, <1>1, <1>2, <1>3, PTL DEF CommitSpec, CommitIsSound, OtherChaptersStand, CommittedStays

-----------------------------------------------------------------------------
(* MemoryStages: every list of stages with the first one as its core, every  *)
(* number of attempts.                                                       *)

AllStages == Range(Stages)
StageOutcomes == {"none", "skipped", "completed", "failed"}
Modes == {"none", "raised", "staged", "staged_partial", "compact", "local", "refused"}

StageTypes ==
  /\ only \in SUBSET AllStages /\ only # {}
  /\ next \in 1..Len(Stages) + 1 /\ stageTries \in 0..2 /\ cap \in Nat \ {0}
  /\ clock \in Nat /\ calls \in Nat
  /\ merged \in [AllStages -> Nat]
  /\ outcomes \in [AllStages -> StageOutcomes]
  /\ extracted \in Modes

\* The stages the extraction has gone through.
Passed == {s \in only : \E i \in 1..next - 1 : Stages[i] = s}

\* The place is that of a selected stage, and what is at it or after it has brought nothing.
AtSelected ==
  /\ next <= Len(Stages) => Stages[next] \in only
  /\ \A i \in next..Len(Stages) : merged[Stages[i]] = 0

\* A stage is begun, or begun again, when there is time: the required one stands first.
TimeLeft ==
  /\ clock <= Budget
  /\ extracted = "none" /\ stageTries > 0 => clock < Budget
  /\ extracted = "none" /\ stageTries = 0 /\ next = 1 => clock = 0

\* The calls so far: three for each stage passed, one for each attempt at this one.
CallsCounted ==
  /\ calls <= 3 * Cardinality(only)
  /\ extracted = "none" => calls <= 3 * Cardinality(Passed) + stageTries

\* What was given up brought nothing, and the required stage is passed completed only.
Reported ==
  /\ \A s \in AllStages : outcomes[s] = "completed" \/ merged[s] = 0
  /\ Core \in only /\ next > 1 => outcomes[Core] = "completed"
  /\ extracted \in {"staged", "staged_partial"} => next > Len(Stages)
  /\ extracted = "staged" => \A s \in only : outcomes[s] = "completed"

StagesInv == StageTypes /\ AtSelected /\ TimeLeft /\ CallsCounted /\ Reported

-----------------------------------------------------------------------------
(* The operators.                                                          *)

LEMMA MinIsIn ==
  ASSUME NEW S \in SUBSET Nat, S # {}
  PROVE  Min(S) \in S /\ \A x \in S : Min(S) <= x
<1> DEFINE R == OpToRel(<, Nat)
<1>1. IsWellFoundedOn(R, Nat)
  BY NatLessThanWellFounded
<1>2. \A k, m \in S : k < m => <<k, m>> \in R
  BY DEF OpToRel
<1>3. PICK m \in S : \A k \in S : <<k, m>> \notin R
  <2> HIDE DEF R
  <2> QED BY <1>1, WFMin
<1>4. \A k \in S : ~(k < m)
  BY <1>2, <1>3
<1> HIDE DEF R
<1>5. \A k \in S : m <= k
  BY <1>4
<1> QED BY <1>5 DEF Min

LEMMA MinOfTwo ==
  ASSUME NEW a \in Int, NEW b \in Int
  PROVE  Min({a, b}) = IF a <= b THEN a ELSE b
<1> DEFINE m == IF a <= b THEN a ELSE b
<1>1. m \in {a, b} /\ \A y \in {a, b} : m =< y
  OBVIOUS
<1>2. ASSUME NEW x \in {a, b}, \A y \in {a, b} : x =< y PROVE x = m
  BY <1>2
<1> QED BY <1>1, <1>2 DEF Min

LEMMA MaxOfTwo ==
  ASSUME NEW a \in Int, NEW b \in Int
  PROVE  Max({a, b}) = IF a >= b THEN a ELSE b
<1> DEFINE m == IF a >= b THEN a ELSE b
<1>1. m \in {a, b} /\ \A y \in {a, b} : m >= y
  OBVIOUS
<1>2. ASSUME NEW x \in {a, b}, \A y \in {a, b} : x >= y PROVE x = m
  BY <1>2
<1> QED BY <1>1, <1>2 DEF Max

LEMMA StagesNumbered ==
  /\ Len(Stages) \in Nat \ {0} /\ DOMAIN Stages = 1..Len(Stages)
  /\ \A i \in 1..Len(Stages) : Stages[i] \in AllStages
  /\ \A s \in AllStages : \E i \in 1..Len(Stages) : Stages[i] = s
  /\ \A i, j \in 1..Len(Stages) : Stages[i] = Stages[j] => i = j
  /\ Core = Stages[1] /\ Core \in AllStages
<1>1. Stages \in Seq(AllStages) /\ Stages # <<>>
  BY StagesAssumption DEF AllStages
<1>2. Len(Stages) \in Nat \ {0} /\ DOMAIN Stages = 1..Len(Stages)
  BY <1>1
<1>3. \A i, j \in 1..Len(Stages) : Stages[i] = Stages[j] => i = j
  BY <1>2, StagesAssumption DEF IsInjective
<1>4. \A i \in 1..Len(Stages) : Stages[i] \in AllStages
  BY <1>2 DEF AllStages, Range
<1>5. \A s \in AllStages : \E i \in 1..Len(Stages) : Stages[i] = s
  BY <1>2 DEF AllStages, Range
<1>6. 1 \in 1..Len(Stages)
  BY <1>2
<1> QED BY <1>2, <1>3, <1>4, <1>5, <1>6, StagesAssumption

LEMMA StagesFinite ==
  /\ IsFiniteSet(AllStages)
  /\ \A S \in SUBSET AllStages : IsFiniteSet(S) /\ Cardinality(S) \in Nat
<1>1. Stages \in [1..Len(Stages) -> AllStages]
  <2>1. Stages \in Seq(AllStages)
    BY StagesAssumption DEF AllStages
  <2> QED BY <2>1
<1>2. Stages \in Surjection(1..Len(Stages), AllStages)
  BY <1>1, StagesNumbered DEF Surjection
<1>3. IsFiniteSet(1..Len(Stages))
  BY StagesNumbered, FS_Interval
<1>4. IsFiniteSet(AllStages)
  BY <1>2, <1>3, FS_Surjection
<1>5. ASSUME NEW S \in SUBSET AllStages PROVE IsFiniteSet(S) /\ Cardinality(S) \in Nat
  <2>1. IsFiniteSet(S)
    BY <1>4, FS_Subset
  <2> QED BY <2>1, FS_CardinalityType
<1> QED BY <1>4, <1>5

\* The next selected stage from a place on, or the end.
LEMMA NextSelected ==
  ASSUME NEW i \in 1..Len(Stages) + 1
  PROVE  /\ SelectedFrom(i) \in i..Len(Stages) + 1
         /\ SelectedFrom(i) <= Len(Stages) => Stages[SelectedFrom(i)] \in only
         /\ \A j \in i..Len(Stages) : Stages[j] \in only => SelectedFrom(i) <= j
<1> DEFINE N == Len(Stages)
<1>1. N \in Nat
  BY StagesNumbered
<1> DEFINE S == {j \in i..N : Stages[j] \in only} \cup {N + 1}
<1>2. S \in SUBSET Nat /\ S # {}
  BY <1>1
<1>3. Min(S) \in S /\ \A x \in S : Min(S) <= x
  <2> HIDE DEF S
  <2> QED BY <1>2, MinIsIn
<1>4. SelectedFrom(i) = Min(S)
  BY DEF SelectedFrom
<1>5. SelectedFrom(i) \in S /\ \A x \in S : SelectedFrom(i) <= x
  BY <1>3, <1>4
<1> QED BY <1>1, <1>5

LEMMA FirstCapType ==
  ASSUME NEW i \in 1..Len(Stages) + 1
  PROVE  FirstCap(i) \in Nat \ {0}
<1>1. CASE i <= Len(Stages)
  <2>1. Stages[i] \in AllStages
    BY <1>1, StagesNumbered
  <2> QED BY <1>1, <2>1, StagesAssumption DEF FirstCap, AllStages
<1>2. CASE ~(i <= Len(Stages))
  BY <1>2 DEF FirstCap
<1> QED BY <1>1, <1>2

-----------------------------------------------------------------------------
(* The steps.                                                              *)

LEMMA InitStages == StagesInit => StagesInv
<1> SUFFICES ASSUME StagesInit PROVE StagesInv
  OBVIOUS
<1>1. /\ only \in SUBSET AllStages /\ only # {}
      /\ next = SelectedFrom(1) /\ stageTries = 0 /\ clock = 0 /\ calls = 0 /\ cap = FirstCap(next)
      /\ merged = [s \in AllStages |-> 0] /\ outcomes = [s \in AllStages |-> "none"] /\ extracted = "none"
  BY DEF StagesInit, AllStages
<1>2. 1 \in 1..Len(Stages) + 1
  BY StagesNumbered
<1>3. /\ next \in 1..Len(Stages) + 1
      /\ next <= Len(Stages) => Stages[next] \in only
      /\ \A j \in 1..Len(Stages) : Stages[j] \in only => next <= j
  BY <1>1, <1>2, NextSelected
<1>4. cap \in Nat \ {0}
  BY <1>1, <1>3, FirstCapType
<1>5. StageTypes
  BY <1>1, <1>3, <1>4 DEF StageTypes, StageOutcomes, Modes
<1>6. AtSelected
  BY <1>1, <1>3, StagesNumbered DEF AtSelected
<1>7. TimeLeft
  BY <1>1, StagesAssumption DEF TimeLeft
<1>8. CallsCounted
  <2>1. Passed \in SUBSET AllStages
    BY <1>1 DEF Passed
  <2>2. Cardinality(only) \in Nat /\ Cardinality(Passed) \in Nat
    BY <1>1, <2>1, StagesFinite
  <2> QED BY <1>1, <2>2 DEF CallsCounted
<1>9. Reported
  <2>1. Core \in only => next = 1
    BY <1>3, StagesNumbered
  <2> QED BY <1>1, <2>1 DEF Reported
<1> QED BY <1>5, <1>6, <1>7, <1>8, <1>9 DEF StagesInv

\* While stages are left, the one at work has not been passed: there are calls left for it.
LEMMA AtWork ==
  ASSUME StagesInv, Extracting
  PROVE  /\ next \in 1..Len(Stages) /\ Stage = Stages[next] /\ Stage \in only /\ Stage \in AllStages
         /\ Stage \notin Passed
         /\ \A i \in 1..Len(Stages) : Stages[i] = Stage => i = next
         /\ Stage = Core <=> next = 1
         /\ Cardinality(Passed) + 1 <= Cardinality(only)
         /\ Cardinality(Passed) \in Nat /\ Cardinality(only) \in Nat
<1>1. next \in 1..Len(Stages) /\ only \in SUBSET AllStages
  BY StagesNumbered DEF StagesInv, StageTypes, Extracting
<1>2. Stage = Stages[next] /\ Stage \in only /\ Stage \in AllStages
  BY <1>1 DEF StagesInv, AtSelected, Stage
<1>3. \A i \in 1..Len(Stages) : Stages[i] = Stage => i = next
  BY <1>1, <1>2, StagesNumbered
<1>4. Stage \notin Passed
  <2> SUFFICES ASSUME Stage \in Passed PROVE FALSE
    OBVIOUS
  <2>1. PICK i \in 1..next - 1 : Stages[i] = Stage
    BY DEF Passed
  <2>2. i \in 1..Len(Stages) /\ i # next
    BY <1>1, StagesNumbered
  <2> QED BY <1>3, <2>1, <2>2
<1>5. Stage = Core <=> next = 1
  BY <1>1, <1>2, <1>3, StagesNumbered
<1>6. Passed \in SUBSET only /\ Passed \cup {Stage} \in SUBSET only
  BY <1>2 DEF Passed
<1>7. IsFiniteSet(only) /\ IsFiniteSet(Passed) /\ Cardinality(Passed) \in Nat /\ Cardinality(only) \in Nat
  BY <1>1, <1>6, StagesFinite
<1>8. Cardinality(Passed \cup {Stage}) = Cardinality(Passed) + 1
  BY <1>4, <1>7, FS_AddElement
<1>9. Cardinality(Passed \cup {Stage}) <= Cardinality(only)
  BY <1>6, <1>7, FS_Subset
<1> QED BY <1>1, <1>2, <1>3, <1>4, <1>5, <1>7, <1>8, <1>9

\* Moving on passes the stage at work.
LEMMA Moved ==
  ASSUME StagesInv, Extracting, MoveOn, only' = only
  PROVE  /\ next' \in next + 1..Len(Stages) + 1 /\ stageTries' = 0 /\ cap' \in Nat \ {0}
         /\ next' <= Len(Stages) => Stages[next'] \in only'
         /\ Cardinality(Passed') \in Nat /\ Cardinality(Passed) + 1 <= Cardinality(Passed')
<1>1. next \in 1..Len(Stages) /\ Len(Stages) \in Nat
  BY AtWork, StagesNumbered
<1>2. next + 1 \in 1..Len(Stages) + 1
  BY <1>1
<1>3. next' = SelectedFrom(next + 1) /\ stageTries' = 0 /\ cap' = FirstCap(next')
  BY DEF MoveOn
<1>4. next' \in next + 1..Len(Stages) + 1 /\ (next' <= Len(Stages) => Stages[next'] \in only)
  BY <1>2, <1>3, NextSelected
<1>5. next' \in 1..Len(Stages) + 1
  BY <1>1, <1>4
<1>6. cap' \in Nat \ {0}
  BY <1>3, <1>5, FirstCapType
<1>7. Passed' = {s \in only : \E i \in 1..next' - 1 : Stages[i] = s}
  BY DEF Passed
<1>8. Passed \cup {Stage} \in SUBSET Passed'
  <2> PICK m \in next + 1..Len(Stages) + 1 : next' = m
    BY <1>4
  <2> DEFINE before == next - 1
  <2>0. before \in Nat /\ m - 1 \in Nat /\ before < m - 1 /\ next <= m - 1
    BY <1>1
  <2>1. 1..next - 1 \subseteq 1..next' - 1 /\ next \in 1..next' - 1
    BY <1>1, <2>0
  <2>2. Stage \in Passed'
    BY <2>1, <1>7, AtWork
  <2>3. Passed \subseteq Passed'
    BY <2>1, <1>7 DEF Passed
  <2> QED BY <2>2, <2>3
<1>9. Passed' \in SUBSET AllStages /\ Passed \in SUBSET AllStages
  BY <1>7 DEF Passed, StagesInv, StageTypes
<1>10. /\ IsFiniteSet(Passed') /\ IsFiniteSet(Passed)
       /\ Cardinality(Passed') \in Nat
  BY <1>9, StagesFinite
<1>11. Cardinality(Passed \cup {Stage}) = Cardinality(Passed) + 1
  BY <1>10, AtWork, FS_AddElement
<1>12. Cardinality(Passed \cup {Stage}) <= Cardinality(Passed')
  BY <1>8, <1>10, FS_Subset
<1> QED BY <1>3, <1>4, <1>6, <1>10, <1>11, <1>12

\* A call that is begun ends within the budget.
LEMMA CallEnds ==
  ASSUME StagesInv, Starts, NEW spent \in 0..CallTime, TimeOf(spent)
  PROVE  clock + spent <= Budget /\ clock + spent \in Nat /\ clock \in Nat /\ Budget \in Nat /\ stageTries \in 0..2
<1>1. /\ clock \in Nat /\ Budget \in Nat \ {0} /\ CallTime \in Nat \ {0} /\ LeastTime \in Nat \ {0}
      /\ stageTries \in 0..2 /\ Left = Budget - clock
  BY StagesAssumption DEF StagesInv, StageTypes, Left
<1>2. Extracting /\ extracted = "none" /\ (stageTries > 0 \/ Left >= LeastTime \/ Stage = Core)
  BY DEF Starts, Extracting
<1>3. Stage = Core => next = 1
  BY <1>2, AtWork
<1>4. Left >= 1
  BY <1>1, <1>2, <1>3 DEF StagesInv, TimeLeft
<1>5. Min({CallTime, Left}) = IF CallTime <= Left THEN CallTime ELSE Left
  BY <1>1, MinOfTwo
<1> DEFINE m == Min({CallTime, Left})
<1>6. m \in Int /\ m <= Left
  BY <1>1, <1>5
<1>7. Max({1, m}) = IF 1 >= m THEN 1 ELSE m
  <2> HIDE DEF m
  <2> QED BY <1>6, MaxOfTwo
<1>8. spent <= Max({1, m})
  BY DEF TimeOf
<1> HIDE DEF m
<1>9. spent <= Left
  BY <1>1, <1>4, <1>6, <1>7, <1>8
<1> QED BY <1>1, <1>9

\* What a stage reports and then moves on.
LEMMA ReportAndMove ==
  ASSUME StagesInv, Extracting, MoveOn, UNCHANGED <<only, extracted>>,
         NEW outcome \in StageOutcomes, StageReported(outcome),
         NEW brought \in Nat, outcome # "completed" => brought = 0, Stage = Core => outcome = "completed",
         merged' = [merged EXCEPT ![Stage] = brought],
         clock' \in Nat, clock' <= Budget,
         calls' \in Nat, calls' <= calls + 1
  PROVE  StagesInv'
<1>1. /\ next \in 1..Len(Stages) /\ Stage = Stages[next] /\ Stage \in AllStages
      /\ \A i \in 1..Len(Stages) : Stages[i] = Stage => i = next
  BY AtWork
<1>2. /\ next' \in next + 1..Len(Stages) + 1 /\ stageTries' = 0 /\ cap' \in Nat \ {0}
      /\ next' <= Len(Stages) => Stages[next'] \in only'
  BY Moved
<1>3. only \in SUBSET AllStages /\ only # {} /\ extracted = "none" /\ stageTries \in 0..2
  BY DEF StagesInv, StageTypes, Extracting
<1>4. merged \in [AllStages -> Nat] /\ outcomes \in [AllStages -> StageOutcomes]
  BY DEF StagesInv, StageTypes
<1>5. /\ merged' \in [AllStages -> Nat] /\ merged'[Stage] = brought
      /\ \A s \in AllStages \ {Stage} : merged'[s] = merged[s]
  BY <1>1, <1>4
<1>6. /\ outcomes' \in [AllStages -> StageOutcomes] /\ outcomes'[Stage] = outcome
      /\ \A s \in AllStages \ {Stage} : outcomes'[s] = outcomes[s]
  BY <1>1, <1>4 DEF StageReported
<1>7. next' \in 1..Len(Stages) + 1
  BY <1>1, <1>2, StagesNumbered
<1>8. StageTypes'
  BY <1>2, <1>3, <1>5, <1>6, <1>7 DEF StageTypes, Modes
<1>9. AtSelected'
  <2>1. ASSUME NEW i \in next'..Len(Stages) PROVE merged'[Stages[i]] = 0
    <3>1. i \in 1..Len(Stages) /\ i \in next..Len(Stages) /\ i # next
      BY <1>1, <1>2, StagesNumbered
    <3>2. Stages[i] \in AllStages \ {Stage}
      BY <1>1, <3>1, StagesNumbered
    <3> QED BY <1>5, <3>1, <3>2 DEF StagesInv, AtSelected
  <2> QED BY <1>2, <2>1 DEF AtSelected
<1>10. TimeLeft'
  <2>1. next' > 1 /\ next' # 1
    BY <1>1, <1>2, StagesNumbered
  <2> QED BY <1>2, <2>1 DEF TimeLeft
<1>11. CallsCounted'
  <2>1. calls <= 3 * Cardinality(Passed) + stageTries /\ calls \in Nat
    BY <1>3 DEF StagesInv, CallsCounted, StageTypes
  <2>2. /\ Cardinality(Passed) \in Nat /\ Cardinality(only) \in Nat
        /\ Cardinality(Passed) + 1 <= Cardinality(only)
    BY AtWork
  <2>3. PICK p \in Nat : p = Cardinality(Passed')
    BY Moved
  <2>4. Cardinality(Passed) + 1 <= p
    BY <2>3, Moved
  <2>5. calls' <= 3 * p + 0 /\ calls' <= 3 * Cardinality(only)
    BY <1>3, <2>1, <2>2, <2>4
  <2> QED BY <1>2, <2>3, <2>5 DEF CallsCounted
<1>12. Reported'
  <2>1. \A s \in AllStages : outcomes'[s] = "completed" \/ merged'[s] = 0
    BY <1>5, <1>6 DEF StagesInv, Reported
  <2>2. Core \in only => outcomes'[Core] = "completed"
    <3>1. CASE Stage = Core
      BY <3>1, <1>6
    <3>2. CASE Stage # Core
      <4>1. next > 1
        BY <1>1, <3>2, AtWork
      <4> QED BY <1>6, <3>2, <4>1, StagesNumbered DEF StagesInv, Reported
    <3> QED BY <3>1, <3>2
  <2> QED BY <1>3, <2>1, <2>2 DEF Reported
<1> QED BY <1>8, <1>9, <1>10, <1>11, <1>12 DEF StagesInv

\* The extraction is left at the stage at work.
LEMMA LeftAtStage ==
  ASSUME StagesInv, Extracting, extracted' = "raised",
         UNCHANGED <<only, next, merged>>, stageTries' \in 0..2, cap' \in Nat \ {0},
         outcomes' = outcomes \/ (Stage = Core /\ StageReported("failed")),
         clock' \in Nat, clock' <= Budget,
         calls' \in Nat, calls' <= calls + 1
  PROVE  StagesInv'
<1>1. /\ next \in 1..Len(Stages) /\ Stage = Stages[next] /\ Stage \in AllStages
      /\ Stage = Core <=> next = 1
  BY AtWork
<1>2. /\ only \in SUBSET AllStages /\ only # {} /\ next \in 1..Len(Stages) + 1 /\ extracted = "none"
      /\ merged \in [AllStages -> Nat] /\ outcomes \in [AllStages -> StageOutcomes] /\ stageTries \in 0..2
  BY DEF StagesInv, StageTypes, Extracting
<1>3. /\ outcomes' \in [AllStages -> StageOutcomes]
      /\ \A s \in AllStages : outcomes'[s] = outcomes[s] \/ (s = Stage /\ next = 1)
  BY <1>1, <1>2 DEF StageReported, StageOutcomes
<1>4. StageTypes'
  BY <1>2, <1>3 DEF StageTypes, Modes
<1>5. AtSelected'
  BY DEF StagesInv, AtSelected
<1>6. TimeLeft'
  BY DEF TimeLeft
<1>7. CallsCounted'
  <2>1. calls <= 3 * Cardinality(Passed) + stageTries /\ calls \in Nat
    BY <1>2 DEF StagesInv, CallsCounted, StageTypes
  <2>2. /\ Cardinality(Passed) \in Nat /\ Cardinality(only) \in Nat
        /\ Cardinality(Passed) + 1 <= Cardinality(only)
    BY AtWork
  <2>3. calls' <= 3 * Cardinality(only)
    <3>1. PICK x \in Nat : x = Cardinality(Passed)
      BY <2>2
    <3>2. PICK y \in Nat : y = Cardinality(only)
      BY <2>2
    <3>3. calls <= 3 * x + stageTries /\ x + 1 <= y
      BY <2>1, <2>2, <3>1, <3>2
    <3>4. calls' <= 3 * y
      BY <1>2, <2>1, <3>3
    <3> QED BY <3>2, <3>4
  <2> QED BY <2>3 DEF CallsCounted
<1>8. Reported'
  <2>1. \A i \in next..Len(Stages) : merged[Stages[i]] = 0
    BY DEF StagesInv, AtSelected
  <2>2. merged[Stage] = 0
    BY <1>1, <2>1, StagesNumbered
  <2>3. \A s \in AllStages : outcomes'[s] = "completed" \/ merged'[s] = 0
    BY <1>3, <2>2 DEF StagesInv, Reported
  <2>4. Core \in only /\ next > 1 => outcomes'[Core] = "completed"
    <3> SUFFICES ASSUME Core \in only, next > 1 PROVE outcomes'[Core] = "completed"
      OBVIOUS
    <3>1. next # 1
      BY <1>2
    <3> QED BY <1>3, <3>1, StagesNumbered DEF StagesInv, Reported
  <2> QED BY <2>3, <2>4 DEF Reported
<1> QED BY <1>4, <1>5, <1>6, <1>7, <1>8 DEF StagesInv

LEMMA KeepSkip == StagesInv /\ Skip => StagesInv'
<1> SUFFICES ASSUME StagesInv, Skip PROVE StagesInv'
  OBVIOUS
<1>1. /\ Extracting /\ Stage # Core /\ StageReported("skipped") /\ MoveOn
      /\ UNCHANGED <<only, extracted>> /\ merged' = merged /\ clock' = clock /\ calls' = calls
  BY DEF Skip
<1>2. next \in 1..Len(Stages) /\ Stage = Stages[next] /\ Stage \in AllStages
  BY <1>1, AtWork
<1>3. merged \in [AllStages -> Nat] /\ clock \in Nat /\ clock <= Budget /\ calls \in Nat
  BY DEF StagesInv, StageTypes, TimeLeft
<1>4. merged[Stage] = 0
  BY <1>2, StagesNumbered DEF StagesInv, AtSelected
<1>5. merged' = [merged EXCEPT ![Stage] = 0]
  BY <1>1, <1>2, <1>3, <1>4
<1>6. "skipped" \in StageOutcomes /\ "skipped" # "completed" /\ calls' <= calls + 1 /\ 0 \in Nat
  BY <1>1, <1>3 DEF StageOutcomes
<1> QED BY <1>1, <1>3, <1>5, <1>6, ReportAndMove

LEMMA KeepStageDone ==
  ASSUME StagesInv, NEW spent \in 0..CallTime, NEW items \in 0..(cap + 1), StageDone(items, spent)
  PROVE  StagesInv'
<1>1. /\ Starts /\ TimeOf(spent) /\ StageReported("completed") /\ MoveOn
      /\ UNCHANGED <<only, extracted>> /\ clock' = clock + spent /\ calls' = calls + 1
      /\ merged' = [merged EXCEPT ![Stage] = Min({items, cap})]
  BY DEF StageDone
<1>2. cap \in Nat \ {0} /\ calls \in Nat
  BY DEF StagesInv, StageTypes
<1>3. items \in Nat
  BY <1>2
<1>4. Min({items, cap}) = IF items <= cap THEN items ELSE cap
  BY <1>2, <1>3, MinOfTwo
<1>5. Min({items, cap}) \in Nat
  BY <1>2, <1>3, <1>4
<1>6. clock' \in Nat /\ clock' <= Budget
  BY <1>1, CallEnds
<1>7. calls' \in Nat /\ calls' <= calls + 1
  BY <1>1, <1>2
<1>8. "completed" \in StageOutcomes /\ Extracting
  BY <1>1 DEF StageOutcomes, Starts
<1> QED BY <1>1, <1>5, <1>6, <1>7, <1>8, ReportAndMove

\* A stage is given up after a call.
LEMMA KeepGiveUp ==
  ASSUME StagesInv, NEW spent \in 0..CallTime, Starts, TimeOf(spent), GiveUp,
         clock' = clock + spent, calls' = calls + 1, UNCHANGED <<only, merged>>
  PROVE  StagesInv'
<1>1. Extracting
  BY DEF Starts
<1>2. clock' \in Nat /\ clock' <= Budget
  BY CallEnds
<1>3. calls \in Nat /\ cap \in Nat \ {0} /\ stageTries \in 0..2 /\ merged \in [AllStages -> Nat]
  BY DEF StagesInv, StageTypes
<1>4. calls' \in Nat /\ calls' <= calls + 1
  BY <1>3
<1>5. CASE Stage = Core
  <2>1. StageReported("failed") /\ extracted' = "raised" /\ UNCHANGED <<next, stageTries, cap>>
    BY <1>5 DEF GiveUp
  <2> QED BY <1>1, <1>2, <1>3, <1>4, <1>5, <2>1, LeftAtStage
<1>6. CASE Stage # Core
  <2>1. StageReported("failed") /\ MoveOn /\ UNCHANGED <<only, extracted>>
    BY <1>6 DEF GiveUp
  <2>2. next \in 1..Len(Stages) /\ Stage = Stages[next] /\ Stage \in AllStages
    BY <1>1, AtWork
  <2>3. merged[Stage] = 0
    BY <2>2, StagesNumbered DEF StagesInv, AtSelected
  <2>4. merged' = [merged EXCEPT ![Stage] = 0]
    BY <1>3, <2>2, <2>3
  <2>5. "failed" \in StageOutcomes /\ "failed" # "completed" /\ 0 \in Nat
    BY DEF StageOutcomes
  <2> QED BY <1>1, <1>2, <1>4, <1>6, <2>1, <2>4, <2>5, ReportAndMove
<1> QED BY <1>5, <1>6

LEMMA KeepStageFailed ==
  ASSUME StagesInv, NEW spent \in 0..CallTime, StageFailed(spent)
  PROVE  StagesInv'
<1>1. /\ Starts /\ TimeOf(spent) /\ clock' = clock + spent /\ calls' = calls + 1
      /\ UNCHANGED <<only, merged>> /\ Extracting
  BY DEF StageFailed, Starts
<1> DEFINE last == Left - spent < LeastTime \/ cap <= 1 \/ stageTries = 2
<1>2. CASE last
  <2>1. GiveUp
    BY <1>2 DEF StageFailed
  <2> QED BY <1>1, <2>1, KeepGiveUp
<1>3. CASE ~last
  <2>1. stageTries' = stageTries + 1 /\ cap' = HalfOf(cap) /\ UNCHANGED <<next, outcomes, extracted>>
    BY <1>3 DEF StageFailed
  <2>2. /\ clock + spent <= Budget /\ clock + spent \in Nat /\ clock \in Nat /\ Budget \in Nat /\ stageTries \in 0..2
        /\ LeastTime \in Nat \ {0}
    BY <1>1, CallEnds, StagesAssumption
  <2>3. clock + spent < Budget
    BY <1>3, <2>2 DEF Left
  <2>4. stageTries' \in 0..2 /\ stageTries' > 0 /\ stageTries' # 0
    BY <1>3, <2>1, <2>2
  <2>5. cap' \in Nat \ {0}
    <3>1. cap \in Nat \ {0}
      BY DEF StagesInv, StageTypes
    <3>2. cap \div 2 \in Nat
      BY <3>1
    <3>3. Max({1, cap \div 2}) = IF 1 >= cap \div 2 THEN 1 ELSE cap \div 2
      BY <3>2, MaxOfTwo
    <3> QED BY <2>1, <3>2, <3>3 DEF HalfOf
  <2>6. StageTypes'
    BY <1>1, <2>1, <2>2, <2>4, <2>5 DEF StagesInv, StageTypes
  <2>7. AtSelected'
    BY <1>1, <2>1 DEF StagesInv, AtSelected
  <2>8. TimeLeft'
    BY <1>1, <2>2, <2>3, <2>4 DEF TimeLeft
  <2>9. CallsCounted'
    <3>1. calls <= 3 * Cardinality(Passed) + stageTries /\ calls \in Nat
      BY <1>1 DEF StagesInv, CallsCounted, StageTypes, Extracting
    <3>2. /\ Cardinality(Passed) \in Nat /\ Cardinality(only) \in Nat
          /\ Cardinality(Passed) + 1 <= Cardinality(only)
      BY <1>1, AtWork
    <3>3. calls' <= 3 * Cardinality(Passed) + stageTries' /\ calls' <= 3 * Cardinality(only)
      BY <1>1, <2>1, <2>2, <3>1, <3>2
    <3>4. Passed' = Passed
      BY <1>1, <2>1 DEF Passed
    <3> QED BY <1>1, <3>3, <3>4 DEF CallsCounted
  <2>10. Reported'
    BY <1>1, <2>1 DEF StagesInv, Reported
  <2> QED BY <2>6, <2>7, <2>8, <2>9, <2>10 DEF StagesInv
<1> QED BY <1>2, <1>3

LEMMA KeepStageBroken == StagesInv /\ StageBroken => StagesInv'
<1> SUFFICES ASSUME StagesInv, StageBroken PROVE StagesInv'
  OBVIOUS
<1>1. /\ Extracting /\ extracted' = "raised" /\ calls' = calls + 1
      /\ UNCHANGED <<only, next, stageTries, cap, clock, merged, outcomes>>
  BY DEF StageBroken, Starts
<1>2. calls \in Nat /\ cap \in Nat \ {0} /\ stageTries \in 0..2 /\ clock \in Nat /\ clock <= Budget
  BY DEF StagesInv, StageTypes, TimeLeft
<1>3. calls' \in Nat /\ calls' <= calls + 1
  BY <1>1, <1>2
<1> QED BY <1>1, <1>2, <1>3, LeftAtStage

\* Nothing but the answer of the request changes.
LEMMA Answered ==
  ASSUME StagesInv, UNCHANGED <<only, next, stageTries, cap, clock, calls, merged, outcomes>>,
         extracted' \in Modes \ {"none"},
         extracted' \in {"staged", "staged_partial"} => next > Len(Stages),
         extracted' = "staged" => \A s \in only : outcomes[s] = "completed"
  PROVE  StagesInv'
<1>1. StageTypes'
  BY DEF StagesInv, StageTypes
<1>2. AtSelected' /\ TimeLeft'
  BY DEF StagesInv, AtSelected, TimeLeft
<1>3. CallsCounted'
  BY DEF StagesInv, CallsCounted
<1>4. Reported'
  BY DEF StagesInv, Reported
<1> QED BY <1>1, <1>2, <1>3, <1>4 DEF StagesInv

LEMMA StepStages == StagesInv /\ [StagesNext]_stageVars => StagesInv'
<1> SUFFICES ASSUME StagesInv, [StagesNext]_stageVars PROVE StagesInv'
  OBVIOUS
<1>1. CASE Skip
  BY <1>1, KeepSkip
<1>2. CASE FinishStages
  <2>1. /\ next > Len(Stages) /\ UNCHANGED <<only, next, stageTries, cap, clock, calls, merged, outcomes>>
        /\ extracted' = IF Missing = {} THEN "staged" ELSE "staged_partial"
    BY <1>2 DEF FinishStages
  <2>2. extracted' = "staged" => \A s \in only : outcomes[s] = "completed"
    BY <2>1 DEF Missing
  <2>3. extracted' \in Modes \ {"none"}
    BY <2>1 DEF Modes
  <2> QED BY <2>1, <2>2, <2>3, Answered
<1>3. CASE StandIn
  <2>1. /\ UNCHANGED <<only, next, stageTries, cap, clock, calls, merged, outcomes>>
        /\ extracted' \in {"compact", "local", "refused"}
    BY <1>3 DEF StandIn
  <2>2. extracted' \in Modes \ {"none"} /\ extracted' \notin {"staged", "staged_partial"}
    BY <2>1 DEF Modes
  <2> QED BY <2>1, <2>2, Answered
<1>4. CASE StageBroken
  BY <1>4, KeepStageBroken
<1>5. ASSUME NEW spent \in 0..CallTime, NEW items \in 0..(cap + 1), StageDone(items, spent) PROVE StagesInv'
  BY <1>5, KeepStageDone
<1>6. ASSUME NEW spent \in 0..CallTime, StageFailed(spent) PROVE StagesInv'
  BY <1>6, KeepStageFailed
<1>7. ASSUME NEW spent \in 0..CallTime, StageRefused(spent) PROVE StagesInv'
  <2>1. Starts /\ TimeOf(spent) /\ clock' = clock + spent /\ calls' = calls + 1 /\ GiveUp /\ UNCHANGED <<only, merged>>
    BY <1>7 DEF StageRefused
  <2> QED BY <2>1, KeepGiveUp
<1>8. CASE UNCHANGED stageVars
  <2>1. UNCHANGED <<only, next, stageTries, cap, clock, calls, merged, outcomes, extracted>>
    BY <1>8 DEF stageVars
  <2>2. StageTypes' /\ AtSelected' /\ TimeLeft'
    BY <2>1 DEF StagesInv, StageTypes, AtSelected, TimeLeft
  <2>3. CallsCounted' /\ Reported'
    BY <2>1 DEF StagesInv, CallsCounted, Passed, Reported
  <2> QED BY <2>2, <2>3 DEF StagesInv
<1> QED BY <1>1, <1>2, <1>3, <1>4, <1>5, <1>6, <1>7, <1>8 DEF StagesNext

\* However the model answers, the stages of the memory end within the budget of time and with three calls
\* each at most, and what is handed on as extracted holds the required stage and nothing of one given up.
THEOREM StagesBounded == StagesSpec => []StagesAreBounded
<1>1. StagesInv => StagesAreBounded
  <2> SUFFICES ASSUME StagesInv PROVE StagesAreBounded
    OBVIOUS
  <2>1. WithinBudget /\ CallsBounded
    BY DEF StagesInv, TimeLeft, CallsCounted, WithinBudget, CallsBounded
  <2>2. CoreIsIn
    <3> SUFFICES ASSUME extracted \in {"staged", "staged_partial"}
                 PROVE  /\ Core \in only => outcomes[Core] = "completed"
                        /\ \A s \in only : outcomes[s] # "completed" => merged[s] = 0 /\ extracted = "staged_partial"
      BY DEF CoreIsIn
    <3>1. next > Len(Stages) /\ next \in Nat /\ Len(Stages) \in Nat \ {0} /\ only \subseteq AllStages
      BY StagesNumbered DEF StagesInv, Reported, StageTypes
    <3>2. next > 1
      BY <3>1
    <3> QED BY <3>1, <3>2 DEF StagesInv, Reported
  <2> QED BY <2>1, <2>2 DEF StagesAreBounded
<1> QED BY <1>1, InitStages, StepStages, PTL DEF StagesSpec

-----------------------------------------------------------------------------
(* MemoryLedger: every number of chapters, set of texts and of failing       *)
(* stages, and number of rewrites.                                           *)

Entry == [source : 0..Size, current : BOOLEAN, by : PlaceNames \cup {"-"}]
Claim == [source : 0..Size, from : 0..Size, until : 0..Size, active : BOOLEAN]
Ways == {"-", "settled", "repaired", "refined"}

LedgerTypes ==
  /\ story \in [Pages -> Stories] /\ done \in SUBSET Pages /\ missing \in [Pages -> SUBSET StageKinds]
  /\ late \in [Pages -> Ways] /\ rewrites \in [edits : Nat, refines : Nat]
  /\ card.last \in 0..LatestSettled
  /\ places \in [PlaceNames -> Entry] /\ facts \in [FactTexts -> Claim]
  /\ \A e \in events : e.chapter \in done
  /\ thread.last \in 0..Size /\ bond.last \in 0..Size

\* The flagged chapters are the last ones; the chapter before them is not behind the settled ones.
FlagsRun == \E u \in 1..Size + 1 : flagged = u..Size /\ (u <= Size => u - 1 <= LatestSettled)

\* A chapter told out of turn has a later one that was settled.
LateIsBehind == \A m \in Pages : late[m] # "-" => m \in done /\ m < LatestSettled

\* The card is as far as any chapter told in its turn, and says what that one says.
CardOf(m) == m <= card.last /\ (m = card.last => card.place = Told(m))
CardInv == \A m \in done : m \notin flagged /\ late[m] = "-" /\ Told(m) # "-" => CardOf(m)

InTurn == \A m \in Pages : late[m] = "-"
PlacesInv ==
  /\ Rewritten = 0 => flagged = {}
  /\ Rewritten = 0 /\ InTurn => \A p \in PlaceNames : places[p].current => p = card.place

\* What is late or flagged behind an event says nothing about it.
OnTime(k) == k \notin flagged /\ \A m \in 1..k : late[m] = "-"
ItemsInv ==
  \A e \in events :
    OnTime(e.chapter) /\ e.state = "active" /\ ItemBefore(events, e.chapter) = "lost" => story[e.chapter].item = "found"

Known(fact) == fact.source # 0
Original(fact) == Known(fact) /\ fact.source = fact.from
Effective(fact) == fact.active \/ fact.until # 0
Superseded(f, g) == ~f.active /\ f.until < g.from

\* Where the facts of the memory are from.
FactPlaced(fact) == IF Known(fact) THEN fact.from \in done /\ fact.source \in done /\ (fact.active => fact.until = 0) ELSE fact = NoFact
FactTold(f, fact) == Known(fact) /\ fact.source \notin flagged => story[fact.source].fact = f
FactWhole(fact) == Known(fact) /\ fact.from \notin flagged => "facts" \notin missing[fact.from]
Apart(f, g) == Known(f) /\ Known(g) => f.from # g.from

\* Of two facts told once each, in their turn, the later has replaced the earlier.
Succeeds(f, g) ==
  /\ Original(f) /\ Original(g) /\ Effective(g) /\ f.from < g.from
  /\ g.from \notin flagged /\ late[f.from] # "settled" /\ late[g.from] # "settled"
  => Superseded(f, g)

FactsSound(W) ==
  /\ \A f \in FactTexts : FactPlaced(W[f]) /\ FactTold(f, W[f]) /\ FactWhole(W[f])
  /\ \A f, g \in FactTexts : f # g => Apart(W[f], W[g]) /\ Succeeds(W[f], W[g])

FactsInv == rewrites.refines = 0 => FactsSound(facts)

LedgerInv ==
  /\ LedgerTypes /\ FlagsRun /\ LateIsBehind /\ CardInv /\ PlacesInv /\ ItemsInv /\ FactsInv
  /\ ThreadIsNewest /\ GraphFollowsMemory

-----------------------------------------------------------------------------
(* The operators.                                                          *)

\* A nonempty set of chapters has a last one.
LEMMA LastChapter ==
  ASSUME NEW S \in SUBSET Pages, S # {}
  PROVE  Max(S) \in S /\ \A x \in S : x <= Max(S)
<1> DEFINE R == OpToRel(<, Nat)
           T == {Size - x : x \in S}
<1>1. IsWellFoundedOn(R, Nat)
  BY NatLessThanWellFounded
<1>2. Size \in Nat /\ \A x \in S : x \in Nat /\ x <= Size
  BY LedgerAssumption DEF Pages
<1>3. T \in SUBSET Nat /\ T # {}
  BY <1>2
<1>4. \A k, m \in T : k < m => <<k, m>> \in R
  BY <1>3 DEF OpToRel
<1>5. PICK m \in T : \A k \in T : <<k, m>> \notin R
  <2> HIDE DEF R, T
  <2> QED BY <1>1, <1>3, WFMin
<1>6. \A k \in T : ~(k < m)
  BY <1>4, <1>5
<1>7. PICK x \in S : m = Size - x
  BY <1>5
<1>8. \A y \in S : x >= y
  <2> SUFFICES ASSUME NEW y \in S PROVE x >= y
    OBVIOUS
  <2>1. Size - y \in T
    OBVIOUS
  <2>2. ~(Size - y < Size - x)
    BY <1>6, <1>7, <2>1
  <2> QED BY <1>2, <2>2
<1>9. Max(S) \in S /\ \A y \in S : Max(S) >= y
  BY <1>8 DEF Max
<1> QED BY <1>2, <1>9

\* The last of the chapters with one more.
LEMMA LastWithOneMore ==
  ASSUME NEW S \in SUBSET Pages, NEW n \in Pages, NEW l, l = (IF S = {} THEN 0 ELSE Max(S))
  PROVE  Max(S \cup {n}) = (IF l <= n THEN n ELSE l) /\ l \in 0..Size
<1>1. n \in Nat /\ 1 <= n /\ n <= Size /\ Size \in Nat
  BY LedgerAssumption DEF Pages
<1>2. l \in 0..Size /\ (\A x \in S : x <= l) /\ (S # {} => l \in S)
  <2>1. CASE S = {}
    BY <1>1, <2>1
  <2>2. CASE S # {}
    <3>1. l \in S /\ \A x \in S : x <= l
      BY <2>2, LastChapter
    <3>2. l \in 1..Size
      BY <3>1 DEF Pages
    <3> QED BY <1>1, <3>1, <3>2
  <2> QED BY <2>1, <2>2
<1>3. PICK m : m = Max(S \cup {n})
  OBVIOUS
<1>4. m \in S \cup {n} /\ n <= m /\ \A x \in S : x <= m
  <2>1. S \cup {n} \in SUBSET Pages /\ S \cup {n} # {} /\ n \in S \cup {n} /\ S \subseteq S \cup {n}
    OBVIOUS
  <2> QED BY <1>3, <2>1, LastChapter
<1>5. m \in Nat
  BY <1>4 DEF Pages
<1>6. CASE S = {}
  BY <1>1, <1>2, <1>3, <1>4, <1>5, <1>6
<1>7. CASE S # {}
  <2>1. l <= m /\ l \in Nat /\ (m = n \/ m <= l)
    BY <1>2, <1>4, <1>7
  <2> QED BY <1>1, <1>2, <1>3, <1>4, <1>5, <2>1
<1> QED BY <1>6, <1>7

LEMMA LatestIs ==
  ASSUME NEW D \in SUBSET Pages, NEW l, l = (IF D = {} THEN 0 ELSE Max(D))
  PROVE  l \in 0..Size /\ \A m \in D : m <= l
<1>1. Size \in Nat
  BY LedgerAssumption
<1> QED BY <1>1, LastChapter DEF Pages

\* A settlement only moves the last settled chapter on.
LEMMA LatestMoves ==
  ASSUME LedgerTypes, NEW n \in Pages, done' = done \cup {n}
  PROVE  /\ LatestSettled \in 0..Size /\ LatestSettled' \in 0..Size
         /\ LatestSettled <= LatestSettled' /\ n <= LatestSettled' /\ \A m \in done : m <= LatestSettled
<1>1. done \in SUBSET Pages /\ done' \in SUBSET Pages
  BY DEF LedgerTypes
<1>2. PICK l : l = LatestSettled
  OBVIOUS
<1>3. PICK k : k = LatestSettled'
  OBVIOUS
<1>4. l \in 0..Size /\ \A m \in done : m <= l
  BY <1>1, <1>2, LatestIs DEF LatestSettled
<1>5. k \in 0..Size /\ \A m \in done' : m <= k
  BY <1>1, <1>3, LatestIs DEF LatestSettled
<1>6. l = 0 \/ l \in done
  BY <1>1, <1>2, LastChapter DEF LatestSettled
<1>7. l <= k /\ n <= k
  BY <1>4, <1>5, <1>6
<1> QED BY <1>2, <1>3, <1>4, <1>5, <1>7

\* What the flags are, asked of a chapter.
LEMMA FlagsAre ==
  ASSUME NEW u \in 1..Size + 1, flagged = u..Size, NEW n \in Pages
  PROVE  /\ StaleFrom(flagged) = (IF u <= Size THEN u ELSE 0)
         /\ Rebuilds(n) <=> n = u
         /\ MaySettle(n) => u = n \/ u = Size + 1
         /\ n \in flagged <=> u <= n
         /\ flagged = {} <=> u = Size + 1
<1>1. Size \in Nat \ {0} /\ n \in 1..Size
  BY LedgerAssumption DEF Pages
<1>2. flagged = {} <=> u = Size + 1
  BY <1>1
<1>3. n \in flagged <=> u <= n
  BY <1>1
<1>4. StaleFrom(flagged) = (IF u <= Size THEN u ELSE 0)
  <2>1. CASE u <= Size
    <3>1. u \in flagged /\ \A y \in flagged : u <= y
      BY <1>1, <2>1
    <3>2. \A x \in flagged : (\A y \in flagged : x <= y) => x = u
      <4> SUFFICES ASSUME NEW x \in flagged, \A y \in flagged : x <= y PROVE x = u
        OBVIOUS
      <4>1. x <= u /\ u <= x
        BY <3>1
      <4> QED BY <1>1, <4>1
    <3>3. Min(flagged) = u
      BY <3>1, <3>2 DEF Min
    <3> QED BY <2>1, <3>1, <3>3 DEF StaleFrom
  <2>2. CASE ~(u <= Size)
    <3>1. flagged = {}
      BY <1>1, <2>2
    <3> QED BY <2>2, <3>1 DEF StaleFrom
  <2> QED BY <2>1, <2>2
<1>5. Rebuilds(n) <=> n = u
  BY <1>1, <1>4 DEF Rebuilds
<1>6. MaySettle(n) => u = n \/ u = Size + 1
  BY <1>1, <1>2, <1>4 DEF MaySettle
<1> QED BY <1>2, <1>3, <1>4, <1>5, <1>6

-----------------------------------------------------------------------------
(* The two ways in which a chapter is written to the memory in its place.  *)

Text(s) ==
  s.place \in PlaceNames \cup {"-"} /\ s.fact \in FactTexts \cup {"-"} /\ s.item \in {"-", "lost", "back", "found"}

\* Chapter n is settled with text s: u is the first flagged chapter before, v after it.
Writes(n, u, v, s) ==
  /\ u \in {n, Size + 1} /\ flagged = u..Size
  /\ v \in {n + 1, Size + 1} /\ flagged' = v..Size /\ (u = n => v = n + 1)
  /\ Apply(n, s) /\ Text(s) /\ done' = done \cup {n}
  /\ \A m \in Pages \ {n} : story'[m] = story[m] /\ missing'[m] = missing[m] /\ late'[m] = late[m]
  /\ story' \in [Pages -> Stories] /\ missing' \in [Pages -> SUBSET StageKinds] /\ late' \in [Pages -> Ways]
  /\ s.place = Told(n)' /\ s.item \in {"-", story'[n].item}
  /\ (late'[n] = "-" <=> ~(n < LatestSettled /\ n < u))

\* What a settlement of the present text is, beyond that.
SettlesText(n, s) ==
  /\ story' = story /\ rewrites' = rewrites /\ flagged' = flagged \ {n} /\ (n \notin done \/ n \in flagged)
  /\ s.fact # "-" => s.fact = story[n].fact /\ "facts" \notin missing'[n]
  /\ s.thread = (IF "threads" \in missing'[n] THEN "-" ELSE story[n].thread)
  /\ late'[n] \in {"-", "settled"}

LEMMA StoryIsText ==
  ASSUME NEW t \in Stories, NEW stages
  PROVE  Text(t) /\ Text(Extracted(t, stages))
<1>1. Text(t)
  BY LedgerAssumption DEF Text, PlaceNames, FactTexts
<1> QED BY <1>1 DEF Text, Extracted

LEMMA SettleWrites ==
  ASSUME LedgerTypes, FlagsRun, NEW n \in Pages, SettlePage(n)
  PROVE  \E u, v \in 1..Size + 1 : \E s : Writes(n, u, v, s) /\ SettlesText(n, s)
<1>1. PICK u \in 1..Size + 1 : flagged = u..Size
  BY DEF FlagsRun
<1>2. Size \in Nat \ {0} /\ n \in 1..Size
  BY LedgerAssumption DEF Pages
<1>3. u \in {n, Size + 1} /\ (n \in flagged <=> u <= n)
  BY <1>1, FlagsAre DEF SettlePage
<1>4. PICK lapse \in Lapses : Apply(n, Extracted(story[n], StageKinds \ lapse)) /\ missing' = [missing EXCEPT ![n] = lapse]
  BY DEF SettlePage
<1>5. PICK s : s = Extracted(story[n], StageKinds \ lapse)
  OBVIOUS
<1>6. lapse \subseteq StageKinds /\ story[n] \in Stories
  BY LedgerAssumption DEF LedgerTypes
<1>7. PICK v \in 1..Size + 1 : v = IF u = n THEN n + 1 ELSE Size + 1
  BY <1>2
<1>8. flagged' = v..Size
  <2>1. flagged' = flagged \ {n}
    BY DEF SettlePage
  <2>2. CASE u = n
    BY <1>1, <1>2, <1>7, <2>1, <2>2
  <2>3. CASE u = Size + 1
    BY <1>1, <1>2, <1>7, <2>1, <2>3
  <2> QED BY <1>3, <2>2, <2>3
<1>9. Text(s)
  BY <1>5, <1>6, StoryIsText
<1>10. missing'[n] = lapse /\ missing' \in [Pages -> SUBSET StageKinds] /\ \A m \in Pages \ {n} : missing'[m] = missing[m]
  BY <1>4, <1>6 DEF LedgerTypes
<1>11. /\ story' = story /\ rewrites' = rewrites /\ flagged' = flagged \ {n} /\ done' = done \cup {n} /\ (n \notin done \/ n \in flagged)
       /\ late' = [late EXCEPT ![n] = IF Historical(n) THEN "settled" ELSE "-"]
  BY DEF SettlePage
<1>12. late' \in [Pages -> Ways] /\ (late'[n] = "-" <=> ~Historical(n)) /\ late'[n] \in {"-", "settled"} /\ \A m \in Pages \ {n} : late'[m] = late[m]
  BY <1>11 DEF LedgerTypes, Ways
<1>13. Historical(n) <=> n < LatestSettled /\ n < u
  <2>1. Historical(n) <=> n < LatestSettled /\ n \notin flagged
    BY DEF Historical
  <2>2. n \notin flagged <=> n < u
    BY <1>2, <1>3
  <2> QED BY <2>1, <2>2
<1>14. s.place = Told(n)'
  <2>1. Told(n)' = IF "characters" \notin lapse THEN story[n].place ELSE "-"
    BY <1>10, <1>11 DEF Told
  <2>2. s.place = IF "characters" \in StageKinds \ lapse THEN story[n].place ELSE "-"
    BY <1>5 DEF Extracted
  <2> QED BY <2>1, <2>2 DEF StageKinds
<1>15. s.item \in {"-", story'[n].item}
  BY <1>5, <1>11 DEF Extracted
<1>16. /\ s.fact # "-" => s.fact = story[n].fact /\ "facts" \notin lapse
       /\ s.thread = (IF "threads" \in lapse THEN "-" ELSE story[n].thread)
  <2>1. s.fact = (IF "facts" \in StageKinds \ lapse THEN story[n].fact ELSE "-")
    BY <1>5 DEF Extracted
  <2>2. s.thread = (IF "threads" \in StageKinds \ lapse THEN story[n].thread ELSE "-")
    BY <1>5 DEF Extracted
  <2> QED BY <2>1, <2>2 DEF StageKinds
<1>17. Apply(n, s)
  BY <1>4, <1>5
<1>18. SettlesText(n, s)
  BY <1>10, <1>11, <1>12, <1>16 DEF SettlesText
<1>19. story' \in [Pages -> Stories]
  BY <1>11 DEF LedgerTypes
<1>20. Writes(n, u, v, s)
  BY <1>1, <1>3, <1>7, <1>8, <1>9, <1>10, <1>11, <1>12, <1>13, <1>14, <1>15, <1>17, <1>19 DEF Writes
<1> QED BY <1>18, <1>20

LEMMA RefineWrites ==
  ASSUME LedgerTypes, FlagsRun, NEW n \in Pages, RefinePage(n)
  PROVE  /\ \E u, v \in 1..Size + 1 : \E s : Writes(n, u, v, s)
         /\ rewrites' \in [edits : Nat, refines : Nat] /\ rewrites'.refines # 0 /\ Rewritten' # 0
<1>1. PICK u \in 1..Size + 1 : flagged = u..Size
  BY DEF FlagsRun
<1>2. Size \in Nat \ {0} /\ n \in 1..Size
  BY LedgerAssumption DEF Pages
<1>3. u \in {n, Size + 1} /\ (n \in flagged <=> u <= n)
  BY <1>1, FlagsAre DEF RefinePage
<1>4. PICK s \in Stories \ {story[n]} : story' = [story EXCEPT ![n] = s] /\ Apply(n, s)
  BY DEF RefinePage
<1>5. PICK v \in 1..Size + 1 : v = n + 1
  BY <1>2
<1>6. flagged' = v..Size
  <2>1. flagged' = (flagged \ {n}) \cup n + 1..Size
    BY DEF RefinePage
  <2>2. CASE u = n
    BY <1>1, <1>2, <1>5, <2>1, <2>2
  <2>3. CASE u = Size + 1
    BY <1>1, <1>2, <1>5, <2>1, <2>3
  <2> QED BY <1>3, <2>2, <2>3
<1>7. Text(s)
  BY <1>4, StoryIsText
<1>8. missing' = [missing EXCEPT ![n] = {}] /\ n \in done /\ done' = done
      /\ late' = [late EXCEPT ![n] = IF Historical(n) THEN "refined" ELSE "-"]
      /\ rewrites' = [rewrites EXCEPT !.refines = @ + 1]
  BY DEF RefinePage
<1>9. missing'[n] = {} /\ missing' \in [Pages -> SUBSET StageKinds] /\ \A m \in Pages \ {n} : missing'[m] = missing[m]
  BY <1>8 DEF LedgerTypes
<1>10. story'[n] = s /\ story' \in [Pages -> Stories] /\ \A m \in Pages \ {n} : story'[m] = story[m]
  BY <1>4 DEF LedgerTypes
<1>11. late' \in [Pages -> Ways] /\ (late'[n] = "-" <=> ~Historical(n)) /\ \A m \in Pages \ {n} : late'[m] = late[m]
  BY <1>8 DEF LedgerTypes, Ways
<1>12. Historical(n) <=> n < LatestSettled /\ n < u
  <2>1. Historical(n) <=> n < LatestSettled /\ n \notin flagged
    BY DEF Historical
  <2>2. n \notin flagged <=> n < u
    BY <1>2, <1>3
  <2> QED BY <2>1, <2>2
<1>13. s.place = Told(n)'
  BY <1>8, <1>9, <1>10 DEF Told
<1>14. done' = done \cup {n}
  BY <1>8
<1>15. Writes(n, u, v, s)
  BY <1>1, <1>3, <1>4, <1>5, <1>6, <1>7, <1>9, <1>10, <1>11, <1>12, <1>13, <1>14 DEF Writes
<1>16. PICK e \in Nat, r \in Nat : rewrites = [edits |-> e, refines |-> r]
  BY DEF LedgerTypes
<1>17. rewrites' = [edits |-> e, refines |-> r + 1]
  BY <1>8, <1>16
<1>18. rewrites'.edits = e /\ rewrites'.refines = r + 1
  BY <1>17
<1>19. Rewritten' = e + (r + 1)
  BY <1>18 DEF Rewritten
<1> QED BY <1>15, <1>17, <1>18, <1>19

\* Where the flags and the late chapters are after that.
LEMMA WritesFlags ==
  ASSUME LedgerTypes, FlagsRun, LateIsBehind, NEW n \in Pages, NEW u \in 1..Size + 1, NEW v \in 1..Size + 1, NEW s,
         Writes(n, u, v, s)
  PROVE  /\ FlagsRun' /\ LateIsBehind'
         /\ u = n => n - 1 <= LatestSettled
<1>1. flagged = u..Size /\ flagged' = v..Size /\ u \in {n, Size + 1} /\ v \in {n + 1, Size + 1} /\ (u = n => v = n + 1)
  BY DEF Writes
<1>2. Size \in Nat \ {0} /\ n \in 1..Size
  BY LedgerAssumption DEF Pages
<1>3. /\ LatestSettled \in 0..Size /\ LatestSettled' \in 0..Size
      /\ LatestSettled <= LatestSettled' /\ n <= LatestSettled' /\ \A m \in done : m <= LatestSettled
  BY LatestMoves DEF Writes
<1>4. FlagsRun'
  <2>1. v <= Size => v - 1 <= LatestSettled'
    BY <1>1, <1>2, <1>3
  <2> QED BY <1>1, <2>1 DEF FlagsRun
<1>5. LateIsBehind'
  <2> SUFFICES ASSUME NEW m \in Pages, late'[m] # "-" PROVE m \in done' /\ m < LatestSettled'
    BY DEF LateIsBehind
  <2>1. CASE m = n
    <3>1. n < LatestSettled
      BY <2>1 DEF Writes
    <3> QED BY <1>2, <1>3, <2>1, <3>1 DEF Writes
  <2>2. CASE m # n
    <3>1. late[m] # "-"
      BY <2>2 DEF Writes
    <3>2. m \in done /\ m < LatestSettled
      BY <3>1 DEF LateIsBehind
    <3>3. m \in 1..Size
      BY DEF Pages
    <3> QED BY <1>3, <3>2, <3>3 DEF Writes
  <2> QED BY <2>1, <2>2
<1>6. u = n => n - 1 <= LatestSettled
  <2> SUFFICES ASSUME u = n PROVE n - 1 <= LatestSettled
    OBVIOUS
  <2>1. PICK w \in 1..Size + 1 : flagged = w..Size /\ (w <= Size => w - 1 <= LatestSettled)
    BY DEF FlagsRun
  <2>2. w = u
    <3>1. n \in flagged
      BY <1>1, <1>2
    <3>2. w <= n
      BY <1>2, <2>1, <3>1
    <3>3. w \in flagged
      BY <1>2, <2>1, <3>2
    <3> QED BY <1>1, <1>2, <3>2, <3>3
  <2> QED BY <1>2, <2>1, <2>2
<1> QED BY <1>4, <1>5, <1>6
-----------------------------------------------------------------------------
(* The character's card.                                                   *)

LEMMA WritesCard ==
  ASSUME LedgerTypes, FlagsRun, LateIsBehind, CardInv,
         NEW n \in Pages, NEW u \in 1..Size + 1, NEW v \in 1..Size + 1, NEW s, Writes(n, u, v, s)
  PROVE  CardInv' /\ card'.last \in 0..LatestSettled'
<1>1. flagged = u..Size /\ flagged' = v..Size /\ u \in {n, Size + 1} /\ v \in {n + 1, Size + 1} /\ (u = n => v = n + 1)
  BY DEF Writes
<1>2. Size \in Nat \ {0} /\ n \in 1..Size
  BY LedgerAssumption DEF Pages
<1>3. PICK l \in 0..Size : l = LatestSettled
  BY LatestMoves DEF Writes
<1>4. PICK k \in 0..Size : k = LatestSettled'
  BY LatestMoves DEF Writes
<1>5. l <= k /\ n <= k /\ \A m \in done : m <= l
  BY <1>3, <1>4, LatestMoves DEF Writes
<1>6. PICK c : c = CardAt(n)
  OBVIOUS
<1>7. card' = CardAfter(c, n, s) /\ done' = done \cup {n} /\ s.place = Told(n)'
  BY <1>6 DEF Writes, Apply
<1>8. card.last \in 0..l
  BY <1>3 DEF LedgerTypes
<1>9. Rebuilds(n) <=> n = u
  BY <1>1, FlagsAre
<1>10. c.last \in 0..l /\ (u = n => c.last = n - 1) /\ (u # n => c = card)
  <2>1. CASE u = n
    <3>1. c.last = n - 1
      BY <1>6, <1>9, <2>1 DEF CardAt
    <3>2. n - 1 <= l
      BY <1>3, <2>1, WritesFlags
    <3> QED BY <1>2, <1>3, <2>1, <3>1, <3>2
  <2>2. CASE u # n
    BY <1>6, <1>8, <1>9, <2>2 DEF CardAt
  <2> QED BY <2>1, <2>2
<1>11. card'.last \in 0..k
  <2>1. card' = [place |-> s.place, last |-> n] \/ card' = c
    BY <1>7 DEF CardAfter
  <2> QED BY <1>2, <1>3, <1>4, <1>5, <1>10, <2>1
<1>12. late'[n] = "-" <=> ~(n < l /\ n < u)
  BY <1>3 DEF Writes
<1>13. Historical(n) <=> n < l /\ n < u
  <2>1. n \notin flagged <=> n < u
    BY <1>1, <1>2
  <2> QED BY <1>3, <2>1 DEF Historical
<1>14. MayProject(c, n) <=> IF c.last > 0 THEN n >= c.last ELSE ~(n < l /\ n < u)
  BY <1>13 DEF MayProject
\* a chapter in its turn has the card
<1>15. ASSUME late'[n] = "-", Told(n)' # "-" PROVE CardOf(n)'
  <2>1. MayProject(c, n)
    <3>1. CASE u = n
      BY <1>2, <1>10, <1>14, <3>1
    <3>2. CASE u # n
      <4>1. ~(n < l)
        BY <1>1, <1>2, <1>12, <1>15, <3>2
      <4> QED BY <1>2, <1>3, <1>10, <1>14, <4>1
    <3> QED BY <3>1, <3>2
  <2>2. card' = [place |-> Told(n)', last |-> n]
    BY <1>7, <1>15, <2>1 DEF CardAfter
  <2> QED BY <1>2, <2>2 DEF CardOf
\* the chapters before, of which the card is known
<1>16. ASSUME NEW m \in done, m # n, m \notin flagged', late'[m] = "-", Told(m)' # "-" PROVE CardOf(m)'
  <2>1. m \in 1..Size /\ m \in Pages /\ m <= l
    BY <1>5 DEF LedgerTypes, Pages
  <2>2. m \notin flagged /\ late[m] = "-" /\ Told(m)' = Told(m)
    <3>1. story'[m] = story[m] /\ missing'[m] = missing[m] /\ late'[m] = late[m]
      BY <1>16, <2>1 DEF Writes
    <3>2. Told(m)' = Told(m)
      BY <1>7, <1>16, <3>1 DEF Told
    <3> QED BY <1>1, <1>2, <1>16, <2>1, <3>1, <3>2
  <2>3. m <= card.last /\ (m = card.last => card.place = Told(m))
    BY <1>16, <2>2 DEF CardInv, CardOf
  <2>4. m <= c.last /\ (m = c.last => c.place = Told(m))
    <3>1. CASE u # n
      BY <1>10, <2>3, <3>1
    <3>2. CASE u = n
      <4>1. m <= n - 1 /\ c.last = n - 1
        BY <1>1, <1>2, <1>10, <1>16, <2>1, <2>2, <3>2
      <4>2. ASSUME m = n - 1 PROVE c.place = Told(m)
        <5>1. c.place = IF card.last >= n THEN PlaceBefore(n) ELSE card.place
          BY <1>6, <1>9, <3>2 DEF CardAt
        <5>2. CASE card.last >= n
          <6>1. PICK T : T = {x \in 1..n - 1 : Told(x) # "-"}
            OBVIOUS
          <6>2. m \in T /\ T \in SUBSET Pages /\ \A x \in T : x <= m
            BY <1>2, <2>1, <2>2, <1>16, <4>2, <6>1 DEF Pages
          <6>3. Max(T) = m
            <7>1. Max(T) \in T /\ \A x \in T : x <= Max(T)
              BY <6>2, LastChapter
            <7>2. PICK y : y = Max(T)
              OBVIOUS
            <7>3. y \in T /\ m <= y /\ y <= m /\ y \in Pages
              BY <6>2, <7>1, <7>2
            <7>4. y \in 1..Size
              BY <7>3 DEF Pages
            <7> QED BY <2>1, <7>2, <7>3, <7>4
          <6>4. PlaceBefore(n) = Told(m)
            BY <6>1, <6>2, <6>3 DEF PlaceBefore
          <6> QED BY <5>1, <5>2, <6>4
        <5>3. CASE ~(card.last >= n)
          <6>1. m = card.last
            BY <1>2, <1>8, <2>3, <4>2, <5>3
          <6> QED BY <2>3, <5>1, <5>3, <6>1
        <5> QED BY <5>2, <5>3
      <4> QED BY <4>1, <4>2
    <3> QED BY <3>1, <3>2
  <2>5. CASE card' = c
    BY <2>2, <2>4, <2>5 DEF CardOf
  <2>6. CASE card' # c
    <3>1. card' = [place |-> s.place, last |-> n] /\ MayProject(c, n)
      BY <1>7, <2>6 DEF CardAfter
    <3>2. c.last > 0 /\ n >= c.last
      BY <1>2, <1>3, <1>10, <1>14, <2>1, <2>4, <3>1
    <3>3. m < n
      BY <1>2, <1>3, <1>10, <1>16, <2>1, <2>4, <3>2
    <3>4. m <= card'.last /\ m # card'.last
      BY <1>2, <2>1, <3>1, <3>3
    <3> QED BY <3>4 DEF CardOf
  <2> QED BY <2>5, <2>6
<1>17. CardInv'
  <2> SUFFICES ASSUME NEW m \in done', m \notin flagged', late'[m] = "-", Told(m)' # "-" PROVE CardOf(m)'
    BY DEF CardInv
  <2> QED BY <1>7, <1>15, <1>16
<1> QED BY <1>4, <1>11, <1>17

LEMMA RepairCard ==
  ASSUME LedgerTypes, FlagsRun, LateIsBehind, CardInv, NEW n \in Pages, RepairPage(n),
         NEW s, card' = CardAfter(card, n, s), s.place \in {"-", Told(n)'}, s.place = "-" => Told(n)' = Told(n),
         n \notin flagged
  PROVE  CardInv' /\ card'.last \in 0..LatestSettled'
<1>1. Size \in Nat \ {0} /\ n \in 1..Size
  BY LedgerAssumption DEF Pages
<1>2. n \in done /\ done' = done /\ flagged' = flagged /\ story' = story /\ missing' = [missing EXCEPT ![n] = {}]
      /\ late' = IF Historical(n) /\ late[n] = "-" THEN [late EXCEPT ![n] = "repaired"] ELSE late
  BY DEF RepairPage
<1>3. PICK l \in 0..Size : l = LatestSettled
  <2>1. done' = done \cup {n}
    BY <1>2
  <2> QED BY <2>1, LatestMoves
<1>4. LatestSettled' = l /\ n <= l /\ \A m \in done : m <= l
  <2>1. done' = done \cup {n}
    BY <1>2
  <2>2. LatestSettled' = LatestSettled
    BY <1>2 DEF LatestSettled
  <2> QED BY <1>2, <1>3, <2>1, <2>2, LatestMoves
<1>5. card.last \in 0..l
  BY <1>3 DEF LedgerTypes
<1>6. Historical(n) <=> n < l
  BY <1>3 DEF Historical
<1>7. MayProject(card, n) <=> IF card.last > 0 THEN n >= card.last ELSE ~(n < l)
  BY <1>6 DEF MayProject
<1>8. card' = card \/ (card' = [place |-> s.place, last |-> n] /\ MayProject(card, n) /\ s.place # "-")
  BY DEF CardAfter
<1>9. card'.last \in 0..LatestSettled'
  BY <1>1, <1>3, <1>4, <1>5, <1>8
<1>10. CardInv'
  <2> SUFFICES ASSUME NEW m \in done', m \notin flagged', late'[m] = "-", Told(m)' # "-" PROVE CardOf(m)'
    BY DEF CardInv
  <2>1. m \in 1..Size /\ m \in Pages /\ m <= l /\ m \in done /\ m \notin flagged
    BY <1>2, <1>4 DEF LedgerTypes, Pages
  <2>2. late[m] = "-" /\ (m = n => ~(n < l))
    <3>1. CASE m = n
      BY <1>2, <1>6, <3>1 DEF LedgerTypes
    <3>2. CASE m # n
      BY <1>2, <2>1, <3>2 DEF LedgerTypes
    <3> QED BY <3>1, <3>2
  <2>3. CASE m = n /\ s.place # "-"
    <3>1. MayProject(card, n)
      BY <1>1, <1>3, <1>4, <1>5, <1>7, <2>2, <2>3
    <3>2. card' = [place |-> s.place, last |-> n] /\ s.place = Told(n)'
      BY <2>3, <3>1 DEF CardAfter
    <3> QED BY <1>1, <2>3, <3>2 DEF CardOf
  <2>4. CASE m = n /\ s.place = "-"
    <3>1. card' = card /\ Told(m)' = Told(m)
      BY <2>4 DEF CardAfter
    <3>2. m <= card.last /\ (m = card.last => card.place = Told(m))
      BY <2>1, <2>2, <3>1 DEF CardInv, CardOf
    <3> QED BY <3>1, <3>2 DEF CardOf
  <2>5. CASE m # n
    <3>1. Told(m)' = Told(m)
      <4>1. missing'[m] = missing[m]
        BY <1>2, <2>1, <2>5 DEF LedgerTypes
      <4> QED BY <1>2, <4>1 DEF Told
    <3>2. m <= card.last /\ (m = card.last => card.place = Told(m))
      BY <2>1, <2>2, <3>1 DEF CardInv, CardOf
    <3>3. CASE card' = card
      BY <3>1, <3>2, <3>3 DEF CardOf
    <3>4. CASE card' # card
      <4>1. card' = [place |-> s.place, last |-> n] /\ MayProject(card, n)
        BY <1>8, <3>4
      <4>2. m < n
        BY <1>1, <1>3, <1>5, <1>7, <2>1, <2>5, <3>2, <4>1
      <4>3. m <= card'.last /\ m # card'.last
        BY <1>1, <2>1, <4>1, <4>2
      <4> QED BY <4>3 DEF CardOf
    <3> QED BY <3>3, <3>4
  <2> QED BY <2>3, <2>4, <2>5
<1> QED BY <1>9, <1>10
-----------------------------------------------------------------------------
(* The places, the item's events, the thread and the relationship.         *)

\* Whatever the memory was, what is written to it are places again.
LEMMA PlacesStay ==
  ASSUME NEW was \in [PlaceNames -> Entry], NEW n \in Pages, NEW s, Text(s)
  PROVE  /\ PlacesAfter(was, n, s) \in [PlaceNames -> Entry]
         /\ s.place = "-" => \A p \in PlaceNames : PlacesAfter(was, n, s)[p] = was[p]
         /\ s.place # "-" => \A p \in PlaceNames : PlacesAfter(was, n, s)[p].current => p = s.place
<1>1. n \in 0..Size /\ s.place \in PlaceNames \cup {"-"}
  BY LedgerAssumption DEF Pages, Text
<1>2. ASSUME NEW p \in PlaceNames, NEW e \in Entry, p # s.place, s.place # "-"
      PROVE  [e EXCEPT !.current = FALSE, !.by = s.place] \in Entry /\ ~[e EXCEPT !.current = FALSE, !.by = s.place].current
  BY <1>1, <1>2 DEF Entry
<1>3. [source |-> n, current |-> TRUE, by |-> "-"] \in Entry
  BY <1>1 DEF Entry
<1>4. ASSUME NEW p \in PlaceNames
      PROVE  PlacesAfter(was, n, s)[p] =
               IF p = s.place THEN [source |-> n, current |-> TRUE, by |-> "-"]
               ELSE IF s.place # "-" /\ was[p].current THEN [was[p] EXCEPT !.current = FALSE, !.by = s.place]
               ELSE was[p]
  BY DEF PlacesAfter
<1>5. PICK new : new = PlacesAfter(was, n, s)
  OBVIOUS
<1>6. \A p \in PlaceNames : new[p] \in Entry
  <2> SUFFICES ASSUME NEW p \in PlaceNames PROVE new[p] \in Entry
    OBVIOUS
  <2>1. PICK e \in Entry : e = was[p]
    OBVIOUS
  <2>2. CASE p = s.place
    BY <1>3, <1>4, <1>5, <2>2
  <2>3. CASE p # s.place /\ s.place # "-" /\ e.current
    <3>1. new[p] = [e EXCEPT !.current = FALSE, !.by = s.place]
      BY <1>4, <1>5, <2>1, <2>3
    <3>2. [e EXCEPT !.current = FALSE, !.by = s.place] \in Entry
      BY <1>2, <2>3
    <3> QED BY <3>1, <3>2
  <2>4. CASE p # s.place /\ ~(s.place # "-" /\ e.current)
    BY <1>4, <1>5, <2>1, <2>4
  <2> QED BY <2>2, <2>3, <2>4
<1>7. new \in [PlaceNames -> Entry]
  <2>1. DOMAIN new = PlaceNames /\ new = [p \in PlaceNames |-> new[p]]
    BY <1>5 DEF PlacesAfter
  <2> QED BY <1>6, <2>1
<1>8. s.place = "-" => \A p \in PlaceNames : new[p] = was[p]
  <2>1. "-" \notin PlaceNames
    BY DEF PlaceNames
  <2> QED BY <1>4, <1>5, <2>1
<1>9. s.place # "-" => \A p \in PlaceNames : new[p].current => p = s.place
  <2> SUFFICES ASSUME s.place # "-", NEW p \in PlaceNames, p # s.place PROVE ~new[p].current
    OBVIOUS
  <2>1. was[p] \in Entry /\ was[p].current \in BOOLEAN
    BY DEF Entry
  <2>2. CASE was[p].current
    <3>1. new[p] = [was[p] EXCEPT !.current = FALSE, !.by = s.place]
      BY <1>4, <1>5, <2>2
    <3> QED BY <1>2, <2>1, <3>1
  <2>3. CASE ~was[p].current
    BY <1>4, <1>5, <2>3
  <2> QED BY <2>2, <2>3
<1> QED BY <1>5, <1>7, <1>8, <1>9

LEMMA PlacesAtStay ==
  ASSUME places \in [PlaceNames -> Entry], NEW n \in Pages
  PROVE  PlacesAt(n) \in [PlaceNames -> Entry]
<1>1. ASSUME NEW p \in PlaceNames PROVE PlaceSeen(places, p, n) \in Entry
  <2>1. NoPlace \in Entry
    BY LedgerAssumption DEF NoPlace, Entry
  <2>2. places[p] \in Entry
    OBVIOUS
  <2>3. ASSUME NEW b PROVE [places[p] EXCEPT !.current = @ \/ b] \in Entry
    <3>1. PICK e \in Entry : e = places[p]
      BY <2>2
    <3>2. (e.current \/ b) \in BOOLEAN
      OBVIOUS
    <3>3. [e EXCEPT !.current = e.current \/ b] \in Entry
      BY <3>2 DEF Entry
    <3> QED BY <3>1, <3>3
  <2> QED BY <2>1, <2>3 DEF PlaceSeen
<1>2. \A p \in PlaceNames : (IF Rebuilds(n) THEN PlaceSeen(places, p, n) ELSE places[p]) \in Entry
  BY <1>1
<1> QED BY <1>2 DEF PlacesAt

LEMMA SettlePlaces ==
  ASSUME LedgerTypes, FlagsRun, LateIsBehind, PlacesInv,
         NEW n \in Pages, NEW u \in 1..Size + 1, NEW v \in 1..Size + 1, NEW s, Writes(n, u, v, s)
  PROVE  /\ places' \in [PlaceNames -> Entry]
         /\ SettlesText(n, s) => PlacesInv'
<1>1. PlacesAt(n) \in [PlaceNames -> Entry] /\ places' = PlacesAfter(PlacesAt(n), n, s) /\ Text(s)
  BY PlacesAtStay DEF LedgerTypes, Writes, Apply
<1>2. places' \in [PlaceNames -> Entry]
  BY <1>1, PlacesStay
<1>3. ASSUME SettlesText(n, s), Rewritten' = 0 PROVE Rewritten = 0 /\ flagged = {} /\ flagged' = {} /\ u = Size + 1
  <2>1. Rewritten = 0
    BY <1>3 DEF SettlesText, Rewritten
  <2>2. flagged = {}
    BY <2>1 DEF PlacesInv
  <2>3. flagged' = {}
    BY <1>3, <2>2 DEF SettlesText
  <2>4. flagged = u..Size
    BY DEF Writes
  <2>5. u = Size + 1
    BY <2>2, <2>4, FlagsAre
  <2> QED BY <2>1, <2>2, <2>3, <2>5
<1>4. ASSUME SettlesText(n, s), Rewritten' = 0, InTurn', NEW p \in PlaceNames, places'[p].current PROVE p = card'.place
  <2>1. Rewritten = 0 /\ flagged = {} /\ u = Size + 1
    BY <1>3, <1>4
  <2>2. InTurn
    <3> SUFFICES ASSUME NEW m \in Pages PROVE late[m] = "-"
      BY DEF InTurn
    <3>1. CASE m # n
      BY <1>4, <3>1 DEF InTurn, Writes
    <3>2. CASE m = n
      <4>1. n \notin done
        BY <1>4, <2>1 DEF SettlesText
      <4> QED BY <3>2, <4>1 DEF LateIsBehind
    <3> QED BY <3>1, <3>2
  <2>3. Size \in Nat \ {0} /\ n \in 1..Size
    BY LedgerAssumption DEF Pages
  <2>4. PICK l \in 0..Size : l = LatestSettled
    BY LatestMoves DEF Writes
  <2>5. ~(n < l) /\ card.last \in 0..l
    <3>1. late'[n] = "-"
      BY <1>4 DEF InTurn
    <3>2. ~(n < l /\ n < u)
      BY <2>4, <3>1 DEF Writes
    <3> QED BY <2>1, <2>3, <2>4, <3>2 DEF LedgerTypes
  <2>6. ~Rebuilds(n)
    <3>1. flagged = u..Size
      BY DEF Writes
    <3>2. n # u
      BY <2>1, <2>3
    <3> QED BY <3>1, <3>2, FlagsAre
  <2>7. card' = CardAfter(card, n, s) /\ \A q \in PlaceNames : PlacesAt(n)[q] = places[q]
    BY <2>6 DEF Writes, Apply, CardAt, PlacesAt
  <2>8. CASE s.place = "-"
    <3>1. places'[p] = places[p] /\ card' = card
      BY <1>1, <2>7, <2>8, PlacesStay DEF CardAfter
    <3> QED BY <1>4, <2>1, <2>2, <3>1 DEF PlacesInv
  <2>9. CASE s.place # "-"
    <3>1. p = s.place
      BY <1>1, <1>4, <2>9, PlacesStay
    <3>2. MayProject(card, n)
      <4>1. Historical(n) => n < l
        BY <2>4 DEF Historical
      <4>2. card.last <= n
        BY <2>3, <2>4, <2>5
      <4> QED BY <2>3, <2>5, <4>1, <4>2 DEF MayProject
    <3> QED BY <2>7, <2>9, <3>1, <3>2 DEF CardAfter
  <2> QED BY <2>8, <2>9
<1>5. SettlesText(n, s) => PlacesInv'
  BY <1>3, <1>4 DEF PlacesInv
<1> QED BY <1>2, <1>5

LEMMA RepairPlaces ==
  ASSUME LedgerTypes, PlacesInv, LateIsBehind, NEW n \in Pages, RepairPage(n), NEW s, Text(s), n \notin flagged,
         card' = CardAfter(card, n, s), places' = PlacesAfter(places, n, s)
  PROVE  places' \in [PlaceNames -> Entry] /\ PlacesInv'
<1>1. n \in done /\ done' = done /\ flagged' = flagged /\ rewrites' = rewrites
      /\ late' = IF Historical(n) /\ late[n] = "-" THEN [late EXCEPT ![n] = "repaired"] ELSE late
  BY DEF RepairPage
<1>2. places' \in [PlaceNames -> Entry]
  BY PlacesStay DEF LedgerTypes
<1>3. ASSUME Rewritten' = 0, InTurn', NEW p \in PlaceNames, places'[p].current PROVE p = card'.place
  <2>1. Rewritten = 0
    BY <1>1, <1>3 DEF Rewritten
  <2>2. ~(Historical(n) /\ late[n] = "-") /\ InTurn
    BY <1>1, <1>3 DEF InTurn, LedgerTypes
  <2>3. ~Historical(n)
    BY <2>2 DEF InTurn
  <2>4. Size \in Nat \ {0} /\ n \in 1..Size
    BY LedgerAssumption DEF Pages
  <2>5. PICK l \in 0..Size : l = LatestSettled /\ n <= l
    <3>1. done' = done \cup {n}
      BY <1>1
    <3> QED BY <1>1, <3>1, LatestMoves
  <2>6. ~(n < l) /\ card.last \in 0..l
    BY <2>3, <2>5 DEF Historical, LedgerTypes
  <2>7. CASE s.place = "-"
    <3>1. places'[p] = places[p] /\ card' = card
      BY <2>7, PlacesStay DEF CardAfter, LedgerTypes
    <3> QED BY <1>3, <2>1, <2>2, <3>1 DEF PlacesInv
  <2>8. CASE s.place # "-"
    <3>1. p = s.place
      BY <1>3, <2>8, PlacesStay DEF LedgerTypes
    <3>2. MayProject(card, n)
      <4>1. card.last <= n
        BY <2>4, <2>5, <2>6
      <4> QED BY <2>3, <2>4, <2>5, <2>6, <4>1 DEF MayProject
    <3> QED BY <2>8, <3>1, <3>2 DEF CardAfter
  <2> QED BY <2>7, <2>8
<1>4. Rewritten' = 0 => flagged' = {}
  BY <1>1 DEF PlacesInv, Rewritten
<1> QED BY <1>2, <1>3, <1>4 DEF PlacesInv

-----------------------------------------------------------------------------
(* The item's events.                                                      *)

LastOf(log) == (CHOOSE e \in log : \A o \in log : o.chapter <= e.chapter).state

LEMMA SameBefore ==
  ASSUME NEW A, NEW B, NEW k, {e \in A : e.chapter < k} = {e \in B : e.chapter < k}
  PROVE  ItemBefore(A, k) = ItemBefore(B, k)
<1>1. ItemBefore(A, k) = IF {e \in A : e.chapter < k} = {} THEN "-" ELSE LastOf({e \in A : e.chapter < k})
  BY DEF ItemBefore, LastOf
<1>2. ItemBefore(B, k) = IF {e \in B : e.chapter < k} = {} THEN "-" ELSE LastOf({e \in B : e.chapter < k})
  BY DEF ItemBefore, LastOf
<1>3. PICK X : X = {e \in A : e.chapter < k} /\ X = {e \in B : e.chapter < k}
  OBVIOUS
<1>4. ItemBefore(A, k) = (IF X = {} THEN "-" ELSE LastOf(X)) /\ ItemBefore(B, k) = (IF X = {} THEN "-" ELSE LastOf(X))
  BY <1>1, <1>2, <1>3
<1> QED BY <1>4

\* What is left of the events and what is added.
LEMMA EventsAre ==
  ASSUME NEW was, NEW n \in Pages, NEW s, Text(s), NEW log, log = EventsAfter(was, n, s)
  PROVE  /\ \A e \in log : e.chapter # n => e \in was
         /\ \A e \in was : e.chapter # n => e \in log
         /\ \A e \in log : e.chapter = n /\ e.state = "active" =>
              s.item \in {"back", "found"} /\ (s.item = "found" \/ ItemBefore({o \in was : o.chapter # n}, n) # "lost")
         /\ \A e \in log : e \in was \/ e.chapter = n
<1>1. PICK others : others = {e \in was : e.chapter # n}
  OBVIOUS
<1>2. PICK lost : lost = [chapter |-> n, state |-> "lost"]
  OBVIOUS
<1>3. PICK back : back = [chapter |-> n, state |-> "active"]
  OBVIOUS
<1>4. \/ log = others
      \/ log = others \cup {lost}
      \/ log = others \cup {back} /\ s.item \in {"back", "found"}
           /\ (s.item = "found" \/ ItemBefore(others, n) # "lost")
  BY <1>1, <1>2, <1>3 DEF EventsAfter, Recovered, Text
<1>5. lost.chapter = n /\ lost.state = "lost" /\ back.chapter = n
  BY <1>2, <1>3
<1> QED BY <1>1, <1>4, <1>5

\* The item's events stay sound when a chapter's are replaced, if nothing later
\* was told in its turn.
LEMMA ItemsStay ==
  ASSUME LedgerTypes, ItemsInv, NEW n \in Pages, NEW s, Text(s), NEW was,
         was = events \/ was = {e \in events : e.chapter < n},
         events' = EventsAfter(was, n, s), s.item \in {"-", story'[n].item},
         \A m \in Pages : m # n => story'[m] = story[m] /\ late'[m] = late[m] /\ (m \notin flagged' => m \notin flagged),
         late'[n] = "-" => \A e \in was : e.chapter <= n,
         done' = done \cup {n}
  PROVE  ItemsInv' /\ \A e \in events' : e.chapter \in done'
<1>1. Size \in Nat \ {0} /\ n \in 1..Size /\ \A e \in events : e.chapter \in 1..Size /\ e.chapter \in Pages
  BY LedgerAssumption DEF Pages, LedgerTypes
<1>2. PICK log : log = EventsAfter(was, n, s) /\ log = events'
  OBVIOUS
<1>3. /\ \A e \in log : e.chapter # n => e \in was
      /\ \A e \in was : e.chapter # n => e \in log
      /\ \A e \in log : e.chapter = n /\ e.state = "active" =>
           s.item \in {"back", "found"} /\ (s.item = "found" \/ ItemBefore({o \in was : o.chapter # n}, n) # "lost")
      /\ \A e \in log : e \in was \/ e.chapter = n
  BY <1>2, EventsAre
<1>4. \A e \in was : e \in events
  OBVIOUS
<1>5. \A e \in events' : e.chapter \in done'
  BY <1>2, <1>3, <1>4 DEF LedgerTypes
<1>6. ASSUME NEW e \in log, OnTime(e.chapter)', e.state = "active", ItemBefore(log, e.chapter) = "lost"
      PROVE  story'[e.chapter].item = "found"
  <2>1. CASE e.chapter = n
    <3>1. PICK others : others = {o \in was : o.chapter # n}
      OBVIOUS
    <3>2. {o \in log : o.chapter < n} = {o \in others : o.chapter < n}
      <4>1. \A o \in log : o.chapter < n => o \in others
        BY <1>1, <1>3, <1>4, <3>1
      <4>2. \A o \in others : o \in log
        BY <1>3, <3>1
      <4> QED BY <4>1, <4>2
    <3>3. ItemBefore(others, n) = "lost"
      <4>1. ItemBefore(log, n) = ItemBefore(others, n)
        BY <3>2, SameBefore
      <4> QED BY <1>6, <2>1, <4>1
    <3>4. s.item = "found"
      BY <1>3, <1>6, <2>1, <3>1, <3>3
    <3> QED BY <2>1, <3>4
  <2>2. CASE e.chapter # n
    <3>1. e \in was /\ e \in events /\ e.chapter \in 1..Size /\ e.chapter \in Pages
      BY <1>1, <1>3, <1>4, <2>2
    <3>2. e.chapter < n
      <4> SUFFICES ASSUME ~(e.chapter < n) PROVE FALSE
        OBVIOUS
      <4>1. n \in 1..e.chapter
        BY <1>1, <3>1
      <4>2. late'[n] = "-"
        BY <1>6, <4>1 DEF OnTime
      <4>3. e.chapter <= n
        BY <3>1, <4>2
      <4> QED BY <1>1, <2>2, <3>1, <4>3
    <3>3. {o \in log : o.chapter < e.chapter} = {o \in events : o.chapter < e.chapter}
      <4>1. ASSUME NEW o \in log, o.chapter < e.chapter PROVE o \in events
        <5>1. o \in was \/ o.chapter = n
          BY <1>3
        <5>2. o.chapter # n
          BY <1>1, <3>1, <3>2, <4>1
        <5> QED BY <1>4, <5>1, <5>2
      <4>2. ASSUME NEW o \in events, o.chapter < e.chapter PROVE o \in log
        <5>1. o.chapter < n /\ o.chapter # n
          BY <1>1, <3>1, <3>2, <4>2
        <5>2. o \in was
          BY <5>1
        <5> QED BY <1>3, <5>1, <5>2
      <4> QED BY <4>1, <4>2
    <3>4. ItemBefore(events, e.chapter) = "lost"
      <4>1. ItemBefore(log, e.chapter) = ItemBefore(events, e.chapter)
        BY <3>3, SameBefore
      <4> QED BY <1>6, <4>1
    <3>5. OnTime(e.chapter)
      <4>1. e.chapter \notin flagged
        BY <1>6, <2>2, <3>1 DEF OnTime
      <4>2. ASSUME NEW m \in 1..e.chapter PROVE late[m] = "-"
        <5>1. m \in Pages /\ m # n
          BY <1>1, <3>1, <3>2 DEF Pages
        <5> QED BY <1>6, <5>1 DEF OnTime
      <4> QED BY <4>1, <4>2 DEF OnTime
    <3>6. story[e.chapter].item = "found"
      BY <1>6, <3>1, <3>4, <3>5 DEF ItemsInv
    <3> QED BY <2>2, <3>1, <3>6
  <2> QED BY <2>1, <2>2
<1>7. ItemsInv'
  BY <1>2, <1>6 DEF ItemsInv
<1> QED BY <1>5, <1>7

LEMMA WritesItems ==
  ASSUME LedgerTypes, FlagsRun, LateIsBehind, ItemsInv,
         NEW n \in Pages, NEW u \in 1..Size + 1, NEW v \in 1..Size + 1, NEW s, Writes(n, u, v, s)
  PROVE  ItemsInv' /\ \A e \in events' : e.chapter \in done'
<1>1. Size \in Nat \ {0} /\ n \in 1..Size
  BY LedgerAssumption DEF Pages
<1>2. flagged = u..Size /\ flagged' = v..Size /\ u \in {n, Size + 1} /\ v \in {n + 1, Size + 1} /\ (u = n => v = n + 1)
  BY DEF Writes
<1>3. EventsAt(n) = (IF n = u THEN {e \in events : e.chapter < n} ELSE events)
  <2>1. Rebuilds(n) <=> n = u
    BY <1>2, FlagsAre
  <2> QED BY <2>1 DEF EventsAt, Earlier
<1>4. \A m \in Pages : m # n => story'[m] = story[m] /\ late'[m] = late[m] /\ (m \notin flagged' => m \notin flagged)
  <2> SUFFICES ASSUME NEW m \in Pages, m # n
               PROVE  story'[m] = story[m] /\ late'[m] = late[m] /\ (m \notin flagged' => m \notin flagged)
    OBVIOUS
  <2>1. m \in 1..Size
    BY DEF Pages
  <2>2. m \notin flagged' => m \notin flagged
    BY <1>1, <1>2, <2>1
  <2> QED BY <2>2 DEF Writes
<1>5. late'[n] = "-" => \A e \in EventsAt(n) : e.chapter <= n
  <2> SUFFICES ASSUME late'[n] = "-", NEW e \in EventsAt(n) PROVE e.chapter <= n
    OBVIOUS
  <2>1. e \in events /\ e.chapter \in done /\ e.chapter \in 1..Size
    BY <1>3 DEF LedgerTypes, Pages
  <2>2. CASE n = u
    BY <1>1, <1>3, <2>1, <2>2
  <2>3. CASE n # u
    <3>1. PICK l \in 0..Size : l = LatestSettled /\ e.chapter <= l
      BY <2>1, LatestMoves DEF Writes
    <3>2. ~(n < l)
      BY <1>1, <1>2, <2>3, <3>1 DEF Writes
    <3> QED BY <1>1, <2>1, <3>1, <3>2
  <2> QED BY <2>2, <2>3
<1>6. events' = EventsAfter(EventsAt(n), n, s) /\ Text(s) /\ done' = done \cup {n} /\ s.item \in {"-", story'[n].item}
  BY DEF Writes, Apply
<1>7. PICK was : was = EventsAt(n)
  OBVIOUS
<1>8. was = events \/ was = {e \in events : e.chapter < n}
  BY <1>3, <1>7
<1> QED BY <1>4, <1>5, <1>6, <1>7, <1>8, ItemsStay
-----------------------------------------------------------------------------
(* The thread, the relationship and its entry in the knowledge.            *)

LEMMA StrandsStay ==
  ASSUME NEW n \in Pages, NEW s, NEW tw, NEW bw, tw.last \in 0..Size, bw.last \in 0..Size, Strands(n, s, tw, bw, bw)
  PROVE  thread'.last \in 0..Size /\ bond'.last \in 0..Size /\ GraphFollowsMemory'
<1>1. n \in 0..Size /\ Size \in Nat
  BY LedgerAssumption DEF Pages
<1>2. thread' = [says |-> s.thread, last |-> n] \/ thread' = tw
  BY DEF Strands, ThreadAfter
<1>3. PICK b : b = bond' /\ b = BondAfter(bw, n, s)
  BY DEF Strands
<1>4. graph' = GraphAfter(bw, b, n, s)
  BY <1>3 DEF Strands
<1>5. CASE s.bond # "-" /\ bw.last <= n
  <2>1. b = [says |-> s.bond, last |-> n]
    BY <1>3, <1>5 DEF BondAfter
  <2>2. b.last = n
    BY <2>1
  <2>3. graph' = [says |-> s.bond, last |-> n]
    BY <1>4, <1>5, <2>2 DEF GraphAfter, GraphEntry
  <2> QED BY <1>1, <1>2, <1>3, <2>1, <2>2, <2>3 DEF GraphFollowsMemory
<1>6. CASE ~(s.bond # "-" /\ bw.last <= n)
  <2>1. b = bw
    BY <1>3, <1>6 DEF BondAfter
  <2>2. s.bond # "-" => bw.last # n
    BY <1>1, <1>6
  <2>3. graph' = bw
    BY <1>4, <2>1, <2>2 DEF GraphAfter
  <2> QED BY <1>1, <1>2, <1>3, <2>1, <2>3 DEF GraphFollowsMemory
<1> QED BY <1>5, <1>6

LEMMA WritesStrands ==
  ASSUME LedgerTypes, GraphFollowsMemory, NEW n \in Pages, NEW u, NEW v, NEW s, Writes(n, u, v, s)
  PROVE  thread'.last \in 0..Size /\ bond'.last \in 0..Size /\ GraphFollowsMemory'
<1>1. StrandAt(bond, n) = StrandAt(graph, n)
  BY DEF GraphFollowsMemory
<1>2. Size \in Nat /\ NoStrand.last = 0
  BY LedgerAssumption DEF NoStrand
<1>3. StrandAt(thread, n).last \in 0..Size /\ StrandAt(bond, n).last \in 0..Size
  BY <1>2 DEF StrandAt, LedgerTypes
<1>4. Strands(n, s, StrandAt(thread, n), StrandAt(bond, n), StrandAt(bond, n))
  BY <1>1 DEF Writes, Apply
<1> QED BY <1>3, <1>4, StrandsStay

\* The chapters that tell of the thread, and where it stands by them.
Tellers == {m \in done : "threads" \notin missing[m] /\ story[m].thread # "-"}
ThreadOf(S, texts) == IF S = {} THEN NoStrand ELSE [says |-> texts[Max(S)].thread, last |-> Max(S)]
ThreadByTellers == Rewritten = 0 => thread = ThreadOf(Tellers, story)
ThreadByText == rewrites.refines = 0 /\ thread.last \notin {0} \cup flagged => thread.says = story[thread.last].thread

LEMMA NewestParts == ThreadIsNewest <=> ThreadByTellers /\ ThreadByText
BY DEF ThreadIsNewest, ThreadByTellers, ThreadByText, Tellers, ThreadOf

LEMMA OneMoreTeller ==
  ASSUME NEW S \in SUBSET Pages, NEW n \in Pages, NEW s, s.thread # "-", NEW texts, texts[n].thread = s.thread
  PROVE  ThreadAfter(ThreadOf(S, texts), n, s) = ThreadOf(S \cup {n}, texts)
<1>1. PICK l : l = (IF S = {} THEN 0 ELSE Max(S))
  OBVIOUS
<1>2. Max(S \cup {n}) = (IF l <= n THEN n ELSE l) /\ l \in 0..Size
  BY <1>1, LastWithOneMore
<1>3. n \in 1..Size /\ Size \in Nat
  BY LedgerAssumption DEF Pages
<1>4. PICK k : k = Max(S \cup {n})
  OBVIOUS
<1>5. ThreadOf(S \cup {n}, texts) = [says |-> texts[k].thread, last |-> k]
  BY <1>4 DEF ThreadOf
<1>6. CASE S = {}
  <2>1. l = 0 /\ k = n
    BY <1>1, <1>2, <1>3, <1>4, <1>6
  <2>2. ThreadOf(S, texts).last = 0
    BY <1>6 DEF ThreadOf, NoStrand
  <2>3. ThreadAfter(ThreadOf(S, texts), n, s) = [says |-> s.thread, last |-> n]
    BY <1>3, <2>2 DEF ThreadAfter
  <2> QED BY <1>5, <2>1, <2>3
<1>7. CASE S # {}
  <2>1. ThreadOf(S, texts) = [says |-> texts[l].thread, last |-> l]
    BY <1>1, <1>7 DEF ThreadOf
  <2>2. ThreadOf(S, texts).last = l
    BY <2>1
  <2>3. CASE l <= n
    <3>1. k = n
      BY <1>2, <1>4, <2>3
    <3>2. ThreadAfter(ThreadOf(S, texts), n, s) = [says |-> s.thread, last |-> n]
      BY <2>2, <2>3 DEF ThreadAfter
    <3> QED BY <1>5, <3>1, <3>2
  <2>4. CASE ~(l <= n)
    <3>1. k = l
      BY <1>2, <1>4, <2>4
    <3>2. ThreadAfter(ThreadOf(S, texts), n, s) = ThreadOf(S, texts)
      BY <2>2, <2>4 DEF ThreadAfter
    <3> QED BY <1>5, <2>1, <3>1, <3>2
  <2> QED BY <2>3, <2>4
<1> QED BY <1>6, <1>7

LEMMA SettleThread ==
  ASSUME LedgerTypes, PlacesInv, ThreadIsNewest, NEW n \in Pages, NEW u \in 1..Size + 1, NEW v, NEW s,
         Writes(n, u, v, s), SettlesText(n, s)
  PROVE  ThreadIsNewest'
<1>1. PICK was : was = StrandAt(thread, n) /\ thread' = ThreadAfter(was, n, s)
  BY DEF Writes, Apply, Strands
<1>2. thread' = was \/ (s.thread # "-" /\ thread' = [says |-> s.thread, last |-> n])
  BY <1>1 DEF ThreadAfter
<1>3. story' = story /\ rewrites' = rewrites /\ flagged' = flagged \ {n} /\ (n \notin done \/ n \in flagged)
      /\ s.thread = (IF "threads" \in missing'[n] THEN "-" ELSE story[n].thread)
  BY DEF SettlesText
<1>4. flagged = u..Size /\ u \in {n, Size + 1} /\ done' = done \cup {n}
  BY DEF Writes
<1>5. Size \in Nat \ {0} /\ n \in 1..Size
  BY LedgerAssumption DEF Pages
<1>6. Rebuilds(n) <=> n = u
  BY <1>4, FlagsAre
<1>7. ThreadByText'
  <2> SUFFICES ASSUME rewrites.refines = 0, thread'.last \notin {0} \cup flagged'
               PROVE  thread'.says = story[thread'.last].thread
    BY <1>3 DEF ThreadByText
  <2>1. CASE thread' = was
    <3>1. was = thread
      <4>1. NoStrand.last = 0
        BY DEF NoStrand
      <4> QED BY <1>1, <2>1, <4>1 DEF StrandAt
    <3>2. thread.last # n \/ n \notin flagged
      <4> SUFFICES ASSUME thread.last = n, n \in flagged PROVE FALSE
        OBVIOUS
      <4>1. n = u
        BY <1>4, <1>5
      <4>2. was = NoStrand
        BY <1>1, <1>5, <1>6, <4>1 DEF StrandAt, Earlier
      <4>3. thread'.last = 0
        BY <2>1, <4>2 DEF NoStrand
      <4> QED BY <4>3
    <3>3. thread.last \notin {0} \cup flagged
      BY <1>3, <2>1, <3>1, <3>2
    <3> QED BY <2>1, <3>1, <3>3, NewestParts DEF ThreadByText
  <2>2. CASE s.thread # "-" /\ thread' = [says |-> s.thread, last |-> n]
    <3>1. s.thread = story[n].thread
      BY <1>3, <2>2
    <3> QED BY <2>2, <3>1
  <2> QED BY <1>2, <2>1, <2>2
<1>8. ThreadByTellers'
  <2> SUFFICES ASSUME Rewritten' = 0 PROVE thread' = ThreadOf(Tellers', story)
    BY <1>3 DEF ThreadByTellers
  <2>1. Rewritten = 0 /\ flagged = {}
    BY <1>3 DEF PlacesInv, Rewritten
  <2>2. u = Size + 1 /\ n \notin done
    <3>1. u = Size + 1
      BY <1>4, <2>1, FlagsAre
    <3> QED BY <1>3, <2>1, <3>1
  <2>3. was = thread
    <3>1. n # u
      BY <1>5, <2>2
    <3> QED BY <1>1, <1>6, <3>1 DEF StrandAt
  <2>4. thread = ThreadOf(Tellers, story)
    BY <2>1, NewestParts DEF ThreadByTellers
  <2>5. Tellers \in SUBSET Pages
    BY DEF Tellers, LedgerTypes
  <2>6. \A m \in done : m # n /\ m \in Pages /\ missing'[m] = missing[m]
    BY <2>2 DEF LedgerTypes, Writes
  <2>7. CASE s.thread = "-"
    <3>1. Tellers' = Tellers
      BY <1>3, <1>4, <2>6, <2>7 DEF Tellers
    <3> QED BY <1>1, <2>3, <2>4, <2>7, <3>1 DEF ThreadAfter
  <2>8. CASE s.thread # "-"
    <3>1. story[n].thread = s.thread /\ "threads" \notin missing'[n]
      BY <1>3, <2>8
    <3>2. Tellers' = Tellers \cup {n}
      BY <1>3, <1>4, <2>6, <2>8, <3>1 DEF Tellers
    <3>3. ThreadAfter(ThreadOf(Tellers, story), n, s) = ThreadOf(Tellers \cup {n}, story)
      BY <2>5, <2>8, <3>1, OneMoreTeller
    <3> QED BY <1>1, <2>3, <2>4, <3>2, <3>3
  <2> QED BY <2>7, <2>8
<1>9. ThreadIsNewest' <=> ThreadByTellers' /\ ThreadByText'
  BY DEF ThreadIsNewest, ThreadByTellers, ThreadByText, Tellers, ThreadOf
<1> QED BY <1>7, <1>8, <1>9

LEMMA RepairThread ==
  ASSUME LedgerTypes, ThreadIsNewest, NEW n \in Pages, RepairPage(n), NEW s, thread' = ThreadAfter(thread, n, s),
         s.thread = (IF "threads" \in missing[n] THEN story[n].thread ELSE "-")
  PROVE  ThreadIsNewest'
<1>1. n \in done /\ done' = done /\ flagged' = flagged /\ story' = story /\ rewrites' = rewrites
      /\ missing' = [missing EXCEPT ![n] = {}]
  BY DEF RepairPage
<1>2. thread' = thread \/ (s.thread # "-" /\ thread' = [says |-> s.thread, last |-> n])
  BY DEF ThreadAfter
<1>3. ThreadByText'
  <2> SUFFICES ASSUME rewrites.refines = 0, thread'.last \notin {0} \cup flagged
               PROVE  thread'.says = story[thread'.last].thread
    BY <1>1 DEF ThreadByText
  <2>1. CASE thread' = thread
    BY <2>1, NewestParts DEF ThreadByText
  <2>2. CASE s.thread # "-" /\ thread' = [says |-> s.thread, last |-> n]
    <3>1. s.thread = story[n].thread
      BY <2>2
    <3> QED BY <2>2, <3>1
  <2> QED BY <1>2, <2>1, <2>2
<1>4. ThreadByTellers'
  <2> SUFFICES ASSUME Rewritten = 0 PROVE thread' = ThreadOf(Tellers', story)
    BY <1>1 DEF ThreadByTellers, Rewritten
  <2>1. thread = ThreadOf(Tellers, story) /\ Tellers \in SUBSET Pages
    BY NewestParts DEF ThreadByTellers, Tellers, LedgerTypes
  <2>2. missing'[n] = {} /\ \A m \in done : m # n => missing'[m] = missing[m]
    BY <1>1 DEF LedgerTypes
  <2>3. Tellers' = {m \in done : "threads" \notin missing'[m] /\ story[m].thread # "-"}
    BY <1>1 DEF Tellers
  <2>4. CASE s.thread = "-"
    <3>1. "threads" \notin missing[n] \/ story[n].thread = "-"
      BY <2>4
    <3>2. Tellers' = Tellers
      BY <2>2, <2>3, <3>1 DEF Tellers
    <3> QED BY <2>1, <2>4, <3>2 DEF ThreadAfter
  <2>5. CASE s.thread # "-"
    <3>1. story[n].thread = s.thread
      BY <2>5
    <3>2. Tellers' = Tellers \cup {n}
      BY <1>1, <2>2, <2>3, <2>5, <3>1 DEF Tellers
    <3>3. ThreadAfter(ThreadOf(Tellers, story), n, s) = ThreadOf(Tellers \cup {n}, story)
      BY <2>1, <2>5, <3>1, OneMoreTeller
    <3> QED BY <2>1, <3>2, <3>3
  <2> QED BY <2>4, <2>5
<1>5. ThreadIsNewest' <=> ThreadByTellers' /\ ThreadByText'
  BY DEF ThreadIsNewest, ThreadByTellers, ThreadByText, Tellers, ThreadOf
<1> QED BY <1>3, <1>4, <1>5
-----------------------------------------------------------------------------
(* The facts.                                                              *)

\* What the memory as it was before chapter n has of a fact.
LEMMA SeenIsClaim ==
  ASSUME NEW k \in Claim, NEW n \in Pages
  PROVE  FactSeen(k, n) \in Claim
<1>1. NoFact \in Claim
  BY LedgerAssumption DEF NoFact, Claim
<1>2. [k EXCEPT !.active = TRUE, !.until = 0] \in Claim
  <2>1. 0 \in 0..Size
    BY LedgerAssumption
  <2> QED BY <2>1 DEF Claim
<1> QED BY <1>1, <1>2 DEF FactSeen

LEMMA SeenIs ==
  ASSUME NEW k \in Claim, NEW n \in Pages, NEW w, w = FactSeen(k, n), IF Known(k) THEN k.active => k.until = 0 ELSE k = NoFact
  PROVE  /\ IF Known(w) THEN w.active => w.until = 0 ELSE w = NoFact
         /\ Known(w) => Known(k) /\ w.source = k.source /\ w.from = k.from /\ k.source < n /\ k.from < n
         /\ w.active => Known(w) /\ (k.active \/ (k.until >= 1 /\ k.until >= n - 1))
         /\ Effective(w) => Effective(k)
         /\ Known(w) /\ ~w.active => w = k
         /\ Known(k) /\ k.source < n /\ k.from < n /\ ~w.active => ~k.active /\ k.until < n
         /\ Known(w) /\ w = k => k.until = 0 \/ k.until >= n - 1
<1>1. /\ n \in Nat /\ 1 <= n /\ k.source \in Nat /\ k.from \in Nat /\ k.until \in Nat /\ k.active \in BOOLEAN
  BY LedgerAssumption DEF Pages, Claim
<1>2. ~Known(NoFact) /\ NoFact.active = FALSE /\ NoFact.until = 0 /\ ~Effective(NoFact)
  BY DEF NoFact, Known, Effective
<1>3. PICK a \in Nat : a = Max({k.source, k.from}) /\ (a < n <=> k.source < n /\ k.from < n)
  BY <1>1, MaxOfTwo
<1>4. PICK b \in Nat : b = Max({1, n - 1}) /\ \A x \in Nat : x >= b <=> x >= 1 /\ x >= n - 1
  <2>1. n - 1 \in Nat
    BY <1>1
  <2>2. PICK c \in Nat : c = n - 1
    BY <2>1
  <2>3. Max({1, c}) = (IF 1 >= c THEN 1 ELSE c)
    BY MaxOfTwo
  <2> QED BY <2>2, <2>3
<1>5. w = IF k = NoFact \/ ~(a < n) \/ (k.until # 0 /\ k.until < n - 1) THEN NoFact
          ELSE IF ~k.active /\ k.until >= b THEN [k EXCEPT !.active = TRUE, !.until = 0] ELSE k
  BY <1>3, <1>4 DEF FactSeen, Earlier
<1>6. CASE k = NoFact \/ ~(a < n) \/ (k.until # 0 /\ k.until < n - 1)
  <2>1. w = NoFact
    BY <1>5, <1>6
  <2>2. ASSUME Known(k), k.source < n, k.from < n PROVE ~k.active /\ k.until < n
    <3>1. k # NoFact /\ a < n
      BY <1>2, <1>3, <2>2
    <3>2. k.until # 0 /\ k.until < n - 1
      BY <1>6, <3>1
    <3> QED BY <1>1, <2>2, <3>2
  <2> QED BY <1>2, <2>1, <2>2
<1>7. CASE k # NoFact /\ a < n /\ ~(k.until # 0 /\ k.until < n - 1)
  <2>1. Known(k) /\ k.source < n /\ k.from < n /\ (k.active => k.until = 0)
    BY <1>3, <1>7
  <2>2. CASE ~k.active /\ k.until >= b
    <3>1. w = [k EXCEPT !.active = TRUE, !.until = 0]
      BY <1>5, <1>7, <2>2
    <3>2. w.active = TRUE /\ w.until = 0 /\ w.source = k.source /\ w.from = k.from
      BY <3>1 DEF Claim
    <3>3. k.until >= 1 /\ k.until >= n - 1
      BY <1>1, <1>4, <2>2
    <3>4. Effective(k) /\ Known(w)
      BY <1>1, <2>1, <3>2, <3>3 DEF Effective, Known
    <3>5. w # k
      BY <2>2, <3>2
    <3> QED BY <2>1, <3>2, <3>3, <3>4, <3>5
  <2>3. CASE ~(~k.active /\ k.until >= b)
    <3>1. w = k
      BY <1>5, <1>7, <2>3
    <3>2. ~k.active => k.until < n
      <4> SUFFICES ASSUME ~k.active PROVE k.until < n
        OBVIOUS
      <4>1. ~(k.until >= 1 /\ k.until >= n - 1)
        BY <1>1, <1>4, <2>3
      <4> QED BY <1>1, <4>1
    <3>3. k.until = 0 \/ k.until >= n - 1
      BY <1>1, <1>7
    <3> QED BY <2>1, <3>1, <3>2, <3>3
  <2> QED BY <2>2, <2>3
<1> QED BY <1>6, <1>7

\* What becomes of a fact when a text is written.
LEMMA AfterIs ==
  ASSUME NEW W \in [FactTexts -> Claim], NEW n \in Pages, NEW s, Text(s), NEW F, F = FactsAfter(W, n, s),
         NEW f \in FactTexts
  PROVE  /\ F[f] \in Claim
         /\ \/ f = s.fact /\ W[f] = NoFact /\ F[f] = NewFact(n)
            \/ f = s.fact /\ W[f] # NoFact /\ F[f] = [W[f] EXCEPT !.source = n]
            \/ f # s.fact /\ s.fact # "-" /\ FactSeen(W[f], n).active /\ F[f] = [W[f] EXCEPT !.active = FALSE, !.until = n - 1]
            \/ f # s.fact /\ (s.fact = "-" \/ ~FactSeen(W[f], n).active) /\ F[f] = W[f]
<1>1. Size \in Nat /\ n \in 0..Size /\ n - 1 \in 0..Size /\ 0 \in 0..Size
  BY LedgerAssumption DEF Pages
<1>2. PICK k \in Claim : k = W[f]
  OBVIOUS
<1>3. F[f] = IF f = s.fact THEN (IF k = NoFact THEN NewFact(n) ELSE [k EXCEPT !.source = n])
             ELSE IF s.fact # "-" /\ FactSeen(k, n).active THEN [k EXCEPT !.active = FALSE, !.until = n - 1] ELSE k
  BY <1>2 DEF FactsAfter
<1>4. NewFact(n) \in Claim
  BY <1>1 DEF NewFact, Claim
<1>5. [k EXCEPT !.source = n] \in Claim
  BY <1>1 DEF Claim
<1>6. [k EXCEPT !.active = FALSE, !.until = n - 1] \in Claim
  <2>1. PICK b \in 0..Size : b = n - 1
    BY <1>1
  <2>2. [k EXCEPT !.active = FALSE, !.until = b] \in Claim
    BY DEF Claim
  <2> QED BY <2>1, <2>2
<1>7. F[f] \in Claim
  BY <1>3, <1>4, <1>5, <1>6
<1> QED BY <1>2, <1>3, <1>7

LEMMA FactsStayClaims ==
  ASSUME NEW W \in [FactTexts -> Claim], NEW n \in Pages, NEW s, Text(s)
  PROVE  FactsAfter(W, n, s) \in [FactTexts -> Claim]
<1>1. PICK F : F = FactsAfter(W, n, s)
  OBVIOUS
<1>2. \A f \in FactTexts : F[f] \in Claim
  BY <1>1, AfterIs
<1>3. F = [f \in FactTexts |-> F[f]]
  BY <1>1 DEF FactsAfter
<1> QED BY <1>1, <1>2, <1>3
\* The four things that become of it, by its parts: it is new, told again, replaced, or stays.
Anew(new, n) == new.source = n /\ new.from = n /\ new.until = 0 /\ new.active
Again(old, new, n) == Known(old) /\ new.source = n /\ new.from = old.from /\ new.until = old.until /\ (new.active <=> old.active)
Gone(old, new, n) ==
  /\ Known(old) /\ new.source = old.source /\ new.from = old.from /\ new.until = n - 1 /\ ~new.active
  /\ old.active \/ (old.until >= 1 /\ old.until >= n - 1)

LEMMA AfterParts ==
  ASSUME NEW W \in [FactTexts -> Claim], NEW n \in Pages, NEW s, Text(s), NEW F, F = FactsAfter(W, n, s),
         NEW f \in FactTexts, IF Known(W[f]) THEN W[f].active => W[f].until = 0 ELSE W[f] = NoFact
  PROVE  \/ f = s.fact /\ W[f] = NoFact /\ Anew(F[f], n)
         \/ f = s.fact /\ Again(W[f], F[f], n)
         \/ f # s.fact /\ s.fact # "-" /\ Gone(W[f], F[f], n)
         \/ f # s.fact /\ F[f] = W[f] /\ (s.fact # "-" /\ Known(W[f]) /\ W[f].source < n /\ W[f].from < n => ~W[f].active /\ W[f].until < n)
<1>1. PICK k \in Claim : k = W[f]
  OBVIOUS
<1>2. PICK w : w = FactSeen(k, n)
  OBVIOUS
<1>3. PICK x : x = F[f]
  OBVIOUS
<1>4. /\ w.active => Known(w) /\ (k.active \/ (k.until >= 1 /\ k.until >= n - 1))
      /\ Known(w) => Known(k)
      /\ Known(k) /\ k.source < n /\ k.from < n /\ ~w.active => ~k.active /\ k.until < n
  BY <1>1, <1>2, SeenIs
<1>5. \/ f = s.fact /\ k = NoFact /\ x = NewFact(n)
      \/ f = s.fact /\ k # NoFact /\ x = [k EXCEPT !.source = n]
      \/ f # s.fact /\ s.fact # "-" /\ w.active /\ x = [k EXCEPT !.active = FALSE, !.until = n - 1]
      \/ f # s.fact /\ (s.fact = "-" \/ ~w.active) /\ x = k
  <2>1. x = IF f = s.fact THEN (IF k = NoFact THEN NewFact(n) ELSE [k EXCEPT !.source = n])
            ELSE IF s.fact # "-" /\ w.active THEN [k EXCEPT !.active = FALSE, !.until = n - 1] ELSE k
    BY <1>1, <1>2, <1>3 DEF FactsAfter
  <2> QED BY <2>1
<1>6. CASE f = s.fact /\ k = NoFact /\ x = NewFact(n)
  <2>1. Anew(x, n)
    BY <1>6 DEF Anew, NewFact
  <2> QED BY <1>1, <1>3, <1>6, <2>1
<1>7. CASE f = s.fact /\ k # NoFact /\ x = [k EXCEPT !.source = n]
  <2>1. x.source = n /\ x.from = k.from /\ x.until = k.until /\ x.active = k.active
    BY <1>7 DEF Claim
  <2>2. Known(k)
    BY <1>1, <1>7
  <2>3. Again(k, x, n)
    BY <2>1, <2>2 DEF Again
  <2> QED BY <1>1, <1>3, <1>7, <2>3
<1>8. CASE f # s.fact /\ s.fact # "-" /\ w.active /\ x = [k EXCEPT !.active = FALSE, !.until = n - 1]
  <2>1. x.source = k.source /\ x.from = k.from /\ x.until = n - 1 /\ x.active = FALSE
    BY <1>8 DEF Claim
  <2>2. Gone(k, x, n)
    BY <1>4, <1>8, <2>1 DEF Gone
  <2> QED BY <1>1, <1>3, <1>8, <2>2
<1>9. CASE f # s.fact /\ (s.fact = "-" \/ ~w.active) /\ x = k
  BY <1>1, <1>3, <1>4, <1>9
<1> QED BY <1>5, <1>6, <1>7, <1>8, <1>9

\* If what the memory had is sound after a step, so is what the step makes of it.
LEMMA FactsStep ==
  ASSUME LedgerTypes, NEW n \in Pages, NEW s, Text(s), NEW W \in [FactTexts -> Claim], FactsSound(W)',
         NEW F, F = FactsAfter(W, n, s), done' \in SUBSET Pages, n \in done',
         s.fact # "-" => /\ story'[n].fact = s.fact /\ "facts" \notin missing'[n]
                         /\ \A f \in FactTexts : Known(W[f]) => W[f].from # n,
         s.fact \in FactTexts /\ W[s.fact] = NoFact /\ late'[n] # "settled" =>
           \A g \in FactTexts : Known(W[g]) => W[g].from <= n
  PROVE  FactsSound(F)'
<1>1. Size \in Nat \ {0} /\ n \in 1..Size
  BY LedgerAssumption DEF Pages
<1>2. ASSUME NEW f \in FactTexts
      PROVE  /\ IF Known(W[f]) THEN W[f].from \in done' /\ W[f].source \in done' /\ (W[f].active => W[f].until = 0) ELSE W[f] = NoFact
             /\ Known(W[f]) /\ W[f].source \notin flagged' => story'[W[f].source].fact = f
             /\ Known(W[f]) /\ W[f].from \notin flagged' => "facts" \notin missing'[W[f].from]
             /\ W[f].from \in 0..Size /\ W[f].source \in 0..Size /\ W[f].until \in 0..Size
  <2>1. (FactPlaced(W[f]) /\ FactTold(f, W[f]) /\ FactWhole(W[f]))'
    BY DEF FactsSound
  <2>2. W[f] \in Claim
    OBVIOUS
  <2> QED BY <2>1, <2>2 DEF FactPlaced, FactTold, FactWhole, Claim
<1>3. ~Known(NoFact) /\ ~Original(NoFact)
  BY DEF Known, NoFact, Original
<1>4. ASSUME NEW f \in FactTexts
      PROVE  \/ f = s.fact /\ W[f] = NoFact /\ Anew(F[f], n)
             \/ f = s.fact /\ Again(W[f], F[f], n)
             \/ f # s.fact /\ s.fact # "-" /\ Gone(W[f], F[f], n)
             \/ f # s.fact /\ F[f] = W[f] /\ (s.fact # "-" /\ Known(W[f]) /\ W[f].source < n /\ W[f].from < n => ~W[f].active /\ W[f].until < n)
  BY <1>2, AfterParts
<1>5. \A f \in FactTexts : f # "-"
  BY DEF FactTexts
\* one by one
<1>6. ASSUME NEW f \in FactTexts PROVE (FactPlaced(F[f]) /\ FactTold(f, F[f]) /\ FactWhole(F[f]))'
  <2>1. CASE f = s.fact /\ W[f] = NoFact /\ Anew(F[f], n)
    <3>1. Known(F[f]) /\ F[f].source = n /\ F[f].from = n /\ F[f].until = 0
      BY <1>1, <2>1 DEF Anew, Known
    <3>2. story'[n].fact = f /\ "facts" \notin missing'[n]
      BY <1>5, <2>1
    <3> QED BY <3>1, <3>2 DEF FactPlaced, FactTold, FactWhole
  <2>2. CASE f = s.fact /\ Again(W[f], F[f], n)
    <3>1. Known(F[f]) /\ Known(W[f]) /\ F[f].source = n /\ F[f].from = W[f].from /\ F[f].until = W[f].until /\ (F[f].active <=> W[f].active)
      BY <1>1, <2>2 DEF Again, Known
    <3>2. story'[n].fact = f
      BY <1>5, <2>2
    <3> QED BY <1>2, <3>1, <3>2 DEF FactPlaced, FactTold, FactWhole
  <2>3. CASE f # s.fact /\ s.fact # "-" /\ Gone(W[f], F[f], n)
    <3>1. Known(F[f]) /\ Known(W[f]) /\ F[f].source = W[f].source /\ F[f].from = W[f].from /\ ~F[f].active
      BY <2>3 DEF Gone, Known
    <3> QED BY <1>2, <3>1 DEF FactPlaced, FactTold, FactWhole
  <2>4. CASE F[f] = W[f]
    BY <1>2, <2>4 DEF FactPlaced, FactTold, FactWhole
  <2> QED BY <1>4, <2>1, <2>2, <2>3, <2>4
\* what a fact that is there and was there before has kept
<1>7. ASSUME NEW f \in FactTexts, Known(F[f]), ~(f = s.fact /\ W[f] = NoFact)
      PROVE  Known(W[f]) /\ F[f].from = W[f].from /\ (Original(F[f]) => Original(W[f]) /\ f # s.fact)
  <2>1. CASE f = s.fact /\ Again(W[f], F[f], n)
    <3>1. Known(W[f]) /\ F[f].from = W[f].from /\ F[f].source = n
      BY <2>1 DEF Again
    <3>2. W[f].from # n
      BY <1>5, <2>1, <3>1
    <3> QED BY <3>1, <3>2 DEF Original
  <2>2. CASE f # s.fact /\ Gone(W[f], F[f], n)
    BY <2>2 DEF Gone, Original, Known
  <2>3. CASE f # s.fact /\ F[f] = W[f]
    BY <1>7, <2>3
  <2> QED BY <1>4, <1>7, <2>1, <2>2, <2>3
<1>8. ASSUME NEW f \in FactTexts, f = s.fact /\ W[f] = NoFact
      PROVE  F[f].from = n /\ F[f].source = n /\ \A g \in FactTexts : Known(W[g]) => W[g].from # n
  <2>1. Anew(F[f], n)
    BY <1>3, <1>4, <1>8 DEF Again
  <2> QED BY <1>5, <1>8, <2>1 DEF Anew
<1>9. ASSUME NEW f \in FactTexts, NEW g \in FactTexts, f # g PROVE Apart(F[f], F[g])
  <2> SUFFICES ASSUME Known(F[f]), Known(F[g]) PROVE F[f].from # F[g].from
    BY DEF Apart
  <2>1. CASE f = s.fact /\ W[f] = NoFact
    <3>1. Known(W[g]) /\ F[g].from = W[g].from
      BY <1>7, <1>9, <2>1
    <3> QED BY <1>8, <2>1, <3>1
  <2>2. CASE g = s.fact /\ W[g] = NoFact
    <3>1. Known(W[f]) /\ F[f].from = W[f].from
      BY <1>7, <1>9, <2>2
    <3> QED BY <1>8, <2>2, <3>1
  <2>3. CASE ~(f = s.fact /\ W[f] = NoFact) /\ ~(g = s.fact /\ W[g] = NoFact)
    <3>1. Known(W[f]) /\ F[f].from = W[f].from /\ Known(W[g]) /\ F[g].from = W[g].from
      BY <1>7, <2>3
    <3>2. Apart(W[f], W[g])
      <4>1. Apart(W[f], W[g])'
        BY <1>9 DEF FactsSound
      <4> QED BY <4>1 DEF Apart
    <3> QED BY <3>1, <3>2 DEF Apart
  <2> QED BY <2>1, <2>2, <2>3
\* two by two
<1>10. ASSUME NEW f \in FactTexts, NEW g \in FactTexts, f # g, Original(F[f]), Original(F[g]), Effective(F[g]),
              F[f].from < F[g].from, F[g].from \notin flagged', late'[F[f].from] # "settled", late'[F[g].from] # "settled"
       PROVE  Superseded(F[f], F[g])
  <2>0. Known(F[f]) /\ Known(F[g])
    BY <1>10 DEF Original
  <2>1. CASE g = s.fact /\ W[g] = NoFact
    <3>1. Known(W[f]) /\ F[f].from = W[f].from /\ Original(W[f]) /\ f # s.fact /\ F[g].from = n
      BY <1>7, <1>8, <1>10, <2>0, <2>1
    <3>2. W[f].from < n /\ W[f].source < n
      BY <1>10, <3>1 DEF Original
    <3>3. CASE Gone(W[f], F[f], n)
      BY <1>1, <3>1, <3>3 DEF Gone, Superseded
    <3>4. CASE F[f] = W[f] /\ (s.fact # "-" /\ Known(W[f]) /\ W[f].source < n /\ W[f].from < n => ~W[f].active /\ W[f].until < n)
      <4>1. s.fact # "-"
        BY <1>5, <2>1
      <4> QED BY <3>1, <3>2, <3>4, <4>1 DEF Superseded
    <3> QED BY <1>4, <3>1, <3>3, <3>4
  <2>2. CASE f = s.fact /\ W[f] = NoFact
    <3>1. Known(W[g]) /\ F[g].from = W[g].from /\ F[f].from = n
      BY <1>7, <1>8, <1>10, <2>0, <2>2
    <3>2. W[g].from <= n
      BY <1>10, <2>2, <3>1
    <3>3. W[g].from \in 0..Size
      BY <1>2
    <3> QED BY <1>1, <1>10, <3>1, <3>2, <3>3
  <2>3. CASE ~(f = s.fact /\ W[f] = NoFact) /\ ~(g = s.fact /\ W[g] = NoFact)
    <3>1. /\ Known(W[f]) /\ F[f].from = W[f].from /\ Original(W[f]) /\ f # s.fact
          /\ Known(W[g]) /\ F[g].from = W[g].from /\ Original(W[g]) /\ g # s.fact
      BY <1>7, <1>10, <2>0, <2>3
    <3>2. Effective(W[g])
      <4>1. CASE Gone(W[g], F[g], n)
        <5>1. W[g].active \/ (W[g].until >= 1)
          BY <4>1 DEF Gone
        <5>2. W[g].until \in 0..Size
          BY <1>2
        <5> QED BY <5>1, <5>2 DEF Effective
      <4>2. CASE F[g] = W[g]
        BY <1>10, <4>2
      <4> QED BY <1>4, <3>1, <4>1, <4>2
    <3>3. Superseded(W[f], W[g])
      <4>1. Succeeds(W[f], W[g])'
        BY <1>10 DEF FactsSound
      <4> QED BY <1>10, <3>1, <3>2, <4>1 DEF Succeeds, Original, Effective, Superseded, Known
    <3>4. ~W[f].active /\ W[f].until < W[g].from
      BY <3>3 DEF Superseded
    <3>5. CASE F[f] = W[f]
      BY <3>1, <3>4, <3>5 DEF Superseded
    <3>6. CASE Gone(W[f], F[f], n)
      <4>1. W[f].until >= n - 1 /\ F[f].until = n - 1 /\ ~F[f].active
        BY <3>4, <3>6 DEF Gone
      <4>2. W[f].until \in 0..Size /\ W[g].from \in 0..Size
        BY <1>2
      <4> QED BY <1>1, <3>1, <3>4, <4>1, <4>2 DEF Superseded
    <3> QED BY <1>4, <3>1, <3>5, <3>6
  <2> QED BY <2>1, <2>2, <2>3
<1>11. ASSUME NEW f \in FactTexts, NEW g \in FactTexts, f # g PROVE (Apart(F[f], F[g]) /\ Succeeds(F[f], F[g]))'
  <2>1. Apart(F[f], F[g])'
    BY <1>9, <1>11 DEF Apart, Known
  <2>2. Succeeds(F[f], F[g])'
    BY <1>10, <1>11 DEF Succeeds, Original, Effective, Superseded, Known
  <2> QED BY <2>1, <2>2
<1> QED BY <1>6, <1>11 DEF FactsSound

\* Sound facts that become the memory's are what is required of it.
LEMMA SameFacts ==
  ASSUME NEW F, FactsSound(F)', facts' = F
  PROVE  FactsInv'
<1>1. ASSUME NEW f \in FactTexts PROVE (FactPlaced(facts[f]) /\ FactTold(f, facts[f]) /\ FactWhole(facts[f]))'
  <2>1. (FactPlaced(F[f]) /\ FactTold(f, F[f]) /\ FactWhole(F[f]))'
    BY DEF FactsSound
  <2> QED BY <2>1 DEF FactPlaced, FactTold, FactWhole, Known
<1>2. ASSUME NEW f \in FactTexts, NEW g \in FactTexts, f # g PROVE (Apart(facts[f], facts[g]) /\ Succeeds(facts[f], facts[g]))'
  <2>1. (Apart(F[f], F[g]) /\ Succeeds(F[f], F[g]))'
    BY <1>2 DEF FactsSound
  <2>2. Apart(facts[f], facts[g])'
    BY <2>1 DEF Apart, Known
  <2>3. Succeeds(facts[f], facts[g])'
    BY <2>1 DEF Succeeds, Original, Known, Effective, Superseded
  <2> QED BY <2>2, <2>3
<1>3. FactsSound(facts)'
  BY <1>1, <1>2 DEF FactsSound
<1> QED BY <1>3 DEF FactsInv

\* What the memory has of a fact when a chapter is settled: nothing of the chapter itself, nothing of flagged ones.
LEMMA SettleSees ==
  ASSUME LedgerTypes, FactsSound(facts), NEW n \in Pages, NEW u \in 1..Size + 1, NEW v, NEW s,
         Writes(n, u, v, s), SettlesText(n, s), NEW f \in FactTexts, NEW k, k = facts[f], NEW w, w = FactsAt(n)[f]
  PROVE  /\ k \in Claim /\ w \in Claim
         /\ IF Known(w) THEN w.active => w.until = 0 ELSE w = NoFact
         /\ Known(w) => /\ Known(k) /\ w.source = k.source /\ w.from = k.from
                        /\ w.source \in done /\ w.from \in done /\ w.source # n /\ w.from # n
                        /\ u = n => w.from < n
                        /\ Effective(w) => Effective(k)
                        /\ w.active => k.active \/ (u = n /\ k.until >= 1 /\ k.until >= n - 1)
                        /\ ~w.active => w = k
<1>1. k \in Claim
  BY DEF LedgerTypes
<1>2. IF Known(k) THEN k.from \in done /\ k.source \in done /\ (k.active => k.until = 0) ELSE k = NoFact
  BY DEF FactsSound, FactPlaced
<1>3. Rebuilds(n) <=> n = u
  BY FlagsAre DEF Writes
<1>4. w = IF n = u THEN FactSeen(k, n) ELSE k
  BY <1>3 DEF FactsAt
<1>5. Size \in Nat \ {0} /\ n \in 1..Size
  BY LedgerAssumption DEF Pages
<1>6. k.from \in 0..Size /\ k.source \in 0..Size
  BY <1>1 DEF Claim
<1>7. CASE n = u
  <2>1. w = FactSeen(k, n)
    BY <1>4, <1>7
  <2>2. w \in Claim
    BY <1>1, <2>1, SeenIsClaim
  <2>3. /\ IF Known(w) THEN w.active => w.until = 0 ELSE w = NoFact
        /\ Known(w) => Known(k) /\ w.source = k.source /\ w.from = k.from /\ k.source < n /\ k.from < n
        /\ w.active => Known(w) /\ (k.active \/ (k.until >= 1 /\ k.until >= n - 1))
        /\ Effective(w) => Effective(k)
        /\ Known(w) /\ ~w.active => w = k
    BY <1>1, <1>2, <2>1, SeenIs
  <2>4. Known(w) => w.source # n /\ w.from # n /\ w.from < n
    BY <1>5, <1>6, <2>3
  <2> QED BY <1>1, <1>2, <1>7, <2>2, <2>3, <2>4
<1>8. CASE n # u
  <2>1. w = k /\ flagged = u..Size /\ u = Size + 1
    BY <1>4, <1>8 DEF Writes
  <2>2. n \notin done
    <3>1. n \notin flagged
      BY <1>5, <2>1
    <3> QED BY <3>1 DEF SettlesText
  <2> QED BY <1>1, <1>2, <1>8, <2>1, <2>2
<1> QED BY <1>7, <1>8

LEMMA SettleFacts ==
  ASSUME LedgerTypes, FactsInv, NEW n \in Pages, NEW u \in 1..Size + 1, NEW v, NEW s, Writes(n, u, v, s), SettlesText(n, s)
  PROVE  FactsInv'
<1> SUFFICES ASSUME rewrites.refines = 0 PROVE FactsInv'
  BY DEF FactsInv, SettlesText
<1>1. FactsSound(facts)
  BY DEF FactsInv
<1>2. PICK W : W = FactsAt(n)
  OBVIOUS
<1>3. PICK K : K = facts
  OBVIOUS
<1>4. Size \in Nat \ {0} /\ n \in 1..Size
  BY LedgerAssumption DEF Pages
<1>5. ASSUME NEW f \in FactTexts
      PROVE  /\ K[f] \in Claim /\ W[f] \in Claim
             /\ IF Known(W[f]) THEN W[f].active => W[f].until = 0 ELSE W[f] = NoFact
             /\ Known(W[f]) => /\ Known(K[f]) /\ W[f].source = K[f].source /\ W[f].from = K[f].from
                               /\ W[f].source \in done /\ W[f].from \in done /\ W[f].source # n /\ W[f].from # n
                               /\ u = n => W[f].from < n
                               /\ Effective(W[f]) => Effective(K[f])
                               /\ W[f].active => K[f].active \/ (u = n /\ K[f].until >= 1 /\ K[f].until >= n - 1)
                               /\ ~W[f].active => W[f] = K[f]
  <2>1. PICK k : k = facts[f]
    OBVIOUS
  <2>2. PICK w : w = FactsAt(n)[f]
    OBVIOUS
  <2>3. k = K[f] /\ w = W[f]
    BY <1>2, <1>3, <2>1, <2>2
  <2>4. /\ k \in Claim /\ w \in Claim
        /\ IF Known(w) THEN w.active => w.until = 0 ELSE w = NoFact
        /\ Known(w) => /\ Known(k) /\ w.source = k.source /\ w.from = k.from
                       /\ w.source \in done /\ w.from \in done /\ w.source # n /\ w.from # n
                       /\ u = n => w.from < n
                       /\ Effective(w) => Effective(k)
                       /\ w.active => k.active \/ (u = n /\ k.until >= 1 /\ k.until >= n - 1)
                       /\ ~w.active => w = k
    BY <1>1, <2>1, <2>2, SettleSees
  <2> QED BY <2>3, <2>4
<1>6. /\ story' = story /\ flagged' = flagged \ {n} /\ late'[n] \in {"-", "settled"}
      /\ s.fact # "-" => s.fact = story[n].fact /\ "facts" \notin missing'[n]
  BY DEF SettlesText
<1>7. /\ done' = done \cup {n} /\ done \in SUBSET Pages
      /\ \A m \in Pages : m # n => missing'[m] = missing[m] /\ late'[m] = late[m]
  BY DEF Writes, LedgerTypes
<1>8. ASSUME NEW f \in FactTexts PROVE (FactPlaced(W[f]) /\ FactTold(f, W[f]) /\ FactWhole(W[f]))'
  <2>1. CASE ~Known(W[f])
    BY <1>5, <2>1 DEF FactPlaced, FactTold, FactWhole, Known
  <2>2. CASE Known(W[f])
    <3>1. /\ Known(K[f]) /\ W[f].source = K[f].source /\ W[f].from = K[f].from
          /\ W[f].source \in done /\ W[f].from \in done /\ W[f].source # n /\ W[f].from # n
          /\ (W[f].active => W[f].until = 0)
      BY <1>5, <2>2
    <3>2. FactTold(f, K[f]) /\ FactWhole(K[f])
      BY <1>1, <1>3 DEF FactsSound
    <3>3. FactPlaced(W[f])'
      BY <1>7, <2>2, <3>1 DEF FactPlaced, Known
    <3>4. FactTold(f, W[f])'
      BY <1>6, <3>1, <3>2 DEF FactTold
    <3>5. FactWhole(W[f])'
      BY <1>6, <1>7, <3>1, <3>2 DEF FactWhole
    <3> QED BY <3>3, <3>4, <3>5
  <2> QED BY <2>1, <2>2
<1>9. ASSUME NEW f \in FactTexts, NEW g \in FactTexts, f # g PROVE (Apart(W[f], W[g]) /\ Succeeds(W[f], W[g]))'
  <2>1. Apart(K[f], K[g]) /\ Succeeds(K[f], K[g])
    BY <1>1, <1>3, <1>9 DEF FactsSound
  <2>2. Apart(W[f], W[g])'
    BY <1>5, <2>1 DEF Apart, Known
  <2>3. ASSUME Original(W[f]), Original(W[g]), Effective(W[g]), W[f].from < W[g].from, W[g].from \notin flagged',
               late'[W[f].from] # "settled", late'[W[g].from] # "settled"
        PROVE  Superseded(W[f], W[g])
    <3>1. Known(W[f]) /\ Known(W[g]) /\ Original(K[f]) /\ Original(K[g]) /\ Effective(K[g])
      BY <1>5, <2>3 DEF Original
    <3>2. W[f].from = K[f].from /\ W[g].from = K[g].from /\ W[f].from \in done /\ W[g].from \in done /\ W[f].from # n /\ W[g].from # n
      BY <1>5, <3>1
    <3>3. K[g].from \notin flagged /\ late[K[f].from] # "settled" /\ late[K[g].from] # "settled"
      BY <1>6, <1>7, <2>3, <3>2
    <3>4. ~K[f].active /\ K[f].until < K[g].from
      BY <2>1, <2>3, <3>1, <3>2, <3>3 DEF Succeeds, Superseded
    <3>5. ~W[f].active
      <4> SUFFICES ASSUME W[f].active PROVE FALSE
        OBVIOUS
      <4>1. u = n /\ K[f].until >= n - 1
        BY <1>5, <3>1, <3>4
      <4>2. W[g].from < n
        BY <1>5, <3>1, <4>1
      <4>3. K[f].until \in 0..Size /\ K[g].from \in 0..Size
        BY <1>5 DEF Claim
      <4> QED BY <1>4, <3>2, <3>4, <4>1, <4>2, <4>3
    <3>6. W[f] = K[f]
      BY <1>5, <3>1, <3>5
    <3> QED BY <3>2, <3>4, <3>6 DEF Superseded
  <2>4. Succeeds(W[f], W[g])'
    BY <2>3 DEF Succeeds, Original, Effective, Superseded, Known
  <2> QED BY <2>2, <2>4
<1>10. FactsSound(W)'
  BY <1>8, <1>9 DEF FactsSound
<1>11. W \in [FactTexts -> Claim]
  <2>1. W = [f \in FactTexts |-> W[f]]
    BY <1>2 DEF FactsAt
  <2> QED BY <1>5, <2>1
<1>12. PICK F : F = FactsAfter(W, n, s)
  OBVIOUS
<1>13. Text(s) /\ facts' = F
  BY <1>2, <1>12 DEF Writes, Apply
<1>14. ASSUME s.fact # "-"
       PROVE  story'[n].fact = s.fact /\ "facts" \notin missing'[n] /\ \A f \in FactTexts : Known(W[f]) => W[f].from # n
  BY <1>5, <1>6, <1>14
<1>15. ASSUME late'[n] # "settled", NEW g \in FactTexts, Known(W[g]) PROVE W[g].from <= n
  <2>1. W[g].from \in done /\ W[g].from \in 0..Size /\ (u = n => W[g].from < n)
    BY <1>5, <1>15 DEF Claim
  <2>2. CASE u = n
    BY <1>4, <2>1, <2>2
  <2>3. CASE u # n
    <3>1. PICK l \in 0..Size : l = LatestSettled /\ W[g].from <= l
      BY <2>1, LatestMoves DEF Writes
    <3>2. u = Size + 1 /\ late'[n] = "-"
      BY <1>6, <1>15, <2>3 DEF Writes
    <3>3. ~(n < l)
      BY <1>4, <3>1, <3>2 DEF Writes
    <3> QED BY <1>4, <2>1, <3>1, <3>3
  <2> QED BY <2>2, <2>3
<1>16. done' \in SUBSET Pages /\ n \in done'
  BY <1>7
<1>17. FactsSound(F)'
  BY <1>10, <1>11, <1>12, <1>13, <1>14, <1>15, <1>16, FactsStep
<1> QED BY <1>13, <1>17, SameFacts

-----------------------------------------------------------------------------
(* A repair.                                                               *)

\* A repair of chapter n applies x; what the failed stages extract is s.
Repairs(n, s, x) ==
  /\ Text(s) /\ Text(x) /\ x.place = s.place /\ x.item = s.item /\ x.thread = s.thread
  /\ card' = CardAfter(card, n, x) /\ places' = PlacesAfter(places, n, x)
  /\ events' = EventsAfter(events, n, x) /\ Strands(n, x, thread, bond, graph)
  /\ \/ ~Diverted(n, s.fact) /\ facts' = FactsAfter(facts, n, s)
     \/ Diverted(n, s.fact) /\ facts' = [facts EXCEPT ![s.fact] = [source |-> n, from |-> n, until |-> 0, active |-> FALSE]]
  /\ s.place \in {"-", Told(n)'} /\ (s.place = "-" => Told(n)' = Told(n))
  /\ s.thread = (IF "threads" \in missing[n] THEN story[n].thread ELSE "-")
  /\ s.item \in {"-", story[n].item}
  /\ s.fact # "-" => s.fact = story[n].fact /\ "facts" \in missing[n]

LEMMA RepairIs ==
  ASSUME LedgerTypes, FlagsRun, NEW n \in Pages, RepairPage(n)
  PROVE  n \notin flagged /\ \E s, x : Repairs(n, s, x)
<1>1. PICK u \in 1..Size + 1 : flagged = u..Size
  BY DEF FlagsRun
<1>2. Size \in Nat \ {0} /\ n \in 1..Size
  BY LedgerAssumption DEF Pages
<1>3. n \notin flagged
  <2>1. flagged = {} \/ n < StaleFrom(flagged)
    BY DEF RepairPage
  <2>2. flagged # {} => n < u
    BY <1>1, <1>2, <2>1, FlagsAre
  <2> QED BY <1>1, <1>2, <2>2
<1>4. PICK s : s = Extracted(story[n], missing[n])
  OBVIOUS
<1>5. PICK x : x = IF Diverted(n, s.fact) THEN [s EXCEPT !.fact = "-"] ELSE s
  OBVIOUS
<1>6. /\ card' = CardAfter(card, n, x) /\ places' = PlacesAfter(places, n, x)
      /\ events' = EventsAfter(events, n, x) /\ Strands(n, x, thread, bond, graph)
      /\ facts' = IF x = s THEN FactsAfter(facts, n, s)
                  ELSE [facts EXCEPT ![s.fact] = [source |-> n, from |-> n, until |-> 0, active |-> FALSE]]
  BY <1>4, <1>5 DEF RepairPage
<1>7. /\ s.place = (IF "characters" \in missing[n] THEN story[n].place ELSE "-")
      /\ s.item = (IF "objects" \in missing[n] THEN story[n].item ELSE "-")
      /\ s.fact = (IF "facts" \in missing[n] THEN story[n].fact ELSE "-")
      /\ s.thread = (IF "threads" \in missing[n] THEN story[n].thread ELSE "-")
  BY <1>4 DEF Extracted
<1>8. Text(s)
  BY <1>4, StoryIsText DEF LedgerTypes
<1>9. CASE Diverted(n, s.fact)
  <2>1. x = [s EXCEPT !.fact = "-"] /\ s.fact # "-"
    BY <1>5, <1>9 DEF Diverted
  <2>2. x.fact = "-" /\ x.place = s.place /\ x.item = s.item /\ x.thread = s.thread
    BY <1>4, <2>1 DEF Extracted
  <2>3. x # s /\ Text(x)
    BY <1>8, <2>1, <2>2 DEF Text
  <2>4. facts' = [facts EXCEPT ![s.fact] = [source |-> n, from |-> n, until |-> 0, active |-> FALSE]]
    BY <1>6, <2>3
  <2>5. Repairs(n, s, x)
    <3>1. s.place \in {"-", Told(n)'} /\ (s.place = "-" => Told(n)' = Told(n))
      <4>1. done' = done /\ story' = story /\ missing' = [missing EXCEPT ![n] = {}] /\ n \in done
        BY DEF RepairPage
      <4>2. missing'[n] = {}
        BY <4>1 DEF LedgerTypes
      <4>3. Told(n)' = story[n].place
        BY <4>1, <4>2 DEF Told
      <4> QED BY <1>7, <4>1, <4>3 DEF Told
    <3> QED BY <1>6, <1>7, <1>8, <1>9, <2>2, <2>3, <2>4, <3>1 DEF Repairs
  <2> QED BY <1>3, <2>5
<1>10. CASE ~Diverted(n, s.fact)
  <2>1. x = s
    BY <1>5, <1>10
  <2>2. facts' = FactsAfter(facts, n, s)
    BY <1>6, <2>1
  <2>3. Repairs(n, s, x)
    <3>1. s.place \in {"-", Told(n)'} /\ (s.place = "-" => Told(n)' = Told(n))
      <4>1. done' = done /\ story' = story /\ missing' = [missing EXCEPT ![n] = {}] /\ n \in done
        BY DEF RepairPage
      <4>2. missing'[n] = {}
        BY <4>1 DEF LedgerTypes
      <4>3. Told(n)' = story[n].place
        BY <4>1, <4>2 DEF Told
      <4> QED BY <1>7, <4>1, <4>3 DEF Told
    <3> QED BY <1>6, <1>7, <1>8, <1>10, <2>1, <2>2, <3>1 DEF Repairs
  <2> QED BY <1>3, <2>3
<1> QED BY <1>9, <1>10

LEMMA RepairFacts ==
  ASSUME LedgerTypes, FactsInv, NEW n \in Pages, RepairPage(n), n \notin flagged, NEW s, NEW x, Repairs(n, s, x)
  PROVE  facts' \in [FactTexts -> Claim] /\ FactsInv'
<1>1. Size \in Nat \ {0} /\ n \in 1..Size
  BY LedgerAssumption DEF Pages
<1>2. n \in done /\ done' = done /\ flagged' = flagged /\ story' = story /\ rewrites' = rewrites
      /\ missing' = [missing EXCEPT ![n] = {}]
      /\ late' = IF Historical(n) /\ late[n] = "-" THEN [late EXCEPT ![n] = "repaired"] ELSE late
  BY DEF RepairPage
<1>3. PICK W : W = facts
  OBVIOUS
<1>4. W \in [FactTexts -> Claim]
  BY <1>3 DEF LedgerTypes
<1>5. missing'[n] = {} /\ \A m \in Pages : m # n => missing'[m] = missing[m]
  BY <1>2 DEF LedgerTypes
<1>6. \A m \in Pages : late'[m] = "settled" <=> late[m] = "settled"
  BY <1>2 DEF LedgerTypes
<1>7. done \in SUBSET Pages
  BY DEF LedgerTypes
<1>8. ASSUME rewrites.refines = 0 PROVE FactsSound(W)'
  <2>1. FactsSound(W)
    BY <1>3, <1>8 DEF FactsInv
  <2>2. ASSUME NEW f \in FactTexts PROVE (FactPlaced(W[f]) /\ FactTold(f, W[f]) /\ FactWhole(W[f]))'
    <3>1. FactPlaced(W[f]) /\ FactTold(f, W[f]) /\ FactWhole(W[f])
      BY <2>1 DEF FactsSound
    <3>2. FactPlaced(W[f])' /\ FactTold(f, W[f])'
      BY <1>2, <3>1 DEF FactPlaced, FactTold, Known
    <3>3. FactWhole(W[f])'
      BY <1>2, <1>5, <1>7, <3>1 DEF FactPlaced, FactWhole, Known
    <3> QED BY <3>2, <3>3
  <2>3. ASSUME NEW f \in FactTexts, NEW g \in FactTexts, f # g PROVE (Apart(W[f], W[g]) /\ Succeeds(W[f], W[g]))'
    <3>1. Apart(W[f], W[g]) /\ Succeeds(W[f], W[g])
      BY <2>1, <2>3 DEF FactsSound
    <3>2. \A h \in FactTexts : Known(W[h]) => W[h].from \in Pages
      BY <1>7, <2>1 DEF FactsSound, FactPlaced
    <3>3. Apart(W[f], W[g])'
      BY <3>1 DEF Apart, Known
    <3>4. Succeeds(W[f], W[g])'
      BY <1>2, <1>6, <3>1, <3>2 DEF Succeeds, Original, Known, Effective, Superseded
    <3> QED BY <3>3, <3>4
  <2> QED BY <2>2, <2>3 DEF FactsSound
<1>9. ASSUME rewrites.refines = 0, s.fact # "-", NEW f \in FactTexts, Known(W[f]) PROVE W[f].from # n
  <2>1. FactWhole(W[f])
    BY <1>3, <1>9 DEF FactsInv, FactsSound
  <2>2. "facts" \in missing[n]
    BY <1>9 DEF Repairs
  <2> QED BY <1>9, <2>1, <2>2 DEF FactWhole
<1>10. Text(s) /\ (s.fact # "-" => story'[n].fact = s.fact /\ "facts" \notin missing'[n])
  BY <1>2, <1>5 DEF Repairs
<1>11. CASE ~Diverted(n, s.fact) /\ facts' = FactsAfter(facts, n, s)
  <2>1. PICK F : F = FactsAfter(W, n, s)
    OBVIOUS
  <2>2. facts' = F /\ F \in [FactTexts -> Claim]
    BY <1>3, <1>4, <1>10, <1>11, <2>1, FactsStayClaims
  <2>3. ASSUME rewrites.refines = 0, s.fact \in FactTexts, W[s.fact] = NoFact, NEW g \in FactTexts, Known(W[g]) PROVE W[g].from <= n
    <3>1. s.fact # "-"
      BY <2>3 DEF FactTexts
    <3>2. ~(n < LatestSettled) \/ ~(W[g].from > n)
      BY <1>3, <1>11, <2>3, <3>1 DEF Diverted
    <3>3. W[g].from \in done
      BY <1>3, <2>3 DEF FactsInv, FactsSound, FactPlaced
    <3>4. PICK l \in 0..Size : l = LatestSettled /\ W[g].from <= l
      <4>1. done' = done \cup {n}
        BY <1>2
      <4> QED BY <3>3, <4>1, LatestMoves
    <3>5. W[g].from \in 0..Size
      BY <1>4, <2>3 DEF Claim
    <3> QED BY <1>1, <3>2, <3>4, <3>5
  <2>4. ASSUME rewrites.refines = 0 PROVE FactsInv'
    <3>1. FactsSound(W)' /\ done' \in SUBSET Pages /\ n \in done'
      BY <1>2, <1>7, <1>8, <2>4
    <3>2. s.fact # "-" => /\ story'[n].fact = s.fact /\ "facts" \notin missing'[n]
                          /\ \A f \in FactTexts : Known(W[f]) => W[f].from # n
      BY <1>9, <1>10, <2>4
    <3>3. s.fact \in FactTexts /\ W[s.fact] = NoFact /\ late'[n] # "settled" =>
            \A g \in FactTexts : Known(W[g]) => W[g].from <= n
      BY <2>3, <2>4
    <3>4. FactsSound(F)'
      BY <1>4, <1>10, <2>1, <3>1, <3>2, <3>3, FactsStep
    <3> QED BY <2>2, <3>4, SameFacts
  <2> QED BY <1>2, <2>2, <2>4 DEF FactsInv
<1>12. CASE Diverted(n, s.fact) /\ facts' = [facts EXCEPT ![s.fact] = [source |-> n, from |-> n, until |-> 0, active |-> FALSE]]
  <2>1. PICK c : c = [source |-> n, from |-> n, until |-> 0, active |-> FALSE]
    OBVIOUS
  <2>2. c \in Claim /\ c.source = n /\ c.from = n /\ c.until = 0 /\ c.active = FALSE
    BY <1>1, <2>1 DEF Claim
  <2>3. PICK d : d = s.fact
    OBVIOUS
  <2>4. d \in FactTexts /\ d # "-"
    BY <1>10, <1>12, <2>3 DEF Diverted, Text
  <2>5. PICK F : F = [W EXCEPT ![d] = c]
    OBVIOUS
  <2>6. facts' = F /\ F \in [FactTexts -> Claim] /\ F[d] = c /\ \A f \in FactTexts : f # d => F[f] = W[f]
    BY <1>3, <1>4, <1>12, <2>1, <2>2, <2>3, <2>4, <2>5
  <2>7. ASSUME rewrites.refines = 0 PROVE FactsInv'
    <3>1. ASSUME NEW f \in FactTexts PROVE (FactPlaced(F[f]) /\ FactTold(f, F[f]) /\ FactWhole(F[f]))'
      <4>1. CASE f = d
        <5>1. Known(F[f]) /\ F[f].source = n /\ F[f].from = n /\ F[f].active = FALSE
          BY <1>1, <2>2, <2>6, <4>1 DEF Known
        <5> QED BY <1>2, <1>5, <1>10, <2>3, <2>4, <4>1, <5>1 DEF FactPlaced, FactTold, FactWhole
      <4>2. CASE f # d
        <5>1. (FactPlaced(W[f]) /\ FactTold(f, W[f]) /\ FactWhole(W[f]))'
          BY <1>8, <2>7 DEF FactsSound
        <5> QED BY <2>6, <4>2, <5>1 DEF FactPlaced, FactTold, FactWhole, Known
      <4> QED BY <4>1, <4>2
    <3>2. ASSUME NEW f \in FactTexts, NEW g \in FactTexts, f # g PROVE (Apart(F[f], F[g]) /\ Succeeds(F[f], F[g]))'
      <4>1. CASE f = d
        <5>1. F[g] = W[g] /\ (Known(W[g]) => W[g].from # n)
          BY <1>9, <2>3, <2>4, <2>6, <2>7, <3>2, <4>1
        <5>2. Apart(F[f], F[g])'
          BY <2>2, <2>6, <4>1, <5>1 DEF Apart, Known
        <5>3. n < W[g].from => Superseded(c, W[g])
          <6>1. W[g].from \in 0..Size /\ n \in 1..Size
            BY <1>1, <1>4 DEF Claim
          <6>2. n < W[g].from => 0 < W[g].from
            BY <1>1, <6>1
          <6> QED BY <2>2, <6>2 DEF Superseded
        <5>4. Succeeds(F[f], F[g])'
          BY <2>2, <2>6, <4>1, <5>1, <5>3 DEF Succeeds, Superseded
        <5> QED BY <5>2, <5>4
      <4>2. CASE g = d
        <5>1. F[f] = W[f] /\ (Known(W[f]) => W[f].from # n)
          BY <1>9, <2>3, <2>4, <2>6, <2>7, <3>2, <4>2
        <5>2. Apart(F[f], F[g])'
          BY <2>2, <2>6, <4>2, <5>1 DEF Apart, Known
        <5>3. Succeeds(F[f], F[g])'
          BY <2>2, <2>6, <4>2 DEF Succeeds, Effective
        <5> QED BY <5>2, <5>3
      <4>3. CASE f # d /\ g # d
        <5>1. (Apart(W[f], W[g]) /\ Succeeds(W[f], W[g]))'
          BY <1>8, <2>7, <3>2 DEF FactsSound
        <5> QED BY <2>6, <4>3, <5>1 DEF Apart, Succeeds, Known, Original, Effective, Superseded
      <4> QED BY <4>1, <4>2, <4>3
    <3>3. FactsSound(F)'
      BY <3>1, <3>2 DEF FactsSound
    <3> QED BY <2>6, <3>3, SameFacts
  <2> QED BY <1>2, <2>6, <2>7 DEF FactsInv
<1> QED BY <1>11, <1>12 DEF Repairs
-----------------------------------------------------------------------------
(* Each operation keeps the ledger.                                        *)

LEMMA WritesTypes ==
  ASSUME LedgerInv, NEW n \in Pages, NEW u \in 1..Size + 1, NEW v \in 1..Size + 1, NEW s, Writes(n, u, v, s),
         rewrites' \in [edits : Nat, refines : Nat]
  PROVE  LedgerTypes'
<1> USE DEF LedgerInv
<1>1. /\ story' \in [Pages -> Stories] /\ missing' \in [Pages -> SUBSET StageKinds] /\ late' \in [Pages -> Ways]
      /\ done' = done \cup {n} /\ Text(s) /\ facts' = FactsAfter(FactsAt(n), n, s)
  BY DEF Writes, Apply
<1>2. done' \in SUBSET Pages
  BY <1>1 DEF LedgerTypes
<1>3. card'.last \in 0..LatestSettled'
  BY WritesCard
<1>4. places' \in [PlaceNames -> Entry]
  BY SettlePlaces
<1>5. facts' \in [FactTexts -> Claim]
  <2>1. PICK W : W = FactsAt(n)
    OBVIOUS
  <2>2. \A f \in FactTexts : facts[f] \in Claim /\ FactSeen(facts[f], n) \in Claim
    BY SeenIsClaim DEF LedgerTypes
  <2>3. W \in [FactTexts -> Claim]
    BY <2>1, <2>2 DEF FactsAt
  <2> QED BY <1>1, <2>1, <2>3, FactsStayClaims
<1>6. \A e \in events' : e.chapter \in done'
  BY WritesItems
<1>7. thread'.last \in 0..Size /\ bond'.last \in 0..Size
  BY WritesStrands
<1> QED BY <1>1, <1>2, <1>3, <1>4, <1>5, <1>6, <1>7 DEF LedgerTypes

LEMMA KeepSettle ==
  ASSUME LedgerInv, NEW n \in Pages, SettlePage(n)
  PROVE  LedgerInv'
<1> USE DEF LedgerInv
<1> PICK u \in 1..Size + 1, v \in 1..Size + 1 : \E s : Writes(n, u, v, s) /\ SettlesText(n, s)
  BY SettleWrites
<1>1. PICK s : Writes(n, u, v, s) /\ SettlesText(n, s)
  OBVIOUS
<1>2. rewrites' \in [edits : Nat, refines : Nat]
  BY <1>1 DEF SettlesText, LedgerTypes
<1>3. LedgerTypes'
  BY <1>1, <1>2, WritesTypes
<1>4. FlagsRun' /\ LateIsBehind'
  BY <1>1, WritesFlags
<1>5. CardInv'
  BY <1>1, WritesCard
<1>6. PlacesInv'
  BY <1>1, SettlePlaces
<1>7. ItemsInv'
  BY <1>1, WritesItems
<1>8. FactsInv'
  BY <1>1, SettleFacts
<1>9. ThreadIsNewest'
  BY <1>1, SettleThread
<1>10. GraphFollowsMemory'
  BY <1>1, WritesStrands
<1> QED BY <1>3, <1>4, <1>5, <1>6, <1>7, <1>8, <1>9, <1>10

LEMMA KeepRefine ==
  ASSUME LedgerInv, NEW n \in Pages, RefinePage(n)
  PROVE  LedgerInv'
<1> USE DEF LedgerInv
<1>1. /\ \E u, v \in 1..Size + 1 : \E s : Writes(n, u, v, s)
      /\ rewrites' \in [edits : Nat, refines : Nat] /\ rewrites'.refines # 0 /\ Rewritten' # 0
  BY RefineWrites
<1> PICK u \in 1..Size + 1, v \in 1..Size + 1 : \E s : Writes(n, u, v, s)
  BY <1>1
<1>2. PICK s : Writes(n, u, v, s)
  OBVIOUS
<1>3. LedgerTypes'
  BY <1>1, <1>2, WritesTypes
<1>4. FlagsRun' /\ LateIsBehind'
  BY <1>2, WritesFlags
<1>5. CardInv'
  BY <1>2, WritesCard
<1>6. PlacesInv'
  BY <1>1 DEF PlacesInv
<1>7. ItemsInv'
  BY <1>2, WritesItems
<1>8. FactsInv'
  BY <1>1 DEF FactsInv
<1>9. ThreadIsNewest'
  BY <1>1 DEF ThreadIsNewest
<1>10. GraphFollowsMemory'
  BY <1>2, WritesStrands
<1> QED BY <1>3, <1>4, <1>5, <1>6, <1>7, <1>8, <1>9, <1>10

LEMMA KeepRepair ==
  ASSUME LedgerInv, NEW n \in Pages, RepairPage(n)
  PROVE  LedgerInv'
<1> USE DEF LedgerInv
<1>1. n \notin flagged /\ \E s, x : Repairs(n, s, x)
  BY RepairIs
<1>2. PICK s, x : Repairs(n, s, x)
  BY <1>1
<1>3. /\ n \in done /\ done' = done /\ flagged' = flagged /\ story' = story /\ rewrites' = rewrites
      /\ missing' = [missing EXCEPT ![n] = {}]
      /\ late' = IF Historical(n) /\ late[n] = "-" THEN [late EXCEPT ![n] = "repaired"] ELSE late
  BY DEF RepairPage
<1>4. /\ Text(x) /\ x.place = s.place /\ x.item = s.item /\ x.thread = s.thread
      /\ card' = CardAfter(card, n, x) /\ places' = PlacesAfter(places, n, x)
      /\ events' = EventsAfter(events, n, x) /\ Strands(n, x, thread, bond, graph)
      /\ s.place \in {"-", Told(n)'} /\ (s.place = "-" => Told(n)' = Told(n))
      /\ s.thread = (IF "threads" \in missing[n] THEN story[n].thread ELSE "-")
      /\ s.item \in {"-", story[n].item}
  BY <1>2 DEF Repairs
<1>5. LatestSettled' = LatestSettled
  BY <1>3 DEF LatestSettled
<1>6. FlagsRun'
  BY <1>3, <1>5 DEF FlagsRun
<1>7. LateIsBehind'
  <2> SUFFICES ASSUME NEW m \in Pages, late'[m] # "-" PROVE m \in done /\ m < LatestSettled
    BY <1>3, <1>5 DEF LateIsBehind
  <2>1. CASE late[m] # "-"
    BY <2>1 DEF LateIsBehind
  <2>2. CASE late[m] = "-"
    <3>1. m = n /\ Historical(n)
      BY <1>3, <2>2 DEF LedgerTypes
    <3> QED BY <1>3, <3>1 DEF Historical
  <2> QED BY <2>1, <2>2
<1>8. CardInv' /\ card'.last \in 0..LatestSettled'
  BY <1>1, <1>4, RepairCard
<1>9. places' \in [PlaceNames -> Entry] /\ PlacesInv'
  BY <1>1, <1>4, RepairPlaces
<1>10. ItemsInv' /\ \A e \in events' : e.chapter \in done'
  <2>1. \A m \in Pages : m # n => story'[m] = story[m] /\ late'[m] = late[m] /\ (m \notin flagged' => m \notin flagged)
    BY <1>3 DEF LedgerTypes
  <2>2. late'[n] = "-" => \A e \in events : e.chapter <= n
    <3> SUFFICES ASSUME late'[n] = "-", NEW e \in events PROVE e.chapter <= n
      OBVIOUS
    <3>1. ~Historical(n)
      BY <1>3 DEF LedgerTypes
    <3>2. ~(n < LatestSettled)
      BY <1>1, <3>1 DEF Historical
    <3>3. done' = done \cup {n} /\ e.chapter \in done
      BY <1>3 DEF LedgerTypes
    <3>4. PICK l \in 0..Size : l = LatestSettled /\ e.chapter <= l
      BY <3>3, LatestMoves
    <3>5. ~(n < l) /\ done \in SUBSET Pages
      BY <3>2, <3>4 DEF LedgerTypes
    <3>6. Size \in Nat /\ n \in 1..Size /\ e.chapter \in 1..Size /\ l \in 0..Size
      <4>1. Size \in Nat
        BY LedgerAssumption
      <4>2. e.chapter \in Pages
        BY <3>3, <3>5
      <4> QED BY <3>4, <4>1, <4>2 DEF Pages
    <3> QED BY <3>4, <3>5, <3>6
  <2>3. done' = done \cup {n} /\ x.item \in {"-", story'[n].item}
    BY <1>3, <1>4
  <2> QED BY <1>4, <2>1, <2>2, <2>3, ItemsStay
<1>11. facts' \in [FactTexts -> Claim] /\ FactsInv'
  BY <1>1, <1>2, RepairFacts
<1>12. ThreadIsNewest'
  BY <1>4, RepairThread DEF Strands
<1>13. thread'.last \in 0..Size /\ bond'.last \in 0..Size /\ GraphFollowsMemory'
  <2>1. graph = bond /\ thread.last \in 0..Size /\ bond.last \in 0..Size
    BY DEF GraphFollowsMemory, LedgerTypes
  <2>2. Strands(n, x, thread, bond, bond)
    BY <1>4, <2>1
  <2> QED BY <2>1, <2>2, StrandsStay
<1>14. /\ missing' \in [Pages -> SUBSET StageKinds] /\ late' \in [Pages -> Ways]
       /\ story' \in [Pages -> Stories] /\ done' \in SUBSET Pages /\ rewrites' \in [edits : Nat, refines : Nat]
  BY <1>3 DEF LedgerTypes, Ways
<1>15. LedgerTypes'
  BY <1>8, <1>9, <1>10, <1>11, <1>13, <1>14 DEF LedgerTypes
<1> QED BY <1>6, <1>7, <1>8, <1>9, <1>10, <1>11, <1>12, <1>13, <1>15

LEMMA KeepEdit ==
  ASSUME LedgerInv, NEW n \in Pages, EditPage(n)
  PROVE  LedgerInv'
<1> USE DEF LedgerInv
<1>1. Size \in Nat \ {0} /\ n \in 1..Size /\ done \in SUBSET Pages
  BY LedgerAssumption DEF Pages, LedgerTypes
<1>2. PICK t \in Stories : story' = [story EXCEPT ![n] = t]
  BY DEF EditPage
<1>3. /\ n \in done /\ flagged' = flagged \cup n..Size /\ rewrites' = [rewrites EXCEPT !.edits = @ + 1]
      /\ done' = done /\ missing' = missing /\ card' = card /\ places' = places /\ facts' = facts /\ events' = events
      /\ thread' = thread /\ bond' = bond /\ graph' = graph /\ late' = late
  BY DEF EditPage, Flag
<1>4. \A m \in Pages : m \notin flagged' => m \notin flagged /\ m # n /\ story'[m] = story[m]
  BY <1>1, <1>2, <1>3 DEF LedgerTypes
<1>5. rewrites' \in [edits : Nat, refines : Nat] /\ rewrites'.refines = rewrites.refines /\ Rewritten' # 0
  <2>1. PICK a \in Nat, b \in Nat : rewrites = [edits |-> a, refines |-> b]
    BY DEF LedgerTypes
  <2>2. rewrites' = [edits |-> a + 1, refines |-> b]
    BY <1>3, <2>1
  <2>3. Rewritten' = a + 1 + b
    BY <2>2 DEF Rewritten
  <2> QED BY <2>1, <2>2, <2>3
<1>6. LatestSettled' = LatestSettled
  BY <1>3 DEF LatestSettled
<1>7. LedgerTypes'
  BY <1>2, <1>3, <1>5, <1>6 DEF LedgerTypes
<1>8. FlagsRun'
  <2>1. PICK u \in 1..Size + 1 : flagged = u..Size /\ (u <= Size => u - 1 <= LatestSettled)
    BY DEF FlagsRun
  <2>2. PICK l : l = LatestSettled
    OBVIOUS
  <2>3. l \in 0..Size /\ n <= l
    BY <1>1, <1>3, <2>2, LatestIs DEF LatestSettled
  <2>4. PICK w : w = IF u <= n THEN u ELSE n
    OBVIOUS
  <2>5. w \in 1..Size + 1 /\ flagged' = w..Size /\ (w <= Size => w - 1 <= l)
    BY <1>1, <1>3, <2>1, <2>2, <2>3, <2>4
  <2> QED BY <1>6, <2>2, <2>5 DEF FlagsRun
<1>9. LateIsBehind'
  BY <1>3, <1>6 DEF LateIsBehind
<1>10. CardInv'
  <2> SUFFICES ASSUME NEW m \in done, m \notin flagged', late[m] = "-", Told(m)' # "-" PROVE CardOf(m)'
    BY <1>3 DEF CardInv
  <2>1. m \in Pages /\ m \notin flagged /\ story'[m] = story[m]
    BY <1>1, <1>4
  <2>2. Told(m)' = Told(m)
    BY <1>3, <2>1 DEF Told
  <2>3. CardOf(m)
    BY <2>1, <2>2 DEF CardInv
  <2> QED BY <1>3, <2>2, <2>3 DEF CardOf
<1>11. PlacesInv'
  BY <1>5 DEF PlacesInv
<1>12. ItemsInv'
  <2> SUFFICES ASSUME NEW e \in events, OnTime(e.chapter)', e.state = "active", ItemBefore(events, e.chapter) = "lost"
               PROVE  story'[e.chapter].item = "found"
    BY <1>3 DEF ItemsInv, ItemBefore
  <2>1. e.chapter \in Pages
    BY <1>1 DEF LedgerTypes
  <2>2. e.chapter \notin flagged /\ story'[e.chapter] = story[e.chapter]
    BY <1>4, <2>1 DEF OnTime
  <2>3. OnTime(e.chapter)
    BY <1>3, <2>2 DEF OnTime
  <2> QED BY <2>2, <2>3 DEF ItemsInv
<1>13. FactsInv'
  <2>1. PICK W : W = facts
    OBVIOUS
  <2>2. W \in [FactTexts -> Claim]
    BY <2>1 DEF LedgerTypes
  <2> SUFFICES ASSUME rewrites.refines = 0 PROVE FactsSound(W)'
    BY <1>3, <1>5, <2>1, SameFacts DEF FactsInv
  <2>3. FactsSound(W)
    BY <2>1 DEF FactsInv
  <2>4. ASSUME NEW f \in FactTexts PROVE (FactPlaced(W[f]) /\ FactTold(f, W[f]) /\ FactWhole(W[f]))'
    <3>1. FactPlaced(W[f]) /\ FactTold(f, W[f]) /\ FactWhole(W[f])
      BY <2>3 DEF FactsSound
    <3>2. FactPlaced(W[f])'
      BY <1>3, <3>1 DEF FactPlaced
    <3>3. Known(W[f]) => W[f].source \in Pages /\ W[f].from \in Pages
      BY <1>1, <3>1 DEF FactPlaced
    <3>4. FactTold(f, W[f])'
      BY <1>4, <3>1, <3>3 DEF FactTold, Known
    <3>5. FactWhole(W[f])'
      BY <1>3, <1>4, <3>1, <3>3 DEF FactWhole, Known
    <3> QED BY <3>2, <3>4, <3>5
  <2>5. ASSUME NEW f \in FactTexts, NEW g \in FactTexts, f # g PROVE (Apart(W[f], W[g]) /\ Succeeds(W[f], W[g]))'
    <3>1. Apart(W[f], W[g]) /\ Succeeds(W[f], W[g])
      BY <2>3, <2>5 DEF FactsSound
    <3>2. Apart(W[f], W[g])'
      BY <3>1 DEF Apart, Known
    <3>3. Known(W[g]) => W[g].from \in Pages
      BY <1>1, <2>3 DEF FactsSound, FactPlaced
    <3>4. Succeeds(W[f], W[g])'
      BY <1>3, <1>4, <3>1, <3>3 DEF Succeeds, Original, Known, Effective, Superseded
    <3> QED BY <3>2, <3>4
  <2> QED BY <2>4, <2>5 DEF FactsSound
<1>14. ThreadIsNewest'
  <2>1. ASSUME rewrites.refines = 0, thread.last \notin {0} \cup flagged' PROVE thread.says = story'[thread.last].thread
    <3>1. thread.last \in Pages
      BY <1>1, <2>1 DEF LedgerTypes, Pages
    <3>2. thread.last \notin {0} \cup flagged /\ story'[thread.last] = story[thread.last]
      BY <1>4, <2>1, <3>1
    <3> QED BY <2>1, <3>2 DEF ThreadIsNewest
  <2> QED BY <1>3, <1>5, <2>1 DEF ThreadIsNewest
<1>15. GraphFollowsMemory'
  BY <1>3 DEF GraphFollowsMemory
<1> QED BY <1>7, <1>8, <1>9, <1>10, <1>11, <1>12, <1>13, <1>14, <1>15

\* The book begins with nothing settled.
LEMMA InitLedger == LedgerInit => LedgerInv
<1> SUFFICES ASSUME LedgerInit PROVE LedgerInv
  OBVIOUS
<1>1. Size \in Nat \ {0}
  BY LedgerAssumption
<1>2. done = {} /\ flagged = {} /\ events = {} /\ LatestSettled = 0 /\ Rewritten = 0 /\ thread = NoStrand
  BY DEF LedgerInit, LatestSettled, Rewritten
<1>3. LedgerTypes
  <2>1. NoFact \in Claim /\ NoPlace \in Entry /\ NoStrand.last \in 0..Size
    BY <1>1 DEF NoFact, NoPlace, NoStrand, Claim, Entry
  <2>2. places \in [PlaceNames -> Entry] /\ facts \in [FactTexts -> Claim]
    BY <2>1 DEF LedgerInit
  <2>3. story \in [Pages -> Stories] /\ done \in SUBSET Pages /\ missing \in [Pages -> SUBSET StageKinds]
        /\ late \in [Pages -> Ways] /\ rewrites \in [edits : Nat, refines : Nat]
    BY DEF LedgerInit, Ways
  <2>4. card.last \in 0..LatestSettled /\ thread.last \in 0..Size /\ bond.last \in 0..Size
    BY <1>1, <1>2, <2>1 DEF LedgerInit
  <2> QED BY <1>2, <2>2, <2>3, <2>4 DEF LedgerTypes
<1>4. FlagsRun
  <2>1. Size + 1 \in 1..Size + 1 /\ flagged = (Size + 1)..Size /\ ~(Size + 1 <= Size)
    BY <1>1, <1>2
  <2> QED BY <2>1 DEF FlagsRun
<1>5. LateIsBehind
  BY DEF LedgerInit, LateIsBehind
<1>6. CardInv /\ ItemsInv
  BY <1>2 DEF CardInv, ItemsInv
<1>7. PlacesInv
  BY <1>2 DEF LedgerInit, PlacesInv, NoPlace
<1>8. FactsInv
  <2>1. \A f \in FactTexts : facts[f] = NoFact /\ ~Known(facts[f])
    BY DEF LedgerInit, NoFact, Known
  <2> QED BY <2>1 DEF FactsInv, FactsSound, FactPlaced, FactTold, FactWhole, Apart, Succeeds, Original
<1>9. ThreadIsNewest
  BY <1>2 DEF ThreadIsNewest, NoStrand
<1>10. GraphFollowsMemory
  BY DEF LedgerInit, GraphFollowsMemory
<1> QED BY <1>3, <1>4, <1>5, <1>6, <1>7, <1>8, <1>9, <1>10 DEF LedgerInv

LEMMA StepLedger == LedgerInv /\ [LedgerNext]_ledgerVars => LedgerInv'
<1>1. LedgerInv /\ LedgerNext => LedgerInv'
  BY KeepSettle, KeepRepair, KeepEdit, KeepRefine DEF LedgerNext
<1>2. ASSUME LedgerInv, UNCHANGED ledgerVars PROVE LedgerInv'
  <2>1. /\ story' = story /\ done' = done /\ missing' = missing /\ flagged' = flagged /\ card' = card /\ places' = places
        /\ facts' = facts /\ events' = events /\ thread' = thread /\ bond' = bond /\ graph' = graph /\ late' = late
        /\ rewrites' = rewrites
    BY <1>2 DEF ledgerVars
  <2>2. LatestSettled' = LatestSettled /\ Rewritten' = Rewritten
    BY <2>1 DEF LatestSettled, Rewritten
  <2>3. LedgerTypes' /\ FlagsRun' /\ LateIsBehind'
    BY <1>2, <2>1, <2>2 DEF LedgerInv, LedgerTypes, FlagsRun, LateIsBehind
  <2>4. CardInv' /\ PlacesInv'
    BY <1>2, <2>1, <2>2 DEF LedgerInv, CardInv, CardOf, Told, PlacesInv, InTurn
  <2>5. ItemsInv'
    BY <1>2, <2>1 DEF LedgerInv, ItemsInv, OnTime, ItemBefore
  <2>6. FactsInv'
    BY <1>2, <2>1 DEF LedgerInv, FactsInv, FactsSound, FactPlaced, FactTold, FactWhole, Apart, Succeeds, Original, Known, Effective, Superseded
  <2>7. ThreadIsNewest' /\ GraphFollowsMemory'
    BY <1>2, <2>1, <2>2 DEF LedgerInv, ThreadIsNewest, GraphFollowsMemory
  <2> QED BY <2>3, <2>4, <2>5, <2>6, <2>7 DEF LedgerInv
<1> QED BY <1>1, <1>2

\* What the invariant says of the memory.
LEMMA LedgerTells == LedgerInv => LedgerIsSound
<1> SUFFICES ASSUME LedgerInv PROVE LedgerIsSound
  OBVIOUS
<1> USE DEF LedgerInv
<1>1. done \in SUBSET Pages /\ \A m \in Pages : m \in Nat /\ 1 <= m /\ m <= Size
  BY LedgerAssumption DEF LedgerTypes, Pages
<1>2. FactsArePresent
  <2> SUFFICES ASSUME rewrites.refines = 0, NEW f \in FactTexts, facts[f].active, facts[f].source \notin flagged
               PROVE  story[facts[f].source].fact = f
    BY DEF FactsArePresent
  <2>1. FactPlaced(facts[f]) /\ FactTold(f, facts[f])
    BY DEF FactsInv, FactsSound
  <2>2. Known(facts[f])
    BY <2>1 DEF FactPlaced, NoFact
  <2> QED BY <2>1, <2>2 DEF FactTold
<1>3. CardIsNewest
  <2> SUFFICES ASSUME flagged = {}, NEW m \in done, m >= card.last, late[m] = "-", Told(m) # "-" PROVE card.place = Told(m)
    BY DEF CardIsNewest
  <2>1. m <= card.last /\ (m = card.last => card.place = Told(m))
    BY DEF CardInv, CardOf
  <2>2. PICK l : l = LatestSettled
    OBVIOUS
  <2>3. card.last \in 0..l /\ l \in 0..Size
    BY <1>1, <2>2, LatestIs DEF LedgerTypes, LatestSettled
  <2>4. m = card.last
    BY <1>1, <2>1, <2>3
  <2> QED BY <2>1, <2>4
<1>4. KnowledgeFollowsCard
  BY DEF KnowledgeFollowsCard, InOrder, PlacesInv, InTurn
<1>5. ItemsAreFound
  <2> SUFFICES ASSUME InOrder, NEW e \in events, e.state = "active", ItemBefore(events, e.chapter) = "lost"
               PROVE  story[e.chapter].item = "found"
    BY DEF ItemsAreFound
  <2>1. e.chapter \in Pages
    BY <1>1 DEF LedgerTypes
  <2>2. \A m \in 1..e.chapter : m \in Pages
    BY <1>1, <2>1, LedgerAssumption DEF Pages
  <2>3. OnTime(e.chapter)
    BY <2>2 DEF OnTime, InOrder
  <2> QED BY <2>3 DEF ItemsInv
<1>6. OneFactInForce
  <2> SUFFICES ASSUME flagged = {}, rewrites.refines = 0, \A n \in Pages : late[n] # "settled",
                      NEW f \in FactTexts, NEW g \in FactTexts, f # g, facts[f].active, facts[g].active,
                      facts[f].source = facts[f].from, facts[g].source = facts[g].from
               PROVE  FALSE
    BY DEF OneFactInForce
  <2>1. FactsSound(facts)
    BY DEF FactsInv
  <2>2. \A h \in {f, g} : Known(facts[h]) /\ facts[h].from \in Pages
    BY <1>1, <2>1 DEF FactsSound, FactPlaced, NoFact
  <2>3. Original(facts[f]) /\ Original(facts[g]) /\ Effective(facts[f]) /\ Effective(facts[g])
    BY <2>2 DEF Original, Effective
  <2>4. facts[f].from # facts[g].from /\ Succeeds(facts[f], facts[g]) /\ Succeeds(facts[g], facts[f])
    BY <2>1, <2>2 DEF FactsSound, Apart
  <2>5. ~(facts[f].from < facts[g].from) /\ ~(facts[g].from < facts[f].from)
    BY <2>2, <2>3, <2>4 DEF Succeeds, Superseded
  <2>6. facts[f].from \in Nat /\ facts[g].from \in Nat
    BY <1>1, <2>2
  <2> QED BY <2>4, <2>5, <2>6
<1> QED BY <1>2, <1>3, <1>4, <1>5, <1>6 DEF LedgerIsSound

\* However chapters are settled, edited, refined and repaired, what the memory holds in force follows from
\* the text, for every length of the book and every set of texts and failing stages.
THEOREM LedgerSound == LedgerSpec => []LedgerIsSound
<1>1. LedgerSpec => []LedgerInv
  BY InitLedger, StepLedger, PTL DEF LedgerSpec
<1> QED BY <1>1, LedgerTells, PTL
=============================================================================
