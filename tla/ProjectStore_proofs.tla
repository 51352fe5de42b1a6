------------------------- MODULE ProjectStore_proofs -------------------------
(***************************************************************************)
(* Proofs about the repository, for every set of contents, plans and       *)
(* receipts and every retention limit.                                     *)
(***************************************************************************)
EXTENDS ProjectStore, TLAPS, SequenceTheorems, WellFoundedInduction

(***************************************************************************)
(* Versions of the project are ordered by their authority revision, and    *)
(* strictly where the fields it stands for differ.  Kept between any two   *)
(* stored versions, this is what a new version is compared with when it    *)
(* has passed through Bumped, so it is inductive; that equal revisions     *)
(* mean equal fields is not, since a later version could fall back.        *)
(***************************************************************************)
Precedes(d, e) == d.rev <= e.rev /\ (d.plan # e.plan => d.rev < e.rev)

RevisionsOrdered ==
  /\ \A k \in DOMAIN history : Precedes(history[k], doc)
  /\ \A k, l \in DOMAIN history : k < l => Precedes(history[k], history[l])

StoreInv == StoreTypeOK /\ RevisionsOrdered

----------------------------------------------------------------------------
(* The operators.                                                          *)

\* A nonempty set of natural numbers has the minimum that Min chooses.
LEMMA MinOfNaturals ==
  ASSUME NEW S \in SUBSET Nat, S # {}
  PROVE  Min(S) \in S
<1> DEFINE R == OpToRel(<, Nat)
<1>1. PICK m \in S : \A k \in S : ~ (<<k, m>> \in R)
  <2> HIDE DEF R
  <2>1. IsWellFoundedOn(R, Nat)
    BY NatLessThanWellFounded DEF R
  <2>2. QED
    BY <2>1, WFMin
<1>2. ASSUME NEW k \in S PROVE ~(k < m)
  <2>1. k < m => <<k, m>> \in R
    BY DEF OpToRel
  <2>2. QED
    BY <1>1, <2>1
<1> HIDE DEF R
<1>3. \A k \in S : m <= k
  BY <1>2
<1>4. QED
  BY <1>3 DEF Min

\* What the retention deletes leave is the end of the list, at most k long.
LEMMA NewestIsSuffix ==
  ASSUME NEW S, NEW s \in Seq(S), NEW k \in Nat
  PROVE  /\ Newest(s, k) \in Seq(S)
         /\ Len(Newest(s, k)) <= k
         /\ \E off \in Nat : \A i \in 1..Len(Newest(s, k)) :
              i + off \in 1..Len(s) /\ Newest(s, k)[i] = s[i + off]
<1> Len(s) \in Nat
  BY LenProperties
<1>1. CASE Len(s) > k
  <2> DEFINE m == Len(s) - k + 1
  <2>1. m \in Int /\ \A i \in m..Len(s) : s[i] \in S
    BY <1>1, ElementOfSeq
  <2>2. /\ SubSeq(s, m, Len(s)) \in Seq(S)
        /\ Len(SubSeq(s, m, Len(s))) = IF m <= Len(s) THEN Len(s) - m + 1 ELSE 0
        /\ \A i \in 1..Len(s) - m + 1 : SubSeq(s, m, Len(s))[i] = s[m + i - 1]
    BY <2>1, SubSeqProperties
  <2>3. Newest(s, k) = SubSeq(s, m, Len(s)) /\ Len(Newest(s, k)) = k
    BY <1>1, <2>2 DEF Newest
  <2>4. \A i \in 1..Len(Newest(s, k)) :
          i + (Len(s) - k) \in 1..Len(s) /\ Newest(s, k)[i] = s[i + (Len(s) - k)]
    BY <1>1, <2>2, <2>3
  <2>5. Len(s) - k \in Nat
    BY <1>1
  <2> HIDE DEF m
  <2>6. \E off \in Nat : \A i \in 1..Len(Newest(s, k)) :
          i + off \in 1..Len(s) /\ Newest(s, k)[i] = s[i + off]
    <3> USE <2>5
    <3>1. WITNESS Len(s) - k \in Nat
    <3>2. QED
      BY <2>4
  <2>7. Newest(s, k) \in Seq(S)
    BY <2>2, <2>3
  <2>8. Len(Newest(s, k)) <= k
    BY <2>3
  <2>9. QED
    BY <2>6, <2>7, <2>8
<1>2. CASE ~(Len(s) > k)
  <2>1. Newest(s, k) = s
    BY <1>2 DEF Newest
  <2>2. \A i \in 1..Len(s) : i + 0 \in 1..Len(s) /\ s[i] = s[i + 0]
    OBVIOUS
  <2>3. QED
    BY <1>2, <2>1, <2>2
<1>3. QED
  BY <1>1, <1>2

\* The chapter from which memory is stale stays a chapter.
LEMMA InvalidatedType ==
  ASSUME NEW old \in Docs, NEW new \in Docs
  PROVE  Invalidated(old, new) \in 0..N
<1> DEFINE C == ChangedFrom(old, new) \cap Chapters
           S == C \cup ({new.stale} \ {0})
<1>1. new.stale \in 0..N /\ N \in Nat
  BY SizesAssumption DEF Docs
<1>2. CASE C = {}
  BY <1>1, <1>2 DEF Invalidated
<1>3. CASE C # {}
  <2>1. S \in SUBSET Nat /\ S # {} /\ S \subseteq 0..N
    BY <1>1, <1>3 DEF Chapters
  <2>2. Min(S) \in S
    BY <2>1, MinOfNaturals
  <2>3. Invalidated(old, new) = Min(S)
    BY <1>3 DEF Invalidated
  <2>4. QED
    BY <2>1, <2>2, <2>3
<1>4. QED
  BY <1>2, <1>3

\* Whatever document is submitted, what save makes of it is a document that
\* follows the stored one and has all of its receipts.
LEMMA MergedFollows ==
  ASSUME NEW old \in Docs, NEW new \in Docs
  PROVE  /\ Merged(old, new) \in Docs
         /\ Precedes(old, Merged(old, new))
         /\ \A r \in Receipts : old.receipts[r] # NoBody =>
              Merged(old, new).receipts[r] = old.receipts[r]
<1>1. old.rev \in Nat /\ new.rev \in Nat
  BY DEF Docs
<1>2. /\ Bumped(old, new) \in Nat /\ old.rev <= Bumped(old, new)
      /\ old.plan # new.plan => old.rev < Bumped(old, new)
  BY <1>1 DEF Bumped
<1>3. Protected(old, new) \in [Receipts -> Bodies \cup {NoBody}]
  BY DEF Protected, Docs
<1>4. Merged(old, new) \in Docs
  BY <1>2, <1>3, InvalidatedType DEF Merged, Docs
<1>5. Precedes(old, Merged(old, new))
  BY <1>2 DEF Precedes, Merged
<1>6. \A r \in Receipts : old.receipts[r] # NoBody =>
        Merged(old, new).receipts[r] = old.receipts[r]
  BY DEF Merged, Protected
<1>7. QED
  BY <1>4, <1>5, <1>6

----------------------------------------------------------------------------
(* The invariant.                                                          *)

\* A project without history satisfies the invariant.
LEMMA BlankIsFresh ==
  /\ BlankDoc \in Docs /\ \A r \in Receipts : BlankDoc.receipts[r] = NoBody
  /\ <<>> \in Seq(Docs) /\ Len(<<>>) = 0 /\ Len(<<>>) <= KeepRevisions /\ DOMAIN <<>> = {}
  /\ [i \in Chapters |-> <<>>] \in [Chapters -> Seq(Chapter)]
  /\ \A i \in Chapters : Len([c \in Chapters |-> <<>>][i]) <= KeepChapterVersions
<1>1. /\ <<>> \in Seq(Docs) /\ <<>> \in Seq(Chapter)
      /\ Len(<<>>) = 0 /\ DOMAIN <<>> = {}
  BY EmptySeq
<1>2. QED
  BY <1>1, SizesAssumption, ValuesAssumption DEF BlankDoc, Docs, Chapter

LEMMA InitStoreInv == StoreInit => StoreInv
<1> SUFFICES ASSUME StoreInit PROVE StoreInv
  OBVIOUS
<1>1. StoreTypeOK
  BY BlankIsFresh DEF StoreInit, StoreTypeOK
<1>2. RevisionsOrdered
  BY BlankIsFresh DEF StoreInit, RevisionsOrdered
<1>3. QED
  BY <1>1, <1>2 DEF StoreInv

LEMMA PrecedesTransitive ==
  ASSUME NEW c \in Docs, NEW d \in Docs, NEW e \in Docs, Precedes(c, d), Precedes(d, e)
  PROVE  Precedes(c, e)
<1>1. c.rev \in Nat /\ d.rev \in Nat /\ e.rev \in Nat
  BY DEF Docs
<1>2. QED
  BY <1>1 DEF Precedes

\* The list of revisions stays ordered when the replaced version joins it.
LEMMA HistoryGrows ==
  ASSUME StoreInv, NEW new \in Docs, Precedes(doc, new)
  PROVE  LET h == Newest(Append(history, doc), KeepRevisions)
         IN  /\ h \in Seq(Docs) /\ Len(h) <= KeepRevisions
             /\ \A k \in DOMAIN h : Precedes(h[k], new)
             /\ \A k, l \in DOMAIN h : k < l => Precedes(h[k], h[l])
<1> DEFINE s == Append(history, doc)
           h == Newest(s, KeepRevisions)
<1>1. /\ history \in Seq(Docs) /\ doc \in Docs /\ Len(history) \in Nat
      /\ DOMAIN history = 1..Len(history)
  BY LenProperties DEF StoreInv, StoreTypeOK
<1>2. /\ s \in Seq(Docs) /\ Len(s) = Len(history) + 1
      /\ \A i \in 1..Len(history) : s[i] = history[i]
      /\ s[Len(history) + 1] = doc
  BY <1>1, AppendProperties
<1>3. ASSUME NEW i \in 1..Len(s) PROVE s[i] \in Docs /\ Precedes(s[i], new)
  <2>1. CASE i \in 1..Len(history)
    <3>1. s[i] = history[i] /\ s[i] \in Docs /\ Precedes(s[i], doc)
      BY <1>1, <1>2, <2>1, ElementOfSeq DEF StoreInv, RevisionsOrdered
    <3>2. QED
      BY <1>1, <3>1, PrecedesTransitive
  <2>2. CASE i = Len(history) + 1
    BY <1>1, <1>2, <2>2
  <2>3. QED
    BY <1>1, <1>2, <2>1, <2>2
<1>4. ASSUME NEW i \in 1..Len(s), NEW j \in 1..Len(s), i < j PROVE Precedes(s[i], s[j])
  <2>1. i \in 1..Len(history)
    BY <1>1, <1>2, <1>4
  <2>2. CASE j \in 1..Len(history)
    BY <1>1, <1>2, <1>4, <2>1, <2>2 DEF StoreInv, RevisionsOrdered
  <2>3. CASE j = Len(history) + 1
    BY <1>1, <1>2, <2>1, <2>3 DEF StoreInv, RevisionsOrdered
  <2>4. QED
    BY <1>1, <1>2, <2>2, <2>3
<1> HIDE DEF s
<1>5. /\ h \in Seq(Docs) /\ Len(h) <= KeepRevisions
      /\ \E off \in Nat : \A i \in 1..Len(h) : i + off \in 1..Len(s) /\ h[i] = s[i + off]
  <2>1. s \in Seq(Docs) /\ KeepRevisions \in Nat
    BY <1>2, SizesAssumption
  <2>2. QED
    BY ONLY <2>1, NewestIsSuffix
<1>6. PICK off \in Nat : \A i \in 1..Len(h) : i + off \in 1..Len(s) /\ h[i] = s[i + off]
  BY <1>5
<1> HIDE DEF h
<1>7. DOMAIN h = 1..Len(h) /\ Len(h) \in Nat
  BY <1>5, LenProperties
<1>8. \A k \in DOMAIN h : Precedes(h[k], new)
  BY <1>3, <1>6, <1>7
<1>9. ASSUME NEW k \in DOMAIN h, NEW l \in DOMAIN h, k < l PROVE Precedes(h[k], h[l])
  <2>1. k + off < l + off
    BY <1>7, <1>9
  <2>2. /\ k + off \in 1..Len(s) /\ h[k] = s[k + off]
        /\ l + off \in 1..Len(s) /\ h[l] = s[l + off]
    BY <1>6, <1>7
  <2>3. QED
    BY <1>4, <2>1, <2>2
<1>10. QED
  BY <1>5, <1>8, <1>9 DEF h, s

\* The write keeps the invariant for any document that follows the stored one.
LEMMA WriteSafe ==
  ASSUME StoreInv, NEW new \in Docs, Precedes(doc, new), NEW autosave \in BOOLEAN,
         Write(new, autosave)
  PROVE  StoreInv'
<1>1. CASE UNCHANGED storeVars
  BY <1>1 DEF StoreInv, StoreTypeOK, RevisionsOrdered, storeVars
<1>2. CASE ~ UNCHANGED storeVars
  <2>1. /\ doc' = new /\ stamp' = stamp + 1 /\ exists' = exists
        /\ history' = Newest(Append(history, doc), KeepRevisions)
        /\ versions' = WithVersions(doc, new, autosave)
    BY <1>2 DEF Write
  <2>2. /\ history' \in Seq(Docs) /\ Len(history') <= KeepRevisions
        /\ \A k \in DOMAIN history' : Precedes(history'[k], new)
        /\ \A k, l \in DOMAIN history' : k < l => Precedes(history'[k], history'[l])
    BY <2>1, HistoryGrows
  <2>3. ASSUME NEW i \in Chapters
        PROVE  versions'[i] \in Seq(Chapter) /\ Len(versions'[i]) <= KeepChapterVersions
    <3>1. versions[i] \in Seq(Chapter) /\ Len(versions[i]) <= KeepChapterVersions
          /\ doc.chapters[i] \in Chapter
      BY DEF StoreInv, StoreTypeOK, Docs
    <3>2. Append(versions[i], doc.chapters[i]) \in Seq(Chapter)
      BY <3>1, AppendProperties
    <3>3. /\ Newest(Append(versions[i], doc.chapters[i]), KeepChapterVersions) \in Seq(Chapter)
          /\ Len(Newest(Append(versions[i], doc.chapters[i]), KeepChapterVersions)) <= KeepChapterVersions
      BY <3>2, NewestIsSuffix, SizesAssumption
    <3>4. QED
      BY <2>1, <3>1, <3>3 DEF WithVersions
  <2>4. versions' = [i \in Chapters |-> versions'[i]]
    BY <2>1 DEF WithVersions
  <2>5. StoreTypeOK'
    <3>1. versions' \in [Chapters -> Seq(Chapter)]
      BY <2>3, <2>4
    <3>2. exists' \in BOOLEAN /\ doc' \in Docs /\ stamp' \in Nat
      BY <2>1 DEF StoreInv, StoreTypeOK
    <3>3. QED
      BY <2>2, <2>3, <3>1, <3>2 DEF StoreTypeOK
  <2>6. RevisionsOrdered'
    BY <2>1, <2>2 DEF RevisionsOrdered, Precedes
  <2>7. QED
    BY <2>5, <2>6 DEF StoreInv
<1>3. QED
  BY <1>1, <1>2

LEMMA SaveBlindSafe ==
  ASSUME StoreInv, NEW submitted \in Docs, NEW autosave \in BOOLEAN,
         SaveBlind(submitted, autosave)
  PROVE  StoreInv'
<1>1. doc \in Docs
  BY DEF StoreInv, StoreTypeOK
<1>2. Merged(doc, submitted) \in Docs /\ Precedes(doc, Merged(doc, submitted))
  BY <1>1, MergedFollows
<1>3. QED
  BY <1>2, WriteSafe DEF SaveBlind

\* A version that was kept can be submitted again.
LEMMA StoredIsDocument ==
  ASSUME StoreInv
  PROVE  /\ \A s \in Submissions : s \in Docs
         /\ \A k \in DOMAIN history : history[k] \in Docs
         /\ \A i \in Chapters : \A k \in DOMAIN versions[i] :
              [doc EXCEPT !.chapters[i] = versions[i][k]] \in Docs
<1>1. \A s \in Submissions : s \in Docs
  BY SizesAssumption DEF Submissions, Docs
<1>2. \A k \in DOMAIN history : history[k] \in Docs
  BY LenProperties, ElementOfSeq DEF StoreInv, StoreTypeOK
<1>3. ASSUME NEW i \in Chapters, NEW k \in DOMAIN versions[i]
      PROVE  [doc EXCEPT !.chapters[i] = versions[i][k]] \in Docs
  <2>1. versions[i] \in Seq(Chapter) /\ doc \in Docs
    BY DEF StoreInv, StoreTypeOK
  <2>2. versions[i][k] \in Chapter
    BY <2>1, LenProperties, ElementOfSeq
  <2>3. QED
    BY <2>1, <2>2 DEF Docs
<1>4. QED
  BY <1>1, <1>2, <1>3

LEMMA StepStoreInv == StoreInv /\ [StoreNext]_storeVars => StoreInv'
<1> SUFFICES ASSUME StoreInv, [StoreNext]_storeVars PROVE StoreInv'
  OBVIOUS
<1>1. CASE AnySave
  <2>1. PICK s \in Submissions, autosave \in BOOLEAN : SaveBlind(s, autosave)
    BY <1>1 DEF AnySave, SaveBlind, SaveVersioned
  <2>2. QED
    BY <2>1, SaveBlindSafe, StoredIsDocument
<1>2. ASSUME NEW k \in 1..KeepRevisions, Restore(k) PROVE StoreInv'
  BY <1>2, SaveBlindSafe, StoredIsDocument DEF Restore
<1>3. ASSUME NEW i \in Chapters, NEW k \in 1..KeepChapterVersions, RestoreChapter(i, k)
      PROVE  StoreInv'
  <2>1. /\ k \in DOMAIN versions[i]
        /\ SaveBlind([doc EXCEPT !.chapters[i] = versions[i][k]], FALSE)
    BY <1>3 DEF RestoreChapter
  <2>2. [doc EXCEPT !.chapters[i] = versions[i][k]] \in Docs
    BY <2>1, StoredIsDocument
  <2>3. QED
    BY <2>1, <2>2, SaveBlindSafe
<1>4. CASE Create
  <2>1. StoreTypeOK'
    BY <1>4, BlankIsFresh DEF Create, StoreInv, StoreTypeOK
  <2>2. RevisionsOrdered'
    BY <1>4, BlankIsFresh DEF Create, RevisionsOrdered
  <2>3. QED
    BY <2>1, <2>2 DEF StoreInv
<1>5. CASE Delete
  <2>1. StoreTypeOK'
    BY <1>5, BlankIsFresh DEF Delete, StoreInv, StoreTypeOK
  <2>2. RevisionsOrdered'
    BY <1>5, BlankIsFresh DEF Delete, RevisionsOrdered
  <2>3. QED
    BY <2>1, <2>2 DEF StoreInv
<1>6. CASE UNCHANGED storeVars
  BY <1>6 DEF StoreInv, StoreTypeOK, RevisionsOrdered, storeVars
<1>7. QED
  BY <1>1, <1>2, <1>3, <1>4, <1>5, <1>6 DEF StoreNext

----------------------------------------------------------------------------
(* The theorems.                                                           *)

\* The invariant holds of every behaviour of the repository.
THEOREM StoreInductive == StoreSpec => []StoreInv
<1>1. QED
  BY InitStoreInv, StepStoreInv, PTL DEF StoreSpec

\* The tables keep their types, and never more rows than their limits: 40
\* revisions of the project and 20 versions of each chapter in the code.
THEOREM StoreTypeCorrect == StoreSpec => []StoreTypeOK
<1>1. StoreInv => StoreTypeOK
  BY DEF StoreInv
<1>2. QED
  BY <1>1, StoreInductive, PTL

\* An authority revision names one state of the fields it stands for.
THEOREM RevisionsIdentify == StoreSpec => []RevisionIdentifiesPlan
<1>1. StoreInv => RevisionIdentifiesPlan
  <2> SUFFICES ASSUME StoreInv PROVE RevisionIdentifiesPlan
    OBVIOUS
  <2>1. /\ doc.rev \in Nat
        /\ \A k \in DOMAIN history : history[k].rev \in Nat
        /\ DOMAIN history \subseteq Nat
    BY StoredIsDocument, LenProperties DEF StoreInv, StoreTypeOK, Docs
  <2>2. \A k \in DOMAIN history : history[k].rev = doc.rev => history[k].plan = doc.plan
    BY <2>1 DEF StoreInv, RevisionsOrdered, Precedes
  <2>3. ASSUME NEW k \in DOMAIN history, NEW l \in DOMAIN history, history[k].rev = history[l].rev
        PROVE  history[k].plan = history[l].plan
    <3>1. k < l \/ l < k \/ k = l
      BY <2>1
    <3>2. QED
      BY <2>1, <2>3, <3>1 DEF StoreInv, RevisionsOrdered, Precedes
  <2>4. QED
    BY <2>2, <2>3 DEF RevisionIdentifiesPlan
<1>2. QED
  BY <1>1, StoreInductive, PTL

\* A finalization receipt, once stored, survives every save and restore.
THEOREM ReceiptsSurvive == StoreSpec => ReceiptsAppendOnly
<1>1. ASSUME StoreInv, [StoreNext]_storeVars
      PROVE  [exists /\ exists' => \A r \in Receipts :
                doc.receipts[r] # NoBody => doc'.receipts[r] = doc.receipts[r]]_storeVars
  <2> SUFFICES ASSUME exists, exists', StoreNext, NEW r \in Receipts, doc.receipts[r] # NoBody
               PROVE  doc'.receipts[r] = doc.receipts[r]
    BY <1>1
  <2>1. ASSUME NEW s \in Docs, NEW autosave \in BOOLEAN, SaveBlind(s, autosave)
        PROVE  doc'.receipts[r] = doc.receipts[r]
    <3>1. Merged(doc, s).receipts[r] = doc.receipts[r]
      BY <1>1, MergedFollows DEF StoreInv, StoreTypeOK
    <3>2. QED
      BY <2>1, <3>1 DEF SaveBlind, Write, storeVars
  <2>2. CASE AnySave
    <3>1. PICK s \in Submissions, autosave \in BOOLEAN : SaveBlind(s, autosave)
      BY <2>2 DEF AnySave, SaveBlind, SaveVersioned
    <3>2. QED
      BY <1>1, <2>1, <3>1, StoredIsDocument
  <2>3. CASE \E k \in 1..KeepRevisions : Restore(k)
    BY <1>1, <2>1, <2>3, StoredIsDocument DEF Restore
  <2>4. CASE \E i \in Chapters, k \in 1..KeepChapterVersions : RestoreChapter(i, k)
    <3>1. PICK i \in Chapters, k \in 1..KeepChapterVersions :
            /\ k \in DOMAIN versions[i]
            /\ SaveBlind([doc EXCEPT !.chapters[i] = versions[i][k]], FALSE)
      BY <2>4 DEF RestoreChapter
    <3>2. [doc EXCEPT !.chapters[i] = versions[i][k]] \in Docs
      BY <1>1, <3>1, StoredIsDocument
    <3>3. QED
      BY <2>1, <3>1, <3>2
  <2>5. CASE Create
    BY <2>5 DEF Create
  <2>6. CASE Delete
    BY <2>6 DEF Delete
  <2>7. QED
    BY <2>2, <2>3, <2>4, <2>5, <2>6 DEF StoreNext
<1>2. QED
  BY <1>1, StoreInductive, PTL DEF StoreSpec, ReceiptsAppendOnly
=============================================================================
