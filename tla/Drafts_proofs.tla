---------------------------- MODULE Drafts_proofs ----------------------------
(*****************************************************************************)
(* Theorems about how a draft is chosen and kept: the focused critics        *)
(* (FocusedCritics), the candidates (CandidateChoice), the branch trials     *)
(* (BranchTrials) and the model client they all ask (ModelCall), for every   *)
(* value of their constants.                                                 *)
(*****************************************************************************)
EXTENDS FocusedCritics, CandidateChoice, BranchTrials, ModelCall, ProseRun, FiniteSetTheorems, SequenceTheorems,
        WellFoundedInduction, TLAPS

-----------------------------------------------------------------------------
(* FocusedCritics: every set of critics, sentences and contexts and every    *)
(* number of audits that overlap.                                            *)

Issue == [number : Nat, critic : Critics \cup {Unattributed}, severity : 1..3, at : Sentences \cup {0}]
AuditedDrafts == [text : SUBSET Sentences, context : Contexts]
Runs == [there : BOOLEAN, draft : AuditedDrafts, complete : BOOLEAN, issues : SUBSET {i \in Issue : i.number > 0},
         chain : Nat, next : Nat \ {0}]
Phases == {"none", "verify", "delta", "merged", "focused"}
Audited == [at : Phases, draft : AuditedDrafts, prior : Runs, issues : SUBSET Issue, cleared : SUBSET Nat]

\* Every family of critics has read the draft in its context, once.
Read(d) == \A c \in Critics, s \in d.text : <<c, s, d.context>> \in seen

\* An issue without a number, for now.
FreshCritique(issues) == {i \in issues : i.number = 0}

\* What stands of an issue: it, or what is left of it.
Stands(i, issues) ==
  \E j \in issues : j.number = i.number /\ j.critic = i.critic /\ (j.at # 0 => j.severity >= i.severity - 1)
AllStand(A) == \A i \in A.prior.issues : i.number \notin A.cleared => Stands(i, A.issues)

\* What an audit knows, by its phase.
SoundAudit(A) ==
  /\ IsFiniteSet(FreshCritique(A.issues))
  /\ A.at \in {"verify", "delta"} => Read(A.prior.draft) /\ A.prior.draft.context = A.draft.context
  /\ A.at = "delta" => AllStand(A)
  /\ A.at = "merged" => A.issues = {}

AuditInv ==
  /\ readDraft \in AuditedDrafts /\ lastRun \in Runs /\ audit \in [Audits -> Audited]
  /\ lastRun.there /\ lastRun.complete => Read(lastRun.draft)
  /\ \A a \in Audits : SoundAudit(audit[a])
  /\ report.mode = "verify" => Read(report.draft)

----------------------------------------------------------------------------
(* Numbering.                                                              *)

\* A set put in sequence is a sequence of all its elements.
LEMMA SetToSeqElements ==
  ASSUME NEW S, IsFiniteSet(S)
  PROVE  LET new == SetToSeq(S)
         IN /\ Cardinality(S) \in Nat /\ new \in Seq(S) /\ Len(new) = Cardinality(S)
            /\ \A k \in 1..Len(new) : new[k] \in S
            /\ \A x \in S : \E k \in 1..Len(new) : new[k] = x
<1> DEFINE n == Cardinality(S)
           new == SetToSeq(S)
<1>1. n \in Nat /\ ExistsBijection(1..n, S)
  BY FS_CardinalityType
<1>2. PICK f \in Bijection(1..n, S) : TRUE
  BY <1>1 DEF ExistsBijection
<1>3. f \in [1..n -> S] /\ IsInjective(f)
  BY <1>2 DEF Bijection, Injection
<1>4. new \in [1..n -> S] /\ IsInjective(new)
  BY <1>3 DEF SetToSeq
<1>5. new \in Injection(1..n, S)
  BY <1>4 DEF Injection
<1>6. IsFiniteSet(1..n) /\ Cardinality(1..n) = n
  BY <1>1, FS_Interval
<1>7. new \in Surjection(1..n, S)
  BY <1>5, <1>6, FS_Injection
<1>8. \A x \in S : \E k \in 1..n : new[k] = x
  BY <1>7 DEF Surjection
<1>9. new \in Seq(S) /\ Len(new) = n
  BY <1>1, <1>4, SeqDef
<1> HIDE DEF new, n
<1>10. \A k \in 1..n : new[k] \in S
  BY <1>4
<1> QED BY <1>1, <1>8, <1>9, <1>10 DEF new, n

\* Numbered issues are the issues: those with a number as they are, the others with one.
LEMMA NumberedIssues ==
  ASSUME NEW issues \in SUBSET Issue, IsFiniteSet(FreshCritique(issues)), NEW next \in Nat \ {0}
  PROVE  /\ Numbered(issues, next) \subseteq {i \in Issue : i.number > 0}
         /\ \A i \in issues : i.number > 0 => i \in Numbered(issues, next)
         /\ \A i \in issues : \E j \in Numbered(issues, next) :
              j.critic = i.critic /\ j.at = i.at /\ j.severity = i.severity
         /\ next + Cardinality(FreshCritique(issues)) \in Nat \ {0}
<1> DEFINE new == SetToSeq(FreshCritique(issues))
           Gets(k) == [new[k] EXCEPT !.number = next + k - 1]
<1>1. /\ Cardinality(FreshCritique(issues)) \in Nat /\ Len(new) \in Nat
      /\ \A k \in 1..Len(new) : new[k] \in FreshCritique(issues)
      /\ \A x \in FreshCritique(issues) : \E k \in 1..Len(new) : new[k] = x
  BY SetToSeqElements
<1>2. Numbered(issues, next) = {i \in issues : i.number > 0} \cup {Gets(k) : k \in 1..Len(new)}
  BY DEF Numbered, FreshCritique
<1> HIDE DEF new
<1>3. ASSUME NEW k \in 1..Len(new)
      PROVE  /\ Gets(k) \in Issue /\ Gets(k).number > 0 /\ Gets(k).critic = new[k].critic
             /\ Gets(k).at = new[k].at /\ Gets(k).severity = new[k].severity
  <2>1. new[k] \in Issue
    BY <1>1, <1>3 DEF FreshCritique
  <2>2. next + k - 1 \in Nat /\ next + k - 1 > 0
    BY <1>1, <1>3
  <2> QED BY <2>1, <2>2 DEF Issue
<1> HIDE DEF Gets
<1>4. Numbered(issues, next) \subseteq {i \in Issue : i.number > 0}
  BY <1>2, <1>3
<1>5. ASSUME NEW i \in issues
      PROVE  \E j \in Numbered(issues, next) : j.critic = i.critic /\ j.at = i.at /\ j.severity = i.severity
  <2>1. CASE i.number > 0
    BY <1>2, <1>5, <2>1
  <2>2. CASE ~(i.number > 0)
    <3>1. i \in FreshCritique(issues)
      BY <1>5, <2>2 DEF FreshCritique, Issue
    <3>2. PICK k \in 1..Len(new) : new[k] = i
      BY <3>1, <1>1
    <3> QED BY <3>2, <1>2, <1>3
  <2> QED BY <2>1, <2>2
<1>6. next + Cardinality(FreshCritique(issues)) \in Nat \ {0}
  BY <1>1
<1> QED BY <1>2, <1>4, <1>5, <1>6

----------------------------------------------------------------------------
(* Verdicts and escalation.                                                *)

\* An issue no verdict resolved stands.
LEMMA CarriedStands ==
  ASSUME NEW i \in Issue, NEW ruling, NEW spot \in Sentences \cup {0}
  PROVE  /\ Carried(i, ruling, spot) \subseteq {j \in Issue : j.number = i.number}
         /\ ruling # "resolved" => Stands(i, Carried(i, ruling, spot))
<1> DEFINE severity == IF spot = 0 THEN 1 ELSE IF ruling = "partially" THEN Lower(i.severity) ELSE i.severity
           left == [i EXCEPT !.at = spot, !.severity = severity]
<1>1. severity \in 1..3 /\ (spot # 0 => severity >= i.severity - 1)
  BY DEF Issue, Lower
<1>2. Carried(i, ruling, spot) = IF ruling = "resolved" THEN {} ELSE {left}
  BY DEF Carried
<1> HIDE DEF severity
<1>3. left \in Issue /\ left.number = i.number /\ left.critic = i.critic /\ left.at = spot /\ left.severity = severity
  BY <1>1 DEF Issue
<1> HIDE DEF left
<1> QED BY <1>1, <1>2, <1>3 DEF Stands

\* What the merged checker found stands unless a completed checker looked again.
LEMMA CarriedOverKept ==
  ASSUME NEW merged, NEW heard, NEW i \in merged, i.critic \notin heard,
         ~(i.critic = Unattributed /\ heard = Critics)
  PROVE  i \in CarriedOver(merged, heard)
BY DEF CarriedOver

\* Issues found by the critics of a finite set are finitely many.
LEMMA FoundFinite ==
  ASSUME NEW heard \in SUBSET Critics, NEW found \in [heard -> {0, 2, 3}], NEW spot \in Sentences
  PROVE  LET all == {[number |-> 0, critic |-> c, severity |-> found[c], at |-> spot] : c \in {d \in heard : found[d] > 0}}
         IN all \subseteq Issue /\ IsFiniteSet(all)
<1> DEFINE D == {d \in heard : found[d] > 0}
           f == [c \in D |-> [number |-> 0, critic |-> c, severity |-> found[c], at |-> spot]]
           all == {[number |-> 0, critic |-> c, severity |-> found[c], at |-> spot] : c \in D}
<1>1. IsFiniteSet(D)
  BY CriticsAssumption, FS_Subset
<1>2. f \in Surjection(D, all)
  BY DEF Surjection
<1>3. IsFiniteSet(all)
  BY <1>1, <1>2, FS_Surjection
<1>4. \A c \in D : found[c] \in 1..3
  OBVIOUS
<1>5. all \subseteq Issue
  BY <1>4 DEF Issue
<1> QED BY <1>3, <1>5
----------------------------------------------------------------------------
(* The steps of one audit.                                                 *)

\* What is there before the first audit.
LEMMA Nothing == NoDraft \in AuditedDrafts /\ NoRun \in Runs /\ NoAudit \in Audited
<1>1. (CHOOSE c \in Contexts : TRUE) \in Contexts
  BY CriticsAssumption
<1>2. NoDraft \in AuditedDrafts
  BY <1>1 DEF NoDraft, AuditedDrafts
<1>3. NoRun \in Runs
  BY <1>2 DEF NoRun, Runs
<1>4. "none" \in Phases
  BY DEF Phases
<1>5. {} \in SUBSET Issue /\ {} \in SUBSET Nat
  BY Zenon
<1>6. NoAudit \in Audited
  BY <1>2, <1>3, <1>4, <1>5, Zenon DEF NoAudit, Audited
<1> QED BY <1>2, <1>3, <1>6

\* What the answer of an audit leaves is an audit of its draft, and every issue of it has a number.
LEMMA AnswerKeepsInv ==
  ASSUME AuditInv, NEW a \in Audits, NEW mode, NEW issues \in SUBSET Issue, NEW heard, NEW cleared,
         IsFiniteSet(FreshCritique(issues)), Answered(a, mode, issues, heard, cleared),
         mode \in {"verify", "full"}, readDraft' = readDraft, seen \subseteq seen',
         mode = "verify" \/ heard = Critics =>
           \A c \in Critics, s \in audit[a].draft.text : <<c, s, audit[a].draft.context>> \in seen'
  PROVE  AuditInv'
<1> DEFINE A == audit[a]
<1>1. A \in Audited /\ SoundAudit(A)
  BY DEF AuditInv
<1>2. A.draft \in AuditedDrafts /\ A.prior.next \in Nat \ {0} /\ A.prior.chain \in Nat
  BY <1>1 DEF Audited, Runs
<1> DEFINE new == Numbered(issues, A.prior.next)
           next == A.prior.next + Cardinality(FreshCritique(issues))
           complete == mode = "verify" \/ heard = Critics
           chain == IF mode = "verify" THEN A.prior.chain + 1 ELSE 0
<1>3. /\ lastRun' = [there |-> TRUE, draft |-> A.draft, complete |-> complete, issues |-> new, next |-> next, chain |-> chain]
      /\ report' = [mode |-> mode, draft |-> A.draft, prior |-> A.prior.issues, issues |-> new, cleared |-> cleared, done |-> heard]
      /\ audit' = [audit EXCEPT ![a] = NoAudit]
  BY DEF Answered, FreshCritique
<1>4. new \in SUBSET {i \in Issue : i.number > 0} /\ next \in Nat \ {0} /\ chain \in Nat /\ complete \in BOOLEAN
  BY <1>2, NumberedIssues
<1>5. complete => \A c \in Critics, s \in A.draft.text : <<c, s, A.draft.context>> \in seen'
  OBVIOUS
<1>6. mode = "verify" => complete
  OBVIOUS
<1> HIDE DEF A, new, next, complete, chain
<1>7. lastRun' \in Runs
  BY <1>2, <1>3, <1>4 DEF Runs
<1>8. (lastRun.there /\ lastRun.complete => Read(lastRun.draft))'
  BY <1>3, <1>5 DEF Read
<1>9. (report.mode = "verify" => Read(report.draft))'
  BY <1>3, <1>5, <1>6 DEF Read
<1>10. NoAudit \in Audited
  BY Nothing
<1>11. audit' \in [Audits -> Audited]
  BY <1>3, <1>10 DEF AuditInv
<1>12. \A b \in Audits : SoundAudit(audit[b])'
  <2>1. TAKE b \in Audits
  <2>2. CASE b = a
    <3>1. audit'[b] = NoAudit
      BY <1>3, <2>2 DEF AuditInv
    <3>2. IsFiniteSet(FreshCritique({}))
      BY FS_EmptySet DEF FreshCritique
    <3> QED BY <3>1, <3>2 DEF SoundAudit, NoAudit
  <2>3. CASE b # a
    <3>1. audit'[b] = audit[b] /\ SoundAudit(audit[b])
      BY <1>3, <2>3 DEF AuditInv
    <3> QED BY <3>1 DEF SoundAudit, Read
  <2> QED BY <2>2, <2>3
<1> QED BY <1>7, <1>8, <1>9, <1>11, <1>12 DEF AuditInv

\* An audit that goes on keeps what it knows.
LEMMA GoesKeepsInv ==
  ASSUME AuditInv, NEW a \in Audits, NEW mode \in Phases, NEW issues \in SUBSET Issue, NEW cleared \in SUBSET Nat,
         Goes(a, mode, issues, cleared), readDraft' = readDraft, seen \subseteq seen', IsFiniteSet(FreshCritique(issues)),
         mode = "delta" => audit[a].at = "verify" /\
           \A i \in audit[a].prior.issues : i.number \notin cleared => Stands(i, issues),
         mode # "verify", mode = "merged" => issues = {}
  PROVE  AuditInv'
<1> DEFINE A == audit[a]
           B == [A EXCEPT !.at = mode, !.issues = issues, !.cleared = cleared]
<1>1. A \in Audited /\ SoundAudit(A)
  BY DEF AuditInv
<1>2. audit' = [audit EXCEPT ![a] = B] /\ lastRun' = lastRun /\ report' = report
  BY DEF Goes
<1>3. B \in Audited /\ B.at = mode /\ B.issues = issues /\ B.cleared = cleared /\ B.prior = A.prior /\ B.draft = A.draft
  BY <1>1 DEF Audited
<1>4. mode = "delta" => A.at = "verify" /\ \A i \in A.prior.issues : i.number \notin cleared => Stands(i, issues)
  OBVIOUS
<1> HIDE DEF A, B
<1>5. audit' \in [Audits -> Audited]
  BY <1>2, <1>3 DEF AuditInv
<1>6. \A b \in Audits : SoundAudit(audit[b])'
  <2>1. TAKE b \in Audits
  <2>2. CASE b = a
    <3>1. audit'[b] = B
      BY <1>2, <2>2 DEF AuditInv
    <3>2. mode = "delta" =>
            /\ \A c \in Critics, s \in A.prior.draft.text : <<c, s, A.prior.draft.context>> \in seen'
            /\ A.prior.draft.context = A.draft.context
      BY <1>1, <1>4 DEF SoundAudit, Read
    <3>3. mode = "delta" => AllStand(B)
      BY <1>3, <1>4 DEF AllStand
    <3>4. IsFiniteSet(FreshCritique(B.issues)) /\ (B.at = "merged" => B.issues = {}) /\ B.at # "verify"
      BY <1>3
    <3>5. B.at = "delta" =>
            /\ \A c \in Critics, s \in B.prior.draft.text : <<c, s, B.prior.draft.context>> \in seen'
            /\ B.prior.draft.context = B.draft.context
      BY <1>3, <3>2
    <3>6. IsFiniteSet(FreshCritique(audit'[b].issues)) /\ (audit'[b].at = "merged" => audit'[b].issues = {})
      BY <3>1, <3>4
    <3>7. audit'[b].at = "delta" => AllStand(audit'[b])
      BY <1>3, <3>1, <3>3
    <3>8. audit'[b].at \in {"verify", "delta"} =>
            /\ \A c \in Critics, s \in audit'[b].prior.draft.text : <<c, s, audit'[b].prior.draft.context>> \in seen'
            /\ audit'[b].prior.draft.context = audit'[b].draft.context
      BY <3>1, <3>4, <3>5
    <3> QED BY <3>6, <3>7, <3>8 DEF SoundAudit, Read
  <2>3. CASE b # a
    <3>1. audit'[b] = audit[b] /\ SoundAudit(audit[b])
      BY <1>2, <2>3 DEF AuditInv
    <3> QED BY <3>1 DEF SoundAudit, Read
  <2> QED BY <2>2, <2>3
<1> QED BY <1>2, <1>5, <1>6 DEF AuditInv, Read

\* What an answer must not lose.
NothingVanishes ==
  /\ report'.mode = "verify" =>
       \A i \in report'.prior : i.number \notin report'.cleared =>
         \E j \in report'.issues :
           j.number = i.number /\ j.critic = i.critic /\ (j.at # 0 => j.severity >= i.severity - 1)
  /\ report'.mode = "full" =>
       \E a \in Audits :
         /\ audit[a].at # "none" /\ audit'[a].at = "none"
         /\ \A i \in audit[a].issues : i.critic \in report'.done
              \/ (i.critic = Unattributed /\ report'.done = Critics)
              \/ \E j \in report'.issues : j.critic = i.critic /\ j.at = i.at /\ j.severity = i.severity

LEMMA VerifiedAnswer ==
  ASSUME AuditInv, NEW a \in Audits, NEW issues \in SUBSET Issue, NEW cleared,
         IsFiniteSet(FreshCritique(issues)), Answered(a, "verify", issues, {}, cleared),
         \A i \in audit[a].prior.issues : i.number \notin cleared => Stands(i, issues)
  PROVE  NothingVanishes
<1> DEFINE prior == audit[a].prior
           new == Numbered(issues, prior.next)
<1>1. prior \in Runs
  BY DEF AuditInv, Audited
<1>2. report'.mode = "verify" /\ report'.prior = prior.issues /\ report'.issues = new /\ report'.cleared = cleared
  BY DEF Answered
<1>3. \A i \in issues : i.number > 0 => i \in new
  BY <1>1, NumberedIssues DEF Runs
<1>4. \A i \in prior.issues : i.number > 0
  BY <1>1 DEF Runs
<1>5. \A i \in prior.issues : i.number \notin cleared => Stands(i, issues)
  OBVIOUS
<1> HIDE DEF prior, new
<1>6. \A i \in prior.issues : i.number \notin cleared => Stands(i, new)
  BY <1>3, <1>4, <1>5 DEF Stands
<1> QED BY <1>2, <1>6 DEF NothingVanishes, Stands

LEMMA FullAnswer ==
  ASSUME AuditInv, NEW a \in Audits, NEW issues \in SUBSET Issue, NEW heard,
         IsFiniteSet(FreshCritique(issues)), Answered(a, "full", issues, heard, {}), audit[a].at # "none",
         \A i \in audit[a].issues : i.critic \in heard \/ (i.critic = Unattributed /\ heard = Critics) \/ i \in issues
  PROVE  NothingVanishes
<1> DEFINE new == Numbered(issues, audit[a].prior.next)
<1>1. report'.mode = "full" /\ report'.done = heard /\ report'.issues = new /\ audit' = [audit EXCEPT ![a] = NoAudit]
  BY DEF Answered
<1>2. \A i \in issues : \E j \in new : j.critic = i.critic /\ j.at = i.at /\ j.severity = i.severity
  BY NumberedIssues DEF AuditInv, Audited, Runs
<1>3. audit'[a].at = "none"
  BY <1>1 DEF AuditInv, NoAudit
<1> HIDE DEF new
<1> QED BY <1>1, <1>2, <1>3 DEF NothingVanishes

----------------------------------------------------------------------------
(* The actions.                                                            *)

LEMMA InitAudit == CriticsInit => AuditInv
<1> SUFFICES ASSUME CriticsInit PROVE AuditInv
  OBVIOUS
<1>1. readDraft \in AuditedDrafts
  BY Nothing DEF CriticsInit, NoDraft, AuditedDrafts
<1>2. lastRun \in Runs /\ audit \in [Audits -> Audited] /\ ~lastRun.there /\ report.mode = "none"
  BY Nothing DEF CriticsInit, NoRun, NoReport
<1>3. IsFiniteSet(FreshCritique({}))
  BY FS_EmptySet DEF FreshCritique
<1>4. \A a \in Audits : SoundAudit(audit[a])
  BY <1>3 DEF CriticsInit, NoAudit, SoundAudit
<1> QED BY <1>1, <1>2, <1>4 DEF AuditInv

LEMMA BeginStep ==
  ASSUME AuditInv, NEW a \in Audits, BeginAudit(a)
  PROVE  AuditInv' /\ report' = NoReport
<1>1. PICK mode \in IF MayVerify(lastRun, readDraft) THEN {IF lastRun.issues # {} THEN "verify" ELSE "delta"} ELSE Full :
        audit' = [audit EXCEPT ![a] = [NoAudit EXCEPT !.at = mode, !.draft = readDraft, !.prior = lastRun]]
  BY DEF BeginAudit
<1> DEFINE B == [NoAudit EXCEPT !.at = mode, !.draft = readDraft, !.prior = lastRun]
<1>2. mode \in Phases
  BY <1>1 DEF Phases, Full
<1>3. B \in Audited /\ B.at = mode /\ B.draft = readDraft /\ B.prior = lastRun /\ B.issues = {} /\ B.cleared = {}
  BY <1>2, Nothing DEF AuditInv, NoAudit, Audited
<1>4. mode \in {"verify", "delta"} => Read(lastRun.draft) /\ lastRun.draft.context = readDraft.context
  BY <1>1 DEF Full, MayVerify, SmallRevision, AuditInv
<1>5. mode = "delta" => lastRun.issues = {}
  BY <1>1 DEF Full
<1>6. IsFiniteSet(FreshCritique({}))
  BY FS_EmptySet DEF FreshCritique
<1> HIDE DEF B
<1>7. SoundAudit(B)
  BY <1>3, <1>4, <1>5, <1>6 DEF SoundAudit, AllStand
<1>8. audit' = [audit EXCEPT ![a] = B]
  BY <1>1 DEF B
<1>9. readDraft' = readDraft /\ lastRun' = lastRun /\ seen' = seen /\ report' = NoReport
  BY DEF BeginAudit
<1>10. \A b \in Audits : audit'[b] \in Audited /\ SoundAudit(audit'[b])
  BY <1>3, <1>7, <1>8 DEF AuditInv
<1>11. \A b \in Audits : SoundAudit(audit[b])'
  BY <1>9, <1>10 DEF SoundAudit, Read
<1>12. audit' \in [Audits -> Audited]
  BY <1>3, <1>8 DEF AuditInv
<1>13. report'.mode = "none"
  BY <1>9 DEF NoReport
<1> QED BY <1>9, <1>11, <1>12, <1>13 DEF AuditInv, Read

\* What a check finds is at most one issue, and it has no number.
LEMMA FoundIssues ==
  ASSUME NEW text \in SUBSET Sentences, NEW found \in Findings(Critics \cup {Unattributed}, text)
  PROVE  found \subseteq Issue /\ IsFiniteSet(found)
<1>1. found = {} \/ \E i \in [number : {0}, critic : Critics \cup {Unattributed}, severity : {3, 2}, at : text] : found = {i}
  BY DEF Findings
<1>2. CASE found = {}
  BY <1>2, FS_EmptySet
<1>3. CASE \E i \in [number : {0}, critic : Critics \cup {Unattributed}, severity : {3, 2}, at : text] : found = {i}
  <2>1. PICK i \in [number : {0}, critic : Critics \cup {Unattributed}, severity : {3, 2}, at : text] : found = {i}
    BY <1>3
  <2>2. i \in Issue
    BY DEF Issue
  <2> QED BY <2>1, <2>2, FS_Singleton
<1> QED BY <1>1, <1>2, <1>3

\* What an audit of the draft reads is read.
LEMMA SeesRead ==
  ASSUME NEW a, NEW critics, NEW text, Sees(a, critics, text)
  PROVE  /\ seen \subseteq seen'
         /\ \A c \in critics, s \in text : <<c, s, audit[a].draft.context>> \in seen'
BY DEF Sees

LEMMA PriorStep ==
  ASSUME AuditInv, NEW a \in Audits, PriorJudged(a)
  PROVE  AuditInv' /\ (report' = report \/ NothingVanishes)
<1> DEFINE A == audit[a]
<1>1. A \in Audited /\ SoundAudit(A) /\ A.at = "verify" /\ readDraft' = readDraft /\ seen' = seen
  BY DEF AuditInv, PriorJudged
<1>2. A.prior \in Runs /\ A.draft \in AuditedDrafts /\ A.prior.draft \in AuditedDrafts
  BY <1>1 DEF Audited, Runs
<1>3. PICK ruling \in [A.prior.issues -> {"resolved", "partially", "unresolved", "none"}],
           spot \in [A.prior.issues -> A.draft.text \cup {0}] :
        LET carried == UNION {Carried(i, ruling[i], spot[i]) : i \in A.prior.issues}
            cleared == {i.number : i \in {j \in A.prior.issues : ruling[j] = "resolved"}}
        IN IF Changed(A.prior.draft, A.draft) # {}
           THEN Goes(a, "delta", carried, cleared)
           ELSE Answered(a, "verify", carried, {}, cleared)
  BY DEF PriorJudged
<1> DEFINE carried == UNION {Carried(i, ruling[i], spot[i]) : i \in A.prior.issues}
           cleared == {i.number : i \in {j \in A.prior.issues : ruling[j] = "resolved"}}
<1>4. IF Changed(A.prior.draft, A.draft) # {}
      THEN Goes(a, "delta", carried, cleared)
      ELSE Answered(a, "verify", carried, {}, cleared)
  BY <1>3
<1>5. \A i \in A.prior.issues : i \in Issue /\ i.number > 0 /\ spot[i] \in Sentences \cup {0}
  BY <1>2 DEF Runs, AuditedDrafts
<1>6. \A i \in A.prior.issues : Carried(i, ruling[i], spot[i]) \subseteq {j \in Issue : j.number > 0}
  BY <1>5, CarriedStands
<1>7. carried \in SUBSET {j \in Issue : j.number > 0}
  BY <1>6
<1>8. cleared \in SUBSET Nat
  BY <1>5 DEF Issue
<1>9. \A i \in A.prior.issues : i.number \notin cleared => Stands(i, carried)
  <2>1. SUFFICES ASSUME NEW i \in A.prior.issues, ruling[i] # "resolved" PROVE Stands(i, carried)
    OBVIOUS
  <2>2. Stands(i, Carried(i, ruling[i], spot[i]))
    BY <1>5, <2>1, CarriedStands
  <2>3. Carried(i, ruling[i], spot[i]) \subseteq carried
    OBVIOUS
  <2> HIDE DEF carried
  <2> QED BY <2>2, <2>3 DEF Stands
<1> HIDE DEF carried, cleared
<1>10. IsFiniteSet(FreshCritique(carried)) /\ carried \in SUBSET Issue
  <2>1. FreshCritique(carried) = {}
    BY <1>7 DEF FreshCritique
  <2> QED BY <1>7, <2>1, FS_EmptySet
<1>11. CASE Goes(a, "delta", carried, cleared)
  <2>1. "delta" \in Phases
    BY DEF Phases
  <2>2. audit[a].at = "verify" /\ \A i \in audit[a].prior.issues : i.number \notin cleared => Stands(i, carried)
    BY <1>1, <1>9
  <2>3. AuditInv'
    BY <1>1, <1>8, <1>10, <1>11, <2>1, <2>2, GoesKeepsInv
  <2> QED BY <1>11, <2>3 DEF Goes
<1>12. CASE Changed(A.prior.draft, A.draft) = {} /\ Answered(a, "verify", carried, {}, cleared)
  <2>1. A.draft.text \subseteq A.prior.draft.text /\ A.prior.draft.context = A.draft.context /\ Read(A.prior.draft)
    BY <1>1, <1>12 DEF Changed, SoundAudit
  <2>2. \A c \in Critics, s \in A.draft.text : <<c, s, A.draft.context>> \in seen'
    BY <1>1, <2>1 DEF Read
  <2>3. AuditInv'
    BY <1>1, <1>10, <1>12, <2>2, AnswerKeepsInv
  <2>4. NothingVanishes
    BY <1>9, <1>10, <1>12, VerifiedAnswer
  <2> QED BY <2>3, <2>4
<1> QED BY <1>4, <1>11, <1>12

LEMMA ChangesStep ==
  ASSUME AuditInv, NEW a \in Audits, ChangesRead(a)
  PROVE  AuditInv' /\ NothingVanishes
<1> DEFINE A == audit[a]
           changed == Changed(A.prior.draft, A.draft)
<1>1. /\ A \in Audited /\ SoundAudit(A) /\ A.at = "delta" /\ readDraft' = readDraft
      /\ A.draft \in AuditedDrafts /\ A.issues \in SUBSET Issue
  BY DEF AuditInv, ChangesRead, Audited
<1>2. PICK found \in Findings(Critics \cup {Unattributed}, A.draft.text) :
        Answered(a, "verify", A.issues \cup {i \in found : i.at \in changed}, {}, A.cleared)
  BY DEF ChangesRead
<1>3. found \subseteq Issue /\ IsFiniteSet(found)
  BY <1>1, FoundIssues DEF AuditedDrafts
<1>4. seen \subseteq seen' /\ \A c \in Critics, s \in changed : <<c, s, A.draft.context>> \in seen'
  BY SeesRead DEF ChangesRead
<1>5. \A c \in Critics, s \in A.draft.text : <<c, s, A.draft.context>> \in seen'
  BY <1>1, <1>4 DEF SoundAudit, Read, Changed
<1> DEFINE issues == A.issues \cup {i \in found : i.at \in changed}
<1>6. FreshCritique(issues) \subseteq FreshCritique(A.issues) \cup found
  BY DEF FreshCritique
<1>7. IsFiniteSet(FreshCritique(issues))
  <2>1. IsFiniteSet(FreshCritique(A.issues))
    BY <1>1 DEF SoundAudit
  <2>2. IsFiniteSet(FreshCritique(A.issues) \cup found)
    BY <1>3, <2>1, FS_Union
  <2> HIDE DEF issues
  <2> QED BY <1>6, <2>2, FS_Subset
<1>8. issues \in SUBSET Issue
  BY <1>1, <1>3
<1>9. \A i \in A.prior.issues : i.number \notin A.cleared => Stands(i, issues)
  BY <1>1 DEF SoundAudit, AllStand, Stands
<1>10. Answered(a, "verify", issues, {}, A.cleared)
  BY <1>2
<1> HIDE DEF issues
<1>11. AuditInv'
  BY <1>1, <1>4, <1>5, <1>7, <1>8, <1>10, AnswerKeepsInv
<1>12. NothingVanishes
  BY <1>7, <1>8, <1>9, <1>10, VerifiedAnswer
<1> QED BY <1>11, <1>12

\* A fall back, or an escalation, knows nothing but what the merged checker found.
LEMMA FullGoes ==
  ASSUME AuditInv, NEW a \in Audits, NEW mode \in Full, NEW issues \in SUBSET Issue, Goes(a, mode, issues, {}),
         readDraft' = readDraft, seen \subseteq seen', IsFiniteSet(issues), mode = "merged" => issues = {}
  PROVE  AuditInv' /\ report' = report
<1>1. mode \in Phases /\ mode \notin {"verify", "delta"} /\ {} \in SUBSET Nat
  BY DEF Full, Phases
<1>2. IsFiniteSet(FreshCritique(issues))
  BY FS_Subset DEF FreshCritique
<1>3. AuditInv'
  BY <1>1, <1>2, GoesKeepsInv
<1> QED BY <1>3 DEF Goes

LEMMA FailStep ==
  ASSUME AuditInv, NEW a \in Audits, VerifyFails(a) \/ MergedFails(a)
  PROVE  AuditInv' /\ report' = report
<1>1. PICK mode \in Full : Goes(a, mode, {}, {}) /\ readDraft' = readDraft /\ seen' = seen
  BY DEF VerifyFails, MergedFails, Full
<1> QED BY <1>1, FullGoes, FS_EmptySet

LEMMA MergedStep ==
  ASSUME AuditInv, NEW a \in Audits, MergedRead(a)
  PROVE  AuditInv' /\ (report' = report \/ NothingVanishes)
<1>1. /\ audit[a] \in Audited /\ SoundAudit(audit[a]) /\ audit[a].at = "merged" /\ readDraft' = readDraft
      /\ audit[a].draft.text \in SUBSET Sentences
  BY DEF AuditInv, MergedRead, Audited, AuditedDrafts
<1>2. PICK found \in Findings(Critics \cup {Unattributed}, audit[a].draft.text) :
        \/ found # {} /\ Goes(a, "focused", found, {})
        \/ (\A i \in found : i.severity < 3) /\ Answered(a, "full", found, Critics, {})
  BY DEF MergedRead
<1>3. found \in SUBSET Issue /\ IsFiniteSet(found)
  BY <1>1, FoundIssues
<1>4. IsFiniteSet(FreshCritique(found))
  BY <1>3, FS_Subset DEF FreshCritique
<1>5. /\ seen \subseteq seen'
      /\ \A c \in Critics, s \in audit[a].draft.text : <<c, s, audit[a].draft.context>> \in seen'
  BY SeesRead DEF MergedRead
<1>6. CASE Goes(a, "focused", found, {})
  <2>1. "focused" \in Full
    BY DEF Full
  <2> QED BY <1>1, <1>3, <1>5, <1>6, <2>1, FullGoes
<1>7. CASE Answered(a, "full", found, Critics, {})
  <2>1. AuditInv'
    BY <1>1, <1>3, <1>4, <1>5, <1>7, AnswerKeepsInv
  <2>2. audit[a].issues = {}
    BY <1>1 DEF SoundAudit
  <2>3. NothingVanishes
    BY <1>1, <1>3, <1>4, <1>7, <2>2, FullAnswer
  <2> QED BY <2>1, <2>3
<1> QED BY <1>2, <1>6, <1>7

LEMMA CheckersStep ==
  ASSUME AuditInv, NEW a \in Audits, CheckersRead(a)
  PROVE  AuditInv' /\ NothingVanishes
<1>1. /\ audit[a] \in Audited /\ SoundAudit(audit[a]) /\ audit[a].at = "focused" /\ readDraft' = readDraft
      /\ audit[a].draft.text \in SUBSET Sentences /\ audit[a].issues \in SUBSET Issue
  BY DEF AuditInv, CheckersRead, Audited, AuditedDrafts
<1>2. PICK heard \in SUBSET Critics : \E found \in [heard -> {0, 2, 3}], spot \in audit[a].draft.text :
        /\ Answered(a, "full",
             {[number |-> 0, critic |-> c, severity |-> found[c], at |-> spot] : c \in {d \in heard : found[d] > 0}}
               \cup CarriedOver(audit[a].issues, heard), heard, {})
        /\ Sees(a, heard, audit[a].draft.text)
  BY DEF CheckersRead
<1>3. PICK found \in [heard -> {0, 2, 3}], spot \in audit[a].draft.text :
        /\ Answered(a, "full",
             {[number |-> 0, critic |-> c, severity |-> found[c], at |-> spot] : c \in {d \in heard : found[d] > 0}}
               \cup CarriedOver(audit[a].issues, heard), heard, {})
        /\ Sees(a, heard, audit[a].draft.text)
  BY <1>2
<1> DEFINE all == {[number |-> 0, critic |-> c, severity |-> found[c], at |-> spot] : c \in {d \in heard : found[d] > 0}}
           issues == all \cup CarriedOver(audit[a].issues, heard)
<1>4. all \in SUBSET Issue /\ IsFiniteSet(all)
  BY <1>1, FoundFinite
<1>5. Answered(a, "full", issues, heard, {}) /\ Sees(a, heard, audit[a].draft.text)
  BY <1>3
<1> HIDE DEF all
<1>6. CarriedOver(audit[a].issues, heard) \subseteq audit[a].issues
  BY DEF CarriedOver
<1>7. issues \in SUBSET Issue
  BY <1>1, <1>4, <1>6
<1>8. IsFiniteSet(FreshCritique(issues))
  <2>1. IsFiniteSet(FreshCritique(audit[a].issues))
    BY <1>1 DEF SoundAudit
  <2>2. IsFiniteSet(FreshCritique(audit[a].issues) \cup all)
    BY <1>4, <2>1, FS_Union
  <2>3. FreshCritique(issues) \subseteq FreshCritique(audit[a].issues) \cup all
    BY <1>6 DEF FreshCritique
  <2> HIDE DEF issues
  <2> QED BY <2>2, <2>3, FS_Subset
<1>9. \A i \in audit[a].issues : i.critic \in heard \/ (i.critic = Unattributed /\ heard = Critics) \/ i \in issues
  BY CarriedOverKept
<1>10. /\ seen \subseteq seen'
       /\ heard = Critics => \A c \in Critics, s \in audit[a].draft.text : <<c, s, audit[a].draft.context>> \in seen'
  BY <1>5, SeesRead
<1> HIDE DEF issues
<1>11. AuditInv'
  BY <1>1, <1>5, <1>7, <1>8, <1>10, AnswerKeepsInv
<1>12. NothingVanishes
  BY <1>1, <1>5, <1>7, <1>8, <1>9, FullAnswer
<1> QED BY <1>11, <1>12

\* Whatever forgets audits forgets them whole.
LEMMA ForgetStep ==
  ASSUME AuditInv, readDraft' \in AuditedDrafts, seen' = seen, lastRun' \in {lastRun, NoRun}, report' \in {report, NoReport},
         audit' \in [Audits -> Audited], \A a \in Audits : audit'[a] \in {audit[a], NoAudit}
  PROVE  AuditInv'
<1>1. lastRun' \in Runs /\ (lastRun.there /\ lastRun.complete => Read(lastRun.draft))'
  <2>1. CASE lastRun' = lastRun
    BY <2>1 DEF AuditInv, Read
  <2>2. CASE lastRun' = NoRun
    BY <2>2, Nothing DEF NoRun
  <2> QED BY <2>1, <2>2
<1>2. (report.mode = "verify" => Read(report.draft))'
  <2>1. CASE report' = report
    BY <2>1 DEF AuditInv, Read
  <2>2. CASE report' = NoReport
    BY <2>2 DEF NoReport
  <2> QED BY <2>1, <2>2
<1>3. SoundAudit(NoAudit)
  <2>1. IsFiniteSet(FreshCritique({}))
    BY FS_EmptySet DEF FreshCritique
  <2> QED BY <2>1 DEF SoundAudit, NoAudit
<1>4. \A a \in Audits : SoundAudit(audit'[a])
  BY <1>3 DEF AuditInv
<1>5. \A a \in Audits : SoundAudit(audit[a])'
  BY <1>4 DEF SoundAudit, Read
<1> QED BY <1>1, <1>2, <1>5 DEF AuditInv, Read

LEMMA OtherStep ==
  ASSUME AuditInv,
         \/ \E a \in Audits : AuditBreaks(a)
         \/ \E text \in SUBSET Sentences, context \in Contexts : EditDraft(text, context)
         \/ CriticsRestart
         \/ UNCHANGED criticVars
  PROVE  AuditInv' /\ report' \in {report, NoReport}
<1>1. CASE \E a \in Audits : AuditBreaks(a)
  <2>1. PICK a \in Audits : AuditBreaks(a)
    BY <1>1
  <2>2. audit' \in [Audits -> Audited] /\ \A b \in Audits : audit'[b] \in {audit[b], NoAudit}
    BY <2>1, Nothing DEF AuditBreaks, AuditInv
  <2> QED BY <2>1, <2>2, ForgetStep DEF AuditBreaks, AuditInv
<1>2. CASE \E text \in SUBSET Sentences, context \in Contexts : EditDraft(text, context)
  <2>1. PICK text \in SUBSET Sentences, context \in Contexts : EditDraft(text, context)
    BY <1>2
  <2>2. readDraft' \in AuditedDrafts
    BY <2>1 DEF EditDraft, AuditedDrafts
  <2> QED BY <2>1, <2>2, ForgetStep DEF EditDraft, AuditInv
<1>3. CASE CriticsRestart
  <2>1. audit' \in [Audits -> Audited] /\ \A b \in Audits : audit'[b] = NoAudit
    BY <1>3, Nothing DEF CriticsRestart
  <2> QED BY <1>3, <2>1, ForgetStep DEF CriticsRestart, AuditInv
<1>4. CASE UNCHANGED criticVars
  BY <1>4, ForgetStep DEF criticVars, AuditInv
<1> QED BY <1>1, <1>2, <1>3, <1>4

LEMMA AuditStep ==
  ASSUME AuditInv, [CriticsNext]_criticVars
  PROVE  AuditInv' /\ (report' \notin {report, NoReport} => NothingVanishes)
BY BeginStep, PriorStep, ChangesStep, FailStep, MergedStep, CheckersStep, OtherStep DEF CriticsNext

----------------------------------------------------------------------------
\* A draft that was only verified has been read whole by a check of every family in its present context,
\* and no issue is lost without a verdict or a second look, however audits overlap and checkers fail
\* (plan_verification, carry_prior_issue, _carry_merged, run_focused_critics).
THEOREM AuditSound == CriticsSpec => AuditIsSound
<1>1. AuditInv /\ [CriticsNext]_criticVars => AuditInv'
  BY AuditStep
<1>2. AuditInv => VerifiedIsRead
  BY DEF AuditInv, VerifiedIsRead, Read
<1>3. AuditInv /\ [CriticsNext]_criticVars =>
        [report' \notin {report, NoReport} =>
           /\ report'.mode = "verify" =>
                \A i \in report'.prior : i.number \notin report'.cleared =>
                  \E j \in report'.issues :
                    j.number = i.number /\ j.critic = i.critic /\ (j.at # 0 => j.severity >= i.severity - 1)
           /\ report'.mode = "full" =>
                \E a \in Audits :
                  /\ audit[a].at # "none" /\ audit'[a].at = "none"
                  /\ \A i \in audit[a].issues : i.critic \in report'.done
                       \/ (i.critic = Unattributed /\ report'.done = Critics)
                       \/ \E j \in report'.issues : j.critic = i.critic /\ j.at = i.at /\ j.severity = i.severity]_criticVars
  BY AuditStep DEF NothingVanishes
<1> QED BY <1>1, <1>2, <1>3, InitAudit, PTL DEF CriticsSpec, AuditIsSound, NoIssueVanishes

-----------------------------------------------------------------------------
(* CandidateChoice: every number of candidates and every score.              *)

Draft == [score : Scores, truncated : BOOLEAN]

\* The ladder once it is built: every viable draft once, the best score first.
OnLadder(d, n) == \E i \in 1..n : d = ladder[i]

Climbed ==
  /\ ladder \in [1..Cardinality(Viable(checks)) -> Viable(checks)] /\ Len(ladder) = Cardinality(Viable(checks))
  /\ \A i, j \in 1..Len(ladder) : i # j => ladder[i] # ladder[j]
  /\ \A i, j \in 1..Len(ladder) : i < j => checks[ladder[i]].score >= checks[ladder[j]].score
  /\ challenger \in 2..Len(ladder) + 1 /\ OnLadder(champion, challenger - 1)

\* The answers about the pair that is shown: one before the other.
ThisPair ==
  \/ shown = <<>>
  \/ \E s \in Answers : shown = <<s>>
  \/ \E s, t \in Answers : shown = <<s, t>>

PairOpinions ==
  {a \in opinions : ladder[challenger] \in {a[1], a[2]}}

\* What has been said before the pair that is shown.
Settled == IF Pending THEN opinions \ PairOpinions ELSE opinions

\* Every answer so far about d prefers it, and one of each comparison was answered.
Preferred(d, said) ==
  /\ \A a \in said : d = a[1] => a[3] \in {"A", "error"}
  /\ \A a \in said : d = a[2] => a[3] \in {"B", "error"}
  /\ \A a \in said : d \in {a[1], a[2]} => \E b \in said : {b[1], b[2]} = {a[1], a[2]} /\ b[3] # "error"

OnePlace(said) == \E spot \in {"A", "B"} : \A a \in said : a[3] = spot

\* An answer on the record is about two drafts of the first c of n.
OnRecord(a, n, c) ==
  /\ a = <<a[1], a[2], a[3]>> /\ a[3] \in Answers
  /\ \E i, j \in 1..n : i # j /\ a[1] = ladder[i] /\ a[2] = ladder[j] /\ i <= c /\ j <= c

Recorded == \A a \in opinions : OnRecord(a, Len(ladder), challenger)

PairIsShown ==
  Pending => PairOpinions = (IF Len(shown) > 0 THEN {<<champion, ladder[challenger], shown[1]>>} ELSE {})
                       \cup (IF Len(shown) > 1 THEN {<<ladder[challenger], champion, shown[2]>>} ELSE {})

BestSoFar == OnePlace(Settled) => \A i \in 1..Len(ladder) : checks[champion].score >= checks[ladder[i]].score

PreferredSoFar == \A i \in 1..challenger - 1 : Preferred(ladder[i], Settled) => champion = ladder[i]

ChoiceInv ==
  /\ checks \in [Drafts -> Draft]
  /\ ladder = <<>> => shown = <<>> /\ opinions = {}
  /\ ladder # <<>> => /\ Climbed /\ ThisPair /\ Recorded /\ PairIsShown /\ BestSoFar /\ PreferredSoFar
                      /\ ~Pending => shown = <<>>

-----------------------------------------------------------------------------

LEMMA AppendTwo == ASSUME NEW s \in Answers, NEW t \in Answers PROVE Append(<<s>>, t) = <<s, t>>
<1>1. <<s>> \in Seq(Answers) /\ <<s, t>> \in Seq(Answers) /\ Append(<<s>>, t) \in Seq(Answers)
  BY AppendProperties
<1>2. Len(<<s>>) = 1 /\ Len(<<s, t>>) = 2 /\ Len(Append(<<s>>, t)) = 2
  BY <1>1, AppendProperties
<1>3. Append(<<s>>, t)[1] = s /\ Append(<<s>>, t)[2] = t
  BY <1>1, <1>2, AppendProperties
<1>4. PICK u : u = Append(<<s>>, t)
  OBVIOUS
<1>5. PICK v : v = <<s, t>>
  OBVIOUS
<1>6. u \in Seq(Answers) /\ v \in Seq(Answers) /\ Len(u) = 2 /\ Len(v) = 2 /\ u[1] = v[1] /\ u[2] = v[2]
  BY <1>1, <1>2, <1>3, <1>4, <1>5
<1>7. \A i \in 1..Len(u) : u[i] = v[i]
  <2> SUFFICES ASSUME NEW i \in 1..Len(u) PROVE u[i] = v[i]
    OBVIOUS
  <2>1. i = 1 \/ i = 2
    BY <1>6
  <2> QED BY <1>6, <2>1
<1>8. u = v
  BY <1>6, <1>7, SeqEqual
<1> QED BY <1>4, <1>5, <1>8

LEMMA Pigeons ==
  ASSUME NEW S, NEW T, IsFiniteSet(S), IsFiniteSet(T), Cardinality(T) < Cardinality(S), NEW f, f \in [S -> T],
         \A x, y \in S : x # y => f[x] # f[y]
  PROVE  FALSE
BY FS_PigeonHole

LEMMA ViableIs ==
  ASSUME checks \in [Drafts -> Draft]
  PROVE  /\ Viable(checks) \subseteq Drafts /\ IsFiniteSet(Viable(checks)) /\ Cardinality(Viable(checks)) \in Nat \ {0}
         /\ \A d \in Viable(checks) : checks[d].truncated => \A e \in Drafts : checks[e].truncated
<1>1. IsFiniteSet(Drafts) /\ 1 \in Drafts
  BY FS_Interval, ChoiceAssumption DEF Drafts
<1>2. PICK whole : whole = {d \in Drafts : ~checks[d].truncated} /\ Viable(checks) = IF whole = {} THEN Drafts ELSE whole
  BY DEF Viable
<1>3. Viable(checks) \subseteq Drafts /\ Viable(checks) # {}
  BY <1>1, <1>2
<1>4. IsFiniteSet(Viable(checks))
  BY <1>1, <1>3, FS_Subset
<1>5. Cardinality(Viable(checks)) \in Nat /\ Cardinality(Viable(checks)) # 0
  BY <1>3, <1>4, FS_CardinalityType, FS_EmptySet
<1>6. \A d \in Viable(checks) : checks[d].truncated => \A e \in Drafts : checks[e].truncated
  BY <1>2
<1> QED BY <1>3, <1>4, <1>5, <1>6

\* An injection between two sets of one size reaches everything.
LEMMA AllReached ==
  ASSUME NEW V, IsFiniteSet(V), NEW n \in Nat \ {0}, Cardinality(V) = n, NEW s \in [1..n -> V],
         \A i, j \in 1..n : i # j => s[i] # s[j], NEW d \in V
  PROVE  \E i \in 1..n : s[i] = d
<1> SUFFICES ASSUME \A i \in 1..n : s[i] # d PROVE FALSE
  OBVIOUS
<1>2. IsFiniteSet(1..n) /\ Cardinality(1..n) = n
  <2>1. 1 \in Int /\ n \in Int /\ ~(1 > n) /\ n - 1 + 1 = n
    OBVIOUS
  <2> QED BY <2>1, FS_Interval
<1>3. PICK R : R = V \ {d}
  OBVIOUS
<1>4. IsFiniteSet(R) /\ Cardinality(R) = n - 1
  BY <1>3, FS_RemoveElement
<1>5. s \in [1..n -> R]
  BY <1>3
<1>6. PICK D : D = 1..n
  OBVIOUS
<1>7. IsFiniteSet(D) /\ s \in [D -> R] /\ Cardinality(R) < Cardinality(D)
  BY <1>2, <1>4, <1>5, <1>6
<1>8. \A i, j \in D : i # j => s[i] # s[j]
  BY <1>6
<1> QED BY <1>4, <1>7, <1>8, Pigeons

\* A ladder has a place for every viable draft.
LEMMA LadderIsFull ==
  ASSUME checks \in [Drafts -> Draft], NEW s \in [1..Cardinality(Viable(checks)) -> Viable(checks)],
         \A i, j \in 1..Cardinality(Viable(checks)) : i # j => s[i] # s[j],
         NEW d \in Viable(checks)
  PROVE  \E i \in 1..Cardinality(Viable(checks)) : s[i] = d
BY ViableIs, AllReached

LEMMA InitChoice == ChoiceInit => ChoiceInv
BY DEF ChoiceInit, ChoiceInv, Draft

LEMMA KeepRank == ChoiceInv /\ Rank => ChoiceInv'
<1> SUFFICES ASSUME ChoiceInv, Rank PROVE ChoiceInv'
  OBVIOUS
<1>1. checks' = checks /\ shown' = <<>> /\ opinions' = {} /\ ladder' \in Ladders(checks)
      /\ champion' = ladder'[1] /\ challenger' = 2 /\ checks \in [Drafts -> Draft]
  BY DEF ChoiceInv, Rank
<1>2. PICK n \in Nat \ {0} : n = Cardinality(Viable(checks))
  BY <1>1, ViableIs
<1>3. PICK s : s = ladder' /\ s \in [1..n -> Viable(checks)] /\ (\A i, j \in 1..n : i # j => s[i] # s[j])
              /\ \A i, j \in 1..n : i < j => Ahead(checks, s[i], s[j])
  BY <1>1, <1>2 DEF Ladders, SetToSeqs
<1>4. Len(s) = n
  BY <1>3
<1>5. \A i, j \in 1..n : i < j => checks[s[i]].score >= checks[s[j]].score
  <2> SUFFICES ASSUME NEW i \in 1..n, NEW j \in 1..n, i < j PROVE checks[s[i]].score >= checks[s[j]].score
    OBVIOUS
  <2>1. s[i] \in Drafts /\ s[j] \in Drafts
    BY <1>1, <1>3, ViableIs
  <2>2. checks[s[i]].score \in Nat /\ checks[s[j]].score \in Nat
    BY <1>1, <2>1, ChoiceAssumption DEF Draft
  <2>3. Ahead(checks, s[i], s[j])
    BY <1>3
  <2> QED BY <2>2, <2>3 DEF Ahead
<1>6. 1 \in 1..n
  BY <1>2
<1>7. \A i \in 1..n : checks[s[1]].score >= checks[s[i]].score
  <2> SUFFICES ASSUME NEW i \in 1..n PROVE checks[s[1]].score >= checks[s[i]].score
    OBVIOUS
  <2>1. s[i] \in Drafts
    BY <1>1, <1>3, ViableIs
  <2>2. checks[s[i]].score \in Nat
    BY <1>1, <2>1, ChoiceAssumption DEF Draft
  <2>3. CASE i = 1
    BY <2>2, <2>3
  <2>4. CASE i # 1
    BY <1>5, <1>6, <2>4
  <2> QED BY <2>3, <2>4
<1>8. Climbed'
  <2>1. OnLadder(champion, challenger - 1)'
    BY <1>1, <1>3 DEF OnLadder
  <2> QED BY <1>1, <1>2, <1>3, <1>4, <1>5, <2>1 DEF Climbed
<1>9. ladder' # <<>>
  BY <1>3, <1>6
<1>10. Settled' = {} /\ PairOpinions' = {}
  BY <1>1 DEF Settled, PairOpinions
<1>11. \A i \in 1..challenger' - 1 : Preferred(ladder'[i], Settled') => champion' = ladder'[i]
  BY <1>1
<1>12. \A i \in 1..Len(ladder') : checks'[champion'].score >= checks'[ladder'[i]].score
  BY <1>1, <1>3, <1>4, <1>7
<1>13. PairIsShown' /\ BestSoFar' /\ PreferredSoFar' /\ Recorded' /\ ThisPair'
  BY <1>1, <1>10, <1>11, <1>12 DEF PairIsShown, BestSoFar, PreferredSoFar, Recorded, ThisPair
<1> QED BY <1>1, <1>8, <1>9, <1>13 DEF ChoiceInv

\* What the pairs so far have left on record.
LEMMA SaidSoFar ==
  ASSUME ChoiceInv, Pending
  PROVE  /\ champion # ladder[challenger] /\ champion \in Drafts /\ ladder[challenger] \in Drafts
         /\ champion \in Viable(checks) /\ ladder[challenger] \in Viable(checks)
         /\ checks[champion].score \in Nat /\ checks[ladder[challenger]].score \in Nat
         /\ challenger \in 2..Len(ladder) /\ Len(ladder) \in Nat
         /\ \E i \in 1..challenger - 1 : champion = ladder[i]
<1>1. Climbed /\ checks \in [Drafts -> Draft] /\ ladder # <<>> /\ challenger <= Len(ladder)
  BY DEF ChoiceInv, Pending
<1>2. PICK n \in Nat \ {0} : n = Cardinality(Viable(checks)) /\ n = Len(ladder)
  BY <1>1, ViableIs DEF Climbed
<1>3. challenger \in 2..n
  BY <1>1, <1>2 DEF Climbed
<1>4. PICK i \in 1..challenger - 1 : champion = ladder[i]
  BY <1>1 DEF Climbed, OnLadder
<1>5. i \in 1..n /\ challenger \in 1..n /\ i # challenger
  BY <1>2, <1>3, <1>4
<1>6. champion # ladder[challenger] /\ champion \in Viable(checks) /\ ladder[challenger] \in Viable(checks)
  BY <1>1, <1>2, <1>4, <1>5 DEF Climbed
<1>7. champion \in Drafts /\ ladder[challenger] \in Drafts
  BY <1>1, <1>6, ViableIs
<1>8. checks[champion].score \in Nat /\ checks[ladder[challenger]].score \in Nat
  BY <1>1, <1>7, ChoiceAssumption DEF Draft
<1> QED BY <1>2, <1>3, <1>4, <1>6, <1>7, <1>8

LEMMA KeepShow == ChoiceInv /\ Show => ChoiceInv'
<1> SUFFICES ASSUME ChoiceInv, Show PROVE ChoiceInv'
  OBVIOUS
<1> DEFINE r == ladder[challenger]
           first == IF shown = <<>> THEN champion ELSE r
           second == IF shown = <<>> THEN r ELSE champion
<1>1. PICK answer \in Answers : shown' = Append(shown, answer) /\ opinions' = opinions \cup {<<first, second, answer>>}
  BY DEF Show
<1>2. UNCHANGED <<checks, ladder, champion, challenger>> /\ Pending /\ Len(shown) < 2 /\ ladder # <<>>
  BY DEF Show, Pending
<1>3. PICK o : o = <<first, second, answer>>
  OBVIOUS
<1>4. Climbed' /\ Pending'
  BY <1>2 DEF ChoiceInv, Climbed, OnLadder, Pending
<1>5. \/ shown = <<>> /\ shown' = <<answer>> /\ o = <<champion, r, answer>>
      \/ \E s \in Answers : shown = <<s>> /\ shown' = <<s, answer>> /\ o = <<r, champion, answer>>
  <2>1. CASE shown = <<>>
    BY <1>1, <1>3, <2>1
  <2>2. CASE shown # <<>>
    <3>1. PICK s \in Answers : shown = <<s>>
      <4>1. CASE \E s \in Answers : shown = <<s>>
        BY <4>1
      <4>2. CASE \E s, t \in Answers : shown = <<s, t>>
        BY <1>2, <4>2
      <4>3. ThisPair
        BY <1>2 DEF ChoiceInv
      <4> QED BY <2>2, <4>1, <4>2, <4>3 DEF ThisPair
    <3>2. shown' = <<s, answer>>
      <4>1. shown' = Append(<<s>>, answer)
        BY <1>1, <3>1
      <4> QED BY <4>1, AppendTwo
    <3> QED BY <1>3, <2>2, <3>1, <3>2
  <2> QED BY <2>1, <2>2
<1>6. ThisPair'
  BY <1>5 DEF ThisPair
<1>7. opinions' = opinions \cup {o} /\ r \in {o[1], o[2]}
  BY <1>1, <1>3, <1>5
<1>8. PairOpinions' = PairOpinions \cup {o} /\ Settled' = Settled
  <2>1. PairOpinions' = {a \in opinions' : r \in {a[1], a[2]}} /\ PairOpinions = {a \in opinions : r \in {a[1], a[2]}}
    BY <1>2 DEF PairOpinions
  <2>2. PairOpinions' = PairOpinions \cup {o}
    BY <1>7, <2>1
  <2>3. opinions' \ PairOpinions' = opinions \ PairOpinions
    BY <1>7, <2>1
  <2> QED BY <1>2, <1>4, <2>2, <2>3 DEF Settled
<1>9. PairOpinions' = (IF Len(shown') > 0 THEN {<<champion, r, shown'[1]>>} ELSE {})
                      \cup (IF Len(shown') > 1 THEN {<<r, champion, shown'[2]>>} ELSE {})
  <2>1. PairOpinions = (IF Len(shown) > 0 THEN {<<champion, r, shown[1]>>} ELSE {})
                      \cup (IF Len(shown) > 1 THEN {<<r, champion, shown[2]>>} ELSE {})
    BY <1>2 DEF ChoiceInv, PairIsShown
  <2>2. CASE shown = <<>> /\ shown' = <<answer>> /\ o = <<champion, r, answer>>
    <3>1. PairOpinions = {}
      BY <2>1, <2>2
    <3> QED BY <1>8, <2>2, <3>1
  <2>3. CASE \E s \in Answers : shown = <<s>> /\ shown' = <<s, answer>> /\ o = <<r, champion, answer>>
    <3>1. PICK s \in Answers : shown = <<s>> /\ shown' = <<s, answer>> /\ o = <<r, champion, answer>>
      BY <2>3
    <3>2. PairOpinions = {<<champion, r, s>>}
      BY <2>1, <3>1
    <3> QED BY <1>8, <3>1, <3>2
  <2> QED BY <1>5, <2>2, <2>3
<1>10. \A a \in opinions' : OnRecord(a, Len(ladder), challenger)
  <2>1. \A a \in opinions : OnRecord(a, Len(ladder), challenger)
    BY <1>2 DEF ChoiceInv, Recorded
  <2>2. PICK i \in 1..challenger - 1 : champion = ladder[i]
    BY <1>2, SaidSoFar
  <2>3. challenger \in 1..Len(ladder) /\ i \in 1..Len(ladder) /\ i # challenger /\ i <= challenger /\ challenger <= challenger
    BY <1>2, SaidSoFar
  <2>4. o = <<o[1], o[2], o[3]>> /\ o[3] \in Answers
    BY <1>1, <1>3
  <2>5. (o[1] = ladder[i] /\ o[2] = ladder[challenger]) \/ (o[1] = ladder[challenger] /\ o[2] = ladder[i])
    BY <1>5, <2>2
  <2>6. OnRecord(o, Len(ladder), challenger)
    BY <2>3, <2>4, <2>5 DEF OnRecord
  <2> QED BY <1>7, <2>1, <2>6
<1>11. OnePlace(Settled') => \A i \in 1..Len(ladder) : checks[champion].score >= checks[ladder[i]].score
  BY <1>2, <1>8 DEF ChoiceInv, BestSoFar
<1>12. \A i \in 1..challenger - 1 : Preferred(ladder[i], Settled') => champion = ladder[i]
  BY <1>2, <1>8 DEF ChoiceInv, PreferredSoFar
<1>13. Recorded' /\ PairIsShown' /\ BestSoFar' /\ PreferredSoFar'
  <2>1. Recorded'
    BY <1>2, <1>10 DEF Recorded, OnRecord
  <2>2. PairIsShown' /\ BestSoFar' /\ PreferredSoFar'
    BY <1>2, <1>9, <1>11, <1>12 DEF PairIsShown, BestSoFar, PreferredSoFar
  <2> QED BY <2>1, <2>2
<1>14. checks' \in [Drafts -> Draft] /\ ladder' # <<>>
  BY <1>2 DEF ChoiceInv
<1> QED BY <1>4, <1>6, <1>13, <1>14 DEF ChoiceInv

\* What the two answers about a pair come to.
LEMMA VerdictIs ==
  ASSUME NEW s \in Answers, NEW t \in Answers
  PROVE  /\ Verdict(s, t) = "right" => s \in {"B", "error"} /\ t \in {"A", "error"}
         /\ s \in {"B", "error"} /\ t \in {"A", "error"} /\ ~(s = "error" /\ t = "error") => Verdict(s, t) = "right"
         /\ s \in {"A", "error"} /\ t \in {"B", "error"} /\ ~(s = "error" /\ t = "error") => Verdict(s, t) = "left"
         /\ s = t /\ s # "error" => Verdict(s, t) = "tie"
<1>1. LeftWon(s, FALSE) \in BOOLEAN /\ LeftWon(t, TRUE) \in BOOLEAN
      /\ (LeftWon(s, FALSE) <=> s = "A") /\ (LeftWon(t, TRUE) <=> t # "A")
  BY DEF LeftWon
<1>2. PICK u : u = <<s, FALSE>>
  OBVIOUS
<1>3. PICK v : v = <<t, TRUE>>
  OBVIOUS
<1>20. u[1] = s /\ u[2] = FALSE /\ v[1] = t /\ v[2] = TRUE
  BY <1>2, <1>3
<1>21. PICK x : x = LeftWon(u[1], u[2])
  OBVIOUS
<1>22. PICK y : y = LeftWon(v[1], v[2])
  OBVIOUS
<1>4. x \in BOOLEAN /\ y \in BOOLEAN /\ (x <=> s = "A") /\ (y <=> t # "A")
  BY <1>1, <1>20, <1>21, <1>22
<1>23. PICK heard : heard = {p \in {u, v} : p[1] # "error"}
  OBVIOUS
<1>5. PICK outcomes : outcomes = {LeftWon(q[1], q[2]) : q \in heard}
  OBVIOUS
<1>6. Verdict(s, t) = CASE outcomes = {} -> "error"
                        [] outcomes = {TRUE} -> "left"
                        [] outcomes = {FALSE} -> "right"
                        [] OTHER -> "tie"
  BY <1>2, <1>3, <1>23, <1>5 DEF Verdict
<1>7. ASSUME s # "error", t # "error" PROVE outcomes = {x, y}
  <2>1. heard = {u, v}
    BY <1>7, <1>20, <1>23
  <2> QED BY <1>5, <1>21, <1>22, <2>1
<1>8. ASSUME s # "error", t = "error" PROVE outcomes = {x}
  <2>1. heard = {u}
    BY <1>8, <1>20, <1>23
  <2> QED BY <1>5, <1>21, <2>1
<1>9. ASSUME s = "error", t # "error" PROVE outcomes = {y}
  <2>1. heard = {v}
    BY <1>9, <1>20, <1>23
  <2> QED BY <1>5, <1>22, <2>1
<1>10. ASSUME s = "error", t = "error" PROVE outcomes = {}
  <2>1. heard = {}
    BY <1>10, <1>20, <1>23
  <2> QED BY <1>5, <2>1
<1>11. CASE s # "error" /\ t # "error"
  <2>1. outcomes = {x, y}
    BY <1>7, <1>11
  <2>2. CASE s = "A" /\ t = "A"
    <3>1. x = TRUE /\ y = FALSE
      BY <1>4, <2>2
    <3> QED BY <1>6, <2>1, <2>2, <3>1
  <2>3. CASE s = "A" /\ t = "B"
    <3>1. x = TRUE /\ y = TRUE
      BY <1>4, <2>3
    <3> QED BY <1>6, <2>1, <2>3, <3>1
  <2>4. CASE s = "B" /\ t = "A"
    <3>1. x = FALSE /\ y = FALSE
      BY <1>4, <2>4
    <3> QED BY <1>6, <2>1, <2>4, <3>1
  <2>5. CASE s = "B" /\ t = "B"
    <3>1. x = FALSE /\ y = TRUE
      BY <1>4, <2>5
    <3> QED BY <1>6, <2>1, <2>5, <3>1
  <2> QED BY <1>11, <2>2, <2>3, <2>4, <2>5 DEF Answers
<1>12. CASE s # "error" /\ t = "error"
  <2>1. outcomes = {x} /\ s \in {"A", "B"}
    BY <1>8, <1>12 DEF Answers
  <2>2. CASE s = "A"
    <3>1. x = TRUE
      BY <1>4, <2>2
    <3> QED BY <1>6, <1>12, <2>1, <2>2, <3>1
  <2>3. CASE s = "B"
    <3>1. x = FALSE
      BY <1>4, <2>3
    <3> QED BY <1>6, <1>12, <2>1, <2>3, <3>1
  <2> QED BY <2>1, <2>2, <2>3
<1>13. CASE s = "error" /\ t # "error"
  <2>1. outcomes = {y} /\ t \in {"A", "B"}
    BY <1>9, <1>13 DEF Answers
  <2>2. CASE t = "A"
    <3>1. y = FALSE
      BY <1>4, <2>2
    <3> QED BY <1>6, <1>13, <2>1, <2>2, <3>1
  <2>3. CASE t = "B"
    <3>1. y = TRUE
      BY <1>4, <2>3
    <3> QED BY <1>6, <1>13, <2>1, <2>3, <3>1
  <2> QED BY <2>1, <2>2, <2>3
<1>14. CASE s = "error" /\ t = "error"
  BY <1>6, <1>10, <1>14
<1> QED BY <1>11, <1>12, <1>13, <1>14

LEMMA KeepDecide == ChoiceInv /\ Decide => ChoiceInv'
<1> SUFFICES ASSUME ChoiceInv, Decide PROVE ChoiceInv'
  OBVIOUS
<1>1. UNCHANGED <<checks, ladder, opinions>> /\ Pending /\ ladder # <<>> /\ challenger' = challenger + 1 /\ shown' = <<>>
  BY DEF Decide, Pending
<1>2. PICK s \in Answers : \E t \in Answers : shown = <<s, t>>
  <2>1. ThisPair /\ Len(shown) = 2
    BY <1>1 DEF ChoiceInv, Decide
  <2> QED BY <2>1 DEF ThisPair
<1>3. PICK t \in Answers : shown = <<s, t>>
  BY <1>2
<1>4. PICK r : r = ladder[challenger]
  OBVIOUS
<1>5. shown[1] = s /\ shown[2] = t /\ Len(shown) = 2
  BY <1>3
<1>21. Verdict(shown[1], shown[2]) = Verdict(s, t)
  BY <1>5
<1>6. \/ champion' = r /\ (Verdict(s, t) = "right" \/ (Verdict(s, t) = "tie" /\ checks[r].score > checks[champion].score))
      \/ champion' = champion /\ Verdict(s, t) # "right"
          /\ ~(Verdict(s, t) = "tie" /\ checks[r].score > checks[champion].score)
  BY <1>21, <1>4 DEF Decide
<1>7. /\ champion # r /\ challenger \in 2..Len(ladder) /\ Len(ladder) \in Nat
      /\ checks[champion].score \in Nat /\ checks[r].score \in Nat
  BY <1>1, <1>4, SaidSoFar
<1>8. PairOpinions = {<<champion, r, s>>, <<r, champion, t>>}
  BY <1>1, <1>4, <1>5 DEF ChoiceInv, PairIsShown
<1>9. PairOpinions = {a \in opinions : r \in {a[1], a[2]}} /\ Settled = opinions \ PairOpinions
  BY <1>1, <1>4 DEF PairOpinions, Settled
<1>10. <<champion, r, s>> \in opinions /\ <<r, champion, t>> \in opinions
  BY <1>8, <1>9
<1>11. Climbed /\ \A a \in opinions : OnRecord(a, Len(ladder), challenger)
  BY <1>1 DEF ChoiceInv, Recorded
<1>12. Settled' = opinions /\ (Pending' => PairOpinions' = {})
  <2>1. CASE ~Pending'
    BY <1>1, <2>1 DEF Settled
  <2>2. CASE Pending'
    <3>1. challenger + 1 \in 1..Len(ladder)
      BY <1>1, <1>7, <2>2 DEF Pending
    <3>2. PairOpinions' = {a \in opinions : ladder[challenger + 1] \in {a[1], a[2]}}
      BY <1>1 DEF PairOpinions
    <3>3. ASSUME NEW a \in opinions PROVE ladder[challenger + 1] \notin {a[1], a[2]}
      <4>1. PICK i \in 1..Len(ladder), j \in 1..Len(ladder) :
              a[1] = ladder[i] /\ a[2] = ladder[j] /\ i <= challenger /\ j <= challenger
        BY <1>11 DEF OnRecord
      <4>2. i # challenger + 1 /\ j # challenger + 1
        BY <1>7, <4>1
      <4> QED BY <1>11, <3>1, <4>1, <4>2 DEF Climbed
    <3>4. PairOpinions' = {}
      BY <3>2, <3>3
    <3> QED BY <1>1, <2>2, <3>4 DEF Settled
  <2> QED BY <2>1, <2>2
<1>13. Climbed'
  <2>1. PICK i \in 1..challenger - 1 : champion = ladder[i]
    BY <1>1, SaidSoFar
  <2>2. champion' = ladder[i] \/ champion' = ladder[challenger]
    BY <1>4, <1>6, <2>1
  <2>3. i \in 1..challenger' - 1 /\ challenger \in 1..challenger' - 1 /\ challenger' \in 2..Len(ladder) + 1
    BY <1>1, <1>7, <2>1
  <2>4. OnLadder(champion, challenger - 1)'
    BY <1>1, <2>2, <2>3 DEF OnLadder
  <2> QED BY <1>1, <1>11, <2>3, <2>4 DEF Climbed
<1>14. ASSUME OnePlace(opinions)
       PROVE  \A i \in 1..Len(ladder) : checks[champion'].score >= checks[ladder[i]].score
  <2>1. PICK spot \in {"A", "B"} : \A a \in opinions : a[3] = spot
    BY <1>14 DEF OnePlace
  <2>2. s = spot /\ t = spot
    BY <1>10, <2>1
  <2>3. Verdict(s, t) = "tie"
    BY <2>2, VerdictIs
  <2>4. OnePlace(Settled)
    BY <1>9, <2>1 DEF OnePlace
  <2>5. \A i \in 1..Len(ladder) : checks[champion].score >= checks[ladder[i]].score
    BY <1>1, <2>4 DEF ChoiceInv, BestSoFar
  <2>6. challenger \in 1..Len(ladder)
    BY <1>7
  <2>7. ~(checks[r].score > checks[champion].score)
    BY <1>4, <1>7, <2>5, <2>6
  <2>8. champion' = champion
    BY <1>6, <2>3, <2>7
  <2> QED BY <2>5, <2>8
<1>15. ASSUME NEW i \in 1..challenger, Preferred(ladder[i], opinions) PROVE champion' = ladder[i]
  <2>0. PICK d : d = ladder[i]
    OBVIOUS
  <2>1. /\ \A a \in opinions : d = a[1] => a[3] \in {"A", "error"}
        /\ \A a \in opinions : d = a[2] => a[3] \in {"B", "error"}
        /\ \A a \in opinions : d \in {a[1], a[2]} => \E b \in opinions : {b[1], b[2]} = {a[1], a[2]} /\ b[3] # "error"
    BY <1>15, <2>0 DEF Preferred
  <2>2. ASSUME d \in {champion, r} PROVE ~(s = "error" /\ t = "error")
    <3>1. PICK b \in opinions : {b[1], b[2]} = {champion, r} /\ b[3] # "error"
      BY <1>10, <2>1, <2>2
    <3>2. b \in {<<champion, r, s>>, <<r, champion, t>>}
      BY <1>8, <1>9, <3>1
    <3> QED BY <3>1, <3>2
  <2>3. CASE d = champion
    <3>1. s \in {"A", "error"} /\ t \in {"B", "error"}
      BY <1>10, <2>1, <2>3
    <3>2. Verdict(s, t) = "left"
      BY <2>2, <2>3, <3>1, VerdictIs
    <3> QED BY <1>6, <2>0, <2>3, <3>2
  <2>4. CASE d = r
    <3>1. s \in {"B", "error"} /\ t \in {"A", "error"}
      BY <1>10, <2>1, <2>4
    <3>2. Verdict(s, t) = "right"
      BY <2>2, <2>4, <3>1, VerdictIs
    <3> QED BY <1>6, <2>0, <2>4, <3>2
  <2>5. CASE d # champion /\ d # r
    <3>1. i \in 1..challenger - 1
      BY <1>4, <1>7, <2>0, <2>5
    <3>2. \A a \in Settled : d \in {a[1], a[2]} => \E b \in Settled : {b[1], b[2]} = {a[1], a[2]} /\ b[3] # "error"
      <4> SUFFICES ASSUME NEW a \in Settled, d \in {a[1], a[2]}
                   PROVE  \E b \in Settled : {b[1], b[2]} = {a[1], a[2]} /\ b[3] # "error"
        OBVIOUS
      <4>1. a \in opinions /\ r \notin {a[1], a[2]}
        BY <1>9
      <4>2. PICK b \in opinions : {b[1], b[2]} = {a[1], a[2]} /\ b[3] # "error"
        BY <2>1, <4>1
      <4>3. b \in Settled
        BY <1>9, <4>1, <4>2
      <4> QED BY <4>2, <4>3
    <3>3. Preferred(ladder[i], Settled)
      BY <1>9, <2>0, <2>1, <3>2 DEF Preferred
    <3>4. champion = ladder[i]
      BY <1>1, <3>1, <3>3 DEF ChoiceInv, PreferredSoFar
    <3> QED BY <2>0, <2>5, <3>4
  <2> QED BY <2>3, <2>4, <2>5
<1>16. Recorded'
  <2> SUFFICES ASSUME NEW a \in opinions
               PROVE  OnRecord(a, Len(ladder), challenger + 1)
    BY <1>1 DEF Recorded, OnRecord
  <2>1. a = <<a[1], a[2], a[3]>> /\ a[3] \in Answers
    BY <1>11 DEF OnRecord
  <2>2. PICK i \in 1..Len(ladder), j \in 1..Len(ladder) :
          i # j /\ a[1] = ladder[i] /\ a[2] = ladder[j] /\ i <= challenger /\ j <= challenger
    BY <1>11 DEF OnRecord
  <2>3. i <= challenger + 1 /\ j <= challenger + 1
    BY <1>7, <2>2
  <2> QED BY <2>1, <2>2, <2>3 DEF OnRecord
<1>17. BestSoFar'
  BY <1>1, <1>12, <1>14 DEF BestSoFar
<1>18. PreferredSoFar'
  <2>1. challenger' - 1 = challenger
    BY <1>1, <1>7
  <2> QED BY <1>1, <1>12, <1>15, <2>1 DEF PreferredSoFar
<1>19. ThisPair' /\ PairIsShown' /\ shown' = <<>> /\ ladder' # <<>>
  <2>1. Len(shown') = 0
    BY <1>1
  <2> QED BY <1>1, <1>12, <2>1 DEF ThisPair, PairIsShown
<1>20. checks' \in [Drafts -> Draft]
  BY <1>1 DEF ChoiceInv
<1> QED BY <1>13, <1>16, <1>17, <1>18, <1>19, <1>20 DEF ChoiceInv

LEMMA StutterChoice == ChoiceInv /\ UNCHANGED choiceVars => ChoiceInv'
<1> SUFFICES ASSUME ChoiceInv, UNCHANGED choiceVars PROVE ChoiceInv'
  OBVIOUS
<1>1. UNCHANGED <<checks, ladder, champion, challenger, shown, opinions>>
  BY DEF choiceVars
<1>2. Pending' <=> Pending
  BY <1>1 DEF Pending
<1>3. Settled' = Settled /\ PairOpinions' = PairOpinions
  BY <1>1, <1>2 DEF Settled, PairOpinions
<1>4. (Climbed => Climbed') /\ (ThisPair => ThisPair')
  BY <1>1 DEF Climbed, OnLadder, ThisPair
<1>5. Recorded => Recorded'
  BY <1>1 DEF Recorded, OnRecord
<1>6. (PairIsShown => PairIsShown') /\ (BestSoFar => BestSoFar') /\ (PreferredSoFar => PreferredSoFar')
  BY <1>1, <1>2, <1>3 DEF PairIsShown, BestSoFar, PreferredSoFar
<1> QED BY <1>1, <1>2, <1>4, <1>5, <1>6 DEF ChoiceInv

LEMMA StepChoice == ChoiceInv /\ [ChoiceNext]_choiceVars => ChoiceInv'
BY KeepRank, KeepShow, KeepDecide, StutterChoice DEF ChoiceNext

LEMMA FairWhenChosen == ChoiceInv => ChoiceIsFair
<1> SUFFICES ASSUME ChoiceInv PROVE ChoiceIsFair
  OBVIOUS
<1>1. CASE ~Chosen
  BY <1>1 DEF ChoiceIsFair, PlaceDecidesNothing, PreferredWins, WholeIsChosen
<1>2. CASE Chosen
  <2>1. ladder # <<>> /\ ~Pending /\ Climbed /\ Settled = opinions /\ checks \in [Drafts -> Draft]
    BY <1>2 DEF Chosen, ChoiceInv, Settled
  <2>2. PICK n \in Nat \ {0} : n = Cardinality(Viable(checks))
    BY <2>1, ViableIs
  <2>3. /\ ladder \in [1..n -> Viable(checks)] /\ Len(ladder) = n
        /\ \A i, j \in 1..n : i # j => ladder[i] # ladder[j]
        /\ challenger = n + 1 /\ OnLadder(champion, n)
    <3>1. challenger \in 2..n + 1 /\ ~(challenger <= n)
      BY <2>1, <2>2 DEF Climbed, Pending
    <3>2. challenger = n + 1
      BY <2>2, <3>1
    <3>3. challenger - 1 = n
      BY <2>2, <3>2
    <3> QED BY <2>1, <2>2, <3>2, <3>3 DEF Climbed
  <2>4. PlaceDecidesNothing
    <3> SUFFICES ASSUME NEW spot \in {"A", "B"}, \A a \in opinions : a[3] = spot, NEW d \in Viable(checks)
                 PROVE  checks[d].score <= checks[champion].score
      BY DEF PlaceDecidesNothing
    <3>1. PICK i \in 1..n : ladder[i] = d
      BY <2>1, <2>2, <2>3, LadderIsFull
    <3>2. OnePlace(Settled)
      BY <2>1 DEF OnePlace
    <3>3. checks[champion].score >= checks[ladder[i]].score
      BY <2>1, <2>3, <3>2 DEF ChoiceInv, BestSoFar
    <3>4. champion \in Viable(checks)
      BY <2>3 DEF OnLadder
    <3>5. checks[d].score \in Nat /\ checks[champion].score \in Nat
      BY <2>1, <3>4, ViableIs, ChoiceAssumption DEF Draft
    <3> QED BY <3>1, <3>3, <3>5
  <2>5. PreferredWins
    <3> SUFFICES ASSUME NEW d \in ToSet(ladder), Preferred(d, opinions) PROVE champion = d
      BY DEF PreferredWins, Preferred
    <3>1. PICK i \in 1..n : ladder[i] = d
      BY <2>3 DEF ToSet
    <3>2. i \in 1..challenger - 1
      BY <2>2, <2>3
    <3> QED BY <2>1, <3>1, <3>2 DEF ChoiceInv, PreferredSoFar
  <2>6. WholeIsChosen
    <3>1. champion \in Viable(checks)
      BY <2>3 DEF OnLadder
    <3> QED BY <2>1, <3>1, ViableIs DEF WholeIsChosen
  <2> QED BY <2>4, <2>5, <2>6 DEF ChoiceIsFair
<1> QED BY <1>1, <1>2

\* Whatever the scores and the answers, the chosen draft is the one the judge
\* prefers in both places, a place alone decides nothing, and a cut-off draft is
\* chosen only among cut-off ones (select_best_candidate, pairwise_judge).
THEOREM ChoiceFair == ChoiceSpec => []ChoiceIsFair
BY InitChoice, StepChoice, FairWhenChosen, PTL DEF ChoiceSpec

-----------------------------------------------------------------------------
(* BranchTrials: every number of chapters, directions and branches kept.     *)

JobBranch == [status : {"pending", "draft", "failed", "cancelled"}, affected : SUBSET BookNumbers]
JobBranches == [1..Directions -> JobBranch]
ShelfBranch == [id : Nat \X Nat, status : {"draft", "discarded", "adopted"}, affected : SUBSET BookNumbers]

TrialTypes ==
  /\ trial \in [id : Nat, chapter : Nat, status : {"none", "running", "failed", "completed", "cancelled"},
                branches : {<<>>} \cup JobBranches]
  /\ trial.id > 0 => trial.chapter \in BookNumbers /\ trial.branches \in JobBranches
  /\ worker = NoWorker \/ worker \in [at : {"write", "audit", "judge", "impact"}, n : 1..Directions, mem : JobBranches]
  /\ shelf \in [BookNumbers -> SUBSET ShelfBranch]
  /\ prose \in [BookNumbers -> Nat \X Nat] /\ storedProse \in [BookNumbers -> Nat \X Nat]
  /\ versions \in [BookNumbers -> SUBSET (Nat \X Nat)]
  /\ typed \in Nat
  /\ thrown \in SUBSET (Nat \X Nat)

\* The record is what the task has in memory, and what is not written yet is pending.
WorkerKnows ==
  TrialWorking =>
    /\ trial.id > 0 /\ worker.mem = trial.branches
    /\ worker.at = "write" => \A d \in worker.n..Directions : worker.mem[d].status = "pending"

UniqueIds(S) == \A a, b \in S : a.id = b.id => a = b
AdoptedOf(S) == {b \in S : b.status = "adopted"}

\* The shelves: finite, each branch on one of them once, none over the limit but by adopted branches.
ShelfOrder ==
  /\ \A c \in BookNumbers :
       /\ IsFiniteSet(shelf[c]) /\ UniqueIds(shelf[c])
       /\ Cardinality(shelf[c]) <= KeepBranches \/ AdoptedOf(shelf[c]) = shelf[c]
  /\ \A c1, c2 \in BookNumbers : \A a \in shelf[c1], b \in shelf[c2] : a.id = b.id => c1 = c2

\* Where the branches come from: the job of their number, those of the present one since it ended.
Collected ==
  /\ \A c \in BookNumbers : \A b \in shelf[c] :
       /\ b.id[1] <= trial.id
       /\ b.id[1] = trial.id => c = trial.chapter /\ b.id[2] \in 1..Directions /\ ~TrialWorking
  /\ \A t \in thrown : t[1] <= trial.id /\ (t[1] = trial.id => ~TrialWorking)

OnShelf(c, i) == \E x \in shelf[c] : x.id = i

\* Once a draft of the present job is on the shelf or thrown away, all its drafts are on the shelf.
AllOrNone ==
  trial.id > 0 /\ HasRoom(trial.chapter)
  /\ (\/ \E b \in shelf[trial.chapter] : b.id[1] = trial.id
      \/ \E t \in thrown : t[1] = trial.id)
  => \A d \in Ready(trial.branches) : OnShelf(trial.chapter, <<trial.id, d>>)

\* What is being adopted is a draft on the shelf, and the browser's text is saved.
AdoptionKnown ==
  adopting # <<>> =>
    /\ adopting[1] \in BookNumbers /\ storedProse = prose
    /\ \E b \in shelf[adopting[1]] : b.id = adopting[2] /\ b.status = "draft"

BranchInv == TrialTypes /\ WorkerKnows /\ ShelfOrder /\ Collected /\ AllOrNone /\ AdoptionKnown /\ ThrownStaysThrown

-----------------------------------------------------------------------------
(* The limit of the shelf.                                                 *)

LEMMA ImageFinite ==
  ASSUME NEW S, IsFiniteSet(S), NEW f, f = [x \in S |-> f[x]]
  PROVE  IsFiniteSet({f[x] : x \in S}) /\ Cardinality({f[x] : x \in S}) <= Cardinality(S)
<1> DEFINE T == {f[x] : x \in S}
<1>1. f \in Surjection(S, T)
  BY DEF Surjection
<1> HIDE DEF T
<1> QED BY <1>1, FS_Surjection DEF T

\* A set of branches as a chapter holds them.
Shelved(S) == S \in SUBSET ShelfBranch /\ IsFiniteSet(S) /\ UniqueIds(S)
Before(S, b) == {a \in S : GoesBefore(a, b)}

LEMMA PrunedIs ==
  ASSUME NEW S
  PROVE  Pruned(S) = {b \in S : b.status = "adopted" \/ Cardinality(Before(S, b)) >= Cardinality(S) - KeepBranches}
BY DEF Pruned, Before

LEMMA ShelvedTypes ==
  ASSUME NEW S, Shelved(S)
  PROVE  /\ Cardinality(S) \in Nat /\ KeepBranches \in Nat \ {0} /\ Directions \in Nat \ {0}
         /\ \A b \in S : /\ b \in ShelfBranch /\ b.id[1] \in Nat /\ b.id[2] \in Nat /\ b.id = <<b.id[1], b.id[2]>>
                         /\ b.status \in {"draft", "discarded", "adopted"}
                         /\ IsFiniteSet(Before(S, b)) /\ Cardinality(Before(S, b)) \in Nat
<1>1. Cardinality(S) \in Nat
  BY FS_CardinalityType DEF Shelved
<1>2. KeepBranches \in Nat \ {0} /\ Directions \in Nat \ {0}
  BY TrialAssumption
<1>3. ASSUME NEW b \in S
      PROVE  /\ b \in ShelfBranch /\ b.id[1] \in Nat /\ b.id[2] \in Nat /\ b.id = <<b.id[1], b.id[2]>>
             /\ b.status \in {"draft", "discarded", "adopted"}
             /\ IsFiniteSet(Before(S, b)) /\ Cardinality(Before(S, b)) \in Nat
  <2>1. b \in ShelfBranch
    BY DEF Shelved
  <2>2. b.id \in Nat \X Nat /\ b.status \in {"draft", "discarded", "adopted"}
    BY <2>1 DEF ShelfBranch
  <2>3. IsFiniteSet(Before(S, b))
    BY FS_Subset DEF Before, Shelved
  <2> QED BY <2>1, <2>2, <2>3, FS_CardinalityType
<1> QED BY <1>1, <1>2, <1>3

LEMMA PrunedKeeps ==
  ASSUME NEW S, Shelved(S)
  PROVE  /\ Pruned(S) \subseteq S /\ AdoptedOf(S) \subseteq Pruned(S) /\ Shelved(Pruned(S))
         /\ Cardinality(S) <= KeepBranches \/ AdoptedOf(S) = S => Pruned(S) = S
<1>1. Pruned(S) \subseteq S /\ AdoptedOf(S) \subseteq Pruned(S)
  BY PrunedIs DEF AdoptedOf
<1>2. Shelved(Pruned(S))
  BY <1>1, FS_Subset DEF Shelved, UniqueIds
<1>3. CASE Cardinality(S) <= KeepBranches
  <2>1. Cardinality(S) - KeepBranches <= 0
    BY <1>3, ShelvedTypes
  <2>2. \A b \in S : Cardinality(Before(S, b)) >= Cardinality(S) - KeepBranches
    BY <2>1, ShelvedTypes
  <2>3. Pruned(S) = {b \in S : b.status = "adopted" \/ Cardinality(Before(S, b)) >= Cardinality(S) - KeepBranches}
    BY PrunedIs
  <2>4. S \subseteq Pruned(S)
    BY <2>2, <2>3, Zenon
  <2> QED BY <1>1, <2>4, Zenon
<1>4. CASE AdoptedOf(S) = S
  BY <1>1, <1>4
<1> QED BY <1>1, <1>2, <1>3, <1>4

\* The order of going, among those that may go.
LEMMA GoingOrder ==
  ASSUME NEW S, Shelved(S)
  PROVE  /\ \A a \in S : ~GoesBefore(a, a)
         /\ \A a, b, x \in S : GoesBefore(a, b) /\ GoesBefore(b, x) => GoesBefore(a, x)
         /\ \A a, b \in S : a # b /\ a.status # "adopted" /\ b.status # "adopted" => GoesBefore(a, b) \/ GoesBefore(b, a)
         /\ \A a, b \in S : b.status # "adopted" /\ GoesBefore(a, b) => a.status # "adopted"
<1>1. \A b \in S : b.id[1] \in Nat /\ b.id[2] \in Nat
  BY ShelvedTypes
<1>2. \A a \in S : ~Older(a, a)
  BY <1>1 DEF Older
<1>3. \A a, b, x \in S : Older(a, b) /\ Older(b, x) => Older(a, x)
  BY <1>1 DEF Older
<1>4. ASSUME NEW a \in S, NEW b \in S, a # b PROVE Older(a, b) \/ Older(b, a)
  <2>1. a.id # b.id
    BY <1>4 DEF Shelved, UniqueIds
  <2>2. a.id = <<a.id[1], a.id[2]>> /\ b.id = <<b.id[1], b.id[2]>>
    BY ShelvedTypes
  <2>3. a.id[1] # b.id[1] \/ a.id[2] # b.id[2]
    BY <2>1, <2>2
  <2> QED BY <1>1, <2>3 DEF Older
<1>5. \A b \in S : b.status \in {"draft", "discarded", "adopted"}
  BY ShelvedTypes
<1>6. \A a \in S : ~GoesBefore(a, a)
  BY <1>2 DEF GoesBefore
<1>7. \A a, b, x \in S : GoesBefore(a, b) /\ GoesBefore(b, x) => GoesBefore(a, x)
  BY <1>3, <1>5 DEF GoesBefore
<1>8. \A a, b \in S : a # b /\ a.status # "adopted" /\ b.status # "adopted" => GoesBefore(a, b) \/ GoesBefore(b, a)
  BY <1>4, <1>5 DEF GoesBefore
<1>9. \A a, b \in S : b.status # "adopted" /\ GoesBefore(a, b) => a.status # "adopted"
  BY DEF GoesBefore
<1> QED BY <1>6, <1>7, <1>8, <1>9

\* What goes before another has less before it.
LEMMA RankGrows ==
  ASSUME NEW S, Shelved(S), NEW a \in S, NEW b \in S, GoesBefore(a, b)
  PROVE  Cardinality(Before(S, a)) + 1 <= Cardinality(Before(S, b))
<1>1. a \notin Before(S, a)
  BY GoingOrder DEF Before
<1>2. Before(S, a) \cup {a} \subseteq Before(S, b)
  BY GoingOrder DEF Before
<1>3. IsFiniteSet(Before(S, a)) /\ IsFiniteSet(Before(S, b)) /\ Cardinality(Before(S, a)) \in Nat
  BY ShelvedTypes
<1>4. Cardinality(Before(S, a) \cup {a}) = Cardinality(Before(S, a)) + 1
  BY <1>1, <1>3, FS_AddElement
<1>5. Cardinality(Before(S, a) \cup {a}) <= Cardinality(Before(S, b))
  BY <1>2, <1>3, FS_Subset
<1> QED BY <1>4, <1>5

\* After the limit has taken its share, there are not too many, or none is left that may go.
LEMMA PrunedSmall ==
  ASSUME NEW S, Shelved(S)
  PROVE  Cardinality(Pruned(S)) <= KeepBranches \/ AdoptedOf(Pruned(S)) = Pruned(S)
<1> DEFINE A == AdoptedOf(S)
           U == S \ A
           K == Pruned(S) \ A
           e == Cardinality(S) - KeepBranches
<1>1. /\ Cardinality(S) \in Nat /\ KeepBranches \in Nat \ {0} /\ IsFiniteSet(S)
      /\ Pruned(S) \subseteq S /\ A \subseteq Pruned(S) /\ A \subseteq S
  BY ShelvedTypes, PrunedKeeps DEF Shelved, AdoptedOf
<1>2. CASE e <= 0
  <2>1. Pruned(S) = S /\ Cardinality(S) <= KeepBranches
    BY <1>1, <1>2, PrunedKeeps
  <2> QED BY <2>1
<1>3. CASE K = {}
  BY <1>1, <1>3 DEF AdoptedOf
<1>4. CASE e > 0 /\ K # {}
  <2>1. IsFiniteSet(A) /\ IsFiniteSet(U) /\ IsFiniteSet(K) /\ K \subseteq U
    BY <1>1, FS_Subset
  <2>2. PICK m \in Nat : m = Cardinality(U)
    BY <2>1, FS_CardinalityType
  <2>3. PICK a \in Nat : a = Cardinality(A)
    BY <2>1, FS_CardinalityType
  <2>4. PICK k \in Nat : k = Cardinality(K)
    BY <2>1, FS_CardinalityType
  <2>5. Cardinality(S) = a + m
    <3>1. S = A \cup U /\ A \cap U = {}
      BY <1>1
    <3>2. Cardinality(A \cup U) = Cardinality(A) + Cardinality(U) - Cardinality(A \cap U)
      BY <2>1, FS_Union
    <3>3. Cardinality(A \cap U) = 0
      BY <3>1, FS_EmptySet
    <3> HIDE DEF A, U
    <3> QED BY <2>2, <2>3, <3>1, <3>2, <3>3
  <2>6. Cardinality(Pruned(S)) = a + k
    <3>1. Pruned(S) = A \cup K /\ A \cap K = {}
      BY <1>1
    <3>2. Cardinality(A \cup K) = Cardinality(A) + Cardinality(K) - Cardinality(A \cap K)
      BY <2>1, FS_Union
    <3>3. Cardinality(A \cap K) = 0
      BY <3>1, FS_EmptySet
    <3> HIDE DEF A, K
    <3> QED BY <2>3, <2>4, <3>1, <3>2, <3>3
  <2> DEFINE r == [b \in K |-> Cardinality(Before(S, b))]
  <2>7. ASSUME NEW b \in K PROVE r[b] \in e..m - 1 /\ b \in S /\ b.status # "adopted"
    <3>1. b \in S /\ b.status # "adopted" /\ Cardinality(Before(S, b)) >= e /\ b \in U
      BY <1>1, PrunedIs DEF AdoptedOf
    <3>2. Before(S, b) \subseteq U \ {b}
      BY <3>1, GoingOrder DEF Before, AdoptedOf
    <3>3. IsFiniteSet(U \ {b}) /\ Cardinality(U \ {b}) = m - 1
      BY <2>1, <2>2, <3>1, FS_RemoveElement
    <3>4. Cardinality(Before(S, b)) <= m - 1
      BY <3>2, <3>3, FS_Subset
    <3>5. Cardinality(Before(S, b)) \in Nat /\ e \in Int /\ m - 1 \in Int
      BY <1>1, <3>1, ShelvedTypes
    <3> HIDE DEF e, U, K
    <3>6. Cardinality(Before(S, b)) \in e..m - 1
      BY <3>1, <3>4, <3>5
    <3> QED BY <3>1, <3>6
  <2>8. \A b, c \in K : r[b] = r[c] => b = c
    <3> SUFFICES ASSUME NEW b \in K, NEW c \in K, r[b] = r[c], b # c PROVE FALSE
      OBVIOUS
    <3>1. b \in S /\ c \in S /\ (GoesBefore(b, c) \/ GoesBefore(c, b))
      BY <2>7, GoingOrder
    <3>2. Cardinality(Before(S, b)) = Cardinality(Before(S, c))
      OBVIOUS
    <3>3. Cardinality(Before(S, b)) \in Nat /\ Cardinality(Before(S, c)) \in Nat
      BY <3>1, ShelvedTypes
    <3> HIDE DEF r, K
    <3> QED BY <3>1, <3>2, <3>3, RankGrows
  <2>9. r \in Injection(K, e..m - 1)
    <3>1. r \in [K -> e..m - 1]
      BY <2>7
    <3> HIDE DEF r, K
    <3> QED BY <2>8, <3>1 DEF Injection, IsInjective
  <2>10. e \in Int /\ e > 0
    BY <1>1, <1>4
  <2>11. PICK b \in K : TRUE
    BY <1>4
  <2>12. e <= m - 1
    <3>1. r[b] \in e..m - 1
      BY <2>7, <2>11
    <3> HIDE DEF r, K, e
    <3> QED BY <2>10, <3>1
  <2>13. IsFiniteSet(e..m - 1) /\ Cardinality(e..m - 1) = m - e
    <3> HIDE DEF e
    <3>1. IsFiniteSet(e..m - 1) /\ Cardinality(e..m - 1) = IF e > m - 1 THEN 0 ELSE (m - 1) - e + 1
      BY <2>10, FS_Interval
    <3> QED BY <2>10, <2>12, <3>1
  <2>14. Cardinality(K) <= Cardinality(e..m - 1)
    <3> HIDE DEF r, K, e
    <3> QED BY <2>9, <2>13, FS_Injection
  <2>15. k <= m - e
    <3> HIDE DEF K, e
    <3> QED BY <2>4, <2>13, <2>14
  <2>16. a + k <= KeepBranches
    BY <1>1, <2>5, <2>15
  <2> QED BY <2>6, <2>16
<1> QED BY <1>1, <1>2, <1>3, <1>4

\* A draft is taken only when nothing discarded stays.
LEMMA PrunedOrder ==
  ASSUME NEW S, Shelved(S), NEW b \in S, b \notin Pruned(S)
  PROVE  b.status # "adopted" /\ (b.status = "draft" => \A x \in Pruned(S) : x.status # "discarded")
<1>1. b.status # "adopted"
  BY PrunedIs
<1>2. ASSUME b.status = "draft", NEW x \in Pruned(S), x.status = "discarded" PROVE FALSE
  <2>1. x \in S /\ GoesBefore(x, b)
    BY <1>2, PrunedKeeps DEF GoesBefore
  <2>2. Cardinality(Before(S, x)) + 1 <= Cardinality(Before(S, b))
    BY <2>1, RankGrows
  <2>3. /\ ~(Cardinality(Before(S, b)) >= Cardinality(S) - KeepBranches)
        /\ Cardinality(Before(S, x)) >= Cardinality(S) - KeepBranches
    BY <1>1, <1>2, PrunedIs
  <2>4. /\ Cardinality(Before(S, x)) \in Nat /\ Cardinality(Before(S, b)) \in Nat
        /\ Cardinality(S) \in Nat /\ KeepBranches \in Nat
    BY <2>1, ShelvedTypes
  <2> QED BY <2>2, <2>3, <2>4
<1> QED BY <1>1, <1>2

\* The drafts of the newest job stay, when there is room for them.
LEMMA PrunedSpares ==
  ASSUME NEW S, Shelved(S), NEW j \in Nat,
         \A b \in S : \/ b.id[1] < j
                      \/ b.id[1] = j /\ b.id[2] \in 1..Directions /\ b.status = "draft",
         Cardinality(AdoptedOf(S)) + Directions <= KeepBranches
  PROVE  \A b \in S : b.id[1] = j => b \in Pruned(S)
<1> SUFFICES ASSUME NEW n \in S, n.id[1] = j PROVE n \in Pruned(S)
  OBVIOUS
<1> DEFINE A == AdoptedOf(S)
           N == {b \in S : b.id[1] = j}
           B == Before(S, n)
<1>1. /\ Cardinality(S) \in Nat /\ KeepBranches \in Nat \ {0} /\ Directions \in Nat \ {0} /\ IsFiniteSet(S)
      /\ \A b \in S : b.id[1] \in Nat /\ b.id[2] \in Nat /\ b.id = <<b.id[1], b.id[2]>>
                      /\ b.status \in {"draft", "discarded", "adopted"}
      /\ IsFiniteSet(B)
  BY ShelvedTypes DEF Shelved
<1>2. n.status = "draft"
  BY <1>1
<1>3. S = A \cup (N \cup B)
  <2>1. ASSUME NEW b \in S, b \notin A, b \notin N PROVE b \in B
    <3>1. b.id[1] < n.id[1] /\ b.status \in {"draft", "discarded"}
      BY <1>1, <2>1 DEF AdoptedOf
    <3>2. GoesBefore(b, n)
      BY <1>2, <3>1 DEF GoesBefore, Older
    <3> QED BY <3>2 DEF Before
  <2>2. A \subseteq S /\ N \subseteq S /\ B \subseteq S
    BY DEF AdoptedOf, Before
  <2> HIDE DEF A, N, B
  <2> QED BY <2>1, <2>2
<1>4. IsFiniteSet(A) /\ IsFiniteSet(N)
  BY <1>1, FS_Subset DEF AdoptedOf
<1>5. Cardinality(N) <= Directions
  <2> DEFINE d == [b \in N |-> b.id[2]]
  <2>1. d \in [N -> 1..Directions]
    BY <1>1
  <2>2. \A b, c \in N : d[b] = d[c] => b = c
    <3> SUFFICES ASSUME NEW b \in N, NEW c \in N, d[b] = d[c] PROVE b = c
      OBVIOUS
    <3>1. b.id[2] = c.id[2] /\ b.id[1] = c.id[1] /\ b \in S /\ c \in S
      OBVIOUS
    <3>2. b.id = c.id
      BY <1>1, <3>1
    <3> QED BY <3>1, <3>2 DEF Shelved, UniqueIds
  <2>3. d \in Injection(N, 1..Directions)
    <3> HIDE DEF d, N
    <3> QED BY <2>1, <2>2 DEF Injection, IsInjective
  <2>4. IsFiniteSet(1..Directions) /\ Cardinality(1..Directions) = Directions
    <3>1. 1 \in Int /\ Directions \in Int /\ Directions - 1 + 1 = Directions /\ ~(1 > Directions)
      BY <1>1
    <3> HIDE DEF d, N, A, B
    <3> QED BY <3>1, FS_Interval
  <2>5. Cardinality(N) <= Cardinality(1..Directions)
    <3> HIDE DEF d, N
    <3> QED BY <2>3, <2>4, FS_Injection
  <2> HIDE DEF d, N, A, B
  <2> QED BY <2>4, <2>5
<1> HIDE DEF A, N, B
<1>6. IsFiniteSet(N \cup B) /\ Cardinality(N \cup B) = Cardinality(N) + Cardinality(B) - Cardinality(N \cap B)
  BY <1>1, <1>4, FS_Union
<1>7. Cardinality(A \cup (N \cup B)) = Cardinality(A) + Cardinality(N \cup B) - Cardinality(A \cap (N \cup B))
  BY <1>4, <1>6, FS_Union
<1>8. IsFiniteSet(N \cap B) /\ IsFiniteSet(A \cap (N \cup B))
  BY <1>1, <1>4, FS_Subset
<1>9. /\ Cardinality(A) \in Nat /\ Cardinality(N) \in Nat /\ Cardinality(B) \in Nat /\ Cardinality(N \cup B) \in Nat
      /\ Cardinality(N \cap B) \in Nat /\ Cardinality(A \cap (N \cup B)) \in Nat
  BY <1>1, <1>4, <1>6, <1>8, FS_CardinalityType
<1>10. Cardinality(S) <= Cardinality(A) + (Cardinality(N) + Cardinality(B))
  BY <1>3, <1>6, <1>7, <1>9
<1>11. Cardinality(A) + Directions <= KeepBranches
  BY DEF A
<1>12. Cardinality(B) >= Cardinality(S) - KeepBranches
  BY <1>1, <1>5, <1>9, <1>10, <1>11
<1> QED BY <1>12, PrunedIs DEF B

-----------------------------------------------------------------------------
(* The job.                                                                *)

LEMMA InitTrial == TrialInit => BranchInv
<1> SUFFICES ASSUME TrialInit PROVE BranchInv
  OBVIOUS
<1>0. Directions \in Nat \ {0} /\ BookChapters \in Nat \ {0} /\ KeepBranches \in Nat \ {0}
  BY TrialAssumption
<1>1. /\ trial = NoTrial /\ worker = NoWorker /\ shelf = [c \in BookNumbers |-> {}]
      /\ prose = [c \in BookNumbers |-> IF c = 1 THEN <<0, 1>> ELSE Unwritten] /\ storedProse = prose
      /\ versions = [c \in BookNumbers |-> {}] /\ adopting = <<>> /\ typed = 1 /\ thrown = {}
  BY DEF TrialInit
<1>2. trial.id = 0 /\ ~TrialWorking
  BY <1>1 DEF NoTrial, TrialWorking
<1>3. TrialTypes
  <2>1. trial \in [id : Nat, chapter : Nat, status : {"none", "running", "failed", "completed", "cancelled"},
                   branches : {<<>>} \cup JobBranches]
    BY <1>1 DEF NoTrial
  <2>2. prose \in [BookNumbers -> Nat \X Nat]
    BY <1>1 DEF Unwritten
  <2> QED BY <1>1, <1>2, <2>1, <2>2 DEF TrialTypes
<1>4. WorkerKnows /\ AdoptionKnown
  BY <1>1, <1>2 DEF WorkerKnows, AdoptionKnown
<1>5. ShelfOrder /\ Collected /\ ThrownStaysThrown
  <2>1. \A c \in BookNumbers : shelf[c] = {}
    BY <1>1
  <2>2. IsFiniteSet({}) /\ Cardinality({}) = 0
    BY FS_EmptySet
  <2> QED BY <1>0, <1>1, <2>1, <2>2 DEF ShelfOrder, UniqueIds, Collected, ThrownStaysThrown
<1>6. AllOrNone
  BY <1>2 DEF AllOrNone
<1> QED BY <1>3, <1>4, <1>5, <1>6 DEF BranchInv

\* A step of the job leaves the editor alone: nothing of the present job is on a shelf yet.
LEMMA JobStep ==
  ASSUME BranchInv, UNCHANGED editorVars, TrialTypes', WorkerKnows',
         \A c \in BookNumbers : \A b \in shelf[c] : b.id[1] < trial'.id,
         \A t \in thrown : t[1] < trial'.id
  PROVE  BranchInv'
<1>1. UNCHANGED <<shelf, prose, storedProse, versions, stale, adopting, unsaved, typed, failedSaves, thrown>>
  BY DEF editorVars
<1>2. trial'.id \in Nat /\ (trial'.id > 0 => trial'.chapter \in BookNumbers)
  BY DEF TrialTypes
<1>3. shelf \in [BookNumbers -> SUBSET ShelfBranch] /\ thrown \in SUBSET (Nat \X Nat)
  BY DEF BranchInv, TrialTypes
<1>4. ShelfOrder'
  BY <1>1 DEF BranchInv, ShelfOrder
<1>5. Collected'
  <2>1. ASSUME NEW c \in BookNumbers, NEW b \in shelf[c]
        PROVE  b.id[1] <= trial'.id /\ b.id[1] # trial'.id
    <3>1. b.id[1] < trial'.id /\ b \in ShelfBranch
      BY <1>3
    <3>2. b.id[1] \in Nat
      BY <3>1 DEF ShelfBranch
    <3> QED BY <1>2, <3>1, <3>2
  <2>2. ASSUME NEW t \in thrown PROVE t[1] <= trial'.id /\ t[1] # trial'.id
    <3>1. t[1] < trial'.id /\ t[1] \in Nat
      BY <1>3
    <3> QED BY <1>2, <3>1
  <2> QED BY <1>1, <2>1, <2>2 DEF Collected
<1>6. AllOrNone'
  <2>1. ASSUME trial'.id > 0, NEW b \in shelf[trial'.chapter] PROVE b.id[1] # trial'.id
    <3>1. trial'.chapter \in BookNumbers
      BY <1>2, <2>1
    <3>2. b.id[1] < trial'.id /\ b \in ShelfBranch
      BY <1>3, <3>1
    <3>3. b.id[1] \in Nat
      BY <3>2 DEF ShelfBranch
    <3> QED BY <1>2, <3>2, <3>3
  <2>2. ASSUME NEW t \in thrown PROVE t[1] # trial'.id
    <3>1. t[1] < trial'.id /\ t[1] \in Nat
      BY <1>3
    <3> QED BY <1>2, <3>1
  <2> QED BY <1>1, <2>1, <2>2 DEF AllOrNone
<1>7. AdoptionKnown' /\ ThrownStaysThrown'
  BY <1>1 DEF BranchInv, AdoptionKnown, ThrownStaysThrown, HasRoom
<1> QED BY <1>4, <1>5, <1>6, <1>7 DEF BranchInv

\* While the task works, nothing of its job is on a shelf.
LEMMA WorkingIsNew ==
  ASSUME BranchInv, TrialWorking
  PROVE  /\ trial.id \in Nat \ {0} /\ trial.chapter \in BookNumbers /\ trial.branches \in JobBranches
         /\ worker \in [at : {"write", "audit", "judge", "impact"}, n : 1..Directions, mem : JobBranches]
         /\ worker.mem = trial.branches
         /\ \A c \in BookNumbers : \A b \in shelf[c] : b.id[1] < trial.id
         /\ \A t \in thrown : t[1] < trial.id
<1>1. /\ trial.id > 0 /\ worker.mem = trial.branches
      /\ worker \in [at : {"write", "audit", "judge", "impact"}, n : 1..Directions, mem : JobBranches]
      /\ trial.id \in Nat
  BY DEF BranchInv, TrialTypes, WorkerKnows, TrialWorking
<1>2. trial.id \in Nat \ {0} /\ trial.chapter \in BookNumbers /\ trial.branches \in JobBranches
  BY <1>1 DEF BranchInv, TrialTypes
<1>3. shelf \in [BookNumbers -> SUBSET ShelfBranch] /\ thrown \in SUBSET (Nat \X Nat)
  BY DEF BranchInv, TrialTypes
<1>4. ASSUME NEW c \in BookNumbers, NEW b \in shelf[c] PROVE b.id[1] < trial.id
  <2>1. b.id[1] <= trial.id /\ b.id[1] # trial.id
    BY DEF BranchInv, Collected
  <2>2. b.id[1] \in Nat
    BY <1>3 DEF ShelfBranch
  <2> QED BY <1>2, <2>1, <2>2
<1>5. ASSUME NEW t \in thrown PROVE t[1] < trial.id
  <2>1. t[1] <= trial.id /\ t[1] # trial.id
    BY DEF BranchInv, Collected
  <2>2. t[1] \in Nat
    BY <1>3
  <2> QED BY <1>2, <2>1, <2>2
<1> QED BY <1>1, <1>2, <1>4, <1>5

\* What a step of the job changes in the record and in the task's memory.
LEMMA RecordStep ==
  ASSUME BranchInv, TrialWorking, UNCHANGED editorVars,
         trial' \in [id : Nat, chapter : Nat, status : {"none", "running", "failed", "completed", "cancelled"},
                     branches : {<<>>} \cup JobBranches],
         trial'.id = trial.id, trial'.chapter = trial.chapter, trial'.branches \in JobBranches,
         worker' = NoWorker \/ (/\ worker' \in [at : {"write", "audit", "judge", "impact"}, n : 1..Directions, mem : JobBranches]
                                /\ WorkerKnows')
  PROVE  BranchInv'
<1>1. UNCHANGED <<shelf, prose, storedProse, versions, stale, adopting, unsaved, typed, failedSaves, thrown>>
  BY DEF editorVars
<1>2. TrialTypes'
  BY <1>1, WorkingIsNew DEF BranchInv, TrialTypes
<1>3. WorkerKnows'
  BY DEF WorkerKnows, TrialWorking
<1> QED BY <1>2, <1>3, JobStep, WorkingIsNew

LEMMA KeepStartTrial == BranchInv /\ StartTrial => BranchInv'
<1> SUFFICES ASSUME BranchInv, StartTrial PROVE BranchInv'
  OBVIOUS
<1>0. Directions \in Nat \ {0} /\ BookChapters \in Nat \ {0}
  BY TrialAssumption
<1>1. PICK c \in BookNumbers :
        trial' = [id |-> trial.id + 1, chapter |-> c, status |-> "running",
                  branches |-> [d \in 1..Directions |-> Fresh]]
  BY DEF StartTrial
<1>2. worker' = [at |-> "write", n |-> 1, mem |-> trial'.branches] /\ UNCHANGED editorVars
  BY DEF StartTrial
<1>3. trial.id \in Nat /\ trial'.id = trial.id + 1 /\ trial'.branches = [d \in 1..Directions |-> Fresh]
      /\ trial'.chapter = c
  BY <1>1 DEF BranchInv, TrialTypes
<1>4. Fresh \in JobBranch /\ Fresh.status = "pending"
  BY DEF Fresh, JobBranch
<1>5. trial'.branches \in JobBranches
  BY <1>3, <1>4 DEF JobBranches
<1>6. c \in Nat
  BY <1>0 DEF BookNumbers
<1>7. trial' \in [id : Nat, chapter : Nat, status : {"none", "running", "failed", "completed", "cancelled"},
                  branches : {<<>>} \cup JobBranches]
  <2> DEFINE bs == [d \in 1..Directions |-> Fresh]
  <2>1. bs \in JobBranches
    BY <1>3, <1>5
  <2>2. trial' = [id |-> trial.id + 1, chapter |-> c, status |-> "running", branches |-> bs]
    BY <1>1
  <2>3. trial.id + 1 \in Nat
    BY <1>3
  <2> HIDE DEF bs
  <2> QED BY <1>6, <2>1, <2>2, <2>3
<1>8. worker' \in [at : {"write", "audit", "judge", "impact"}, n : 1..Directions, mem : JobBranches]
  <2> DEFINE bs == trial'.branches
  <2>1. bs \in JobBranches
    BY <1>5
  <2> HIDE DEF bs
  <2>2. worker' = [at |-> "write", n |-> 1, mem |-> bs]
    BY <1>2 DEF bs
  <2> QED BY <1>0, <2>1, <2>2
<1>9. UNCHANGED <<shelf, prose, storedProse, versions, stale, adopting, unsaved, typed, failedSaves, thrown>>
  BY <1>2 DEF editorVars
<1>10. TrialTypes'
  BY <1>3, <1>5, <1>7, <1>8, <1>9 DEF BranchInv, TrialTypes
<1>11. WorkerKnows'
  <2>1. worker'.mem = trial'.branches /\ worker'.at = "write" /\ worker'.n = 1
    BY <1>2
  <2>2. \A d \in 1..Directions : worker'.mem[d].status = "pending"
    BY <1>3, <1>4, <2>1
  <2>3. trial'.id > 0
    BY <1>3
  <2> QED BY <2>1, <2>2, <2>3 DEF WorkerKnows
<1>12. ASSUME NEW d \in BookNumbers, NEW b \in shelf[d] PROVE b.id[1] < trial'.id
  <2>1. b.id[1] <= trial.id /\ b \in ShelfBranch
    BY DEF BranchInv, Collected, TrialTypes
  <2>2. b.id[1] \in Nat
    BY <2>1 DEF ShelfBranch
  <2> QED BY <1>3, <2>1, <2>2
<1>13. ASSUME NEW t \in thrown PROVE t[1] < trial'.id
  <2>1. t[1] <= trial.id /\ t[1] \in Nat
    BY DEF BranchInv, Collected, TrialTypes
  <2> QED BY <1>3, <2>1
<1> QED BY <1>2, <1>10, <1>11, <1>12, <1>13, JobStep

LEMMA KeepWriteBranch ==
  ASSUME BranchInv, WriteBranch
  PROVE  /\ BranchInv'
         /\ \A d \in DOMAIN trial.branches : trial.branches[d].status = "draft" => trial'.branches[d].status = "draft"
<1>0. TrialWorking /\ worker.at = "write" /\ UNCHANGED editorVars
  BY DEF WriteBranch
<1>1. PICK outcome \in {"draft", "failed"} :
        LET mem == [worker.mem EXCEPT ![worker.n].status = outcome]
            last == worker.n = Directions IN
        /\ trial' = [trial EXCEPT !.branches = mem,
                       !.status = IF last /\ Ready(mem) = {} THEN "failed" ELSE @]
        /\ worker' = (IF ~last THEN [worker EXCEPT !.n = @ + 1, !.mem = mem]
                      ELSE IF Ready(mem) = {} THEN NoWorker
                      ELSE [at |-> "audit", n |-> 1, mem |-> mem])
  BY DEF WriteBranch
<1> DEFINE mem == [worker.mem EXCEPT ![worker.n].status = outcome]
           last == worker.n = Directions
<1>2. /\ worker \in [at : {"write", "audit", "judge", "impact"}, n : 1..Directions, mem : JobBranches]
      /\ worker.mem = trial.branches /\ trial.id \in Nat \ {0} /\ trial.branches \in JobBranches
  BY <1>0, WorkingIsNew
<1>3. worker.n \in 1..Directions /\ worker.mem \in JobBranches /\ Directions \in Nat \ {0}
  BY <1>2, TrialAssumption
<1>4. \A d \in worker.n..Directions : worker.mem[d].status = "pending"
  BY <1>0 DEF BranchInv, WorkerKnows
<1>5. /\ mem \in JobBranches
      /\ \A d \in 1..Directions : d # worker.n => mem[d] = worker.mem[d]
  <2>1. worker.mem[worker.n] \in JobBranch
    BY <1>3 DEF JobBranches
  <2>2. [worker.mem[worker.n] EXCEPT !.status = outcome] \in JobBranch
    BY <2>1 DEF JobBranch
  <2>3. mem = [worker.mem EXCEPT ![worker.n] = [worker.mem[worker.n] EXCEPT !.status = outcome]]
    OBVIOUS
  <2> QED BY <1>3, <2>2, <2>3 DEF JobBranches
<1> DEFINE st == IF last /\ Ready(mem) = {} THEN "failed" ELSE trial.status
<1>6. trial' = [trial EXCEPT !.branches = mem, !.status = st]
  BY <1>1
<1>7. trial \in [id : Nat, chapter : Nat, status : {"none", "running", "failed", "completed", "cancelled"},
                 branches : {<<>>} \cup JobBranches]
  BY DEF BranchInv, TrialTypes
<1>8. st \in {"none", "running", "failed", "completed", "cancelled"}
  BY <1>7
<1>9. /\ trial' \in [id : Nat, chapter : Nat, status : {"none", "running", "failed", "completed", "cancelled"},
                     branches : {<<>>} \cup JobBranches]
      /\ trial'.id = trial.id /\ trial'.chapter = trial.chapter /\ trial'.branches = mem
  <2> HIDE DEF mem, st
  <2> QED BY <1>5, <1>6, <1>7, <1>8
<1>10. worker' = NoWorker \/ (/\ worker' \in [at : {"write", "audit", "judge", "impact"}, n : 1..Directions, mem : JobBranches]
                              /\ WorkerKnows')
  <2>1. CASE ~last
    <3>1. worker' = [worker EXCEPT !.n = worker.n + 1, !.mem = mem]
      BY <1>1, <2>1
    <3>2. worker.n + 1 \in 1..Directions
      BY <1>3, <2>1
    <3>3. /\ worker' \in [at : {"write", "audit", "judge", "impact"}, n : 1..Directions, mem : JobBranches]
          /\ worker'.n = worker.n + 1 /\ worker'.mem = mem
      <4> HIDE DEF mem
      <4> QED BY <1>2, <1>5, <3>1, <3>2
    <3>4. \A d \in worker'.n..Directions : worker'.mem[d].status = "pending"
      <4> SUFFICES ASSUME NEW d \in worker.n + 1..Directions PROVE mem[d].status = "pending"
        BY <3>3
      <4>1. d \in worker.n..Directions /\ d \in 1..Directions /\ d # worker.n
        BY <1>3
      <4> HIDE DEF mem
      <4> QED BY <1>4, <1>5, <4>1
    <3>5. WorkerKnows'
      BY <1>2, <1>9, <3>3, <3>4 DEF WorkerKnows
    <3> QED BY <3>3, <3>5
  <2>2. CASE last /\ Ready(mem) # {}
    <3>1. worker' = [at |-> "audit", n |-> 1, mem |-> mem]
      BY <1>1, <2>2
    <3>2. worker' \in [at : {"write", "audit", "judge", "impact"}, n : 1..Directions, mem : JobBranches]
      <4> HIDE DEF mem
      <4> QED BY <1>3, <1>5, <3>1
    <3>3. worker'.at = "audit" /\ worker'.mem = mem
      <4> HIDE DEF mem
      <4> QED BY <3>1
    <3>4. WorkerKnows'
      BY <1>2, <1>9, <3>3 DEF WorkerKnows
    <3> QED BY <3>2, <3>4
  <2>3. CASE last /\ Ready(mem) = {}
    BY <1>1, <2>3
  <2> QED BY <2>1, <2>2, <2>3
<1>11. BranchInv'
  BY <1>0, <1>5, <1>9, <1>10, RecordStep
<1>12. ASSUME NEW d \in DOMAIN trial.branches, trial.branches[d].status = "draft" PROVE trial'.branches[d].status = "draft"
  <2>1. d \in 1..Directions
    BY <1>2 DEF JobBranches
  <2>2. d # worker.n
    <3>1. worker.n \in worker.n..Directions
      BY <1>3
    <3> QED BY <1>2, <1>4, <1>12, <3>1
  <2> HIDE DEF mem
  <2> QED BY <1>2, <1>5, <1>9, <1>12, <2>1, <2>2
<1> QED BY <1>11, <1>12

\* Between writing and the end the record stays.
LEMMA KeepJudging ==
  ASSUME BranchInv, AuditBranch \/ JudgeBranches
  PROVE  BranchInv'
<1>1. TrialWorking /\ UNCHANGED <<trial, editorVars>> /\ worker.at \in {"audit", "judge"}
  BY DEF AuditBranch, JudgeBranches
<1>2. /\ worker \in [at : {"write", "audit", "judge", "impact"}, n : 1..Directions, mem : JobBranches]
      /\ worker.mem = trial.branches /\ trial.id \in Nat \ {0} /\ trial.branches \in JobBranches
      /\ Directions \in Nat \ {0}
  BY <1>1, WorkingIsNew, TrialAssumption
<1>3. /\ worker' \in [at : {"write", "audit", "judge", "impact"}, n : 1..Directions, mem : JobBranches]
      /\ worker'.mem = worker.mem /\ worker'.at # "write"
  <2>1. CASE AuditBranch /\ worker.n = Directions
    <3>1. worker' = [worker EXCEPT !.at = "judge", !.n = 1]
      BY <2>1 DEF AuditBranch
    <3>2. 1 \in 1..Directions
      BY <1>2
    <3>3. worker' \in [at : {"write", "audit", "judge", "impact"}, n : 1..Directions, mem : JobBranches]
      BY <1>2, <3>1, <3>2
    <3>4. worker'.mem = worker.mem /\ worker'.at = "judge"
      BY <1>2, <3>1
    <3> QED BY <3>3, <3>4
  <2>2. CASE AuditBranch /\ worker.n # Directions
    <3>1. worker' = [worker EXCEPT !.n = worker.n + 1] /\ worker.at = "audit"
      BY <2>2 DEF AuditBranch
    <3>2. worker.n + 1 \in 1..Directions
      BY <1>2, <2>2
    <3> QED BY <1>2, <3>1, <3>2
  <2>3. CASE JudgeBranches
    <3>1. worker' = [worker EXCEPT !.at = "impact"]
      BY <2>3 DEF JudgeBranches
    <3> QED BY <1>2, <3>1
  <2> QED BY <2>1, <2>2, <2>3
<1>4. trial' = trial /\ UNCHANGED editorVars
  BY <1>1
<1>5. WorkerKnows'
  BY <1>2, <1>3, <1>4 DEF WorkerKnows
<1>6. trial \in [id : Nat, chapter : Nat, status : {"none", "running", "failed", "completed", "cancelled"},
                 branches : {<<>>} \cup JobBranches]
  BY DEF BranchInv, TrialTypes
<1> QED BY <1>1, <1>2, <1>3, <1>4, <1>5, <1>6, RecordStep

\* The ends of a job keep every draft.
LEMMA KeepEnding ==
  ASSUME BranchInv, FinishTrial \/ CancelTrial \/ BreakTrial \/ LoseWorker
  PROVE  /\ BranchInv'
         /\ \A d \in DOMAIN trial.branches : trial.branches[d].status = "draft" => trial'.branches[d].status = "draft"
<1>1. TrialWorking /\ UNCHANGED editorVars /\ worker' = NoWorker
  BY DEF FinishTrial, CancelTrial, BreakTrial, LoseWorker
<1>2. /\ worker.mem = trial.branches /\ trial.id \in Nat \ {0} /\ trial.branches \in JobBranches
      /\ DOMAIN trial.branches = 1..Directions
  BY <1>1, WorkingIsNew DEF JobBranches
<1>3. trial \in [id : Nat, chapter : Nat, status : {"none", "running", "failed", "completed", "cancelled"},
                 branches : {<<>>} \cup JobBranches]
  BY DEF BranchInv, TrialTypes
<1>4. \A d \in 1..Directions : trial.branches[d] \in JobBranch
  BY <1>2 DEF JobBranches
<1>5. CASE FinishTrial
  <2>1. PICK affected \in [Ready(worker.mem) -> SUBSET {c \in BookNumbers : c > trial.chapter}] :
          trial' = [trial EXCEPT !.status = "completed",
                      !.branches = [d \in DOMAIN @ |->
                         IF d \in Ready(worker.mem)
                         THEN [worker.mem[d] EXCEPT !.affected = affected[d]] ELSE @[d]]]
    BY <1>5 DEF FinishTrial
  <2> DEFINE bs == [d \in DOMAIN trial.branches |->
                      IF d \in Ready(worker.mem)
                      THEN [worker.mem[d] EXCEPT !.affected = affected[d]] ELSE trial.branches[d]]
  <2>2. trial' = [trial EXCEPT !.status = "completed", !.branches = bs]
    BY <2>1
  <2>3. ASSUME NEW d \in 1..Directions PROVE bs[d] \in JobBranch /\ bs[d].status = trial.branches[d].status
    <3>1. CASE d \in Ready(worker.mem)
      <4>1. bs[d] = [trial.branches[d] EXCEPT !.affected = affected[d]]
        BY <1>2, <3>1
      <4>2. affected[d] \in SUBSET BookNumbers
        BY <2>1, <3>1
      <4> HIDE DEF bs
      <4> QED BY <1>4, <4>1, <4>2 DEF JobBranch
    <3>2. CASE d \notin Ready(worker.mem)
      BY <1>2, <1>4, <3>2
    <3> QED BY <3>1, <3>2
  <2>4. bs \in JobBranches
    <3>1. DOMAIN bs = 1..Directions /\ bs = [d \in 1..Directions |-> bs[d]]
      BY <1>2
    <3> HIDE DEF bs
    <3> QED BY <2>3, <3>1 DEF JobBranches
  <2> HIDE DEF bs
  <2>5. /\ trial' \in [id : Nat, chapter : Nat, status : {"none", "running", "failed", "completed", "cancelled"},
                       branches : {<<>>} \cup JobBranches]
        /\ trial'.id = trial.id /\ trial'.chapter = trial.chapter /\ trial'.branches = bs
    BY <1>3, <2>2, <2>4
  <2>6. BranchInv'
    BY <1>1, <2>4, <2>5, RecordStep
  <2> QED BY <1>2, <2>3, <2>5, <2>6
<1>6. CASE CancelTrial
  <2> DEFINE bs == [d \in DOMAIN trial.branches |->
                      IF trial.branches[d].status = "pending"
                      THEN [trial.branches[d] EXCEPT !.status = "cancelled"] ELSE trial.branches[d]]
  <2>2. trial' = [trial EXCEPT !.status = "cancelled", !.branches = bs]
    BY <1>6 DEF CancelTrial
  <2>3. ASSUME NEW d \in 1..Directions
        PROVE  bs[d] \in JobBranch /\ (trial.branches[d].status = "draft" => bs[d].status = "draft")
    <3>1. CASE trial.branches[d].status = "pending"
      <4>1. bs[d] = [trial.branches[d] EXCEPT !.status = "cancelled"]
        BY <1>2, <3>1
      <4> HIDE DEF bs
      <4> QED BY <1>4, <3>1, <4>1 DEF JobBranch
    <3>2. CASE trial.branches[d].status # "pending"
      BY <1>2, <1>4, <3>2
    <3> QED BY <3>1, <3>2
  <2>4. bs \in JobBranches
    <3>1. DOMAIN bs = 1..Directions /\ bs = [d \in 1..Directions |-> bs[d]]
      BY <1>2
    <3> HIDE DEF bs
    <3> QED BY <2>3, <3>1 DEF JobBranches
  <2> HIDE DEF bs
  <2>5. /\ trial' \in [id : Nat, chapter : Nat, status : {"none", "running", "failed", "completed", "cancelled"},
                       branches : {<<>>} \cup JobBranches]
        /\ trial'.id = trial.id /\ trial'.chapter = trial.chapter /\ trial'.branches = bs
    BY <1>3, <2>2, <2>4
  <2>6. BranchInv'
    BY <1>1, <2>4, <2>5, RecordStep
  <2> QED BY <1>2, <2>3, <2>5, <2>6
<1>7. CASE BreakTrial
  <2>1. trial' = [trial EXCEPT !.status = "failed"]
    BY <1>7 DEF BreakTrial
  <2>2. /\ trial' \in [id : Nat, chapter : Nat, status : {"none", "running", "failed", "completed", "cancelled"},
                       branches : {<<>>} \cup JobBranches]
        /\ trial'.id = trial.id /\ trial'.chapter = trial.chapter /\ trial'.branches = trial.branches
    BY <1>3, <2>1
  <2>3. BranchInv'
    BY <1>1, <1>2, <2>2, RecordStep
  <2> QED BY <2>2, <2>3
<1>8. CASE LoseWorker
  <2>1. trial' = trial
    BY <1>8 DEF LoseWorker
  <2>2. BranchInv'
    BY <1>1, <1>2, <1>3, <2>1, RecordStep
  <2> QED BY <2>1, <2>2
<1> QED BY <1>5, <1>6, <1>7, <1>8

-----------------------------------------------------------------------------
(* The shelf.                                                              *)

\* A refreshed branch, and the branches a merge adds.
Fresher(b) == IF b.status = "draft" /\ b.id[1] = trial.id
              THEN [b EXCEPT !.affected = trial.branches[b.id[2]].affected] ELSE b
Added(S) == {[id |-> <<trial.id, d>>, status |-> "draft", affected |-> trial.branches[d].affected] :
               d \in {d \in Ready(trial.branches) : <<trial.id, d>> \notin {b.id : b \in S}}}
Offered(S) == {Fresher(b) : b \in S} \cup Added(S)

LEMMA MergedIs ==
  ASSUME NEW S
  PROVE  ShelfMerged(S) = Pruned(Offered(S))
BY DEF ShelfMerged, Offered, Added, Fresher

\* What the merge offers to the shelf: the branches on it and the drafts it does not have.
LEMMA OfferedIs ==
  ASSUME BranchInv, trial.id > 0, ~TrialWorking
  PROVE  LET S == shelf[trial.chapter]
             M == Offered(S) IN
         /\ Shelved(S) /\ Shelved(M) /\ AdoptedOf(M) = AdoptedOf(S)
         /\ \A b \in S : Fresher(b) \in M /\ Fresher(b).id = b.id /\ Fresher(b).status = b.status
         /\ \A x \in M : \/ \E b \in S : b.id = x.id /\ b.status = x.status
                         \/ x.status = "draft" /\ x.id[1] = trial.id /\ x.id[2] \in 1..Directions /\ \A b \in S : b.id # x.id
         /\ \A d \in Ready(trial.branches) : \E x \in M : x.id = <<trial.id, d>>
         /\ (\A d \in Ready(trial.branches) : OnShelf(trial.chapter, <<trial.id, d>>))
              => (Cardinality(M) <= KeepBranches \/ AdoptedOf(M) = M)
<1> DEFINE S == shelf[trial.chapter]
           M == Offered(S)
           F == {Fresher(b) : b \in S}
           N == Added(S)
<1>1. /\ trial.id \in Nat \ {0} /\ trial.chapter \in BookNumbers /\ trial.branches \in JobBranches
      /\ S \in SUBSET ShelfBranch
  BY DEF BranchInv, TrialTypes
<1>2. IsFiniteSet(S) /\ UniqueIds(S) /\ (Cardinality(S) <= KeepBranches \/ AdoptedOf(S) = S)
  BY <1>1 DEF BranchInv, ShelfOrder
<1>3. Shelved(S)
  BY <1>1, <1>2 DEF Shelved
<1>4. \A d \in 1..Directions : trial.branches[d] \in JobBranch /\ trial.branches[d].affected \in SUBSET BookNumbers
  BY <1>1 DEF JobBranches, JobBranch
<1>5. Ready(trial.branches) \subseteq 1..Directions
  BY <1>1 DEF JobBranches, Ready
<1>6. ASSUME NEW b \in S PROVE Fresher(b) \in ShelfBranch /\ Fresher(b).id = b.id /\ Fresher(b).status = b.status
  <2>1. b \in ShelfBranch
    BY <1>1
  <2>2. CASE b.status = "draft" /\ b.id[1] = trial.id
    <3>1. b.id[2] \in 1..Directions
      BY <1>1, <2>2 DEF BranchInv, Collected
    <3> DEFINE af == trial.branches[b.id[2]].affected
    <3>2. af \in SUBSET BookNumbers
      BY <1>4, <3>1
    <3>3. Fresher(b) = [b EXCEPT !.affected = af]
      BY <2>2 DEF Fresher
    <3> HIDE DEF af
    <3> QED BY <2>1, <3>2, <3>3 DEF ShelfBranch
  <2>3. CASE ~(b.status = "draft" /\ b.id[1] = trial.id)
    BY <2>1, <2>3 DEF Fresher
  <2> QED BY <2>2, <2>3
<1>7. ASSUME NEW x \in N
      PROVE  /\ x \in ShelfBranch /\ x.status = "draft" /\ x.id[1] = trial.id /\ x.id[2] \in 1..Directions
             /\ x.id = <<trial.id, x.id[2]>> /\ x = [id |-> x.id, status |-> "draft", affected |-> trial.branches[x.id[2]].affected]
             /\ \A b \in S : b.id # x.id
  <2>1. PICK d \in Ready(trial.branches) :
          /\ <<trial.id, d>> \notin {b.id : b \in S}
          /\ x = [id |-> <<trial.id, d>>, status |-> "draft", affected |-> trial.branches[d].affected]
    BY DEF Added
  <2>2. d \in 1..Directions /\ d \in Nat /\ trial.branches[d].affected \in SUBSET BookNumbers
    BY <1>4, <1>5
  <2>3. x.id = <<trial.id, d>> /\ x.status = "draft" /\ x.id[1] = trial.id /\ x.id[2] = d
    BY <2>1
  <2>4. x \in ShelfBranch
    <3> DEFINE af == trial.branches[d].affected
               i == <<trial.id, d>>
    <3>1. i \in Nat \X Nat /\ af \in SUBSET BookNumbers
      BY <1>1, <2>2
    <3>2. x = [id |-> i, status |-> "draft", affected |-> af]
      BY <2>1
    <3> HIDE DEF af, i
    <3> QED BY <3>1, <3>2 DEF ShelfBranch
  <2> QED BY <2>1, <2>2, <2>3, <2>4
<1>8. ASSUME NEW d \in Ready(trial.branches) PROVE \E x \in M : x.id = <<trial.id, d>>
  <2>1. CASE <<trial.id, d>> \in {b.id : b \in S}
    <3>1. PICK b \in S : b.id = <<trial.id, d>>
      BY <2>1
    <3>2. Fresher(b) \in M /\ Fresher(b).id = <<trial.id, d>>
      BY <1>6, <3>1 DEF Offered
    <3> QED BY <3>2
  <2>2. CASE <<trial.id, d>> \notin {b.id : b \in S}
    <3> DEFINE x == [id |-> <<trial.id, d>>, status |-> "draft", affected |-> trial.branches[d].affected]
    <3>1. x \in N /\ x.id = <<trial.id, d>>
      BY <2>2 DEF Added
    <3>2. x \in M
      BY <3>1 DEF Offered
    <3> QED BY <3>1, <3>2
  <2> QED BY <2>1, <2>2
<1>9. M = F \cup N
  BY DEF Offered
<1>10. \A x \in F : \E b \in S : x = Fresher(b) /\ x.id = b.id /\ x.status = b.status /\ x \in ShelfBranch
  BY <1>6
<1>11. IsFiniteSet(F) /\ Cardinality(F) <= Cardinality(S)
  <2> DEFINE f == [b \in S |-> Fresher(b)]
  <2>1. f = [b \in S |-> f[b]] /\ F = {f[b] : b \in S}
    OBVIOUS
  <2> HIDE DEF f, F, S
  <2> QED BY <1>2, <2>1, ImageFinite
<1>12. IsFiniteSet(N)
  <2> DEFINE g == [d \in 1..Directions |-> [id |-> <<trial.id, d>>, status |-> "draft", affected |-> trial.branches[d].affected]]
  <2>1. g = [d \in 1..Directions |-> g[d]]
    OBVIOUS
  <2>2. N \subseteq {g[d] : d \in 1..Directions}
    <3> SUFFICES ASSUME NEW x \in N PROVE x \in {g[d] : d \in 1..Directions}
      OBVIOUS
    <3>1. PICK d \in Ready(trial.branches) :
            x = [id |-> <<trial.id, d>>, status |-> "draft", affected |-> trial.branches[d].affected]
      BY DEF Added
    <3>2. d \in 1..Directions
      BY <1>5
    <3>3. x = g[d]
      BY <3>1, <3>2
    <3> HIDE DEF g
    <3> QED BY <3>2, <3>3
  <2>3. IsFiniteSet(1..Directions)
    BY TrialAssumption, FS_Interval
  <2> HIDE DEF g, N
  <2>4. IsFiniteSet({g[d] : d \in 1..Directions})
    BY <2>1, <2>3, ImageFinite
  <2> QED BY <2>2, <2>4, FS_Subset
<1>13. IsFiniteSet(M)
  <2> HIDE DEF F, N, M
  <2> QED BY <1>9, <1>11, <1>12, FS_Union
<1>14. M \in SUBSET ShelfBranch
  <2> SUFFICES ASSUME NEW x \in M PROVE x \in ShelfBranch
    OBVIOUS
  <2> HIDE DEF F, N, M, S
  <2> QED BY <1>7, <1>9, <1>10
<1>15. UniqueIds(M)
  <2> SUFFICES ASSUME NEW x \in M, NEW y \in M, x.id = y.id PROVE x = y
    BY DEF UniqueIds
  <2>1. CASE x \in F /\ y \in F
    <3>1. PICK a \in S : x = Fresher(a) /\ x.id = a.id
      BY <1>10, <2>1
    <3>2. PICK b \in S : y = Fresher(b) /\ y.id = b.id
      BY <1>10, <2>1
    <3>3. a = b
      BY <1>2, <3>1, <3>2 DEF UniqueIds
    <3> QED BY <3>1, <3>2, <3>3
  <2>2. CASE x \in N /\ y \in N
    <3> HIDE DEF N
    <3> QED BY <1>7, <2>2
  <2>3. CASE x \in F /\ y \in N
    <3> HIDE DEF N
    <3> QED BY <1>7, <1>10, <2>3
  <2>4. CASE x \in N /\ y \in F
    <3> HIDE DEF N
    <3> QED BY <1>7, <1>10, <2>4
  <2> QED BY <1>9, <2>1, <2>2, <2>3, <2>4
<1>16. Shelved(M)
  BY <1>13, <1>14, <1>15 DEF Shelved
<1>17. AdoptedOf(M) = AdoptedOf(S)
  <2>1. ASSUME NEW x \in M, x.status = "adopted" PROVE x \in S
    <3>1. x \in F
      <4> HIDE DEF N, F, M
      <4> QED BY <1>7, <1>9, <2>1
    <3>2. PICK b \in S : x = Fresher(b) /\ x.status = b.status
      BY <1>10, <3>1
    <3> QED BY <2>1, <3>2 DEF Fresher
  <2>2. ASSUME NEW x \in S, x.status = "adopted" PROVE x \in M
    <3>1. Fresher(x) = x
      BY <2>2 DEF Fresher
    <3>2. x \in F
      BY <3>1
    <3> HIDE DEF N, F, M
    <3> QED BY <1>9, <3>2
  <2> HIDE DEF M, S
  <2> QED BY <2>1, <2>2 DEF AdoptedOf
<1>18. \A x \in M : \/ \E b \in S : b.id = x.id /\ b.status = x.status
                    \/ x.status = "draft" /\ x.id[1] = trial.id /\ x.id[2] \in 1..Directions /\ \A b \in S : b.id # x.id
  <2> HIDE DEF N, F, M, S
  <2> QED BY <1>7, <1>9, <1>10
<1>19. ASSUME \A d \in Ready(trial.branches) : OnShelf(trial.chapter, <<trial.id, d>>)
       PROVE  Cardinality(M) <= KeepBranches \/ AdoptedOf(M) = M
  <2>1. N = {}
    <3> SUFFICES ASSUME NEW x \in N PROVE FALSE
      OBVIOUS
    <3>1. PICK d \in Ready(trial.branches) : <<trial.id, d>> \notin {b.id : b \in S}
      BY DEF Added
    <3>2. OnShelf(trial.chapter, <<trial.id, d>>)
      BY <1>19
    <3> QED BY <3>1, <3>2 DEF OnShelf
  <2>2. M = F
    BY <1>9, <2>1
  <2>3. CASE Cardinality(S) <= KeepBranches
    <3>1. Cardinality(F) \in Nat /\ Cardinality(S) \in Nat /\ KeepBranches \in Nat
      BY <1>2, <1>11, FS_CardinalityType, TrialAssumption
    <3> HIDE DEF F, S, M
    <3> QED BY <1>11, <2>2, <2>3, <3>1
  <2>4. CASE AdoptedOf(S) = S
    <3>1. ASSUME NEW x \in M PROVE x.status = "adopted"
      <4>1. PICK b \in S : x.status = b.status
        BY <1>10, <2>2
      <4> QED BY <2>4, <4>1 DEF AdoptedOf
    <3> QED BY <3>1 DEF AdoptedOf
  <2> QED BY <1>2, <2>3, <2>4
<1>20. \A b \in S : Fresher(b) \in M
  BY DEF Offered
<1> QED BY <1>3, <1>6, <1>8, <1>16, <1>17, <1>18, <1>19, <1>20

\* The parts of the invariant about chapters and thrown branches, when one shelf changes its branches but
\* adds none that is known elsewhere.
LEMMA KeepCollect ==
  ASSUME BranchInv, Collect
  PROVE  BranchInv'
<1>0. PICK c \in BookNumbers : c = trial.chapter
  BY DEF Collect, BranchInv, TrialTypes
<1> DEFINE S == shelf[c]
           M == Offered(S)
<1>1. /\ ~TrialWorking /\ trial.id > 0 /\ adopting = <<>>
      /\ shelf' = [shelf EXCEPT ![c] = ShelfMerged(S)]
      /\ UNCHANGED <<trial, worker, prose, storedProse, versions, stale, adopting, unsaved, typed, failedSaves, thrown>>
  BY <1>0 DEF Collect
<1>2. /\ Shelved(S) /\ Shelved(M) /\ AdoptedOf(M) = AdoptedOf(S)
      /\ \A b \in S : Fresher(b) \in M /\ Fresher(b).id = b.id /\ Fresher(b).status = b.status
      /\ \A x \in M : \/ \E b \in S : b.id = x.id /\ b.status = x.status
                      \/ x.status = "draft" /\ x.id[1] = trial.id /\ x.id[2] \in 1..Directions /\ \A b \in S : b.id # x.id
      /\ \A d \in Ready(trial.branches) : \E x \in M : x.id = <<trial.id, d>>
      /\ (\A d \in Ready(trial.branches) : OnShelf(c, <<trial.id, d>>))
           => (Cardinality(M) <= KeepBranches \/ AdoptedOf(M) = M)
  BY <1>0, <1>1, OfferedIs
<1> DEFINE P == Pruned(M)
<1>3. /\ P \subseteq M /\ AdoptedOf(M) \subseteq P /\ Shelved(P)
      /\ Cardinality(M) <= KeepBranches \/ AdoptedOf(M) = M => P = M
      /\ Cardinality(P) <= KeepBranches \/ AdoptedOf(P) = P
  <2> HIDE DEF M
  <2> QED BY <1>2, PrunedKeeps, PrunedSmall
<1>4. /\ trial.id \in Nat /\ shelf \in [BookNumbers -> SUBSET ShelfBranch]
      /\ thrown \in SUBSET (Nat \X Nat)
  BY <1>1 DEF BranchInv, TrialTypes
<1>5. /\ shelf'[c] = P /\ \A d \in BookNumbers : d # c => shelf'[d] = shelf[d]
      /\ shelf' \in [BookNumbers -> SUBSET ShelfBranch]
  <2>1. shelf' = [shelf EXCEPT ![c] = P]
    BY <1>1, MergedIs
  <2>2. P \in SUBSET ShelfBranch
    BY <1>3 DEF Shelved
  <2> HIDE DEF P
  <2> QED BY <1>4, <2>1, <2>2
<1>6. AdoptedOf(P) = AdoptedOf(S)
  <2> HIDE DEF M, P, S
  <2> QED BY <1>2, <1>3 DEF AdoptedOf
<1> HIDE DEF P, M, S
<1>7. \A d \in BookNumbers : HasRoom(d)' <=> HasRoom(d)
  <2>1. HasRoom(c)' <=> HasRoom(c)
    <3>1. HasRoom(c)' <=> Cardinality(AdoptedOf(P)) + Directions <= KeepBranches
      BY <1>1, <1>5 DEF HasRoom, AdoptedOf
    <3>2. HasRoom(c) <=> Cardinality(AdoptedOf(S)) + Directions <= KeepBranches
      BY DEF HasRoom, AdoptedOf, S
    <3> QED BY <1>6, <3>1, <3>2 DEF HasRoom
  <2>2. ASSUME NEW d \in BookNumbers, d # c PROVE HasRoom(d)' <=> HasRoom(d)
    <3>1. shelf'[d] = shelf[d]
      BY <1>5, <2>2
    <3> QED BY <3>1 DEF HasRoom
  <2> QED BY <2>1, <2>2
<1>8. TrialTypes'
  BY <1>1, <1>5 DEF BranchInv, TrialTypes
<1>9. WorkerKnows' /\ AdoptionKnown'
  BY <1>1 DEF BranchInv, WorkerKnows, TrialWorking, AdoptionKnown
<1>10. \A d \in BookNumbers : \A b \in shelf[d] : b.id[1] = trial.id => d = c
  BY <1>0 DEF BranchInv, Collected
<1>11. ASSUME NEW d \in BookNumbers, NEW b \in shelf'[d]
       PROVE  \/ \E a \in shelf[d] : a.id = b.id /\ a.status = b.status
              \/ d = c /\ b.status = "draft" /\ b.id[1] = trial.id /\ b.id[2] \in 1..Directions /\ \A a \in S : a.id # b.id
  <2>1. CASE d = c
    <3>1. b \in M
      BY <1>3, <1>5, <2>1
    <3> QED BY <1>2, <2>1, <3>1 DEF S
  <2>2. CASE d # c
    BY <1>5, <2>2
  <2> QED BY <2>1, <2>2
<1>12. ShelfOrder'
  <2>1. ASSUME NEW d \in BookNumbers
        PROVE  /\ IsFiniteSet(shelf'[d]) /\ UniqueIds(shelf'[d])
               /\ Cardinality(shelf'[d]) <= KeepBranches \/ AdoptedOf(shelf'[d]) = shelf'[d]
    <3>1. CASE d = c
      BY <1>3, <1>5, <3>1 DEF Shelved
    <3>2. CASE d # c
      BY <1>5, <3>2 DEF BranchInv, ShelfOrder
    <3> QED BY <3>1, <3>2
  <2>2. ASSUME NEW d1 \in BookNumbers, NEW d2 \in BookNumbers, NEW a \in shelf'[d1], NEW b \in shelf'[d2], a.id = b.id
        PROVE  d1 = d2
    <3>1. \/ \E x \in shelf[d1] : x.id = a.id
          \/ d1 = c /\ a.id[1] = trial.id
      BY <1>11
    <3>2. \/ \E x \in shelf[d2] : x.id = b.id
          \/ d2 = c /\ b.id[1] = trial.id
      BY <1>11
    <3>3. \A x \in shelf[d1], y \in shelf[d2] : x.id = y.id => d1 = d2
      BY DEF BranchInv, ShelfOrder
    <3> QED BY <1>10, <2>2, <3>1, <3>2, <3>3
  <2>3. \A d \in BookNumbers : UniqueIds(shelf[d])' = UniqueIds(shelf'[d])
    BY DEF UniqueIds
  <2> QED BY <2>1, <2>2 DEF ShelfOrder, UniqueIds, AdoptedOf
<1>13. Collected'
  <2>1. ASSUME NEW d \in BookNumbers, NEW b \in shelf'[d]
        PROVE  b.id[1] <= trial.id /\ (b.id[1] = trial.id => d = c /\ b.id[2] \in 1..Directions)
    <3>1. CASE \E a \in shelf[d] : a.id = b.id
      BY <1>0, <3>1 DEF BranchInv, Collected
    <3>2. CASE d = c /\ b.id[1] = trial.id /\ b.id[2] \in 1..Directions
      BY <1>4, <3>2
    <3> QED BY <1>11, <3>1, <3>2
  <2>2. ~TrialWorking' /\ \A t \in thrown : t[1] <= trial.id
    BY <1>1 DEF BranchInv, Collected, TrialWorking
  <2> QED BY <1>0, <1>1, <2>1, <2>2 DEF Collected
<1> DEFINE known == \/ \E b \in S : b.id[1] = trial.id
                    \/ \E t \in thrown : t[1] = trial.id
<1>14. ASSUME HasRoom(c), known
       PROVE  AllOrNone' /\ \A b \in P : b.id \in thrown => b.status = "discarded"
  <2>1. \A d \in Ready(trial.branches) : OnShelf(c, <<trial.id, d>>)
    BY <1>0, <1>1, <1>14 DEF BranchInv, AllOrNone, S
  <2>2. P = M
    BY <1>2, <1>3, <2>1
  <2>3. \A d \in Ready(trial.branches) : OnShelf(c, <<trial.id, d>>)'
    BY <1>1, <1>2, <1>5, <2>2 DEF OnShelf
  <2>4. AllOrNone'
    BY <1>0, <1>1, <2>3 DEF AllOrNone
  <2>5. ASSUME NEW b \in P, b.id \in thrown PROVE b.status = "discarded"
    <3>1. b \in M
      BY <2>2
    <3>2. b.id \in Nat \X Nat
      BY <1>4, <2>5
    <3>3. CASE b.status = "draft" /\ b.id[1] = trial.id /\ b.id[2] \in 1..Directions /\ \A a \in S : a.id # b.id
      <4>1. b.id = <<trial.id, b.id[2]>>
        BY <3>2, <3>3
      <4>2. PICK x \in M : x.id = b.id /\ x = b
        BY <3>1
      <4>3. b.id[2] \in Ready(trial.branches)
        <5>1. ASSUME NEW y \in M, \A a \in S : a.id # y.id PROVE y \in Added(S)
          BY <1>2, <5>1 DEF M, Offered
        <5>2. b \in Added(S)
          BY <3>1, <3>3, <5>1
        <5>3. PICK d \in Ready(trial.branches) : b.id = <<trial.id, d>>
          BY <5>2 DEF Added
        <5> QED BY <5>3
      <4>4. OnShelf(c, b.id)
        BY <2>1, <4>1, <4>3
      <4> QED BY <3>3, <4>4 DEF OnShelf, S
    <3>4. CASE \E a \in S : a.id = b.id /\ a.status = b.status
      BY <1>4, <1>14, <2>5, <3>4 DEF BranchInv, ThrownStaysThrown, S
    <3> QED BY <1>2, <3>1, <3>3, <3>4
  <2> QED BY <2>4, <2>5
<1>15. ASSUME HasRoom(c), ~known
       PROVE  AllOrNone' /\ \A b \in P : b.id \in thrown => b.status = "discarded"
  <2>1. \A b \in M : b.id[1] = trial.id => b \in P
    <3>1. \A b \in M : \/ b.id[1] < trial.id
                       \/ b.id[1] = trial.id /\ b.id[2] \in 1..Directions /\ b.status = "draft"
      <4> SUFFICES ASSUME NEW b \in M
                   PROVE  \/ b.id[1] < trial.id
                          \/ b.id[1] = trial.id /\ b.id[2] \in 1..Directions /\ b.status = "draft"
        OBVIOUS
      <4>1. CASE \E a \in S : a.id = b.id
        <5>1. PICK a \in S : a.id = b.id
          BY <4>1
        <5>2. a.id[1] <= trial.id
          BY <1>4 DEF BranchInv, Collected, S
        <5>3. a.id[1] # trial.id
          BY <1>15
        <5>4. a.id[1] \in Nat
          BY <1>2, ShelvedTypes
        <5> QED BY <1>4, <5>1, <5>2, <5>3, <5>4
      <4> QED BY <1>2, <4>1
    <3>2. Cardinality(AdoptedOf(M)) + Directions <= KeepBranches
      BY <1>2, <1>15 DEF HasRoom, AdoptedOf, S
    <3> QED BY <1>2, <1>4, <3>1, <3>2, PrunedSpares DEF P
  <2>2. \A d \in Ready(trial.branches) : OnShelf(c, <<trial.id, d>>)'
    <3> SUFFICES ASSUME NEW d \in Ready(trial.branches) PROVE \E x \in P : x.id = <<trial.id, d>>
      BY <1>1, <1>5 DEF OnShelf
    <3>1. PICK x \in M : x.id = <<trial.id, d>>
      BY <1>2
    <3> QED BY <2>1, <3>1
  <2>3. AllOrNone'
    BY <1>0, <1>1, <2>2 DEF AllOrNone
  <2>4. ASSUME NEW b \in P, b.id \in thrown PROVE b.status = "discarded"
    <3>1. b \in M
      BY <1>3
    <3>2. b.id[1] # trial.id
      BY <1>15, <2>4
    <3>3. \E a \in S : a.id = b.id /\ a.status = b.status
      BY <1>2, <3>1, <3>2
    <3> QED BY <1>4, <1>15, <2>4, <3>3 DEF BranchInv, ThrownStaysThrown, S
  <2> QED BY <2>3, <2>4
<1>16. AllOrNone'
  <2>1. CASE HasRoom(c)
    BY <1>14, <1>15, <2>1
  <2>2. CASE ~HasRoom(c)
    <3>1. ~HasRoom(c)'
      BY <1>4, <1>7, <2>2
    <3> QED BY <1>0, <1>1, <3>1 DEF AllOrNone
  <2> QED BY <2>1, <2>2
<1>17. ThrownStaysThrown'
  <2> SUFFICES ASSUME NEW d \in BookNumbers, HasRoom(d)', NEW b \in shelf'[d], b.id \in thrown
               PROVE  b.status = "discarded"
    BY <1>1 DEF ThrownStaysThrown
  <2>1. HasRoom(d)
    BY <1>7
  <2>2. CASE d = c
    BY <1>5, <1>14, <1>15, <2>1, <2>2
  <2>3. CASE d # c
    BY <1>5, <2>1, <2>3 DEF BranchInv, ThrownStaysThrown
  <2> QED BY <2>2, <2>3
<1> QED BY <1>8, <1>9, <1>12, <1>13, <1>16, <1>17 DEF BranchInv

\* A shelf on which drafts are discarded or adopted, and nothing else changes on it.
Relabels(S, f) ==
  \A x \in S : /\ f[x] \in ShelfBranch /\ f[x].id = x.id
               /\ x.status # "draft" => f[x] = x
Restates(c, f) ==
  /\ f = [x \in shelf[c] |-> f[x]] /\ Relabels(shelf[c], f)
  /\ \E x \in shelf[c] : x.status = "draft"
  /\ shelf' = [shelf EXCEPT ![c] = Pruned({f[x] : x \in shelf[c]})]
  /\ thrown' = thrown \cup {x.id : x \in {x \in shelf[c] : x.status = "draft" /\ f[x].status = "discarded"}}
  /\ UNCHANGED <<trial, worker>> /\ adopting' = <<>> /\ typed' = typed
  /\ prose' \in [BookNumbers -> Nat \X Nat] /\ storedProse' \in [BookNumbers -> Nat \X Nat]
  /\ versions' \in [BookNumbers -> SUBSET (Nat \X Nat)]

\* The limit takes nothing then, since a draft is there.
LEMMA Restatus ==
  ASSUME BranchInv, NEW c \in BookNumbers, NEW f, Restates(c, f)
  PROVE  BranchInv' /\ \A d \in BookNumbers : \A b \in shelf[d] : \E x \in shelf'[d] : x.id = b.id
<1>1. PICK S : S = shelf[c]
  OBVIOUS
<1>2. PICK T : T = {f[x] : x \in S}
  OBVIOUS
<1>3. /\ trial.id \in Nat /\ shelf \in [BookNumbers -> SUBSET ShelfBranch]
      /\ thrown \in SUBSET (Nat \X Nat) /\ S \in SUBSET ShelfBranch
  BY <1>1 DEF BranchInv, TrialTypes
<1>4. IsFiniteSet(S) /\ UniqueIds(S) /\ (Cardinality(S) <= KeepBranches \/ AdoptedOf(S) = S)
  BY <1>1 DEF BranchInv, ShelfOrder
<1>5. \A b \in S : f[b] \in ShelfBranch /\ f[b] \in T /\ f[b].id = b.id /\ (b.status # "draft" => f[b] = b)
  <2>1. \A b \in S : f[b] \in ShelfBranch /\ f[b].id = b.id /\ (b.status # "draft" => f[b] = b)
    <3>1. Relabels(shelf[c], f)
      BY DEF Restates
    <3> QED BY <1>1, <3>1 DEF Relabels
  <2>2. \A b \in S : f[b] \in T
    BY <1>2
  <2> QED BY <2>1, <2>2
<1>6. \A x \in T : \E b \in S : x = f[b] /\ x.id = b.id
  BY <1>2, <1>5
<1>7. Cardinality(S) <= KeepBranches
  <2>1. \E x \in S : x.status = "draft"
    BY <1>1 DEF Restates
  <2> QED BY <1>4, <2>1 DEF AdoptedOf
<1>8. IsFiniteSet(T) /\ Cardinality(T) <= Cardinality(S)
  <2>1. f = [x \in S |-> f[x]]
    BY <1>1 DEF Restates
  <2>2. IsFiniteSet({f[x] : x \in S}) /\ Cardinality({f[x] : x \in S}) <= Cardinality(S)
    BY <1>4, <2>1, ImageFinite
  <2> QED BY <1>2, <2>2
<1>9. Cardinality(T) <= KeepBranches
  <2>1. Cardinality(T) \in Nat /\ Cardinality(S) \in Nat /\ KeepBranches \in Nat
    BY <1>4, <1>8, FS_CardinalityType, TrialAssumption
  <2> QED BY <1>7, <1>8, <2>1
<1>10. UniqueIds(T)
  <2> SUFFICES ASSUME NEW x \in T, NEW y \in T, x.id = y.id PROVE x = y
    BY DEF UniqueIds
  <2>1. PICK a \in S : x = f[a] /\ x.id = a.id
    BY <1>6
  <2>2. PICK b \in S : y = f[b] /\ y.id = b.id
    BY <1>6
  <2>3. a = b
    BY <1>4, <2>1, <2>2 DEF UniqueIds
  <2> QED BY <2>1, <2>2, <2>3
<1>11. T \in SUBSET ShelfBranch
  BY <1>5, <1>6
<1>12. Pruned(T) = T
  BY <1>8, <1>9, <1>10, <1>11, PrunedKeeps DEF Shelved
<1>13. /\ shelf'[c] = T /\ \A d \in BookNumbers : d # c => shelf'[d] = shelf[d]
       /\ shelf' \in [BookNumbers -> SUBSET ShelfBranch]
  <2>1. shelf' = [shelf EXCEPT ![c] = T]
    BY <1>1, <1>2, <1>12 DEF Restates
  <2> QED BY <1>3, <1>11, <2>1
<1>14. /\ thrown' \in SUBSET (Nat \X Nat)
       /\ \A t \in thrown' : \/ t \in thrown
                             \/ \E x \in S : x.id = t /\ f[x].status = "discarded"
  <2>1. PICK N : N = {x.id : x \in {x \in S : x.status = "draft" /\ f[x].status = "discarded"}}
    OBVIOUS
  <2>2. thrown' = thrown \cup N
    BY <1>1, <2>1 DEF Restates
  <2>3. \A t \in N : \E x \in S : x.id = t /\ f[x].status = "discarded"
    BY <2>1
  <2>4. \A x \in S : x.id \in Nat \X Nat
    BY <1>3 DEF ShelfBranch
  <2>5. N \in SUBSET (Nat \X Nat)
    BY <2>3, <2>4
  <2> QED BY <1>3, <2>2, <2>3, <2>5
<1>15. UNCHANGED <<trial, worker>> /\ adopting' = <<>> /\ typed' = typed
  BY DEF Restates
<1>16. \A d \in BookNumbers : HasRoom(d)' => HasRoom(d)
  <2>1. HasRoom(c)' => HasRoom(c)
    <3>1. HasRoom(c)' <=> Cardinality(AdoptedOf(T)) + Directions <= KeepBranches
      BY <1>13 DEF HasRoom, AdoptedOf
    <3>2. HasRoom(c) <=> Cardinality(AdoptedOf(S)) + Directions <= KeepBranches
      BY <1>1 DEF HasRoom, AdoptedOf
    <3>3. Directions \in Nat /\ KeepBranches \in Nat
      BY TrialAssumption
    <3>4. AdoptedOf(S) \subseteq AdoptedOf(T)
      BY <1>5 DEF AdoptedOf
    <3>5. IsFiniteSet(AdoptedOf(T)) /\ IsFiniteSet(AdoptedOf(S))
      BY <1>4, <1>8, FS_Subset DEF AdoptedOf
    <3>6. Cardinality(AdoptedOf(S)) <= Cardinality(AdoptedOf(T))
          /\ Cardinality(AdoptedOf(S)) \in Nat /\ Cardinality(AdoptedOf(T)) \in Nat
      BY <3>4, <3>5, FS_Subset, FS_CardinalityType
    <3> QED BY <3>1, <3>2, <3>3, <3>6
  <2>2. ASSUME NEW d \in BookNumbers, d # c PROVE HasRoom(d)' <=> HasRoom(d)
    <3>1. shelf'[d] = shelf[d]
      BY <1>13, <2>2
    <3> QED BY <3>1 DEF HasRoom
  <2> QED BY <2>1, <2>2
<1>17. TrialTypes'
  <2>1. /\ prose' \in [BookNumbers -> Nat \X Nat] /\ storedProse' \in [BookNumbers -> Nat \X Nat]
        /\ versions' \in [BookNumbers -> SUBSET (Nat \X Nat)]
    BY DEF Restates
  <2> QED BY <1>13, <1>14, <1>15, <2>1 DEF BranchInv, TrialTypes
<1>18. WorkerKnows' /\ AdoptionKnown'
  BY <1>15 DEF BranchInv, WorkerKnows, TrialWorking, AdoptionKnown
<1>19. \A d \in BookNumbers : \A b \in shelf[d] : \E x \in shelf'[d] : x.id = b.id
  <2> SUFFICES ASSUME NEW d \in BookNumbers, NEW b \in shelf[d] PROVE \E x \in shelf'[d] : x.id = b.id
    OBVIOUS
  <2>1. CASE d = c
    BY <1>1, <1>5, <1>13, <2>1
  <2>2. CASE d # c
    BY <1>13, <2>2
  <2> QED BY <2>1, <2>2
<1>20. \A d \in BookNumbers : \A b \in shelf'[d] : \E x \in shelf[d] : x.id = b.id
  <2> SUFFICES ASSUME NEW d \in BookNumbers, NEW b \in shelf'[d] PROVE \E x \in shelf[d] : x.id = b.id
    OBVIOUS
  <2>1. CASE d = c
    BY <1>1, <1>6, <1>13, <2>1
  <2>2. CASE d # c
    BY <1>13, <2>2
  <2> QED BY <2>1, <2>2
<1>21. \A d1, d2 \in BookNumbers : \A x \in shelf[d1], y \in shelf[d2] : x.id = y.id => d1 = d2
  BY DEF BranchInv, ShelfOrder
<1>22. ShelfOrder'
  <2>1. ASSUME NEW d \in BookNumbers
        PROVE  /\ IsFiniteSet(shelf'[d]) /\ UniqueIds(shelf'[d])
               /\ Cardinality(shelf'[d]) <= KeepBranches \/ AdoptedOf(shelf'[d]) = shelf'[d]
    <3>1. CASE d = c
      BY <1>8, <1>9, <1>10, <1>13, <3>1
    <3>2. CASE d # c
      BY <1>13, <3>2 DEF BranchInv, ShelfOrder
    <3> QED BY <3>1, <3>2
  <2>2. ASSUME NEW d1 \in BookNumbers, NEW d2 \in BookNumbers, NEW a \in shelf'[d1], NEW b \in shelf'[d2], a.id = b.id
        PROVE  d1 = d2
    <3>1. PICK x \in shelf[d1] : x.id = a.id
      BY <1>20
    <3>2. PICK y \in shelf[d2] : y.id = b.id
      BY <1>20
    <3> QED BY <1>21, <2>2, <3>1, <3>2
  <2> QED BY <2>1, <2>2 DEF ShelfOrder, UniqueIds, AdoptedOf
<1>23. \A d \in BookNumbers : \A b \in shelf[d] :
         b.id[1] <= trial.id /\ (b.id[1] = trial.id => d = trial.chapter /\ b.id[2] \in 1..Directions /\ ~TrialWorking)
  BY DEF BranchInv, Collected
<1>24. Collected'
  <2>1. ASSUME NEW d \in BookNumbers, NEW b \in shelf'[d]
        PROVE  b.id[1] <= trial.id /\ (b.id[1] = trial.id => d = trial.chapter /\ b.id[2] \in 1..Directions /\ ~TrialWorking)
    <3>1. PICK x \in shelf[d] : x.id = b.id
      BY <1>20
    <3>2. x.id[1] <= trial.id /\ (x.id[1] = trial.id => d = trial.chapter /\ x.id[2] \in 1..Directions /\ ~TrialWorking)
      BY <1>23
    <3> QED BY <3>1, <3>2
  <2>2. ASSUME NEW t \in thrown' PROVE t[1] <= trial.id /\ (t[1] = trial.id => ~TrialWorking)
    <3>1. CASE t \in thrown
      BY <3>1 DEF BranchInv, Collected
    <3>2. CASE \E x \in S : x.id = t
      BY <1>1, <1>23, <3>2
    <3> QED BY <1>14, <3>1, <3>2
  <2> QED BY <1>15, <2>1, <2>2 DEF Collected, TrialWorking
<1>25. AllOrNone'
  <2> SUFFICES ASSUME trial.id > 0, HasRoom(trial.chapter)',
                      \/ \E b \in shelf'[trial.chapter] : b.id[1] = trial.id
                      \/ \E t \in thrown' : t[1] = trial.id,
                      NEW d \in Ready(trial.branches)
               PROVE  \E x \in shelf'[trial.chapter] : x.id = <<trial.id, d>>
    BY <1>15 DEF AllOrNone, OnShelf, HasRoom
  <2>1. PICK k \in BookNumbers : k = trial.chapter
    BY DEF BranchInv, TrialTypes
  <2>2. HasRoom(k)'
    BY <1>15, <2>1 DEF HasRoom
  <2>3. HasRoom(k)
    BY <1>16, <2>2
  <2>4. \/ \E b \in shelf[k] : b.id[1] = trial.id
        \/ \E t \in thrown : t[1] = trial.id
    <3>1. CASE \E b \in shelf'[k] : b.id[1] = trial.id
      <4>1. PICK b \in shelf'[k] : b.id[1] = trial.id
        BY <3>1
      <4>2. PICK x \in shelf[k] : x.id = b.id
        BY <1>20
      <4> QED BY <4>1, <4>2
    <3>2. CASE \E t \in thrown' : t[1] = trial.id
      <4>1. PICK t \in thrown' : t[1] = trial.id
        BY <3>2
      <4>2. CASE \E x \in S : x.id = t
        <5>1. PICK x \in shelf[c] : x.id = t
          BY <1>1, <4>2
        <5>2. c = k
          BY <1>23, <2>1, <4>1, <5>1
        <5> QED BY <4>1, <5>1, <5>2
      <4>3. CASE t \in thrown
        BY <4>1, <4>3
      <4> QED BY <1>14, <4>2, <4>3
    <3> QED BY <2>1, <3>1, <3>2
  <2>5. OnShelf(k, <<trial.id, d>>)
    BY <2>1, <2>3, <2>4 DEF BranchInv, AllOrNone
  <2>6. PICK x \in shelf[k] : x.id = <<trial.id, d>>
    BY <2>5 DEF OnShelf
  <2>7. PICK y \in shelf'[k] : y.id = x.id
    BY <1>19
  <2> QED BY <2>1, <2>6, <2>7
<1>26. ThrownStaysThrown'
  <2> SUFFICES ASSUME NEW d \in BookNumbers, HasRoom(d)', NEW b \in shelf'[d], b.id \in thrown'
               PROVE  b.status = "discarded"
    BY DEF ThrownStaysThrown, HasRoom
  <2>1. HasRoom(d)
    BY <1>16
  <2>2. PICK y \in shelf[d] : y.id = b.id /\ (d = c => b = f[y]) /\ (d # c => b = y)
    <3>1. CASE d = c
      <4>1. b \in T
        BY <1>13, <3>1
      <4>2. PICK y \in S : b = f[y] /\ b.id = y.id
        BY <1>6, <4>1
      <4> QED BY <1>1, <3>1, <4>2
    <3>2. CASE d # c
      BY <1>13, <3>2
    <3> QED BY <3>1, <3>2
  <2>3. CASE b.id \in thrown
    <3>1. y.status = "discarded"
      BY <2>1, <2>2, <2>3 DEF BranchInv, ThrownStaysThrown
    <3>2. d = c => f[y] = y
      BY <1>1, <1>5, <3>1
    <3> QED BY <2>2, <3>1, <3>2
  <2>4. CASE \E x \in S : x.id = b.id /\ f[x].status = "discarded"
    <3>1. PICK x \in S : x.id = b.id /\ f[x].status = "discarded"
      BY <2>4
    <3>2. x \in shelf[c] /\ x.id = y.id
      BY <1>1, <2>2, <3>1
    <3>3. d = c
      BY <1>21, <3>2
    <3>4. x = y
      BY <1>1, <1>4, <3>1, <3>2, <3>3 DEF UniqueIds
    <3> QED BY <2>2, <3>1, <3>3, <3>4
  <2>5. \/ b.id \in thrown
        \/ \E x \in S : x.id = b.id /\ f[x].status = "discarded"
    BY <1>14
  <2> QED BY <2>3, <2>4, <2>5
<1> QED BY <1>17, <1>18, <1>19, <1>22, <1>24, <1>25, <1>26 DEF BranchInv

LEMMA KeepDiscard ==
  ASSUME BranchInv, DiscardBranch
  PROVE  BranchInv' /\ \A d \in BookNumbers : \A b \in shelf[d] : \E x \in shelf'[d] : x.id = b.id
<1>1. /\ adopting = <<>>
      /\ UNCHANGED <<trial, worker, prose, storedProse, versions, stale, adopting, unsaved, typed, failedSaves>>
  BY DEF DiscardBranch
<1>0. PICK c \in BookNumbers : \E b \in shelf[c] :
        /\ b.status = "draft"
        /\ shelf' = [shelf EXCEPT ![c] = Pruned((shelf[c] \ {b}) \cup {[b EXCEPT !.status = "discarded"]})]
        /\ thrown' = thrown \cup {b.id}
  BY DEF DiscardBranch
<1>2. PICK b \in shelf[c] :
        /\ b.status = "draft"
        /\ shelf' = [shelf EXCEPT ![c] = Pruned((shelf[c] \ {b}) \cup {[b EXCEPT !.status = "discarded"]})]
        /\ thrown' = thrown \cup {b.id}
  BY <1>0
<1> DEFINE db == [b EXCEPT !.status = "discarded"]
           f == [x \in shelf[c] |-> IF x = b THEN db ELSE x]
<1>3. shelf[c] \in SUBSET ShelfBranch
  BY DEF BranchInv, TrialTypes
<1>4. db \in ShelfBranch /\ db.id = b.id /\ db.status = "discarded"
  BY <1>3 DEF ShelfBranch
<1> HIDE DEF db
<1>5. {f[x] : x \in shelf[c]} = (shelf[c] \ {b}) \cup {db}
  OBVIOUS
<1>6. f = [x \in shelf[c] |-> f[x]]
  OBVIOUS
<1>7. \A x \in shelf[c] : f[x] \in ShelfBranch /\ f[x].id = x.id /\ (x.status # "draft" => f[x] = x)
  BY <1>2, <1>3, <1>4
<1>8. {x.id : x \in {x \in shelf[c] : x.status = "draft" /\ f[x].status = "discarded"}} = {b.id}
  BY <1>2, <1>4
<1>9. shelf' = [shelf EXCEPT ![c] = Pruned({f[x] : x \in shelf[c]})]
  BY <1>2, <1>5 DEF db
<1>10. thrown' = thrown \cup {x.id : x \in {x \in shelf[c] : x.status = "draft" /\ f[x].status = "discarded"}}
  BY <1>2, <1>8
<1>11. \E x \in shelf[c] : x.status = "draft"
  BY <1>2
<1>12. /\ prose' \in [BookNumbers -> Nat \X Nat] /\ storedProse' \in [BookNumbers -> Nat \X Nat]
       /\ versions' \in [BookNumbers -> SUBSET (Nat \X Nat)] /\ typed' = typed
       /\ UNCHANGED <<trial, worker>> /\ adopting' = <<>>
  BY <1>1 DEF BranchInv, TrialTypes
<1> HIDE DEF f
<1>13. Restates(c, f)
  <2>1. Relabels(shelf[c], f)
    BY <1>7 DEF Relabels
  <2> QED BY <1>6, <1>9, <1>10, <1>11, <1>12, <2>1 DEF Restates
<1> QED BY <1>13, Restatus

\* What an adoption does to chapter c and its branch b.
Adoption(c, b) ==
  /\ adopting # <<>> /\ adopting' = <<>> /\ UNCHANGED <<trial, worker, typed>>
  /\ prose' = [prose EXCEPT ![c] = b.id]
  /\ shelf' = [shelf EXCEPT ![c] = Pruned(
        {IF x = b THEN [x EXCEPT !.status = "adopted"]
         ELSE IF x.status = "draft" THEN [x EXCEPT !.status = "discarded"] ELSE x : x \in shelf[c]})]
  /\ stale' = stale \cup Outdated(b, c)
  /\ thrown' = thrown \cup {x.id : x \in {x \in shelf[c] \ {b} : x.status = "draft"}}
  /\ \/ /\ storedProse' = prose' /\ unsaved' = FALSE
        /\ versions' = [versions EXCEPT ![c] = versions[c] \cup ({storedProse[c]} \ {Unwritten})]
     \/ UNCHANGED <<storedProse, versions>>

\* The adoption: the text it replaces is saved, and becomes a version with the save that takes it out.
LEMMA KeepAdopt ==
  ASSUME BranchInv, Adopt
  PROVE  /\ BranchInv' /\ \A d \in BookNumbers : \A b \in shelf[d] : \E x \in shelf'[d] : x.id = b.id
         /\ \A d \in BookNumbers : storedProse'[d] # storedProse[d] /\ prose[d] # Unwritten
              => storedProse[d] \in versions'[d] /\ prose[d] \in versions'[d]
         /\ \A d \in stale' \ stale : prose[d] = Unwritten
<1>2. PICK c \in BookNumbers : c = adopting[1] /\ adopting # <<>> /\ storedProse = prose
        /\ \E y \in shelf[c] : y.id = adopting[2] /\ y.status = "draft"
  BY DEF BranchInv, AdoptionKnown, Adopt
<1>3. PICK b \in shelf[c] : b.id = adopting[2] /\ b.status = "draft"
  BY <1>2
<1>4. UniqueIds(shelf[c])
  BY <1>2 DEF BranchInv, ShelfOrder
<1>5. (CHOOSE y \in shelf[adopting[1]] : y.id = adopting[2]) = b
  BY <1>2, <1>3, <1>4 DEF UniqueIds
<1>1. /\ adopting # <<>> /\ adopting' = <<>> /\ UNCHANGED <<trial, worker, typed>>
      /\ prose' = [prose EXCEPT ![c] = b.id]
      /\ shelf' = [shelf EXCEPT ![c] = Pruned(
            {IF x = b THEN [x EXCEPT !.status = "adopted"]
             ELSE IF x.status = "draft" THEN [x EXCEPT !.status = "discarded"] ELSE x : x \in shelf[c]})]
      /\ stale' = stale \cup Outdated(b, c)
      /\ thrown' = thrown \cup {x.id : x \in {x \in shelf[c] \ {b} : x.status = "draft"}}
      /\ \/ /\ storedProse' = prose' /\ unsaved' = FALSE
            /\ versions' = [versions EXCEPT ![c] = versions[c] \cup ({storedProse[c]} \ {Unwritten})]
         \/ UNCHANGED <<storedProse, versions>>
  <2>1. Adoption(adopting[1], CHOOSE b1 \in shelf[adopting[1]] : b1.id = adopting[2])
    BY DEF Adopt, Adoption
  <2>2. Adoption(c, b)
    BY <1>2, <1>5, <2>1
  <2> QED BY <2>2 DEF Adoption
<1>6. b \in shelf[c] /\ b.status = "draft"
  BY <1>3
<1>7. /\ shelf[c] \in SUBSET ShelfBranch /\ prose \in [BookNumbers -> Nat \X Nat]
      /\ storedProse \in [BookNumbers -> Nat \X Nat] /\ versions \in [BookNumbers -> SUBSET (Nat \X Nat)]
  BY <1>2 DEF BranchInv, TrialTypes
<1> DEFINE f == [x \in shelf[c] |-> IF x = b THEN [x EXCEPT !.status = "adopted"]
                                   ELSE IF x.status = "draft" THEN [x EXCEPT !.status = "discarded"] ELSE x]
<1>8. f = [x \in shelf[c] |-> f[x]]
  OBVIOUS
<1>9. ASSUME NEW x \in shelf[c]
      PROVE  /\ f[x] \in ShelfBranch /\ f[x].id = x.id /\ (x.status # "draft" => f[x] = x)
             /\ x = b => f[x].status = "adopted"
             /\ x # b /\ x.status = "draft" => f[x].status = "discarded"
  <2>1. x \in ShelfBranch
    BY <1>7
  <2>2. CASE x = b
    <3>1. f[x] = [x EXCEPT !.status = "adopted"]
      BY <2>2
    <3> HIDE DEF f
    <3> QED BY <1>6, <2>1, <2>2, <3>1 DEF ShelfBranch
  <2>3. CASE x # b /\ x.status = "draft"
    <3>1. f[x] = [x EXCEPT !.status = "discarded"]
      BY <2>3
    <3> HIDE DEF f
    <3> QED BY <2>1, <2>3, <3>1 DEF ShelfBranch
  <2>4. CASE x # b /\ x.status # "draft"
    BY <2>1, <2>4
  <2> QED BY <2>2, <2>3, <2>4
<1>10. {f[x] : x \in shelf[c]} = {IF x = b THEN [x EXCEPT !.status = "adopted"]
             ELSE IF x.status = "draft" THEN [x EXCEPT !.status = "discarded"] ELSE x : x \in shelf[c]}
  OBVIOUS
<1>11. shelf' = [shelf EXCEPT ![c] = Pruned({f[x] : x \in shelf[c]})]
  BY <1>1, <1>10
<1> HIDE DEF f
<1>12. {x \in shelf[c] \ {b} : x.status = "draft"} = {x \in shelf[c] : x.status = "draft" /\ f[x].status = "discarded"}
  BY <1>9
<1>13. thrown' = thrown \cup {x.id : x \in {x \in shelf[c] : x.status = "draft" /\ f[x].status = "discarded"}}
  BY <1>1, <1>12
<1>14. b.id \in Nat \X Nat
  BY <1>6, <1>7 DEF ShelfBranch
<1>15. prose' \in [BookNumbers -> Nat \X Nat]
  BY <1>1, <1>7, <1>14
<1>16. storedProse' \in [BookNumbers -> Nat \X Nat] /\ versions' \in [BookNumbers -> SUBSET (Nat \X Nat)]
  <2>1. CASE /\ storedProse' = prose'
             /\ versions' = [versions EXCEPT ![c] = versions[c] \cup ({storedProse[c]} \ {Unwritten})]
    <3> DEFINE vs == versions[c] \cup ({storedProse[c]} \ {Unwritten})
    <3>1. vs \in SUBSET (Nat \X Nat)
      BY <1>2, <1>7
    <3>2. versions' = [versions EXCEPT ![c] = vs]
      BY <2>1
    <3> HIDE DEF vs
    <3> QED BY <1>7, <1>15, <2>1, <3>1, <3>2
  <2>2. CASE UNCHANGED <<storedProse, versions>>
    BY <1>7, <2>2
  <2> QED BY <1>1, <2>1, <2>2
<1>17. \E x \in shelf[c] : x.status = "draft"
  BY <1>6
<1>18. c \in BookNumbers
  OBVIOUS
<1>19. BranchInv' /\ \A d \in BookNumbers : \A x \in shelf[d] : \E y \in shelf'[d] : y.id = x.id
  <2>1. Relabels(shelf[c], f)
    BY <1>9 DEF Relabels
  <2>2. Restates(c, f)
    BY <1>1, <1>8, <1>11, <1>13, <1>15, <1>16, <1>17, <2>1 DEF Restates
  <2> QED BY <2>2, Restatus
<1>20. ASSUME NEW d \in BookNumbers, storedProse'[d] # storedProse[d], prose[d] # Unwritten
       PROVE  storedProse[d] \in versions'[d] /\ prose[d] \in versions'[d]
  <2>1. /\ storedProse' = prose'
        /\ versions' = [versions EXCEPT ![c] = versions[c] \cup ({storedProse[c]} \ {Unwritten})]
    BY <1>1, <1>20
  <2>2. d = c
    BY <1>1, <1>2, <1>7, <1>20, <2>1
  <2>3. storedProse[d] \in versions'[d]
    BY <1>2, <1>7, <1>20, <2>1, <2>2
  <2> QED BY <1>2, <2>3
<1>21. \A d \in stale' \ stale : prose[d] = Unwritten
  BY <1>1 DEF Outdated
<1> QED BY <1>19, <1>20, <1>21

-----------------------------------------------------------------------------
(* The text.                                                               *)

LEMMA KeepText ==
  ASSUME BranchInv, TypeText \/ Autosave \/ AskAdoption
  PROVE  BranchInv'
<1>1. UNCHANGED <<trial, worker, shelf, versions, stale, failedSaves, thrown>> /\ adopting = <<>>
  BY DEF TypeText, Autosave, AskAdoption
<1>2. typed' \in Nat /\ prose' \in [BookNumbers -> Nat \X Nat] /\ storedProse' \in [BookNumbers -> Nat \X Nat]
  <2>1. typed \in Nat /\ prose \in [BookNumbers -> Nat \X Nat] /\ storedProse \in [BookNumbers -> Nat \X Nat]
    BY DEF BranchInv, TrialTypes
  <2>2. CASE TypeText
    <3>1. typed' = typed + 1 /\ storedProse' = storedProse
      BY <2>2 DEF TypeText
    <3>2. PICK c \in BookNumbers : prose' = [prose EXCEPT ![c] = <<0, typed'>>]
      BY <2>2 DEF TypeText
    <3>3. typed' \in Nat /\ <<0, typed'>> \in Nat \X Nat
      BY <2>1, <3>1
    <3> QED BY <2>1, <3>1, <3>2, <3>3
  <2>3. CASE Autosave \/ AskAdoption
    BY <2>1, <2>3 DEF Autosave, AskAdoption
  <2> QED BY <2>2, <2>3
<1>3. TrialTypes'
  BY <1>1, <1>2 DEF BranchInv, TrialTypes
<1>4. WorkerKnows' /\ ShelfOrder' /\ Collected' /\ AllOrNone' /\ ThrownStaysThrown'
  <2>1. WorkerKnows' /\ Collected'
    BY <1>1 DEF BranchInv, WorkerKnows, TrialWorking, Collected
  <2>2. ShelfOrder'
    BY <1>1 DEF BranchInv, ShelfOrder
  <2>3. AllOrNone' /\ ThrownStaysThrown'
    BY <1>1 DEF BranchInv, AllOrNone, ThrownStaysThrown, HasRoom, OnShelf, Ready
  <2> QED BY <2>1, <2>2, <2>3
<1>5. AdoptionKnown'
  <2>1. CASE TypeText \/ Autosave
    <3>1. adopting' = <<>>
      BY <1>1, <2>1 DEF TypeText, Autosave
    <3> QED BY <3>1 DEF AdoptionKnown
  <2>2. CASE AskAdoption
    <3>0. PICK c \in BookNumbers : \E b \in shelf[c] : b.status = "draft" /\ adopting' = <<c, b.id>>
      BY <2>2 DEF AskAdoption
    <3>1. PICK b \in shelf[c] : b.status = "draft" /\ adopting' = <<c, b.id>>
      BY <3>0
    <3>2. storedProse' = prose' /\ shelf' = shelf
      BY <2>2 DEF AskAdoption
    <3>3. adopting'[1] = c /\ adopting'[2] = b.id
      BY <3>1
    <3> QED BY <3>1, <3>2, <3>3 DEF AdoptionKnown
  <2> QED BY <2>1, <2>2
<1> QED BY <1>3, <1>4, <1>5 DEF BranchInv

-----------------------------------------------------------------------------
(* The properties.                                                         *)

LEMMA StutterTrial == BranchInv /\ UNCHANGED trialVars => BranchInv'
<1> SUFFICES ASSUME BranchInv, UNCHANGED trialVars PROVE BranchInv'
  OBVIOUS
<1>1. UNCHANGED <<trial, worker, shelf, prose, storedProse, versions, stale, adopting, unsaved, typed, failedSaves, thrown>>
  BY DEF trialVars
<1>2. TrialTypes' /\ WorkerKnows'
  BY <1>1 DEF BranchInv, TrialTypes, WorkerKnows, TrialWorking
<1>3. ShelfOrder' /\ Collected'
  BY <1>1 DEF BranchInv, ShelfOrder, Collected, TrialWorking
<1>4. AllOrNone' /\ AdoptionKnown' /\ ThrownStaysThrown'
  BY <1>1 DEF BranchInv, AllOrNone, AdoptionKnown, ThrownStaysThrown, HasRoom, OnShelf, Ready
<1> QED BY <1>2, <1>3, <1>4 DEF BranchInv

LEMMA StepTrial == BranchInv /\ [TrialNext]_trialVars => BranchInv'
<1> SUFFICES ASSUME BranchInv, [TrialNext]_trialVars PROVE BranchInv'
  OBVIOUS
<1> QED BY KeepStartTrial, KeepWriteBranch, KeepJudging, KeepEnding, KeepCollect, KeepDiscard, KeepAdopt, KeepText,
           StutterTrial DEF TrialNext

LEMMA DraftsStand ==
  ASSUME BranchInv, [TrialNext]_trialVars, trial'.id = trial.id,
         NEW d \in DOMAIN trial.branches, trial.branches[d].status = "draft"
  PROVE  trial'.branches[d].status = "draft"
<1>1. CASE StartTrial
  <2>1. trial'.id = trial.id + 1 /\ trial.id \in Nat
    BY <1>1 DEF StartTrial, BranchInv, TrialTypes
  <2> QED BY <2>1
<1>2. CASE WriteBranch
  BY <1>2, KeepWriteBranch
<1>3. CASE FinishTrial \/ CancelTrial \/ BreakTrial \/ LoseWorker
  BY <1>3, KeepEnding
<1>4. CASE AuditBranch \/ JudgeBranches \/ Collect \/ DiscardBranch \/ TypeText \/ Autosave \/ AskAdoption \/ Adopt
           \/ UNCHANGED trialVars
  <2>1. trial' = trial
    BY <1>4 DEF AuditBranch, JudgeBranches, Collect, DiscardBranch, TypeText, Autosave, AskAdoption, Adopt, trialVars
  <2> QED BY <2>1
<1> QED BY <1>1, <1>2, <1>3, <1>4 DEF TrialNext

LEMMA LimitTakes ==
  ASSUME BranchInv, [TrialNext]_trialVars, NEW c \in BookNumbers, NEW b \in shelf[c],
         \A x \in shelf'[c] : x.id # b.id
  PROVE  b.status # "adopted" /\ (b.status = "draft" => \A x \in shelf'[c] : x.status # "discarded")
<1>1. CASE Collect
  <2> DEFINE S == shelf[trial.chapter]
             M == Offered(S)
  <2>1. ~TrialWorking /\ trial.id > 0 /\ shelf' = [shelf EXCEPT ![trial.chapter] = Pruned(M)]
    BY <1>1, MergedIs DEF Collect
  <2>2. Shelved(M) /\ \A y \in S : Fresher(y) \in M /\ Fresher(y).id = y.id /\ Fresher(y).status = y.status
    BY <2>1, OfferedIs
  <2>3. shelf \in [BookNumbers -> SUBSET ShelfBranch]
    BY DEF BranchInv, TrialTypes
  <2> HIDE DEF M
  <2>4. c = trial.chapter /\ shelf'[c] = Pruned(M)
    BY <2>1, <2>3
  <2>5. Fresher(b) \in M /\ Fresher(b) \notin Pruned(M) /\ Fresher(b).status = b.status
    BY <2>2, <2>4
  <2> QED BY <2>2, <2>4, <2>5, PrunedOrder
<1>2. CASE DiscardBranch
  BY <1>2, KeepDiscard
<1>3. CASE Adopt
  BY <1>3, KeepAdopt
<1>4. CASE StartTrial \/ WriteBranch \/ AuditBranch \/ JudgeBranches \/ FinishTrial \/ CancelTrial \/ BreakTrial \/ LoseWorker
           \/ TypeText \/ Autosave \/ AskAdoption \/ UNCHANGED trialVars
  <2>1. shelf' = shelf
    BY <1>4 DEF StartTrial, WriteBranch, AuditBranch, JudgeBranches, FinishTrial, CancelTrial, BreakTrial, LoseWorker,
                TypeText, Autosave, AskAdoption, trialVars, editorVars
  <2> QED BY <2>1
<1> QED BY <1>1, <1>2, <1>3, <1>4 DEF TrialNext

LEMMA OthersKeepTexts ==
  ASSUME [TrialNext]_trialVars, ~Adopt
  PROVE  stale' = stale /\ (adopting # <<>> => storedProse' = storedProse)
<1>1. CASE StartTrial \/ WriteBranch \/ AuditBranch \/ JudgeBranches \/ FinishTrial \/ CancelTrial \/ BreakTrial \/ LoseWorker
  BY <1>1 DEF StartTrial, WriteBranch, AuditBranch, JudgeBranches, FinishTrial, CancelTrial, BreakTrial, LoseWorker, editorVars
<1>2. CASE Collect \/ DiscardBranch \/ TypeText \/ Autosave \/ AskAdoption \/ UNCHANGED trialVars
  BY <1>2 DEF Collect, DiscardBranch, TypeText, Autosave, AskAdoption, trialVars
<1> QED BY <1>1, <1>2 DEF TrialNext

\* Whatever the job, the author and the limit do: a discarded branch stays discarded while there is room,
\* no draft is lost to the end of a job, the limit takes the least, an adoption's save keeps what it
\* replaces, and only chapters without a text are flagged for a new plan.
THEOREM BranchesKept == TrialSpec => BranchesAreKept
<1>1. BranchInv => ThrownStaysThrown
  BY DEF BranchInv
<1>2. BranchInv /\ [TrialNext]_trialVars
        => \A d \in DOMAIN trial.branches :
             trial.branches[d].status = "draft" /\ trial'.id = trial.id => trial'.branches[d].status = "draft"
  BY DraftsStand
<1>3. BranchInv /\ [TrialNext]_trialVars
        => \A c \in BookNumbers :
             \A b \in shelf[c] : (\A x \in shelf'[c] : x.id # b.id) =>
               /\ b.status # "adopted"
               /\ b.status = "draft" => \A x \in shelf'[c] : x.status # "discarded"
  BY LimitTakes
<1>4. BranchInv /\ [TrialNext]_trialVars
        => \A c \in BookNumbers :
             adopting # <<>> /\ storedProse'[c] # storedProse[c] /\ prose[c] # Unwritten
               => storedProse[c] \in versions'[c] /\ prose[c] \in versions'[c]
  BY OthersKeepTexts, KeepAdopt
<1>5. BranchInv /\ [TrialNext]_trialVars => \A c \in stale' \ stale : prose[c] = Unwritten
  BY OthersKeepTexts, KeepAdopt
<1>6. TrialSpec => []ThrownStaysThrown
  BY <1>1, InitTrial, StepTrial, PTL DEF TrialSpec
<1>7. TrialSpec => DraftOutlivesJob
  BY <1>2, InitTrial, StepTrial, PTL DEF TrialSpec, DraftOutlivesJob
<1>8. TrialSpec => LimitTakesTheLeast
  BY <1>3, InitTrial, StepTrial, PTL DEF TrialSpec, LimitTakesTheLeast
<1>9. TrialSpec => ReplacedIsVersioned
  BY <1>4, InitTrial, StepTrial, PTL DEF TrialSpec, ReplacedIsVersioned
<1>10. TrialSpec => OnlyPlansGoStale
  BY <1>5, InitTrial, StepTrial, PTL DEF TrialSpec, OnlyPlansGoStale
<1> QED BY <1>6, <1>7, <1>8, <1>9, <1>10 DEF BranchesAreKept

-----------------------------------------------------------------------------
(* ModelCall: every number of attempts and retries.                          *)

Places == {"begin", "ask", "post", "stream", "drain", "parse", "done", "failed"}

CallTypes ==
  /\ kind \in {"json", "plain", "stream"} /\ place \in Places
  /\ schema \in BOOLEAN /\ refused \in BOOLEAN /\ withUsage \in BOOLEAN /\ sensitive \in BOOLEAN
  /\ room \in Nat /\ ceiling \in Nat /\ ask \in {1, 2} /\ allowance \in Nat
  /\ resend \in 0..Attempts-1 /\ posts \in Nat /\ brought \in Seq(Nat)

\* The requests of the asks before this one, at most: a schema that is still there has cost none.
Until == IF schema THEN IF ask = 1 THEN 0 ELSE Attempts
                    ELSE IF ask = 1 THEN Attempts ELSE Attempts + Attempts
\* The one that taught the call that the server takes no stream_options.
Lesson == IF refused /\ ~withUsage THEN 1 ELSE 0
\* The requests of this ask, at most.
Since == IF place = "post" THEN resend ELSE IF place \in {"stream", "drain", "parse"} THEN resend + 1 ELSE 0

\* The requests sent, counted by the asks: each has its attempts.
Counted ==
  /\ place \notin {"done", "failed"} => posts <= Until + Since + Lesson
  /\ place = "begin" => posts = 0
  /\ posts <= 3 * Attempts + 1

\* What is asked for fits.
Limited == place \in {"ask", "post", "stream"} => allowance + (IF ask = 2 THEN RepairCost ELSE 0) <= room

\* The pieces of this answer came from the last request, and a request is sent without any.
Brought ==
  \A i \in 1..Len(brought) :
    /\ place # "post"
    /\ \A j \in 1..Len(brought) : brought[i] = brought[j]
    /\ place \in {"stream", "drain", "parse"} => brought[i] = posts

CallInv ==
  /\ CallTypes /\ Counted /\ Limited /\ Brought
  /\ place = "begin" => ask = 1
  /\ sensitive => place = "failed"

----------------------------------------------------------------------------
(* The operators.                                                          *)

LEMMA MinOfTwo ==
  ASSUME NEW a \in Int, NEW b \in Int
  PROVE  Min({a, b}) = IF a <= b THEN a ELSE b
<1> DEFINE m == IF a <= b THEN a ELSE b
<1>1. m \in {a, b} /\ \A y \in {a, b} : m =< y
  OBVIOUS
<1>2. ASSUME NEW x \in {a, b}, \A y \in {a, b} : x =< y PROVE x = m
  BY <1>2
<1> QED BY <1>1, <1>2 DEF Min

\* What fits is within the window.
LEMMA FitFits ==
  ASSUME NEW left \in Int, NEW wanted \in Int
  PROVE  /\ Fit(left, wanted) \in Nat
         /\ Fit(left, wanted) <= left \/ Fit(left, wanted) = 0
BY MinOfTwo DEF Fit

LEMMA CountTypes ==
  ASSUME CallTypes
  PROVE  Until \in Nat /\ Lesson \in {0, 1} /\ Since \in 0..Attempts /\ Until + Since + 1 <= 3 * Attempts + 1
<1>1. Attempts \in Nat \ {0} /\ resend \in 0..Attempts-1
  BY CallAssumption DEF CallTypes
<1>2. Until \in {0, Attempts, Attempts + Attempts}
  BY DEF Until
<1>3. Lesson \in {0, 1}
  BY DEF Lesson
<1>4. Since \in {0, resend, resend + 1}
  BY DEF Since
<1> HIDE DEF Until, Since
<1> QED BY <1>1, <1>2, <1>3, <1>4

\* What the count of the earlier asks depends on.
LEMMA CountsKept ==
  /\ UNCHANGED <<schema, ask>> => Until' = Until
  /\ UNCHANGED <<refused, withUsage>> => Lesson' = Lesson
BY DEF Until, Lesson

----------------------------------------------------------------------------
(* The invariant.                                                          *)

LEMMA CallInitInv == CallInit => CallInv
<1> SUFFICES ASSUME CallInit PROVE CallInv
  OBVIOUS
<1>1. Attempts \in Nat \ {0} /\ Rooms \subseteq Nat /\ Ceilings \subseteq Nat
  BY CallAssumption
<1>2. brought \in Seq(Nat) /\ Len(brought) = 0
  BY EmptySeq DEF CallInit
<1>3. /\ kind \in {"json", "plain", "stream"} /\ room \in Nat /\ ceiling \in Nat
      /\ schema \in BOOLEAN /\ refused \in BOOLEAN /\ withUsage \in BOOLEAN /\ sensitive \in BOOLEAN /\ ~sensitive
  BY <1>1 DEF CallInit
<1>4. ask = 1 /\ allowance = 0 /\ resend = 0 /\ posts = 0 /\ place = "begin"
  BY DEF CallInit
<1>5. CallTypes
  BY <1>1, <1>2, <1>3, <1>4 DEF CallTypes, Places
<1>6. Counted /\ Limited
  BY <1>1, <1>4, <1>5, CountTypes DEF Counted, Limited
<1> QED BY <1>2, <1>3, <1>4, <1>5, <1>6 DEF CallInv, Brought

\* A call that ends keeps everything but its place.
LEMMA FailsKeep ==
  ASSUME CallInv, place' = "failed", posts' \in Nat, posts' <= 3 * Attempts + 1, sensitive' \in BOOLEAN,
         schema' \in BOOLEAN, refused' \in BOOLEAN, withUsage' \in BOOLEAN,
         UNCHANGED <<kind, room, ceiling, ask, allowance, resend, brought>>
  PROVE  CallInv'
<1>1. CallTypes'
  BY DEF CallInv, CallTypes, Places
<1>2. Counted' /\ Limited' /\ Brought'
  BY DEF CallInv, Counted, Limited, Brought
<1> QED BY <1>1, <1>2 DEF CallInv

LEMMA RetryKeeps ==
  ASSUME CallInv, NEW why, Retry(why), posts' \in Nat, posts' <= Until + resend + 1 + Lesson,
         place \in {"post", "stream"}, UNCHANGED <<callSetting, sensitive, schema, refused, ask, allowance, withUsage>>
  PROVE  CallInv'
<1>1. CallTypes /\ Attempts \in Nat \ {0}
  BY CallAssumption DEF CallInv
<1>2. Until \in Nat /\ Lesson \in {0, 1} /\ Until <= 2 * Attempts
  BY <1>1, CallAssumption DEF Until, Lesson
<1>3. resend \in 0..Attempts-1 /\ posts' <= 3 * Attempts + 1
  BY <1>1, <1>2 DEF CallTypes
<1>4. CASE resend + 1 < Attempts
  <2>1. resend' = resend + 1 /\ brought' = <<>> /\ place' = "post"
    BY <1>4 DEF Retry
  <2>2. Until' = Until /\ Lesson' = Lesson /\ Since' = resend + 1
    BY <2>1, CountsKept DEF Since
  <2>3. brought' \in Seq(Nat) /\ Len(brought') = 0
    BY <2>1, EmptySeq
  <2>4. resend' \in 0..Attempts-1
    <3>1. resend + 1 \in 0..Attempts-1
      BY <1>1, <1>4 DEF CallTypes
    <3> QED BY <2>1, <3>1
  <2>5. CallTypes'
    BY <1>1, <2>1, <2>3, <2>4 DEF CallTypes, Places, callSetting
  <2>6. posts' <= Until' + Since' + Lesson'
    BY <1>2, <1>3, <2>2
  <2>7. Counted' /\ Brought'
    BY <1>3, <2>1, <2>3, <2>6 DEF Counted, Brought
  <2>8. Limited'
    BY <2>1 DEF CallInv, Limited, callSetting
  <2> QED BY <2>1, <2>5, <2>7, <2>8 DEF CallInv
<1>5. CASE ~(resend + 1 < Attempts)
  <2>1. place' = "failed" /\ UNCHANGED <<resend, brought>>
    BY <1>5 DEF Retry, Fail
  <2> QED BY <1>1, <1>3, <2>1, FailsKeep DEF callSetting, CallTypes
<1> QED BY <1>4, <1>5

LEMMA RepairKeeps ==
  ASSUME CallInv, NEW truncated \in BOOLEAN, Repair(truncated), place \in {"stream", "parse"},
         UNCHANGED <<callSetting, sensitive, schema, refused, withUsage, resend, posts, brought>>
  PROVE  CallInv'
<1> DEFINE grown == IF truncated THEN 2 * allowance ELSE allowance + 1
           most  == IF ceiling # 0 THEN ceiling ELSE IF truncated THEN 2 * allowance ELSE 32
           next  == Fit(room - RepairCost, Min({most, grown}))
<1>1. CallTypes /\ Attempts \in Nat \ {0} /\ RepairCost \in Nat
  BY CallAssumption DEF CallInv
<1>2. grown \in Nat /\ most \in Nat /\ room - RepairCost \in Int
  BY <1>1 DEF CallTypes
<1>3. Min({most, grown}) \in Int
  BY <1>2, MinOfTwo
<1>4. next \in Nat /\ (next # 0 => next <= room - RepairCost)
  BY <1>2, <1>3, FitFits
<1>5. \/ place' = "failed" /\ UNCHANGED <<ask, allowance>>
      \/ ask # 2 /\ next # 0 /\ ask' = 2 /\ allowance' = next /\ place' = "ask"
  BY DEF Repair, Fail
<1> HIDE DEF next
<1>6. CASE place' = "failed" /\ UNCHANGED <<ask, allowance>>
  BY <1>1, <1>6, FailsKeep DEF callSetting, CallTypes, CallInv, Counted
<1>7. CASE ask # 2 /\ next # 0 /\ ask' = 2 /\ allowance' = next /\ place' = "ask"
  <2>1. CallTypes'
    BY <1>1, <1>4, <1>7 DEF CallTypes, Places, callSetting
  <2>2. ask = 1 /\ resend \in 0..Attempts-1 /\ room \in Nat
    BY <1>1, <1>7 DEF CallTypes
  <2>3. Until' = Until + Attempts
    BY <1>1, <1>7, <2>2 DEF Until
  <2>4. Lesson' = Lesson /\ Since' = 0 /\ Since = resend + 1
    BY <1>7, CountsKept DEF Since
  <2>5. posts <= Until + Since + Lesson /\ posts <= 3 * Attempts + 1
    BY DEF CallInv, Counted
  <2>6. Until \in Nat /\ Lesson \in {0, 1} /\ posts \in Nat
    BY <1>1, CountTypes DEF CallTypes
  <2>7. posts <= Until' + Since' + Lesson'
    BY <1>1, <2>2, <2>3, <2>4, <2>5, <2>6
  <2>8. Counted'
    BY <1>7, <2>5, <2>7 DEF Counted
  <2>9. room' = room /\ allowance' + RepairCost <= room
    BY <1>1, <1>4, <1>7, <2>2 DEF callSetting
  <2>10. Limited'
    BY <1>7, <2>9 DEF Limited
  <2>11. Brought'
    BY <1>7 DEF Brought, CallInv
  <2> QED BY <1>7, <2>1, <2>8, <2>10, <2>11 DEF CallInv
<1> QED BY <1>5, <1>6, <1>7

\* A call that is done keeps everything but its place.
LEMMA DoneKeeps ==
  ASSUME CallInv, place \in {"stream", "parse"}, place' = "done",
         UNCHANGED <<callSetting, sensitive, schema, refused, withUsage, resend, posts, brought, ask, allowance>>
  PROVE  CallInv'
<1>1. CallTypes'
  BY DEF CallInv, CallTypes, Places, callSetting
<1>2. Counted' /\ Limited' /\ Brought'
  BY DEF CallInv, Counted, Limited, Brought
<1>3. ~sensitive
  BY DEF CallInv
<1> QED BY <1>1, <1>2, <1>3 DEF CallInv

\* A request is sent, and its ask goes on, or on without its schema.
LEMMA PostCounts ==
  ASSUME CallInv, place = "post"
  PROVE  /\ posts \in Nat /\ posts + 1 \in Nat /\ resend \in 0..Attempts-1 /\ Attempts \in Nat \ {0}
         /\ posts <= Until + resend + Lesson /\ Until \in Nat /\ Lesson \in {0, 1} /\ ~sensitive
         /\ posts + 1 <= 3 * Attempts + 1
<1>1. CallTypes /\ Attempts \in Nat \ {0}
  BY CallAssumption DEF CallInv
<1>2. Since = resend
  BY DEF Since
<1>3. posts <= Until + resend + Lesson /\ ~sensitive
  BY <1>2 DEF CallInv, Counted
<1>4. Until \in Nat /\ Lesson \in {0, 1} /\ Until <= 2 * Attempts
  BY <1>1, CallAssumption DEF Until, Lesson
<1> QED BY <1>1, <1>3, <1>4 DEF CallTypes

LEMMA CallStepInv ==
  ASSUME CallInv, [CallNext]_callVars
  PROVE  CallInv'
<1>a. CallTypes /\ Attempts \in Nat \ {0} /\ RepairCost \in Nat /\ Requested \in Nat
  BY CallAssumption DEF CallInv
<1>1. ASSUME BeginCall PROVE CallInv'
  <2>1. allowance' \in Nat
    <3>0. room \in Int /\ Requested \in Int
      BY <1>a DEF CallTypes
    <3>1. Fit(room, Requested) \in Nat
      BY <3>0, FitFits
    <3> QED BY <1>1, <1>a, <3>1 DEF BeginCall
  <2>2. /\ place = "begin" /\ UNCHANGED <<callSetting, sensitive, schema, refused, ask, withUsage, resend, posts, brought>>
        /\ \/ place' = "failed"
           \/ place' = "ask" /\ allowance' \in 1..room
    BY <1>1 DEF BeginCall, Fail
  <2>3. CallTypes'
    BY <1>a, <2>1, <2>2 DEF CallTypes, Places, callSetting
  <2>4. posts = 0 /\ ask = 1 /\ ~sensitive
    BY <2>2 DEF CallInv, Counted
  <2>5. Counted'
    <3>1. Until' = Until /\ Lesson' = Lesson /\ (place' = "ask" => Since' = 0)
      BY <2>2, CountsKept DEF Since
    <3>2. Until \in Nat /\ Lesson \in {0, 1}
      BY <1>a, CountTypes
    <3> QED BY <1>a, <2>2, <2>4, <3>1, <3>2 DEF Counted
  <2>6. Limited' /\ Brought'
    BY <2>2, <2>4, <1>a DEF Limited, Brought, CallInv, callSetting, CallTypes
  <2> QED BY <2>2, <2>3, <2>4, <2>5, <2>6 DEF CallInv
<1>2. ASSUME Build PROVE CallInv'
  <2>1. /\ place = "ask" /\ withUsage' = (kind # "plain" /\ ~refused) /\ resend' = 0 /\ brought' = <<>> /\ place' = "post"
        /\ UNCHANGED <<callSetting, sensitive, schema, refused, ask, allowance, posts>>
    BY <1>2 DEF Build
  <2>2. brought' \in Seq(Nat) /\ Len(brought') = 0
    BY <2>1, EmptySeq
  <2>3. CallTypes'
    BY <1>a, <2>1, <2>2 DEF CallTypes, Places, callSetting
  <2>4. Until' = Until /\ Since = 0 /\ Since' = 0 /\ ~sensitive
    BY <2>1, CountsKept DEF Since, CallInv
  <2>5. Lesson <= Lesson' /\ Lesson \in Nat /\ Lesson' \in Nat
    <3>1. CASE refused
      <4>1. Lesson' = 1
        BY <2>1, <3>1 DEF Lesson
      <4>2. Lesson \in {0, 1}
        BY DEF Lesson
      <4> QED BY <4>1, <4>2
    <3>2. CASE ~refused
      <4>1. Lesson = 0 /\ Lesson' = 0
        BY <2>1, <3>2 DEF Lesson
      <4> QED BY <4>1
    <3> QED BY <3>1, <3>2
  <2>6. posts <= Until + Since + Lesson /\ Until \in Nat /\ posts \in Nat /\ posts <= 3 * Attempts + 1
    BY <1>a, <2>1, CountTypes DEF CallInv, Counted, CallTypes
  <2>7. posts' <= Until' + Since' + Lesson'
    <3>1. PICK l \in Nat : Lesson' = l
      BY <2>5
    <3> QED BY <2>1, <2>4, <2>5, <2>6, <3>1
  <2>8. Counted' /\ Limited' /\ Brought'
    BY <2>1, <2>2, <2>6, <2>7 DEF Counted, Limited, Brought, CallInv, callSetting
  <2> QED BY <2>1, <2>3, <2>4, <2>8 DEF CallInv
<1>3. ASSUME LearnedElsewhere PROVE CallInv'
  <2>1. /\ ~refused /\ refused' = TRUE
        /\ UNCHANGED <<callSetting, sensitive, schema, ask, allowance, withUsage, resend, posts, brought, place>>
    BY <1>3 DEF LearnedElsewhere
  <2>2. CallTypes'
    BY <1>a, <2>1 DEF CallTypes, Places, callSetting
  <2>3. Until' = Until /\ Since' = Since /\ Lesson = 0 /\ Lesson' \in Nat
    BY <2>1, CountsKept DEF Since, Lesson
  <2>4. place \notin {"done", "failed"} => posts <= Until + Since + Lesson
    BY DEF CallInv, Counted
  <2>5. Until \in Nat /\ Since \in Nat /\ posts \in Nat /\ Attempts \in Nat
    BY <1>a, CountTypes DEF CallTypes
  <2>6. place \notin {"done", "failed"} => posts <= Until' + Since' + Lesson'
    <3>1. PICK l \in Nat : Lesson' = l
      BY <2>3
    <3> QED BY <2>3, <2>4, <2>5, <3>1
  <2>7. Counted' /\ Limited' /\ Brought'
    BY <2>1, <2>6 DEF Counted, Limited, Brought, CallInv, callSetting
  <2> QED BY <2>1, <2>2, <2>7 DEF CallInv
<1>4. ASSUME UsageRefused PROVE CallInv'
  <2>1. /\ place = "post" /\ withUsage /\ posts' = posts + 1 /\ refused' = TRUE /\ withUsage' = FALSE
        /\ UNCHANGED <<callSetting, sensitive, schema, ask, allowance, resend, brought, place>>
    BY <1>4 DEF UsageRefused
  <2>2. CallTypes'
    BY <1>a, <2>1, PostCounts DEF CallTypes, Places, callSetting
  <2>3. Until' = Until /\ Since' = resend /\ Lesson = 0 /\ Lesson' = 1
    BY <2>1, CountsKept DEF Since, Lesson
  <2>4. posts' <= Until' + Since' + Lesson' /\ posts' <= 3 * Attempts + 1
    BY <2>1, <2>3, PostCounts
  <2>5. Counted' /\ Limited' /\ Brought'
    BY <2>1, <2>4 DEF Counted, Limited, Brought, CallInv, callSetting
  <2> QED BY <2>1, <2>2, <2>5 DEF CallInv
<1>5. ASSUME Unavailable PROVE CallInv'
  <2>1. /\ place = "post" /\ posts' = posts + 1 /\ Retry("unavailable")
        /\ UNCHANGED <<callSetting, sensitive, schema, refused, ask, allowance, withUsage>>
    BY <1>5 DEF Unavailable
  <2>2. posts' \in Nat /\ posts' <= Until + resend + 1 + Lesson
    BY <2>1, PostCounts
  <2> QED BY <2>1, <2>2, RetryKeeps
<1>6. ASSUME Denied PROVE CallInv'
  <2>1. /\ place = "post" /\ posts' = posts + 1 /\ place' = "failed"
        /\ UNCHANGED <<callSetting, sensitive, schema, refused, ask, allowance, withUsage, resend, brought>>
    BY <1>6 DEF Denied, Fail
  <2>2. posts' \in Nat /\ posts' <= 3 * Attempts + 1
    BY <2>1, PostCounts
  <2> QED BY <1>a, <2>1, <2>2, FailsKeep DEF callSetting, CallTypes
<1>7. ASSUME SchemaRefused PROVE CallInv'
  <2>1. /\ place = "post" /\ schema /\ posts' = posts + 1 /\ schema' = FALSE /\ place' = "ask"
        /\ UNCHANGED <<callSetting, sensitive, refused, ask, allowance, withUsage, resend, brought>>
    BY <1>7 DEF SchemaRefused
  <2>2. CallTypes'
    BY <1>a, <2>1, PostCounts DEF CallTypes, Places, callSetting
  <2>3. Until' = Until + Attempts
    BY <1>a, <2>1 DEF Until, CallTypes
  <2>4. Since' = 0 /\ Lesson' = Lesson
    BY <2>1, CountsKept DEF Since
  <2>5. posts' <= Until' + Since' + Lesson' /\ posts' <= 3 * Attempts + 1
    BY <2>1, <2>3, <2>4, PostCounts
  <2>6. Counted' /\ Limited' /\ Brought'
    BY <2>1, <2>5 DEF Counted, Limited, Brought, CallInv, callSetting
  <2>7. ~sensitive
    BY <2>1 DEF CallInv
  <2> QED BY <2>1, <2>2, <2>6, <2>7 DEF CallInv
<1>8. ASSUME Accepted PROVE CallInv'
  <2>1. /\ place = "post" /\ posts' = posts + 1 /\ place' = "stream"
        /\ UNCHANGED <<callSetting, sensitive, schema, refused, ask, allowance, withUsage, resend, brought>>
    BY <1>8 DEF Accepted
  <2>2. CallTypes'
    BY <1>a, <2>1, PostCounts DEF CallTypes, Places, callSetting
  <2>3. Until' = Until /\ Lesson' = Lesson /\ Since' = resend + 1
    BY <2>1, CountsKept DEF Since
  <2>4. posts' <= Until' + Since' + Lesson' /\ posts' <= 3 * Attempts + 1
    BY <2>1, <2>3, PostCounts
  <2>5. Counted' /\ Limited' /\ Brought'
    BY <2>1, <2>4 DEF Counted, Limited, Brought, CallInv, callSetting
  <2>6. ~sensitive
    BY <2>1 DEF CallInv
  <2> QED BY <2>1, <2>2, <2>5, <2>6 DEF CallInv
<1>9. ASSUME Delta PROVE CallInv'
  <2>1. /\ place = "stream" /\ brought' = Append(brought, posts)
        /\ UNCHANGED <<callSetting, sensitive, schema, refused, ask, allowance, withUsage, resend, posts, place>>
    BY <1>9 DEF Delta
  <2>2. /\ brought' \in Seq(Nat) /\ Len(brought') = Len(brought) + 1 /\ Len(brought) \in Nat
        /\ \A i \in 1..Len(brought) : brought'[i] = brought[i]
        /\ brought'[Len(brought) + 1] = posts
    BY <1>a, <2>1, AppendProperties, LenProperties DEF CallTypes
  <2>3. CallTypes'
    BY <1>a, <2>1, <2>2 DEF CallTypes, callSetting
  <2>4. Until' = Until /\ Lesson' = Lesson /\ Since' = Since
    BY <2>1, CountsKept DEF Since
  <2>5. Counted' /\ Limited'
    BY <2>1, <2>4 DEF Counted, Limited, CallInv, callSetting
  <2>6. \A i \in 1..Len(brought) : brought[i] = posts
    BY <2>1 DEF Brought, CallInv
  <2>7. \A i \in 1..Len(brought') : brought'[i] = posts
    BY <2>2, <2>6
  <2>8. Brought'
    BY <2>1, <2>7 DEF Brought
  <2> QED BY <2>1, <2>3, <2>5, <2>8 DEF CallInv
<1>10. ASSUME AnswerComplete \/ Drained PROVE CallInv'
  <2>1. /\ place \in {"stream", "drain"} /\ place' \in {"drain", "parse"}
        /\ UNCHANGED <<callSetting, sensitive, schema, refused, ask, allowance, withUsage, resend, posts, brought>>
    BY <1>10 DEF AnswerComplete, Drained
  <2>2. CallTypes'
    BY <1>a, <2>1 DEF CallTypes, Places, callSetting
  <2>3. Until' = Until /\ Lesson' = Lesson /\ Since' = Since
    BY <2>1, CountsKept DEF Since
  <2>4. Counted' /\ Limited' /\ Brought'
    BY <2>1, <2>3 DEF Counted, Limited, Brought, CallInv, callSetting
  <2>5. ~sensitive
    BY <2>1 DEF CallInv
  <2> QED BY <2>1, <2>2, <2>4, <2>5 DEF CallInv
<1>11. ASSUME FilterHit PROVE CallInv'
  <2>1. /\ sensitive' = TRUE /\ place' = "failed"
        /\ UNCHANGED <<callSetting, schema, refused, ask, allowance, withUsage, resend, posts, brought>>
    BY <1>11 DEF FilterHit, Fail
  <2>2. posts' \in Nat /\ posts' <= 3 * Attempts + 1
    BY <1>a, <2>1 DEF CallTypes, CallInv, Counted
  <2> QED BY <1>a, <2>1, <2>2, FailsKeep DEF callSetting, CallTypes
<1>12. ASSUME OutOfTokens PROVE CallInv'
  <2>1. /\ place = "stream"
        /\ \/ Repair(TRUE)
           \/ place' = "failed" /\ UNCHANGED <<ask, allowance>>
           \/ place' = "done" /\ UNCHANGED <<ask, allowance>>
        /\ UNCHANGED <<callSetting, sensitive, schema, refused, withUsage, resend, posts, brought>>
    BY <1>a, <1>12 DEF OutOfTokens, Fail, CallTypes
  <2>2. posts' \in Nat /\ posts' <= 3 * Attempts + 1
    BY <1>a, <2>1 DEF CallTypes, CallInv, Counted
  <2> QED BY <1>a, <2>1, <2>2, FailsKeep, DoneKeeps, RepairKeeps DEF callSetting, CallTypes
<1>13. ASSUME EndOfAnswer PROVE CallInv'
  <2>1. /\ place = "stream"
        /\ \/ Repair(FALSE)
           \/ place' = "failed" /\ UNCHANGED <<ask, allowance>>
           \/ place' = "done" /\ UNCHANGED <<ask, allowance>>
        /\ UNCHANGED <<callSetting, sensitive, schema, refused, withUsage, resend, posts, brought>>
    BY <1>13 DEF EndOfAnswer, Fail
  <2>2. posts' \in Nat /\ posts' <= 3 * Attempts + 1
    BY <1>a, <2>1 DEF CallTypes, CallInv, Counted
  <2> QED BY <1>a, <2>1, <2>2, FailsKeep, DoneKeeps, RepairKeeps DEF callSetting, CallTypes
<1>14. ASSUME Lost PROVE CallInv'
  <2>1. /\ place = "stream"
        /\ \/ Retry("lost")
           \/ place' = "failed" /\ UNCHANGED <<resend, brought>>
        /\ UNCHANGED <<callSetting, sensitive, schema, refused, ask, allowance, withUsage, posts>>
    BY <1>14 DEF Lost, Fail
  <2>2. posts' \in Nat /\ posts' <= 3 * Attempts + 1
    BY <1>a, <2>1 DEF CallTypes, CallInv, Counted
  <2>3. Since = resend + 1
    BY <2>1 DEF Since
  <2>4. posts' <= Until + resend + 1 + Lesson
    <3>1. posts <= Until + Since + Lesson /\ Until \in Nat /\ Lesson \in {0, 1} /\ resend \in Nat
      BY <1>a, <2>1, CountTypes DEF CallInv, Counted, CallTypes
    <3> QED BY <2>1, <2>3, <3>1
  <2> QED BY <1>a, <2>1, <2>2, <2>4, FailsKeep, RetryKeeps DEF callSetting, CallTypes
<1>15. ASSUME Parsed PROVE CallInv'
  <2>1. /\ place = "parse"
        /\ \/ Repair(FALSE)
           \/ place' = "done" /\ UNCHANGED <<ask, allowance>>
        /\ UNCHANGED <<callSetting, sensitive, schema, refused, withUsage, resend, posts, brought>>
    BY <1>15 DEF Parsed
  <2> QED BY <2>1, DoneKeeps, RepairKeeps
<1>16. ASSUME TimedOut PROVE CallInv'
  <2>1. /\ place' = "failed"
        /\ UNCHANGED <<callSetting, sensitive, schema, refused, ask, allowance, withUsage, resend, posts, brought>>
    BY <1>16 DEF TimedOut, Fail
  <2>2. posts' \in Nat /\ posts' <= 3 * Attempts + 1
    BY <1>a, <2>1 DEF CallTypes, CallInv, Counted
  <2> QED BY <1>a, <2>1, <2>2, FailsKeep DEF callSetting, CallTypes
<1>17. ASSUME UNCHANGED callVars PROVE CallInv'
  <2>1. UNCHANGED <<callSetting, sensitive, schema, refused, ask, allowance, withUsage, resend, posts, brought, place>>
    BY <1>17 DEF callVars, callSetting
  <2>2. CallTypes'
    BY <1>a, <2>1 DEF CallTypes, callSetting
  <2>3. Until' = Until /\ Lesson' = Lesson /\ Since' = Since
    BY <2>1, CountsKept DEF Since
  <2>4. Counted' /\ Limited' /\ Brought'
    BY <2>1, <2>3 DEF Counted, Limited, Brought, CallInv, callSetting
  <2> QED BY <2>1, <2>2, <2>4 DEF CallInv
<1> QED BY <1>1, <1>2, <1>3, <1>4, <1>5, <1>6, <1>7, <1>8, <1>9, <1>10, <1>11, <1>12, <1>13, <1>14, <1>15, <1>16, <1>17
        DEF CallNext, CallStep

----------------------------------------------------------------------------
(* The properties.                                                         *)

LEMMA InvBounded == CallInv => PostsBounded /\ OneAnswer /\ AllowanceFits
<1> SUFFICES ASSUME CallInv PROVE PostsBounded /\ OneAnswer /\ AllowanceFits
  OBVIOUS
<1>1. PostsBounded
  BY DEF CallInv, Counted, PostsBounded
<1>2. DOMAIN brought = 1..Len(brought)
  BY LenProperties DEF CallInv, CallTypes
<1>3. OneAnswer
  BY <1>2 DEF CallInv, Brought, OneAnswer
<1>4. ask \in {1, 2} /\ RepairCost \in Nat /\ allowance \in Nat
  BY CallAssumption DEF CallInv, CallTypes
<1>5. (ask - 1) * RepairCost = IF ask = 2 THEN RepairCost ELSE 0
  BY <1>4
<1>6. AllowanceFits
  BY <1>4, <1>5 DEF CallInv, Limited, AllowanceFits
<1> QED BY <1>1, <1>3, <1>6

\* A request is sent from one place only.
LEMMA PostsFrom ==
  ASSUME [CallNext]_callVars
  PROVE  place = "post" \/ posts' = posts
BY DEF CallNext, CallStep, callVars, BeginCall, Build, UsageRefused, Unavailable, Denied, SchemaRefused, Accepted, Delta,
       AnswerComplete, Drained, FilterHit, OutOfTokens, EndOfAnswer, Lost, Parsed, TimedOut, LearnedElsewhere

\* From the usage chunk a call goes on to the parser, or its time is over.
LEMMA DrainsTo ==
  ASSUME [CallNext]_callVars, place = "drain", verdict' # "timeout"
  PROVE  place' \in {"drain", "parse"}
BY DEF CallNext, CallStep, callVars, BeginCall, Build, UsageRefused, Unavailable, Denied, SchemaRefused, Accepted, Delta,
       AnswerComplete, Drained, FilterHit, OutOfTokens, EndOfAnswer, Lost, Parsed, TimedOut, LearnedElsewhere, Fail

\* However the requests of a call fail, and in whatever order: they are bounded, none follows an answer the
\* content filter ended, no text comes from two answers, a complete object is not thrown away, and every ask
\* fits the window (llm/structured_output.py over llm/client.py).
THEOREM CallSound == CallSpec => CallIsSound
<1>1. CallInv /\ [CallNext]_callVars => CallInv'
  BY CallStepInv
<1>2. CallInv /\ [CallNext]_callVars => (sensitive => posts' = posts)
  BY PostsFrom DEF CallInv
<1>3. CallInv /\ [CallNext]_callVars => (place = "drain" /\ verdict' # "timeout" => place' \in {"drain", "parse"})
  BY DrainsTo
<1>4. CallInv /\ [CallNext]_callVars => [sensitive => posts' = posts]_callVars
  BY <1>2
<1>5. CallInv /\ [CallNext]_callVars => [place = "drain" /\ verdict' # "timeout" => place' \in {"drain", "parse"}]_callVars
  BY <1>3
<1> QED BY <1>1, <1>4, <1>5, CallInitInv, InvBounded, PTL DEF CallSpec, CallIsSound, FilteredIsFinal, CompleteIsKept
-----------------------------------------------------------------------------
(* ProseRun: every number of candidates, scenes, attempts and receipts, and  *)
(* answers of any length.                                                    *)

Written == Nat \X Nat
TextsOf == Seq(Written)
Said(text) == {text[i] : i \in DOMAIN text}

\* All of a text is from the requests R.
MadeBy(text, R) == \A i \in 1..Len(text) : text[i][1] \in R

\* A text that goes on behind a base: it opens with j echoes of the last piece of the base, and what
\* follows is new, each piece once.
OpensWith(base, old, text, j) ==
  /\ j \in 0..Len(text)
  /\ j > 0 => base # <<>> /\ \A i \in 1..j : text[i] = base[Len(base)]
  /\ \A i \in j + 1..Len(text) : text[i] \notin old
  /\ \A i, k \in j + 1..Len(text) : text[i] = text[k] => i = k

\* What of a text is behind its echoes.
Behind(text, j) == SubSeq(text, j + 1, Len(text))

----------------------------------------------------------------------------
(* Texts and their echoes.                                                 *)

LEMMA LeastNumber ==
  ASSUME NEW S \in SUBSET Nat, S # {}
  PROVE  \E x \in S : \A y \in S : x <= y
<1> DEFINE R == OpToRel(<, Nat)
<1>1. IsWellFoundedOn(R, Nat)
  BY NatLessThanWellFounded
<1>2. \A k, m \in S : k < m => <<k, m>> \in R
  BY DEF OpToRel
<1>3. PICK m \in S : \A k \in S : <<k, m>> \notin R
  <2> HIDE DEF R
  <2> QED BY <1>1, WFMin
<1>4. \A k \in S : ~(k < m)
  BY <1>2, <1>3
<1>5. \A k \in S : m <= k
  BY <1>4
<1> QED BY <1>5

\* The greatest of some numbers up to a bound.
LEMMA GreatestOf ==
  ASSUME NEW b \in Nat, NEW S \in SUBSET (0..b), S # {}
  PROVE  Max(S) \in S /\ \A y \in S : y <= Max(S)
<1> DEFINE T == {n \in Nat : \A y \in S : y <= n}
<1>1. T \in SUBSET Nat /\ \A n : n \in T <=> n \in Nat /\ \A y \in S : y <= n
  OBVIOUS
<1>2. b \in T
  OBVIOUS
<1> HIDE DEF T
<1>3. PICK m \in T : \A y \in T : m <= y
  BY <1>1, <1>2, LeastNumber
<1>4. m \in Nat /\ \A y \in S : y <= m
  BY <1>1, <1>3
<1>5. m \in S
  <2>1. SUFFICES ASSUME m \notin S PROVE FALSE
    OBVIOUS
  <2>2. \E s : s \in S
    OBVIOUS
  <2>3. \A y \in S : y \in Nat /\ y <= m /\ y # m
    BY <1>4, <2>1
  <2>4. m # 0
    BY <1>4, <2>2, <2>3
  <2>5. m - 1 \in T
    BY <1>1, <1>4, <2>3, <2>4
  <2> QED BY <1>3, <1>4, <2>5
<1> QED BY <1>4, <1>5 DEF Max

LEMMA LesserOfTwo ==
  ASSUME NEW a \in Nat, NEW b \in Nat
  PROVE  Min({a, b}) = IF a <= b THEN a ELSE b
<1> DEFINE m == IF a <= b THEN a ELSE b
<1>1. m \in {a, b} /\ \A y \in {a, b} : m =< y
  OBVIOUS
<1>2. ASSUME NEW x \in {a, b}, \A y \in {a, b} : x =< y PROVE x = m
  BY <1>2
<1> QED BY <1>1, <1>2 DEF Min

LEMMA TextHas ==
  ASSUME NEW text \in TextsOf
  PROVE  /\ Len(text) \in Nat /\ DOMAIN text = 1..Len(text)
         /\ \A i \in 1..Len(text) : text[i] \in Written /\ text[i] \in Said(text)
         /\ \A x \in Said(text) : \E i \in 1..Len(text) : x = text[i]
<1>1. Len(text) \in Nat /\ DOMAIN text = 1..Len(text)
  BY DEF TextsOf
<1>2. \A i \in 1..Len(text) : text[i] \in Written
  BY ElementOfSeq DEF TextsOf
<1> QED BY <1>1, <1>2 DEF Said

\* The end of a text.
LEMMA BehindIs ==
  ASSUME NEW text \in TextsOf, NEW j \in 0..Len(text)
  PROVE  /\ Behind(text, j) \in TextsOf /\ Len(Behind(text, j)) = Len(text) - j
         /\ \A i \in 1..Len(text) - j : Behind(text, j)[i] = text[j + i]
<1>1. PICK top \in Nat : top = Len(text)
  BY TextHas
<1>2. j \in Nat /\ j <= top
  BY <1>1
<1>3. \A i \in j + 1..top : text[i] \in Written
  BY <1>1, <1>2, TextHas
<1>4. /\ SubSeq(text, j + 1, top) \in Seq(Written)
      /\ Len(SubSeq(text, j + 1, top)) = IF j + 1 <= top THEN top - (j + 1) + 1 ELSE 0
      /\ \A i \in 1..top - (j + 1) + 1 : SubSeq(text, j + 1, top)[i] = text[j + 1 + i - 1]
  BY <1>2, <1>3, SubSeqProperties
<1>5. PICK end : end = Behind(text, j)
  OBVIOUS
<1>6. end \in Seq(Written) /\ Len(end) = top - j
  BY <1>1, <1>2, <1>4, <1>5 DEF Behind
<1>7. \A i \in 1..top - j : end[i] = text[j + i]
  <2>1. TAKE i \in 1..top - j
  <2>2. end[i] = text[j + 1 + i - 1] /\ j + 1 + i - 1 = j + i
    BY <1>1, <1>2, <1>4, <1>5 DEF Behind
  <2> QED BY <2>2
<1> QED BY <1>1, <1>5, <1>6, <1>7 DEF TextsOf

LEMMA AllBehind ==
  ASSUME NEW text \in TextsOf
  PROVE  Behind(text, 0) = text
<1>1. 0 \in 0..Len(text) /\ Len(text) \in Nat
  BY TextHas
<1>2. Behind(text, 0) \in TextsOf /\ Len(Behind(text, 0)) = Len(text) /\ \A i \in 1..Len(text) : Behind(text, 0)[i] = text[i]
  BY <1>1, BehindIs
<1> QED BY <1>1, <1>2, SeqEqual DEF TextsOf

LEMMA BehindBehind ==
  ASSUME NEW text \in TextsOf, NEW j \in 0..Len(text), NEW k \in 0..Len(text) - j
  PROVE  Behind(Behind(text, j), k) = Behind(text, j + k)
<1>1. PICK top \in Nat : top = Len(text)
  BY TextHas
<1>2. PICK one : one = Behind(text, j)
  OBVIOUS
<1>3. one \in TextsOf /\ Len(one) = top - j /\ \A i \in 1..top - j : one[i] = text[j + i]
  BY <1>1, <1>2, BehindIs
<1>4. k \in 0..Len(one) /\ j + k \in 0..top
  BY <1>1, <1>3
<1>5. PICK two, both : two = Behind(one, k) /\ both = Behind(text, j + k)
  OBVIOUS
<1>6. two \in TextsOf /\ Len(two) = top - j - k /\ \A i \in 1..top - j - k : two[i] = one[k + i]
  BY <1>3, <1>4, <1>5, BehindIs
<1>7. both \in TextsOf /\ Len(both) = top - (j + k) /\ \A i \in 1..top - (j + k) : both[i] = text[j + k + i]
  BY <1>1, <1>4, <1>5, BehindIs
<1>8. Len(two) = Len(both)
  BY <1>1, <1>4, <1>6, <1>7
<1>9. \A i \in 1..Len(two) : two[i] = both[i]
  <2>1. TAKE i \in 1..Len(two)
  <2>2. i \in 1..top - j - k /\ i \in 1..top - (j + k) /\ k + i \in 1..top - j /\ j + (k + i) = j + k + i
    BY <1>1, <1>4, <1>6
  <2> QED BY <1>3, <1>6, <1>7, <2>2
<1> QED BY <1>2, <1>5, <1>6, <1>7, <1>8, <1>9, SeqEqual DEF TextsOf

\* An echo is taken off, at least one if there is one, and nothing that is new.
LEMMA EchoStripped ==
  ASSUME NEW base \in TextsOf, NEW extra \in TextsOf, NEW old, NEW j, OpensWith(base, old, extra, j), Said(base) \subseteq old
  PROVE  \E n \in 0..j : WithoutEcho(base, extra) = Behind(extra, n) /\ (j > 0 => n > 0)
<1>1. PICK here \in Nat, there \in Nat : here = Len(base) /\ there = Len(extra)
  BY TextHas
<1>2. j \in 0..there /\ j \in Nat
  BY <1>1 DEF OpensWith
<1>3. PICK m \in Nat : m = Min({here, there}) /\ m <= here /\ m <= there /\ (m = here \/ m = there)
  <2>1. Min({here, there}) = IF here <= there THEN here ELSE there
    BY LesserOfTwo
  <2> QED BY <2>1
<1>4. \A i \in 1..here : base[i] \in Written /\ base[i] \in Said(base)
  BY <1>1, TextHas
<1>5. \A i \in 1..there : extra[i] \in Written
  BY <1>1, TextHas
<1> DEFINE S == {n \in 0..m : SubSeq(base, here - n + 1, here) = SubSeq(extra, 1, n)}
<1>6. Overlap(base, extra) = Max(S)
  BY <1>1, <1>3 DEF Overlap
<1>7. ASSUME NEW n \in 0..m
      PROVE  /\ Len(SubSeq(base, here - n + 1, here)) = n /\ Len(SubSeq(extra, 1, n)) = n
             /\ SubSeq(base, here - n + 1, here) \in Seq(Written) /\ SubSeq(extra, 1, n) \in Seq(Written)
             /\ \A i \in 1..n : SubSeq(base, here - n + 1, here)[i] = base[here - n + i] /\ SubSeq(extra, 1, n)[i] = extra[i]
  <2>1. n \in Nat /\ n <= here /\ n <= there
    BY <1>3, <1>7
  <2>2. PICK l \in Nat : l = here - n + 1 /\ l >= 1
    BY <2>1
  <2>3. \A i \in l..here : base[i] \in Written
    BY <1>4, <2>2
  <2>4. /\ SubSeq(base, l, here) \in Seq(Written)
        /\ Len(SubSeq(base, l, here)) = IF l <= here THEN here - l + 1 ELSE 0
        /\ \A i \in 1..here - l + 1 : SubSeq(base, l, here)[i] = base[l + i - 1]
    BY <2>2, <2>3, SubSeqProperties
  <2>5. Len(SubSeq(base, l, here)) = n
    BY <2>1, <2>2, <2>4
  <2>6. \A i \in 1..n : SubSeq(base, l, here)[i] = base[here - n + i]
    <3>1. TAKE i \in 1..n
    <3>2. i \in 1..here - l + 1 /\ l + i - 1 = here - n + i
      BY <2>1, <2>2
    <3> QED BY <2>4, <3>2
  <2>7. \A i \in 1..n : extra[i] \in Written
    BY <1>5, <2>1
  <2>8. /\ SubSeq(extra, 1, n) \in Seq(Written)
        /\ Len(SubSeq(extra, 1, n)) = IF 1 <= n THEN n - 1 + 1 ELSE 0
        /\ \A i \in 1..n - 1 + 1 : SubSeq(extra, 1, n)[i] = extra[1 + i - 1]
    BY <2>1, <2>7, SubSeqProperties
  <2>9. Len(SubSeq(extra, 1, n)) = n
    BY <2>1, <2>8
  <2>10. \A i \in 1..n : SubSeq(extra, 1, n)[i] = extra[i]
    <3>1. TAKE i \in 1..n
    <3>2. i \in 1..n - 1 + 1 /\ 1 + i - 1 = i
      BY <2>1
    <3> QED BY <2>8, <3>2
  <2> QED BY <2>2, <2>4, <2>5, <2>6, <2>8, <2>9, <2>10
<1>8. 0 \in S
  <2>1. 0 \in 0..m
    BY <1>3
  <2> HIDE DEF S
  <2>2. PICK one, two : one = SubSeq(base, here - 0 + 1, here) /\ two = SubSeq(extra, 1, 0)
    OBVIOUS
  <2>3. one \in Seq(Written) /\ two \in Seq(Written) /\ Len(one) = 0 /\ Len(two) = 0
    BY <1>7, <2>1, <2>2
  <2>4. one = two
    BY <2>3
  <2> QED BY <2>1, <2>2, <2>4 DEF S
<1>9. ASSUME j > 0 PROVE 1 \in S
  <2>1. here > 0 /\ there > 0 /\ extra[1] = base[here]
    <3>1. base # <<>> /\ \A i \in 1..j : extra[i] = base[Len(base)]
      BY <1>9 DEF OpensWith
    <3>2. base \in Seq(Written)
      BY DEF TextsOf
    <3>3. here # 0
      BY <1>1, <3>1, <3>2
    <3> QED BY <1>1, <1>2, <1>9, <3>1, <3>3
  <2>2. 1 \in 0..m
    BY <1>3, <2>1
  <2>3. PICK one, two : one = SubSeq(base, here - 1 + 1, here) /\ two = SubSeq(extra, 1, 1)
    OBVIOUS
  <2>4. /\ one \in Seq(Written) /\ two \in Seq(Written) /\ Len(one) = 1 /\ Len(two) = 1
        /\ \A i \in 1..1 : one[i] = base[here - 1 + i] /\ two[i] = extra[i]
    BY <1>7, <2>2, <2>3
  <2>5. one[1] = two[1]
    BY <2>1, <2>4
  <2>6. one = two
    <3>1. Len(one) = Len(two)
      BY <2>4
    <3>2. \A i \in 1..Len(one) : one[i] = two[i]
      BY <2>4, <2>5
    <3> QED BY <2>4, <3>1, <3>2, SeqEqual
  <2> QED BY <2>2, <2>3, <2>6
<1>10. ASSUME NEW n \in S PROVE n <= j
  <2>1. n \in 0..m /\ n \in Nat /\ n <= here /\ n <= there /\ SubSeq(base, here - n + 1, here) = SubSeq(extra, 1, n)
    BY <1>3, <1>10
  <2>2. SUFFICES ASSUME n > j PROVE FALSE
    BY <1>2, <2>1
  <2>3. j + 1 \in 1..n /\ here - n + (j + 1) \in 1..here /\ j + 1 \in j + 1..there
    BY <1>2, <2>1, <2>2
  <2>4. base[here - n + (j + 1)] = extra[j + 1]
    BY <1>7, <2>1, <2>3
  <2>5. extra[j + 1] \notin old
    BY <1>1, <2>3 DEF OpensWith
  <2> QED BY <1>4, <2>3, <2>4, <2>5
<1>11. S \in SUBSET (0..m) /\ S # {}
  BY <1>8
<1> HIDE DEF S
<1>12. Max(S) \in S /\ \A y \in S : y <= Max(S)
  BY <1>3, <1>11, GreatestOf
<1>13. PICK n : n = Max(S)
  OBVIOUS
<1>14. n \in S /\ n \in Nat /\ n <= j
  <2>1. n \in S
    BY <1>12, <1>13
  <2>2. n \in 0..m
    BY <1>11, <2>1
  <2> QED BY <1>10, <2>1, <2>2
<1>15. n \in 0..j /\ (j > 0 => n > 0)
  BY <1>2, <1>9, <1>12, <1>13, <1>14
<1>16. WithoutEcho(base, extra) = Behind(extra, n)
  BY <1>6, <1>13 DEF WithoutEcho, Behind
<1> QED BY <1>15, <1>16

LEMMA OpensBehind ==
  ASSUME NEW base \in TextsOf, NEW text \in TextsOf, NEW old, NEW j, OpensWith(base, old, text, j), NEW n \in 0..j
  PROVE  OpensWith(base, old, Behind(text, n), j - n)
<1>1. PICK top \in Nat : top = Len(text)
  BY TextHas
<1>2. j \in 0..top /\ j \in Nat /\ n \in Nat /\ n \in 0..Len(text)
  BY <1>1 DEF OpensWith
<1>3. PICK end : end = Behind(text, n)
  OBVIOUS
<1>4. end \in TextsOf /\ Len(end) = top - n /\ \A i \in 1..top - n : end[i] = text[n + i]
  BY <1>1, <1>2, <1>3, BehindIs
<1>5. j - n \in 0..Len(end)
  BY <1>2, <1>4
<1>6. ASSUME j - n > 0 PROVE base # <<>> /\ \A i \in 1..j - n : end[i] = base[Len(base)]
  <2>1. base # <<>> /\ \A i \in 1..j : text[i] = base[Len(base)]
    BY <1>2, <1>6 DEF OpensWith
  <2>2. ASSUME NEW i \in 1..j - n PROVE end[i] = base[Len(base)]
    <3>1. i \in 1..top - n /\ n + i \in 1..j
      BY <1>2
    <3> QED BY <1>4, <2>1, <3>1
  <2> QED BY <2>1, <2>2
<1>7. ASSUME NEW i \in j - n + 1..Len(end) PROVE end[i] = text[n + i] /\ n + i \in j + 1..top
  <2>1. i \in 1..top - n /\ n + i \in j + 1..top
    BY <1>2, <1>4
  <2> QED BY <1>4, <2>1
<1>8. \A i \in j - n + 1..Len(end) : end[i] \notin old
  BY <1>1, <1>7 DEF OpensWith
<1>9. ASSUME NEW i \in j - n + 1..Len(end), NEW k \in j - n + 1..Len(end), end[i] = end[k] PROVE i = k
  <2>1. text[n + i] = text[n + k] /\ n + i \in j + 1..Len(text) /\ n + k \in j + 1..Len(text)
    BY <1>1, <1>7, <1>9
  <2>2. n + i = n + k
    BY <2>1 DEF OpensWith
  <2>3. i \in Int /\ k \in Int
    BY <1>2, <1>4
  <2> QED BY <1>2, <2>2, <2>3
<1> QED BY <1>3, <1>5, <1>6, <1>8, <1>9 DEF OpensWith

\* _clean_repair_continuation: up to three echoes are taken off, and nothing else.
LEMMA EchoesStripped ==
  ASSUME NEW base \in TextsOf, NEW extra \in TextsOf, NEW old, NEW j, OpensWith(base, old, extra, j), Said(base) \subseteq old, j <= 3
  PROVE  Continuation(base, extra) = Behind(extra, j)
<1>1. PICK top \in Nat : top = Len(extra)
  BY TextHas
<1>2. j \in 0..top /\ j \in Nat
  BY <1>1 DEF OpensWith
<1>3. PICK n1 \in 0..j : WithoutEcho(base, extra) = Behind(extra, n1) /\ (j > 0 => n1 > 0)
  BY EchoStripped
<1>4. PICK one : one = WithoutEcho(base, extra)
  OBVIOUS
<1>5. n1 \in 0..Len(extra) /\ n1 \in Nat
  BY <1>1, <1>2
<1>6. one \in TextsOf /\ OpensWith(base, old, one, j - n1)
  BY <1>3, <1>4, <1>5, BehindIs, OpensBehind
<1>7. PICK n2 \in 0..j - n1 : WithoutEcho(base, one) = Behind(one, n2) /\ (j - n1 > 0 => n2 > 0)
  BY <1>6, EchoStripped
<1>8. PICK two : two = WithoutEcho(base, one)
  OBVIOUS
<1>9. two = Behind(extra, n1 + n2) /\ n1 + n2 \in 0..j
  <2>1. n2 \in 0..Len(extra) - n1 /\ n1 + n2 \in 0..j
    BY <1>1, <1>2, <1>5
  <2> QED BY <1>3, <1>4, <1>5, <1>7, <1>8, <2>1, BehindBehind
<1>10. two \in TextsOf /\ OpensWith(base, old, two, j - (n1 + n2))
  <2>1. n1 + n2 \in 0..Len(extra)
    BY <1>1, <1>2, <1>9
  <2> QED BY <1>9, <2>1, BehindIs, OpensBehind
<1>11. PICK n3 \in 0..j - (n1 + n2) : WithoutEcho(base, two) = Behind(two, n3) /\ (j - (n1 + n2) > 0 => n3 > 0)
  BY <1>10, EchoStripped
<1>12. WithoutEcho(base, two) = Behind(extra, n1 + n2 + n3)
  <2>1. n1 + n2 \in 0..Len(extra) /\ n3 \in 0..Len(extra) - (n1 + n2)
    BY <1>1, <1>2, <1>9
  <2> QED BY <1>9, <1>11, <2>1, BehindBehind
<1>13. n1 + n2 + n3 = j
  BY <1>2, <1>3, <1>5, <1>7, <1>9, <1>11
<1> QED BY <1>4, <1>8, <1>12, <1>13 DEF Continuation

----------------------------------------------------------------------------
(* Receipts.                                                               *)

OthersBody(kept, input, f, m) ==
  [n \in 0..m |-> IF n = 0 THEN <<>>
                  ELSE IF kept[n].input = input THEN f[n - 1] ELSE Append(f[n - 1], kept[n])]

LEMMA OthersThere ==
  ASSUME NEW kept, NEW input
  PROVE  \A m \in Nat : \E f : f = OthersBody(kept, input, f, m)
<1> DEFINE Step(n, last) == IF kept[n].input = input THEN last ELSE Append(last, kept[n])
<1>1. PICK bad \in SUBSET Nat : bad = {m \in Nat : ~\E f : f = OthersBody(kept, input, f, m)}
  OBVIOUS
<1>2. SUFFICES ASSUME bad # {} PROVE FALSE
  BY <1>1
<1>3. PICK m \in bad : \A y \in bad : m <= y
  BY <1>2, LeastNumber
<1>4. CASE m = 0
  <2>1. PICK f : f = [n \in 0..0 |-> <<>>]
    OBVIOUS
  <2>2. f = OthersBody(kept, input, f, 0)
    BY <2>1 DEF OthersBody
  <2> QED BY <1>1, <1>3, <1>4, <2>2
<1>5. CASE m # 0
  <2>1. PICK j \in Nat : m = j + 1
    BY <1>5
  <2>2. j \notin bad
    BY <1>3, <2>1
  <2>3. PICK g : g = OthersBody(kept, input, g, j)
    BY <1>1, <2>2
  <2> HIDE DEF Step
  <2>4. PICK f : f = [n \in 0..m |-> IF n <= j THEN g[n] ELSE Step(m, g[j])]
    OBVIOUS
  <2>5. ASSUME NEW n \in 0..m
        PROVE  f[n] = IF n = 0 THEN <<>> ELSE Step(n, f[n - 1])
    <3>1. CASE n <= j
      <4>1. f[n] = g[n] /\ n \in 0..j
        BY <2>4, <3>1
      <4>2. g[n] = IF n = 0 THEN <<>> ELSE Step(n, g[n - 1])
        BY <2>3, <4>1 DEF OthersBody, Step
      <4>3. n # 0 => f[n - 1] = g[n - 1]
        BY <2>1, <2>4, <3>1
      <4> QED BY <4>1, <4>2, <4>3
    <3>2. CASE ~(n <= j)
      <4>1. n = m /\ n - 1 = j /\ n # 0
        BY <2>1, <3>2
      <4>2. f[n] = Step(m, g[j])
        BY <2>4, <3>2
      <4>3. f[n - 1] = g[j]
        BY <2>1, <2>4, <4>1
      <4> QED BY <4>1, <4>2, <4>3
    <3> QED BY <3>1, <3>2
  <2>6. f = [n \in 0..m |-> f[n]]
    BY <2>4
  <2>7. f = OthersBody(kept, input, f, m)
    BY <2>5, <2>6 DEF OthersBody, Step
  <2> QED BY <1>1, <2>7
<1> QED BY <1>4, <1>5

LEMMA OthersAt ==
  ASSUME NEW kept, Len(kept) \in Nat, NEW input, NEW n \in 0..Len(kept)
  PROVE  OthersUpTo(kept, input)[n] = IF n = 0 THEN <<>>
           ELSE IF kept[n].input = input THEN OthersUpTo(kept, input)[n - 1]
           ELSE Append(OthersUpTo(kept, input)[n - 1], kept[n])
<1>1. PICK f : f = OthersBody(kept, input, f, Len(kept))
  BY OthersThere
<1>2. OthersUpTo(kept, input) = CHOOSE g : g = OthersBody(kept, input, g, Len(kept))
  BY DEF OthersUpTo, OthersBody
<1>3. PICK h : h = OthersUpTo(kept, input)
  OBVIOUS
<1>4. h = OthersBody(kept, input, h, Len(kept))
  BY <1>1, <1>2, <1>3
<1>5. h[n] = IF n = 0 THEN <<>> ELSE IF kept[n].input = input THEN h[n - 1] ELSE Append(h[n - 1], kept[n])
  BY <1>4 DEF OthersBody
<1> QED BY <1>3, <1>5

Takes == {"first", "again", "more"}
Inputs == [candidate : Nat, rehearsal : Nat, done : TextsOf, take : Takes, segment : TextsOf]
ReceiptsOf == [input : Inputs, text : TextsOf, complete : BOOLEAN]

\* No two receipts for one request.
OneForEach(kept) == \A i, k \in 1..Len(kept) : kept[i].input = kept[k].input => i = k

\* What is kept of the others: receipts there were, each for another input.
KeptOf(kept, some, input, n) ==
  /\ some \in Seq(ReceiptsOf)
  /\ OneForEach(some)
  /\ \A i \in 1..Len(some) : some[i].input # input /\ \E k \in 1..n : some[i] = kept[k]

LEMMA AppendHas ==
  ASSUME NEW S, NEW s \in Seq(S), NEW x \in S
  PROVE  /\ Append(s, x) \in Seq(S) /\ Len(s) \in Nat /\ Len(Append(s, x)) = Len(s) + 1
         /\ \A i \in 1..Len(s) : Append(s, x)[i] = s[i]
         /\ Append(s, x)[Len(s) + 1] = x
OBVIOUS

LEMMA OthersKept ==
  ASSUME NEW kept \in Seq(ReceiptsOf), OneForEach(kept), NEW input
  PROVE  \A n \in 0..Len(kept) : KeptOf(kept, OthersUpTo(kept, input)[n], input, n)
<1>1. PICK up : up = OthersUpTo(kept, input)
  OBVIOUS
<1>2. PICK top \in Nat : top = Len(kept)
  OBVIOUS
<1>3. \A n \in 0..top : up[n] = IF n = 0 THEN <<>> ELSE IF kept[n].input = input THEN up[n - 1] ELSE Append(up[n - 1], kept[n])
  BY <1>1, <1>2, OthersAt
<1> DEFINE Bad == {n \in 0..top : ~KeptOf(kept, up[n], input, n)}
<1>4. PICK bad \in SUBSET Nat : bad = Bad
  <2>1. 0..top \subseteq Nat /\ Bad \subseteq 0..top
    BY <1>2
  <2> HIDE DEF Bad
  <2> QED BY <2>1
<1>5. SUFFICES ASSUME bad # {} PROVE FALSE
  BY <1>1, <1>2, <1>4
<1>6. PICK n \in bad : \A y \in bad : n <= y
  BY <1>5, LeastNumber
<1>7. n \in 0..top /\ n \in Nat /\ ~KeptOf(kept, up[n], input, n)
  BY <1>4
<1>8. n # 0
  <2>1. ASSUME n = 0 PROVE FALSE
    <3>1. up[0] = <<>>
      BY <1>3, <1>7, <2>1
    <3>2. <<>> \in Seq(ReceiptsOf) /\ Len(<<>>) = 0
      OBVIOUS
    <3>3. KeptOf(kept, <<>>, input, 0)
      BY <3>2 DEF KeptOf, OneForEach
    <3> QED BY <1>7, <2>1, <3>1, <3>3
  <2> QED BY <2>1
<1>9. PICK j \in Nat : n = j + 1
  BY <1>7, <1>8
<1>10. j \in 0..top /\ j \notin bad
  BY <1>6, <1>7, <1>9
<1>11. PICK some : some = up[j]
  OBVIOUS
<1>12. KeptOf(kept, some, input, j)
  BY <1>4, <1>10, <1>11
<1>13. up[n] = IF kept[n].input = input THEN some ELSE Append(some, kept[n])
  BY <1>3, <1>7, <1>8, <1>9, <1>11
<1>14. kept[n] \in ReceiptsOf
  BY <1>2, <1>7, <1>8, ElementOfSeq
<1>15. CASE kept[n].input = input
  <2>1. up[n] = some
    BY <1>13, <1>15
  <2>2. KeptOf(kept, some, input, n)
    BY <1>9, <1>12 DEF KeptOf
  <2> QED BY <1>7, <2>1, <2>2
<1>16. CASE kept[n].input # input
  <2>1. up[n] = Append(some, kept[n])
    BY <1>13, <1>16
  <2>2. PICK all : all = Append(some, kept[n])
    OBVIOUS
  <2>3. some \in Seq(ReceiptsOf)
    BY <1>12 DEF KeptOf
  <2>4. PICK l \in Nat : l = Len(some)
    BY <2>3
  <2>5. all \in Seq(ReceiptsOf) /\ Len(all) = l + 1 /\ (\A i \in 1..l : all[i] = some[i]) /\ all[l + 1] = kept[n]
    BY <1>14, <2>2, <2>3, <2>4, AppendHas
  <2>6. \A i \in 1..l : all[i].input # input /\ \E k \in 1..j : all[i] = kept[k]
    BY <1>12, <2>4, <2>5 DEF KeptOf
  <2>7. ASSUME NEW i \in 1..l + 1 PROVE all[i].input # input /\ \E k \in 1..n : all[i] = kept[k]
    <3>1. CASE i = l + 1
      BY <1>7, <1>8, <1>16, <2>5, <3>1
    <3>2. CASE i # l + 1
      <4>1. i \in 1..l
        BY <2>4, <3>2
      <4>2. PICK k \in 1..j : all[i] = kept[k]
        BY <2>6, <4>1
      <4>3. k \in 1..n
        BY <1>9
      <4> QED BY <2>6, <4>1, <4>2, <4>3
    <3> QED BY <3>1, <3>2
  <2>8. ASSUME NEW i \in 1..l PROVE all[i].input # kept[n].input
    <3>1. PICK k \in 1..j : all[i] = kept[k]
      BY <2>6
    <3>2. k \in 1..top /\ n \in 1..top /\ k # n
      BY <1>2, <1>7, <1>8, <1>9
    <3>3. kept[k].input # kept[n].input
      BY <1>2, <3>2 DEF OneForEach
    <3> QED BY <3>1, <3>3
  <2>9. ASSUME NEW i \in 1..l + 1, NEW k \in 1..l + 1, all[i].input = all[k].input PROVE i = k
    <3>1. (i \in 1..l \/ i = l + 1) /\ (k \in 1..l \/ k = l + 1)
      BY <2>4
    <3>2. CASE i \in 1..l /\ k \in 1..l
      <4>1. some[i].input = some[k].input
        BY <2>5, <2>9, <3>2
      <4> QED BY <1>12, <2>4, <3>2, <4>1 DEF KeptOf, OneForEach
    <3>3. CASE i = l + 1 /\ k \in 1..l
      BY <2>5, <2>8, <2>9, <3>3
    <3>4. CASE k = l + 1 /\ i \in 1..l
      BY <2>5, <2>8, <2>9, <3>4
    <3> QED BY <3>1, <3>2, <3>3, <3>4
  <2>10. KeptOf(kept, all, input, n)
    <3>1. OneForEach(all)
      BY <2>5, <2>9 DEF OneForEach
    <3> QED BY <2>5, <2>7, <3>1 DEF KeptOf
  <2> QED BY <1>7, <2>1, <2>2, <2>10
<1> QED BY <1>15, <1>16

\* The last of a sequence.
EndOf(end, s, S) ==
  \E d \in Nat : /\ end \in Seq(S) /\ d <= Len(s) /\ Len(end) = Len(s) - d
                 /\ \A i \in 1..Len(s) - d : end[i] = s[d + i]

LEMMA LastOfIs ==
  ASSUME NEW S, NEW s \in Seq(S), NEW k \in Nat \ {0}
  PROVE  EndOf(LastOf(k, s), s, S)
<1>1. PICK top \in Nat : top = Len(s)
  OBVIOUS
<1>2. PICK l \in Nat : l = IF top > k THEN top - k + 1 ELSE 1
  BY <1>1
<1>3. l >= 1 /\ l <= top + 1
  BY <1>1, <1>2
<1>4. \A i \in l..top : s[i] \in S
  BY <1>1, <1>3, ElementOfSeq
<1>5. /\ SubSeq(s, l, top) \in Seq(S)
      /\ Len(SubSeq(s, l, top)) = IF l <= top THEN top - l + 1 ELSE 0
      /\ \A i \in 1..top - l + 1 : SubSeq(s, l, top)[i] = s[l + i - 1]
  BY <1>3, <1>4, SubSeqProperties
<1>6. PICK end : end = LastOf(k, s)
  OBVIOUS
<1>7. end = SubSeq(s, l, top)
  BY <1>1, <1>2, <1>6 DEF LastOf
<1>8. PICK d \in Nat : d = l - 1
  BY <1>3
<1>9. end \in Seq(S) /\ d <= top /\ Len(end) = top - d
  BY <1>3, <1>5, <1>7, <1>8
<1>10. \A i \in 1..top - d : end[i] = s[d + i]
  <2>1. TAKE i \in 1..top - d
  <2>2. i \in 1..top - l + 1 /\ l + i - 1 = d + i
    BY <1>8
  <2> QED BY <1>5, <1>7, <2>2
<1> QED BY <1>1, <1>6, <1>9, <1>10 DEF EndOf

\* save_checkpoint: one receipt for each input, the one given for the request at hand.
LEMMA Persisted ==
  ASSUME receipts \in Seq(ReceiptsOf), OneForEach(receipts), NEW text \in TextsOf, NEW complete \in BOOLEAN,
         Input \in Inputs, KeepReceipts \in Nat \ {0}, Persist(text, complete)
  PROVE  /\ receipts' \in Seq(ReceiptsOf) /\ OneForEach(receipts')
         /\ \A i \in 1..Len(receipts') :
              \/ receipts'[i] = [input |-> Input, text |-> text, complete |-> complete]
              \/ receipts'[i].input # Input /\ \E k \in 1..Len(receipts) : receipts'[i] = receipts[k]
<1>1. PICK new : new = [input |-> Input, text |-> text, complete |-> complete]
  OBVIOUS
<1>2. new \in ReceiptsOf /\ new.input = Input
  BY <1>1 DEF ReceiptsOf
<1>3. PICK n \in Nat : n = Len(receipts)
  OBVIOUS
<1>4. PICK some : some = OthersUpTo(receipts, Input)[n]
  OBVIOUS
<1>5. KeptOf(receipts, some, Input, n)
  BY <1>3, <1>4, OthersKept
<1>6. some \in Seq(ReceiptsOf)
  BY <1>5 DEF KeptOf
<1>7. PICK l \in Nat : l = Len(some)
  BY <1>6
<1>8. PICK all : all = Append(some, new)
  OBVIOUS
<1>9. all \in Seq(ReceiptsOf) /\ Len(all) = l + 1 /\ (\A i \in 1..l : all[i] = some[i]) /\ all[l + 1] = new
  BY <1>2, <1>6, <1>7, <1>8, AppendHas
<1>10. PICK after : after = receipts'
  OBVIOUS
<1>11. after = LastOf(KeepReceipts, all)
  BY <1>1, <1>3, <1>4, <1>8, <1>10 DEF Persist
<1>12. PICK d \in Nat : after \in Seq(ReceiptsOf) /\ d <= l + 1 /\ Len(after) = l + 1 - d /\ \A i \in 1..l + 1 - d : after[i] = all[d + i]
  <2>1. EndOf(after, all, ReceiptsOf)
    BY <1>9, <1>11, LastOfIs
  <2>2. PICK d \in Nat : /\ after \in Seq(ReceiptsOf) /\ d <= Len(all) /\ Len(after) = Len(all) - d
                        /\ \A i \in 1..Len(all) - d : after[i] = all[d + i]
    BY ONLY <2>1 DEF EndOf
  <2>3. Len(all) = l + 1
    BY <1>9
  <2>4. after \in Seq(ReceiptsOf) /\ d <= l + 1 /\ Len(after) = l + 1 - d
    BY <2>2, <2>3
  <2>5. \A i \in 1..l + 1 - d : after[i] = all[d + i]
    BY <2>2, <2>3
  <2> QED BY ONLY <2>4, <2>5, Zenon
<1>13. \A i \in 1..l : all[i].input # Input
  BY <1>5, <1>7, <1>9 DEF KeptOf
<1>14. ASSUME NEW i \in 1..l + 1, NEW k \in 1..l + 1, all[i].input = all[k].input PROVE i = k
  <2>1. (i \in 1..l \/ i = l + 1) /\ (k \in 1..l \/ k = l + 1)
    BY <1>7
  <2>2. CASE i \in 1..l /\ k \in 1..l
    <3>1. some[i].input = some[k].input
      BY <1>9, <1>14, <2>2
    <3> QED BY <1>5, <1>7, <2>2, <3>1 DEF KeptOf, OneForEach
  <2>3. CASE i = l + 1 /\ k \in 1..l
    BY <1>2, <1>9, <1>13, <1>14, <2>3
  <2>4. CASE k = l + 1 /\ i \in 1..l
    BY <1>2, <1>9, <1>13, <1>14, <2>4
  <2> QED BY <2>1, <2>2, <2>3, <2>4
<1>15. OneForEach(after)
  <2>1. ASSUME NEW i \in 1..Len(after), NEW k \in 1..Len(after), after[i].input = after[k].input PROVE i = k
    <3>1. d + i \in 1..l + 1 /\ d + k \in 1..l + 1 /\ after[i] = all[d + i] /\ after[k] = all[d + k]
      BY <1>7, <1>12
    <3>2. d + i = d + k
      BY <1>14, <2>1, <3>1
    <3> QED BY <1>12, <3>2
  <2> QED BY <2>1 DEF OneForEach
<1>16. ASSUME NEW i \in 1..Len(after)
       PROVE  after[i] = new \/ (after[i].input # Input /\ \E k \in 1..n : after[i] = receipts[k])
  <2>1. d + i \in 1..l + 1 /\ after[i] = all[d + i]
    BY <1>7, <1>12
  <2>2. CASE d + i = l + 1
    BY <1>9, <2>1, <2>2
  <2>3. CASE d + i # l + 1
    <3>1. d + i \in 1..l
      BY <1>7, <2>1, <2>3
    <3>2. after[i] = some[d + i]
      BY <1>9, <2>1, <3>1
    <3> QED BY <1>5, <1>7, <3>1, <3>2 DEF KeptOf
  <2> QED BY <2>2, <2>3
<1> QED BY <1>1, <1>3, <1>10, <1>12, <1>15, <1>16

----------------------------------------------------------------------------
(* Texts put together.                                                     *)

LEMMA ConcatIs ==
  ASSUME NEW a \in TextsOf, NEW b \in TextsOf
  PROVE  /\ a \o b \in TextsOf /\ Len(a \o b) = Len(a) + Len(b)
         /\ \A i \in 1..Len(a) : (a \o b)[i] = a[i]
         /\ \A i \in Len(a) + 1..Len(a) + Len(b) : (a \o b)[i] = b[i - Len(a)] /\ i - Len(a) \in 1..Len(b)
         /\ Said(a \o b) \subseteq Said(a) \cup Said(b)
<1>1. PICK m \in Nat, n \in Nat : m = Len(a) /\ n = Len(b)
  BY TextHas
<1>2. PICK both : both = a \o b
  OBVIOUS
<1>3. both \in Seq(Written) /\ Len(both) = m + n
  BY <1>1, <1>2 DEF TextsOf
<1>4. \A i \in 1..m : both[i] = a[i]
  BY <1>1, <1>2 DEF TextsOf
<1>5. \A i \in m + 1..m + n : both[i] = b[i - m] /\ i - m \in 1..n
  BY <1>1, <1>2 DEF TextsOf
<1>6. Said(both) \subseteq Said(a) \cup Said(b)
  <2>1. SUFFICES ASSUME NEW x \in Said(both) PROVE x \in Said(a) \cup Said(b)
    OBVIOUS
  <2>2. PICK i \in 1..m + n : x = both[i]
    BY <1>3, TextHas DEF TextsOf
  <2>3. CASE i \in 1..m
    BY <1>1, <1>4, <2>2, <2>3, TextHas
  <2>4. CASE i \notin 1..m
    <3>1. i \in m + 1..m + n
      BY <1>1, <2>4
    <3> QED BY <1>1, <1>5, <2>2, <3>1, TextHas
  <2> QED BY <2>3, <2>4
<1> QED BY <1>1, <1>2, <1>3, <1>4, <1>5, <1>6 DEF TextsOf

LEMMA MadeByBoth ==
  ASSUME NEW a \in TextsOf, NEW b \in TextsOf, NEW R, MadeBy(a, R), MadeBy(b, R)
  PROVE  MadeBy(a \o b, R)
<1>1. PICK m \in Nat, n \in Nat : m = Len(a) /\ n = Len(b)
  BY TextHas
<1>2. PICK both : both = a \o b
  OBVIOUS
<1>3. /\ Len(both) = m + n /\ \A i \in 1..m : both[i] = a[i]
      /\ \A i \in m + 1..m + n : both[i] = b[i - m] /\ i - m \in 1..n
  BY <1>1, <1>2, ConcatIs
<1>4. ASSUME NEW i \in 1..m + n PROVE both[i][1] \in R
  <2>1. CASE i \in 1..m
    BY <1>1, <1>3, <2>1 DEF MadeBy
  <2>2. CASE i \notin 1..m
    <3>1. i \in m + 1..m + n
      BY <1>1, <2>2
    <3>2. both[i] = b[i - m] /\ i - m \in 1..n
      BY <1>3, <3>1
    <3> QED BY <1>1, <3>2 DEF MadeBy
  <2> QED BY <2>1, <2>2
<1> QED BY <1>2, <1>3, <1>4 DEF MadeBy

LEMMA MadeByBehind ==
  ASSUME NEW a \in TextsOf, NEW j \in 0..Len(a), NEW R, MadeBy(a, R)
  PROVE  MadeBy(Behind(a, j), R)
<1>1. PICK top \in Nat : top = Len(a)
  BY TextHas
<1>2. PICK end : end = Behind(a, j)
  OBVIOUS
<1>3. Len(end) = top - j /\ \A i \in 1..top - j : end[i] = a[j + i]
  BY <1>1, <1>2, BehindIs
<1>4. \A i \in 1..top - j : j + i \in 1..top
  BY <1>1
<1> QED BY <1>1, <1>2, <1>3, <1>4 DEF MadeBy

LEMMA MadeByMore ==
  ASSUME NEW a, NEW R, NEW S, R \subseteq S, MadeBy(a, R)
  PROVE  MadeBy(a, S)
BY DEF MadeBy

LEMMA NothingMade ==
  ASSUME NEW R
  PROVE  MadeBy(<<>>, R) /\ <<>> \in TextsOf /\ Said(<<>>) = {} /\ Len(<<>>) = 0
BY DEF MadeBy, TextsOf, Said

\* What a request has not answered yet is in no text of others.
LEMMA OfOthers ==
  ASSUME NEW a \in TextsOf, NEW R, MadeBy(a, R), NEW r, r \notin R, NEW i
  PROVE  <<r, i>> \notin Said(a)
<1>1. SUFFICES ASSUME <<r, i>> \in Said(a) PROVE FALSE
  OBVIOUS
<1>2. PICK k \in 1..Len(a) : <<r, i>> = a[k]
  BY <1>1, TextHas
<1>3. a[k][1] \in R
  BY DEF MadeBy
<1>4. a[k][1] = r
  BY <1>2
<1> QED BY <1>3, <1>4

\* New text behind a text that goes on.
LEMMA OpensGlue ==
  ASSUME NEW base \in TextsOf, NEW text \in TextsOf, NEW tail \in TextsOf, NEW old, NEW j, OpensWith(base, old, text, j),
         \A i \in 1..Len(tail) : tail[i] \notin old /\ tail[i] \notin Said(text),
         \A i, k \in 1..Len(tail) : tail[i] = tail[k] => i = k
  PROVE  OpensWith(base, old, text \o tail, j)
<1>1. PICK m \in Nat, n \in Nat : m = Len(text) /\ n = Len(tail)
  BY TextHas
<1>2. PICK both : both = text \o tail
  OBVIOUS
<1>3. /\ Len(both) = m + n /\ \A i \in 1..m : both[i] = text[i]
      /\ \A i \in m + 1..m + n : both[i] = tail[i - m] /\ i - m \in 1..n
  BY <1>1, <1>2, ConcatIs
<1>4. j \in 0..m /\ j \in Nat
  BY <1>1 DEF OpensWith
<1>5. j > 0 => base # <<>> /\ \A i \in 1..j : both[i] = base[Len(base)]
  <2>1. \A i \in 1..j : i \in 1..m
    BY <1>4
  <2> QED BY <1>3, <2>1 DEF OpensWith
<1>6. ASSUME NEW i \in j + 1..m + n
      PROVE  \/ i \in j + 1..m /\ both[i] = text[i]
             \/ i \in m + 1..m + n /\ both[i] = tail[i - m] /\ i - m \in 1..n
  BY <1>3, <1>4
<1>7. ASSUME NEW i \in j + 1..m + n PROVE both[i] \notin old
  <2>1. CASE i \in j + 1..m
    <3>1. both[i] = text[i]
      BY <1>3, <1>4, <2>1
    <3> QED BY <1>1, <2>1, <3>1 DEF OpensWith
  <2>2. CASE i \notin j + 1..m
    <3>1. both[i] = tail[i - m] /\ i - m \in 1..n
      BY <1>6, <2>2
    <3> QED BY <1>1, <3>1
  <2> QED BY <2>1, <2>2
<1>8. ASSUME NEW i \in j + 1..m + n, NEW k \in j + 1..m + n, both[i] = both[k] PROVE i = k
  <2>1. ASSUME NEW x \in j + 1..m, NEW y \in m + 1..m + n PROVE both[x] # both[y]
    <3>1. both[x] = text[x] /\ x \in 1..m
      BY <1>3, <1>4
    <3>2. both[x] \in Said(text)
      BY <1>1, <3>1, TextHas
    <3>3. both[y] = tail[y - m] /\ y - m \in 1..n
      BY <1>3
    <3>4. both[y] \notin Said(text)
      BY <1>1, <3>3
    <3> QED BY <3>2, <3>4
  <2>2. (i \in j + 1..m \/ i \in m + 1..m + n) /\ (k \in j + 1..m \/ k \in m + 1..m + n)
    BY <1>6
  <2>3. CASE i \in j + 1..m /\ k \in j + 1..m
    <3>1. text[i] = text[k]
      BY <1>3, <1>4, <1>8, <2>3
    <3> QED BY <1>1, <2>3, <3>1 DEF OpensWith
  <2>4. CASE i \in m + 1..m + n /\ k \in m + 1..m + n
    <3>1. PICK x, y : x = i - m /\ y = k - m
      OBVIOUS
    <3>2. both[i] = tail[x] /\ x \in 1..n /\ both[k] = tail[y] /\ y \in 1..n
      BY <1>3, <2>4, <3>1
    <3>3. tail[x] = tail[y]
      BY <1>8, <3>2
    <3>4. x = y
      BY <1>1, <3>2, <3>3
    <3> QED BY <1>1, <2>4, <3>1, <3>4
  <2> QED BY <1>8, <2>1, <2>2, <2>3, <2>4
<1> QED BY <1>2, <1>3, <1>4, <1>5, <1>7, <1>8 DEF OpensWith

\* Behind its echoes a text is new, each piece once.
LEMMA BehindIsNew ==
  ASSUME NEW base, NEW text \in TextsOf, NEW old, NEW j, OpensWith(base, old, text, j)
  PROVE  /\ j \in 0..Len(text) /\ Behind(text, j) \in TextsOf
         /\ \A i \in 1..Len(Behind(text, j)) : Behind(text, j)[i] \notin old
         /\ \A i, k \in 1..Len(Behind(text, j)) : Behind(text, j)[i] = Behind(text, j)[k] => i = k
<1>1. PICK top \in Nat : top = Len(text)
  BY TextHas
<1>2. j \in 0..top /\ j \in Nat
  BY <1>1 DEF OpensWith
<1>3. PICK end : end = Behind(text, j)
  OBVIOUS
<1>4. end \in TextsOf /\ Len(end) = top - j /\ \A i \in 1..top - j : end[i] = text[j + i]
  BY <1>1, <1>2, <1>3, BehindIs
<1>5. \A i \in 1..top - j : end[i] = text[j + i] /\ j + i \in j + 1..top
  BY <1>2, <1>4
<1>6. \A i \in 1..top - j : end[i] \notin old
  BY <1>1, <1>5 DEF OpensWith
<1>7. ASSUME NEW i \in 1..top - j, NEW k \in 1..top - j, end[i] = end[k] PROVE i = k
  <2>1. text[j + i] = text[j + k] /\ j + i \in j + 1..Len(text) /\ j + k \in j + 1..Len(text)
    BY <1>1, <1>5, <1>7
  <2>2. j + i = j + k
    BY <2>1 DEF OpensWith
  <2> QED BY <1>2, <2>2
<1> QED BY <1>1, <1>2, <1>3, <1>4, <1>6, <1>7

LEMMA SoundIs ==
  ASSUME NEW text \in TextsOf
  PROVE  Sound(text) <=> \A i, k \in 1..Len(text) : text[i] = text[k] => i = k
BY TextHas DEF Sound, IsInjective

LEMMA SoundGlue ==
  ASSUME NEW base \in TextsOf, NEW text \in TextsOf, NEW j, Sound(base), OpensWith(base, Said(base), text, j)
  PROVE  Sound(base \o Behind(text, j))
<1>1. PICK end : end = Behind(text, j)
  OBVIOUS
<1>2. /\ end \in TextsOf /\ \A i \in 1..Len(end) : end[i] \notin Said(base)
      /\ \A i, k \in 1..Len(end) : end[i] = end[k] => i = k
  <2>1. PICK old : old = Said(base)
    OBVIOUS
  <2>2. OpensWith(base, old, text, j)
    BY <2>1
  <2>3. /\ Behind(text, j) \in TextsOf
        /\ \A i \in 1..Len(Behind(text, j)) : Behind(text, j)[i] \notin old
        /\ \A i, k \in 1..Len(Behind(text, j)) : Behind(text, j)[i] = Behind(text, j)[k] => i = k
    BY <2>2, BehindIsNew
  <2> QED BY <1>1, <2>1, <2>3
<1>3. OpensWith(<<>>, {}, base, 0)
  <2>1. \A i, k \in 1..Len(base) : base[i] = base[k] => i = k
    BY SoundIs
  <2>2. 0 \in 0..Len(base)
    BY TextHas
  <2> QED BY <2>1, <2>2 DEF OpensWith
<1>4. OpensWith(<<>>, {}, base \o end, 0)
  BY <1>2, <1>3, NothingMade, OpensGlue
<1>5. \A i, k \in 1..Len(base \o end) : (base \o end)[i] = (base \o end)[k] => i = k
  BY <1>4 DEF OpensWith
<1> QED BY <1>1, <1>2, <1>5, SoundIs, ConcatIs

----------------------------------------------------------------------------
(* Answers.                                                                *)

\* An answer to a request: so many echoes of what was before last, then what is new.
AnswersTo(before, r, text, e) ==
  /\ e \in 0..Len(text)
  /\ e > 0 => before # <<>> /\ \A i \in 1..e : text[i] = before[Len(before)]
  /\ \A i \in e + 1..Len(text) : text[i] = <<r, i>>

LEMMA AnswerOpens ==
  ASSUME NEW before \in TextsOf, NEW text \in TextsOf, NEW r, NEW e, AnswersTo(before, r, text, e),
         NEW old, \A i \in Nat : <<r, i>> \notin old
  PROVE  OpensWith(before, old, text, e)
<1>1. PICK top \in Nat : top = Len(text)
  BY TextHas
<1>2. e \in 0..top /\ e \in Nat
  BY <1>1 DEF AnswersTo
<1>3. \A i \in e + 1..top : text[i] = <<r, i>> /\ i \in Nat
  BY <1>1, <1>2 DEF AnswersTo
<1>4. \A i \in e + 1..top : text[i] \notin old
  BY <1>3
<1>5. \A i, k \in e + 1..top : text[i] = text[k] => i = k
  BY <1>3
<1> QED BY <1>1, <1>2, <1>4, <1>5 DEF AnswersTo, OpensWith

LEMMA AnswerMade ==
  ASSUME NEW before \in TextsOf, NEW text \in TextsOf, NEW r, NEW e, AnswersTo(before, r, text, e),
         NEW R, MadeBy(before, R)
  PROVE  MadeBy(text, R \cup {r}) /\ MadeBy(Behind(text, e), {r})
<1>1. PICK top \in Nat : top = Len(text)
  BY TextHas
<1>2. e \in 0..top /\ e \in Nat /\ e \in 0..Len(text)
  BY <1>1 DEF AnswersTo
<1>3. \A i \in e + 1..top : text[i] = <<r, i>>
  BY <1>1, <1>2 DEF AnswersTo
<1>4. ASSUME NEW i \in 1..top PROVE text[i][1] \in R \cup {r}
  <2>1. CASE i <= e
    <3>1. before # <<>> /\ text[i] = before[Len(before)]
      BY <1>2, <2>1 DEF AnswersTo
    <3>2. Len(before) \in 1..Len(before)
      <4>1. Len(before) \in Nat /\ before \in Seq(Written)
        BY TextHas DEF TextsOf
      <4>2. Len(before) # 0
        BY <3>1, <4>1
      <4> QED BY <4>1, <4>2
    <3>3. before[Len(before)][1] \in R
      BY <3>2 DEF MadeBy
    <3> QED BY <3>1, <3>3
  <2>2. CASE ~(i <= e)
    BY <1>2, <1>3, <2>2
  <2> QED BY <2>1, <2>2
<1>5. MadeBy(text, R \cup {r})
  BY <1>1, <1>4 DEF MadeBy
<1>6. PICK end : end = Behind(text, e)
  OBVIOUS
<1>7. Len(end) = top - e /\ \A i \in 1..top - e : end[i] = text[e + i]
  BY <1>1, <1>2, <1>6, BehindIs
<1>8. \A i \in 1..top - e : end[i][1] = r
  <2>1. \A i \in 1..top - e : e + i \in e + 1..top
    BY <1>2
  <2> QED BY <1>3, <1>7, <2>1
<1>9. MadeBy(end, {r})
  BY <1>7, <1>8 DEF MadeBy
<1> QED BY <1>5, <1>6, <1>9

\* _join_prose of an answer: what was there goes on.
LEMMA JoinedGoesOn ==
  ASSUME NEW base \in TextsOf, NEW said \in TextsOf, NEW text \in TextsOf, NEW old, Said(base) \subseteq old,
         NEW j \in 0..3, OpensWith(base, old, said, j), NEW r, NEW R, r \notin R, MadeBy(said, R), MadeBy(base, R),
         \A i \in Nat : <<r, i>> \notin old,
         NEW e \in 0..3, AnswersTo(IF said # <<>> THEN said ELSE base, r, text, e)
  PROVE  /\ Joined(said, text) \in TextsOf
         /\ \E k \in 0..3 : OpensWith(base, old, Joined(said, text), k)
         /\ MadeBy(Joined(said, text), R \cup {r})
<1>1. CASE said = <<>>
  <2>1. Joined(said, text) = text
    BY <1>1 DEF Joined
  <2>2. AnswersTo(base, r, text, e)
    BY <1>1
  <2>3. OpensWith(base, old, text, e)
    BY <2>2, AnswerOpens
  <2>4. MadeBy(text, R \cup {r})
    BY <2>2, AnswerMade
  <2> QED BY <2>1, <2>3, <2>4
<1>2. CASE said # <<>>
  <2>1. AnswersTo(said, r, text, e)
    BY <1>2
  <2>2. PICK all : all = old \cup Said(said)
    OBVIOUS
  <2>3. \A i \in Nat : <<r, i>> \notin all
    BY <2>2, OfOthers
  <2>4. OpensWith(said, all, text, e)
    BY <2>1, <2>3, AnswerOpens
  <2>5. Said(said) \subseteq all /\ e <= 3
    BY <2>2
  <2>6. Continuation(said, text) = Behind(text, e)
    BY <2>4, <2>5, EchoesStripped
  <2>7. PICK tail : tail = Behind(text, e)
    OBVIOUS
  <2>8. /\ tail \in TextsOf /\ \A i \in 1..Len(tail) : tail[i] \notin all
        /\ \A i, k \in 1..Len(tail) : tail[i] = tail[k] => i = k
    <3>1. /\ Behind(text, e) \in TextsOf
          /\ \A i \in 1..Len(Behind(text, e)) : Behind(text, e)[i] \notin all
          /\ \A i, k \in 1..Len(Behind(text, e)) : Behind(text, e)[i] = Behind(text, e)[k] => i = k
      BY <2>4, BehindIsNew
    <3> QED BY <2>7, <3>1
  <2>9. Joined(said, text) = said \o tail
    BY <1>2, <2>6, <2>7 DEF Joined
  <2>10. \A i \in 1..Len(tail) : tail[i] \notin old /\ tail[i] \notin Said(said)
    BY <2>2, <2>8
  <2>11. OpensWith(base, old, said \o tail, j)
    BY <2>8, <2>10, OpensGlue
  <2>12. MadeBy(tail, R \cup {r})
    <3>1. MadeBy(tail, {r})
      BY <2>1, <2>7, AnswerMade
    <3> QED BY <3>1, MadeByMore
  <2>13. MadeBy(said, R \cup {r})
    BY MadeByMore
  <2>14. said \o tail \in TextsOf /\ MadeBy(said \o tail, R \cup {r})
    BY <2>8, <2>12, <2>13, ConcatIs, MadeByBoth
  <2> QED BY <2>9, <2>11, <2>14
<1> QED BY <1>1, <1>2

----------------------------------------------------------------------------
(* What always holds of the drafting.                                      *)

\* The answers whose text may be used, and of them those that have ended.
Usable == (1..asked) \ blocked
Past == IF at = "stream" THEN Usable \ {asked} ELSE Usable

GoodText(text, R) == text \in TextsOf /\ Sound(text) /\ MadeBy(text, R)
AllGood(texts, R) == texts \in Seq(TextsOf) /\ \A i \in 1..Len(texts) : GoodText(texts[i], R)

\* The text goes on behind a base, after a few echoes at most.
Follows(base, old, text) == \E j \in 0..3 : OpensWith(base, old, text, j)
GoesOn(input, text) ==
  Follows(IF input.take = "more" THEN input.segment ELSE input.done, Said(input.done) \cup Said(input.segment), text)
Base == IF take = "more" THEN segment ELSE done
Old == Said(done) \cup Said(segment)

\* Receipts: one for each request, of the answers U; those of other requests are of the answers P.
Kept(kept, U, P, input) ==
  /\ kept \in Seq(ReceiptsOf) /\ OneForEach(kept)
  /\ \A i \in 1..Len(kept) :
       /\ kept[i].input.rehearsal = 1
       /\ GoesOn(kept[i].input, kept[i].text)
       /\ MadeBy(kept[i].text, U)
       /\ kept[i].input # input => MadeBy(kept[i].text, P)

ProsePlaces == ProseWorking \cup {"idle", "start", "drafted"}
Pools == [drafts : Seq(TextsOf), selected : Nat]

ProseTypes ==
  /\ at \in ProsePlaces /\ take \in Takes /\ cache \in 0..1
  /\ asked \in Nat /\ blocked \subseteq 1..asked
  /\ at = "stream" => asked \in Usable
  /\ pool \in Pools /\ pool.selected \in 0..Len(pool.drafts)

TextsGood ==
  /\ GoodText(done, Past) /\ GoodText(handed, Past)
  /\ AllGood(drafts, Past) /\ AllGood(pool.drafts, Past)

SegmentGoes ==
  /\ segment \in TextsOf /\ MadeBy(segment, Past)
  /\ take # "more" => segment = <<>>
  /\ Follows(done, Said(done), segment)

CombinedGoes ==
  at \in Receiving \cup {"check"} => combined \in TextsOf /\ Follows(Base, Old, combined) /\ MadeBy(combined, Past)

AnswerGoes ==
  /\ at = "open" => pieces = <<>>
  /\ at = "stream" => pieces \in TextsOf /\ \E e \in 0..MaxEchoes : AnswersTo(Shown, asked, pieces, e)

ReceiptsGood == Kept(receipts, Usable, Past, Input)

\* Nothing is asked for of which there is a complete receipt.
NotBought ==
  at \in Receiving => \A i \in 1..Len(receipts) : receipts[i].input = Input => ~(receipts[i].complete /\ receipts[i].text # <<>>)

Rehearsed == at \in Receiving \cup {"receive", "check"} => cache = 1

SelectionThere ==
  /\ pool.selected # 0 => Candidates > 1 /\ at \in {"drafted", "idle", "start"}
  /\ Candidates = 1 => drafts = <<>>
  /\ Len(drafts) <= Candidates /\ Len(pool.drafts) <= Candidates
  /\ at \in Receiving \cup {"rehearse", "receive", "check"} => Len(drafts) # Candidates

DraftInv ==
  /\ ProseTypes /\ TextsGood /\ SegmentGoes /\ CombinedGoes /\ AnswerGoes
  /\ ReceiptsGood /\ NotBought /\ Rehearsed /\ SelectionThere

----------------------------------------------------------------------------
LEMMA NothingGood ==
  ASSUME NEW R
  PROVE  GoodText(<<>>, R) /\ AllGood(<<>>, R)
<1>1. Sound(<<>>)
  BY NothingMade, SoundIs
<1>2. <<>> \in Seq(TextsOf) /\ Len(<<>>) = 0
  OBVIOUS
<1> QED BY <1>1, <1>2, NothingMade DEF GoodText, AllGood

LEMMA GoodMore ==
  ASSUME NEW R, NEW S, R \subseteq S
  PROVE  /\ \A text : GoodText(text, R) => GoodText(text, S)
         /\ \A texts : AllGood(texts, R) => AllGood(texts, S)
BY MadeByMore DEF GoodText, AllGood

LEMMA NothingFollows ==
  ASSUME NEW base, NEW old
  PROVE  Follows(base, old, <<>>)
<1>1. OpensWith(base, old, <<>>, 0)
  BY NothingMade DEF OpensWith
<1> QED BY <1>1 DEF Follows

LEMMA KeptAny ==
  ASSUME NEW kept, NEW U, NEW P, NEW I, Kept(kept, U, P, I), NEW V, U \subseteq V, NEW J
  PROVE  Kept(kept, V, V, J)
BY MadeByMore DEF Kept

\* What the request at hand is.
LEMMA InputIs ==
  ASSUME ProseTypes, TextsGood, SegmentGoes
  PROVE  /\ Input \in Inputs /\ Input.rehearsal = cache
         /\ \A text : GoesOn(Input, text) <=> Follows(Base, Old, text)
         /\ Base \in TextsOf /\ Said(Base) \subseteq Old /\ MadeBy(Base, Past)
<1>1. done \in TextsOf /\ segment \in TextsOf /\ MadeBy(done, Past) /\ MadeBy(segment, Past) /\ (take # "more" => segment = <<>>)
  BY DEF TextsGood, GoodText, SegmentGoes
<1>2. Len(drafts) \in Nat /\ cache \in Nat /\ take \in Takes
  BY DEF TextsGood, AllGood, ProseTypes
<1>3. PICK input : input = Input
  OBVIOUS
<1>4. input = [candidate |-> Len(drafts) + 1, rehearsal |-> cache, done |-> done, take |-> take, segment |-> segment]
  BY <1>1, <1>3 DEF Input
<1>5. input \in Inputs /\ input.rehearsal = cache /\ input.take = take /\ input.done = done /\ input.segment = segment
  BY <1>1, <1>2, <1>4 DEF Inputs
<1>6. \A text : GoesOn(input, text) <=> Follows(Base, Old, text)
  BY <1>5 DEF GoesOn, Base, Old
<1>7. Base \in TextsOf /\ Said(Base) \subseteq Old /\ MadeBy(Base, Past)
  BY <1>1 DEF Base, Old
<1> QED BY <1>3, <1>5, <1>6, <1>7

\* A checkpoint saved: all receipts are as they should be.
LEMMA CheckpointSaved ==
  ASSUME NEW U, NEW P, NEW V, P \subseteq V, Kept(receipts, U, P, Input), Input \in Inputs, Input.rehearsal = 1,
         NEW text \in TextsOf, GoesOn(Input, text), MadeBy(text, V), NEW complete \in BOOLEAN, Persist(text, complete)
  PROVE  /\ Kept(receipts', V, P, Input)
         /\ \A i \in 1..Len(receipts') : receipts'[i].input = Input => receipts'[i].complete = complete
<1>1. KeepReceipts \in Nat \ {0}
  BY ProseAssumption
<1>2. receipts \in Seq(ReceiptsOf) /\ OneForEach(receipts)
  BY DEF Kept
<1>3. PICK input : input = Input
  OBVIOUS
<1>4. PICK new : new = [input |-> input, text |-> text, complete |-> complete]
  OBVIOUS
<1>5. new.input = input /\ new.text = text /\ new.complete = complete
  BY <1>4
<1>6. /\ receipts' \in Seq(ReceiptsOf) /\ OneForEach(receipts')
      /\ \A i \in 1..Len(receipts') :
           \/ receipts'[i] = [input |-> Input, text |-> text, complete |-> complete]
           \/ receipts'[i].input # Input /\ \E k \in 1..Len(receipts) : receipts'[i] = receipts[k]
  BY <1>1, <1>2, Persisted
<1>7. \A i \in 1..Len(receipts') :
        \/ receipts'[i] = new
        \/ receipts'[i].input # input /\ \E k \in 1..Len(receipts) : receipts'[i] = receipts[k]
  BY <1>3, <1>4, <1>6
<1>8. PICK after : after = receipts'
  OBVIOUS
<1>9. ASSUME NEW i \in 1..Len(after)
      PROVE  /\ after[i].input.rehearsal = 1 /\ GoesOn(after[i].input, after[i].text)
             /\ MadeBy(after[i].text, V) /\ (after[i].input # input => MadeBy(after[i].text, P))
             /\ (after[i].input = input => after[i].complete = complete)
  <2>1. CASE after[i] = new
    BY <1>3, <1>5, <2>1
  <2>2. CASE after[i] # new
    <3>1. PICK k \in 1..Len(receipts) : after[i] = receipts[k] /\ after[i].input # input
      BY <1>7, <1>8, <2>2
    <3>2. /\ receipts[k].input.rehearsal = 1 /\ GoesOn(receipts[k].input, receipts[k].text)
          /\ MadeBy(receipts[k].text, P)
      BY <1>3, <3>1 DEF Kept
    <3>3. MadeBy(receipts[k].text, V)
      BY <3>2, MadeByMore
    <3> QED BY <3>1, <3>2, <3>3
  <2> QED BY <2>1, <2>2
<1>10. Kept(after, V, P, input)
  BY <1>6, <1>8, <1>9 DEF Kept
<1> QED BY <1>3, <1>8, <1>9, <1>10

\* Nothing behind a text adds nothing.
LEMMA NothingAdded ==
  ASSUME NEW said \in TextsOf
  PROVE  Joined(said, <<>>) = said
<1>1. CASE said = <<>>
  BY <1>1 DEF Joined
<1>2. CASE said # <<>>
  <2>1. PICK none : none = <<>>
    OBVIOUS
  <2>2. none \in TextsOf /\ Len(none) = 0
    BY <2>1, NothingMade
  <2>3. PICK old : old = Said(said)
    OBVIOUS
  <2>4. OpensWith(said, old, none, 0) /\ Said(said) \subseteq old
    BY <2>2, <2>3 DEF OpensWith
  <2>5. Continuation(said, none) = Behind(none, 0)
    BY <2>2, <2>4, EchoesStripped
  <2>6. Behind(none, 0) = none
    BY <2>2, AllBehind
  <2>7. Joined(said, none) = said \o none
    BY <1>2, <2>5, <2>6 DEF Joined
  <2>8. said \in Seq(Written)
    BY DEF TextsOf
  <2>9. said \o <<>> = said
    BY <2>8
  <2> QED BY <2>1, <2>7, <2>9
<1> QED BY <1>1, <1>2

\* The text of the stream so far, with what more there is of the answer.
LEMMA StreamGoesOn ==
  ASSUME ProseTypes, TextsGood, SegmentGoes, combined \in TextsOf, Follows(Base, Old, combined), MadeBy(combined, Past),
         NEW r, r \notin Past, NEW text \in TextsOf, NEW e \in 0..3, AnswersTo(Shown, r, text, e)
  PROVE  /\ Joined(combined, text) \in TextsOf
         /\ GoesOn(Input, Joined(combined, text))
         /\ MadeBy(Joined(combined, text), Past \cup {r})
<1>1. PICK base, old, said, R : base = Base /\ old = Old /\ said = combined /\ R = Past
  OBVIOUS
<1>2. base \in TextsOf /\ Said(base) \subseteq old /\ MadeBy(base, R)
  BY <1>1, InputIs
<1>3. PICK j \in 0..3 : OpensWith(base, old, said, j)
  BY <1>1 DEF Follows
<1>4. \A i \in Nat : <<r, i>> \notin old
  <2>1. done \in TextsOf /\ segment \in TextsOf /\ MadeBy(done, Past) /\ MadeBy(segment, Past)
    BY DEF TextsGood, GoodText, SegmentGoes
  <2>2. \A i \in Nat : <<r, i>> \notin Said(done) /\ <<r, i>> \notin Said(segment)
    BY <2>1, OfOthers
  <2> QED BY <1>1, <2>2 DEF Old
<1>5. AnswersTo(IF said # <<>> THEN said ELSE base, r, text, e)
  BY <1>1 DEF Shown, Base
<1>6. said \in TextsOf /\ MadeBy(said, R) /\ r \notin R
  BY <1>1
<1>7. PICK all : all = Joined(said, text)
  OBVIOUS
<1>8. all \in TextsOf /\ (\E k \in 0..3 : OpensWith(base, old, all, k)) /\ MadeBy(all, R \cup {r})
  BY <1>2, <1>3, <1>4, <1>5, <1>6, <1>7, JoinedGoesOn
<1>9. Follows(base, old, all)
  BY <1>8 DEF Follows
<1>10. GoesOn(Input, all)
  BY <1>1, <1>9, InputIs
<1> QED BY <1>1, <1>7, <1>8, <1>10

\* Gathered: what there is of the text when the answer stops.
LEMMA GatheredIs ==
  ASSUME DraftInv, at \in Receiving, MaxEchoes <= 3
  PROVE  Gathered \in TextsOf /\ GoesOn(Input, Gathered) /\ MadeBy(Gathered, Usable)
<1>1. combined \in TextsOf /\ Follows(Base, Old, combined) /\ MadeBy(combined, Past)
  BY DEF DraftInv, CombinedGoes
<1>2. CASE at = "open"
  <2>1. Gathered = combined
    BY <1>1, <1>2, NothingAdded DEF DraftInv, AnswerGoes, Gathered
  <2>2. Past = Usable
    BY <1>2 DEF Past
  <2>3. GoesOn(Input, combined)
    BY <1>1, InputIs DEF DraftInv
  <2> QED BY <1>1, <2>1, <2>2, <2>3
<1>3. CASE at = "stream"
  <2>1. PICK e \in 0..MaxEchoes : pieces \in TextsOf /\ AnswersTo(Shown, asked, pieces, e)
    BY <1>3 DEF DraftInv, AnswerGoes
  <2>2. MaxEchoes \in Nat
    BY ProseAssumption
  <2>3. e \in 0..3
    BY <2>2
  <2>4. Past = Usable \ {asked} /\ asked \in Usable
    BY <1>3 DEF Past, DraftInv, ProseTypes
  <2>5. Past \cup {asked} = Usable /\ asked \notin Past
    BY <2>4
  <2>6. /\ Joined(combined, pieces) \in TextsOf /\ GoesOn(Input, Joined(combined, pieces))
        /\ MadeBy(Joined(combined, pieces), Past \cup {asked})
    BY <1>1, <2>1, <2>3, <2>5, StreamGoesOn DEF DraftInv
  <2> QED BY <2>5, <2>6 DEF Gathered
<1> QED BY <1>2, <1>3 DEF Receiving

----------------------------------------------------------------------------
LEMMA DraftInit ==
  ASSUME ProseInit
  PROVE  DraftInv
<1>1. ProseTypes
  <2>1. <<>> \in Seq(TextsOf) /\ Len(<<>>) = 0
    OBVIOUS
  <2> QED BY <2>1 DEF ProseInit, ProseTypes, ProsePlaces, ProseWorking, Takes, Pools
<1>2. TextsGood /\ SegmentGoes
  BY NothingGood, NothingMade, NothingFollows DEF ProseInit, TextsGood, SegmentGoes
<1>3. CombinedGoes /\ AnswerGoes /\ NotBought /\ Rehearsed
  BY DEF ProseInit, CombinedGoes, AnswerGoes, NotBought, Rehearsed, Receiving
<1>4. ReceiptsGood
  <2>1. <<>> \in Seq(ReceiptsOf) /\ Len(<<>>) = 0
    OBVIOUS
  <2> QED BY <2>1 DEF ProseInit, ReceiptsGood, Kept, OneForEach
<1>5. SelectionThere
  <2>1. Len(<<>>) = 0 /\ Candidates \in Nat
    BY ProseAssumption
  <2>2. at = "start" /\ drafts = <<>> /\ pool.drafts = <<>> /\ pool.selected = 0
    BY DEF ProseInit
  <2> QED BY <2>1, <2>2 DEF SelectionThere, Receiving
<1> QED BY <1>1, <1>2, <1>3, <1>4, <1>5 DEF DraftInv

\* A take that is given up, and with it perhaps the run.
LEMMA GivenUp ==
  ASSUME DraftInv, at' \in {"idle", "compare"}, NoTake, NoStream, UNCHANGED <<pool, cache, asked, handed>>,
         drafts' \in {<<>>, drafts}, at' = "compare" => pool.selected = 0,
         blocked' \subseteq 1..asked, NEW V, V = (1..asked) \ blocked', Past \subseteq V, Kept(receipts', V, V, Input)
  PROVE  DraftInv'
<1>1. Usable' = V /\ Past' = V
  BY DEF Usable, Past
<1>2. ProseTypes'
  BY DEF DraftInv, ProseTypes, ProsePlaces, ProseWorking, NoTake, Takes
<1>3. TextsGood'
  <2>1. GoodText(done, Past)' /\ AllGood(drafts, Past)'
    <3>1. AllGood(<<>>, V) /\ AllGood(drafts, V) /\ GoodText(<<>>, V)
      BY NothingGood, GoodMore DEF DraftInv, TextsGood
    <3> QED BY <1>1, <3>1 DEF NoTake
  <2>2. GoodText(handed, Past)' /\ AllGood(pool.drafts, Past)'
    <3>1. GoodText(handed, V) /\ AllGood(pool.drafts, V)
      BY GoodMore DEF DraftInv, TextsGood
    <3> QED BY <1>1, <3>1
  <2> QED BY <2>1, <2>2 DEF TextsGood
<1>4. SegmentGoes'
  <2>1. done' = <<>> /\ segment' = <<>> /\ take' = "first"
    BY DEF NoTake
  <2> QED BY <2>1, NothingMade, NothingFollows DEF SegmentGoes
<1>5. CombinedGoes' /\ AnswerGoes' /\ NotBought' /\ Rehearsed'
  BY DEF CombinedGoes, AnswerGoes, NotBought, Rehearsed, Receiving
<1>6. ReceiptsGood'
  <2>1. Kept(receipts', V, V, Input')
    BY KeptAny
  <2> QED BY <1>1, <2>1 DEF ReceiptsGood
<1>7. SelectionThere'
  <2>1. Len(<<>>) = 0 /\ Candidates \in Nat
    BY ProseAssumption
  <2>2. Candidates = 1 => drafts' = <<>>
    BY DEF DraftInv, SelectionThere
  <2>3. Len(drafts') <= Candidates /\ Len(pool'.drafts) <= Candidates
    BY <2>1 DEF DraftInv, SelectionThere
  <2> QED BY <2>2, <2>3 DEF DraftInv, SelectionThere, Receiving
<1> QED BY <1>2, <1>3, <1>4, <1>5, <1>6, <1>7 DEF DraftInv

LEMMA FailedKeeps ==
  ASSUME DraftInv, at \in Receiving \cup {"check"}, Failed, UNCHANGED <<pool, cache, asked, handed>>,
         blocked' \subseteq 1..asked, NEW V, V = (1..asked) \ blocked', Past \subseteq V, Kept(receipts', V, V, Input)
  PROVE  DraftInv'
<1>1. pool.selected = 0
  BY DEF DraftInv, SelectionThere, Receiving
<1>2. at' \in {"idle", "compare"} /\ NoTake /\ NoStream /\ drafts' \in {<<>>, drafts}
  BY DEF Failed, Ended
<1> QED BY <1>1, <1>2, GivenUp

\* Without an answer under way the receipts are of texts that may be used.
LEMMA ReceiptsAsTheyAre ==
  ASSUME DraftInv, UNCHANGED <<receipts, asked, blocked>>
  PROVE  /\ Usable' = Usable /\ Past \subseteq Usable
         /\ Kept(receipts, Usable, Usable, Input) /\ Kept(receipts', Usable, Usable, Input')
         /\ at' # "stream" => Past' = Usable /\ ReceiptsGood'
<1>1. Usable' = Usable /\ Past \subseteq Usable /\ (at' # "stream" => Past' = Usable)
  BY DEF Usable, Past
<1>2. Kept(receipts, Usable, Past, Input)
  BY DEF DraftInv, ReceiptsGood
<1>3. Kept(receipts, Usable, Usable, Input) /\ Kept(receipts, Usable, Usable, Input')
  BY <1>2, KeptAny
<1> QED BY <1>1, <1>3 DEF ReceiptsGood

\* What an action leaves alone stays as it is.
LEMMA TextsStay ==
  ASSUME DraftInv, NEW V, Past' = V, Past \subseteq V
  PROVE  /\ done' = done => GoodText(done, Past)'
         /\ handed' = handed => GoodText(handed, Past)'
         /\ drafts' = drafts => AllGood(drafts, Past)'
         /\ pool' = pool => AllGood(pool.drafts, Past)'
<1>1. GoodText(done, V) /\ GoodText(handed, V) /\ AllGood(drafts, V) /\ AllGood(pool.drafts, V)
  BY GoodMore DEF DraftInv, TextsGood
<1> QED BY <1>1

LEMMA SegmentStays ==
  ASSUME DraftInv, NEW V, Past' = V, Past \subseteq V, UNCHANGED <<done, segment>>, take' = take \/ take = "first"
  PROVE  SegmentGoes'
<1>1. segment \in TextsOf /\ MadeBy(segment, V) /\ Follows(done, Said(done), segment) /\ (take # "more" => segment = <<>>)
  BY MadeByMore DEF DraftInv, SegmentGoes
<1> QED BY <1>1 DEF SegmentGoes

LEMMA StartKeeps ==
  ASSUME DraftInv, Start
  PROVE  DraftInv'
<1>1. /\ at = "start" /\ at' \in {"drafted", "compare", "rehearse"}
      /\ UNCHANGED <<live, receipts, pool, cache, scene, done, take, segment, combined, pieces, attempts, asked, blocked>>
  BY DEF Start, rowVars, streamVars
<1>2. Usable' = Usable /\ Past' = Usable /\ Past = Usable /\ ReceiptsGood'
  BY <1>1, ReceiptsAsTheyAre DEF Past
<1>3. ProseTypes'
  BY <1>1 DEF DraftInv, ProseTypes, ProsePlaces, ProseWorking
<1>4. SegmentGoes'
  BY <1>1, <1>2, SegmentStays
<1>5. CombinedGoes' /\ AnswerGoes' /\ NotBought' /\ Rehearsed'
  BY <1>1 DEF CombinedGoes, AnswerGoes, NotBought, Rehearsed, Receiving
<1>6. GoodText(done, Past)' /\ AllGood(pool.drafts, Past)'
  BY <1>1, <1>2, TextsStay
<1>7. AllGood(pool.drafts, Usable) /\ AllGood(drafts, Usable) /\ GoodText(handed, Usable)
  BY <1>2 DEF DraftInv, TextsGood
<1>8. Candidates \in Nat \ {0} /\ Len(<<>>) = 0
  BY ProseAssumption
<1>9. CASE Candidates > 1 /\ pool.selected # 0
  <2>1. at' = "drafted" /\ handed' = pool.drafts[pool.selected] /\ drafts' = drafts
    BY <1>9 DEF Start
  <2>2. GoodText(handed', Usable)
    <3>1. Len(pool.drafts) \in Nat
      BY <1>7 DEF AllGood
    <3>2. pool.selected \in 1..Len(pool.drafts)
      BY <1>9, <3>1 DEF DraftInv, ProseTypes
    <3> QED BY <1>7, <2>1, <3>2 DEF AllGood
  <2>3. TextsGood'
    BY <1>2, <1>6, <1>7, <2>1, <2>2 DEF TextsGood
  <2>4. SelectionThere'
    BY <1>1, <1>9, <2>1 DEF DraftInv, SelectionThere, Receiving
  <2> QED BY <1>2, <1>3, <1>4, <1>5, <2>3, <2>4 DEF DraftInv
<1>10. CASE ~(Candidates > 1 /\ pool.selected # 0)
  <2>1. drafts' = (IF Candidates > 1 THEN pool.drafts ELSE <<>>) /\ handed' = handed
    BY <1>10 DEF Start
  <2>2. AllGood(drafts', Usable)
    BY <1>7, <2>1, NothingGood
  <2>3. TextsGood'
    BY <1>2, <1>6, <1>7, <2>1, <2>2 DEF TextsGood
  <2>4. pool.selected = 0
    BY <1>10 DEF DraftInv, SelectionThere
  <2>5. at' = "rehearse" => Len(drafts') # Candidates
    BY <1>10 DEF Start
  <2>6. SelectionThere'
    BY <1>1, <1>8, <2>1, <2>4, <2>5 DEF DraftInv, SelectionThere, Receiving
  <2> QED BY <1>2, <1>3, <1>4, <1>5, <2>3, <2>6 DEF DraftInv
<1> QED BY <1>9, <1>10

LEMMA RehearseKeeps ==
  ASSUME DraftInv, Rehearse
  PROVE  DraftInv'
<1>1. /\ at = "rehearse" /\ at' = "receive" /\ cache' = 1
      /\ UNCHANGED <<live, receipts, pool, drafts, scene, done, take, segment, combined, pieces, attempts, asked, blocked, handed>>
  BY DEF Rehearse, takeVars, streamVars
<1>2. Usable' = Usable /\ Past' = Usable /\ Past = Usable /\ ReceiptsGood'
  BY <1>1, ReceiptsAsTheyAre DEF Past
<1>3. ProseTypes'
  BY <1>1 DEF DraftInv, ProseTypes, ProsePlaces, ProseWorking
<1>4. SegmentGoes' /\ TextsGood'
  BY <1>1, <1>2, SegmentStays, TextsStay DEF TextsGood
<1>5. CombinedGoes' /\ AnswerGoes' /\ NotBought' /\ Rehearsed'
  BY <1>1 DEF CombinedGoes, AnswerGoes, NotBought, Rehearsed, Receiving
<1>6. SelectionThere'
  BY <1>1 DEF DraftInv, SelectionThere, Receiving
<1> QED BY <1>2, <1>3, <1>4, <1>5, <1>6 DEF DraftInv

LEMMA CompareKeeps ==
  ASSUME DraftInv, Compare
  PROVE  DraftInv'
<1>1. /\ at = "compare" /\ at' = "drafted"
      /\ UNCHANGED <<live, receipts, cache, drafts, scene, done, take, segment, combined, pieces, attempts, asked, blocked>>
  BY DEF Compare, takeVars, streamVars
<1>2. Usable' = Usable /\ Past' = Usable /\ Past = Usable /\ ReceiptsGood'
  BY <1>1, ReceiptsAsTheyAre DEF Past
<1>3. SegmentGoes' /\ GoodText(done, Past)' /\ AllGood(drafts, Past)'
  BY <1>1, <1>2, SegmentStays, TextsStay
<1>4. CombinedGoes' /\ AnswerGoes' /\ NotBought' /\ Rehearsed'
  BY <1>1 DEF CombinedGoes, AnswerGoes, NotBought, Rehearsed, Receiving
<1>5. AllGood(drafts, Usable) /\ Len(drafts) \in Nat /\ DOMAIN drafts = 1..Len(drafts) /\ drafts \in Seq(TextsOf)
  BY <1>2 DEF DraftInv, TextsGood, AllGood
<1>6. pool.selected = 0 /\ Len(drafts) <= Candidates /\ (Candidates = 1 => drafts = <<>>) /\ Candidates \in Nat \ {0}
  BY <1>1, ProseAssumption DEF DraftInv, SelectionThere
<1>7. CASE Len(drafts) = 1
  <2>1. handed' = drafts[1] /\ pool' = pool
    BY <1>7 DEF Compare
  <2>2. GoodText(handed', Usable)
    BY <1>5, <1>7, <2>1 DEF AllGood
  <2>3. TextsGood'
    BY <1>2, <1>3, <2>1, <2>2, TextsStay DEF TextsGood
  <2>4. ProseTypes'
    BY <1>1, <2>1 DEF DraftInv, ProseTypes, ProsePlaces
  <2>5. SelectionThere'
    BY <1>1, <1>6, <2>1 DEF DraftInv, SelectionThere, Receiving
  <2> QED BY <1>2, <1>3, <1>4, <2>3, <2>4, <2>5 DEF DraftInv
<1>8. CASE Len(drafts) # 1
  <2>1. PICK i \in 1..Len(drafts) : handed' = drafts[i] /\ pool' = [drafts |-> drafts, selected |-> i]
    BY <1>5, <1>8 DEF Compare
  <2>2. GoodText(handed', Usable)
    BY <1>5, <2>1 DEF AllGood
  <2>3. pool'.drafts = drafts /\ pool'.selected = i /\ pool' \in Pools
    BY <1>5, <2>1 DEF Pools
  <2>4. TextsGood'
    BY <1>2, <1>3, <1>5, <2>2, <2>3 DEF TextsGood
  <2>5. ProseTypes'
    BY <1>1, <1>5, <2>3 DEF DraftInv, ProseTypes, ProsePlaces
  <2>6. Len(drafts) > 1 /\ Candidates > 1
    BY <1>5, <1>6, <1>8, <2>1
  <2>7. SelectionThere'
    BY <1>1, <1>6, <2>3, <2>6 DEF SelectionThere, Receiving
  <2> QED BY <1>2, <1>3, <1>4, <2>4, <2>5, <2>7 DEF DraftInv
<1> QED BY <1>7, <1>8

\* A complete receipt is the answer; any other is continued.
LEMMA ReceiveKeeps ==
  ASSUME DraftInv, Receive
  PROVE  DraftInv'
<1>1. /\ at = "receive" /\ at' \in {"check", "open"} /\ combined' = Prior.text
      /\ UNCHANGED <<live, receipts, pool, cache, drafts, scene, done, take, segment, asked, blocked, handed>>
  BY DEF Receive, rowVars, takeVars
<1>2. Usable' = Usable /\ Past' = Usable /\ Past = Usable /\ ReceiptsGood'
  BY <1>1, ReceiptsAsTheyAre DEF Past
<1>3. ProseTypes'
  BY <1>1 DEF DraftInv, ProseTypes, ProsePlaces, ProseWorking, Receiving
<1>4. SegmentGoes' /\ TextsGood'
  BY <1>1, <1>2, SegmentStays, TextsStay DEF TextsGood
<1>5. AnswerGoes'
  BY <1>1 DEF Receive, AnswerGoes
<1>6. Rehearsed' /\ SelectionThere'
  BY <1>1 DEF DraftInv, Rehearsed, SelectionThere, Receiving
<1>7. Input' = Input /\ Base' = Base /\ Old' = Old
  BY <1>1 DEF Input, Base, Old
<1>8. PICK input : input = Input
  OBVIOUS
<1>9. Kept(receipts, Usable, Usable, input)
  BY <1>2, <1>8 DEF DraftInv, ReceiptsGood
<1>10. PICK m \in Nat : m = Len(receipts) /\ DOMAIN receipts = 1..m
  BY <1>9 DEF Kept
<1>11. /\ Prior.text \in TextsOf /\ GoesOn(input, Prior.text) /\ MadeBy(Prior.text, Usable)
       /\ \A i \in 1..m : receipts[i].input = input => Prior = receipts[i]
  <2>1. CASE ReceiptsFor(input) = {}
    <3>1. Prior.text = <<>>
      BY <1>8, <2>1 DEF Prior
    <3>2. \A i \in 1..m : receipts[i].input # input
      BY <1>10, <2>1 DEF ReceiptsFor
    <3> QED BY <3>1, <3>2, NothingMade, NothingFollows DEF GoesOn
  <2>2. CASE ReceiptsFor(input) # {}
    <3>1. PICK k \in 1..m : receipts[k].input = input
      BY <1>10, <2>2 DEF ReceiptsFor
    <3>2. \A i \in 1..m : receipts[i].input = input => i = k
      BY <1>9, <1>10, <3>1 DEF Kept, OneForEach
    <3>3. ReceiptsFor(input) = {k}
      BY <1>10, <3>1, <3>2 DEF ReceiptsFor
    <3>4. Max({k}) = k
      <4>1. {k} \in SUBSET (0..m) /\ {k} # {}
        BY <3>1
      <4>2. Max({k}) \in {k}
        BY <4>1, GreatestOf
      <4> QED BY <4>2
    <3>5. Prior = receipts[k]
      BY <1>8, <2>2, <3>3, <3>4 DEF Prior
    <3>6. receipts[k] \in ReceiptsOf
      BY <1>9, <1>10, <3>1, ElementOfSeq DEF Kept
    <3>7. GoesOn(input, receipts[k].text) /\ MadeBy(receipts[k].text, Usable) /\ receipts[k].text \in TextsOf
      BY <1>9, <1>10, <3>1, <3>6 DEF Kept, ReceiptsOf
    <3> QED BY <3>2, <3>5, <3>7
  <2> QED BY <2>1, <2>2
<1>12. CombinedGoes'
  <2>1. Follows(Base, Old, Prior.text)
    BY <1>8, <1>11, InputIs DEF DraftInv
  <2> QED BY <1>1, <1>2, <1>7, <1>11, <2>1 DEF CombinedGoes
<1>13. NotBought'
  <2>1. at' = "open" => ~(Prior.complete /\ Prior.text # <<>>)
    BY DEF Receive
  <2>2. at' = "open" \/ at' = "check"
    BY <1>1
  <2>3. \A i \in 1..m : receipts[i].input = input => Prior.text = receipts[i].text /\ Prior.complete = receipts[i].complete
    BY <1>11
  <2>4. CASE at' = "check"
    BY <2>4 DEF NotBought, Receiving
  <2>5. CASE at' = "open"
    <3>1. \A i \in 1..m : receipts[i].input = input => ~(receipts[i].complete /\ receipts[i].text # <<>>)
      BY <2>1, <2>3, <2>5
    <3> QED BY <1>1, <1>7, <1>8, <1>10, <3>1 DEF NotBought
  <2> QED BY <2>2, <2>4, <2>5
<1> QED BY <1>2, <1>3, <1>4, <1>5, <1>6, <1>12, <1>13 DEF DraftInv

\* What the scene has come to goes on behind the text before it.
LEMMA TakenIs ==
  ASSUME DraftInv, at = "check"
  PROVE  Taken \in TextsOf /\ MadeBy(Taken, Past) /\ Follows(done, Said(done), Taken)
<1>1. combined \in TextsOf /\ Follows(Base, Old, combined) /\ MadeBy(combined, Past)
  BY DEF DraftInv, CombinedGoes
<1>2. /\ segment \in TextsOf /\ MadeBy(segment, Past) /\ (take # "more" => segment = <<>>)
      /\ Follows(done, Said(done), segment) /\ done \in TextsOf
  BY DEF DraftInv, SegmentGoes, TextsGood, GoodText
<1>3. CASE take = "more"
  <2>1. PICK seg, com, old, said : seg = segment /\ com = combined /\ old = Old /\ said = Said(done)
    OBVIOUS
  <2>2. PICK j \in 0..3 : OpensWith(seg, old, com, j)
    BY <1>1, <1>3, <2>1 DEF Base, Follows
  <2>3. Said(seg) \subseteq old /\ said \subseteq old
    BY <2>1 DEF Old
  <2>4. seg \in TextsOf /\ com \in TextsOf
    BY <1>1, <1>2, <2>1
  <2>5. Continuation(seg, com) = Behind(com, j)
    BY <2>2, <2>3, <2>4, EchoesStripped
  <2>6. PICK tail : tail = Behind(com, j)
    OBVIOUS
  <2>7. /\ j \in 0..Len(com) /\ tail \in TextsOf /\ \A i \in 1..Len(tail) : tail[i] \notin old
        /\ \A i, k \in 1..Len(tail) : tail[i] = tail[k] => i = k
    <3>1. /\ j \in 0..Len(com) /\ Behind(com, j) \in TextsOf
          /\ \A i \in 1..Len(Behind(com, j)) : Behind(com, j)[i] \notin old
          /\ \A i, k \in 1..Len(Behind(com, j)) : Behind(com, j)[i] = Behind(com, j)[k] => i = k
      BY <2>2, <2>4, BehindIsNew
    <3> QED BY <2>6, <3>1
  <2>8. Taken = seg \o tail
    BY <1>3, <2>1, <2>5, <2>6 DEF Taken
  <2>9. MadeBy(tail, Past)
    BY <1>1, <2>1, <2>4, <2>6, <2>7, MadeByBehind
  <2>10. PICK k \in 0..3 : OpensWith(done, said, seg, k)
    BY <1>2, <2>1 DEF Follows
  <2>11. \A i \in 1..Len(tail) : tail[i] \notin said /\ tail[i] \notin Said(seg)
    BY <2>3, <2>7
  <2>12. OpensWith(done, said, seg \o tail, k)
    BY <1>2, <2>4, <2>7, <2>10, <2>11, OpensGlue
  <2>13. seg \o tail \in TextsOf /\ MadeBy(seg \o tail, Past)
    BY <1>2, <2>1, <2>4, <2>7, <2>9, ConcatIs, MadeByBoth
  <2> QED BY <2>1, <2>8, <2>12, <2>13 DEF Follows
<1>4. CASE take # "more"
  <2>1. Taken = combined /\ Base = done
    BY <1>4 DEF Taken, Base
  <2>2. Old = Said(done)
    BY <1>2, <1>4, NothingMade DEF Old
  <2> QED BY <1>1, <2>1, <2>2
<1> QED BY <1>3, <1>4

LEMMA SceneTextIs ==
  ASSUME DraftInv, at = "check"
  PROVE  GoodText(done \o Continuation(done, Taken), Past)
<1>1. PICK new, old, R : new = Taken /\ old = Said(done) /\ R = Past
  OBVIOUS
<1>2. new \in TextsOf /\ MadeBy(new, R) /\ Follows(done, old, new)
  BY <1>1, TakenIs
<1>3. PICK j \in 0..3 : OpensWith(done, old, new, j)
  BY <1>2 DEF Follows
<1>4. done \in TextsOf /\ Sound(done) /\ MadeBy(done, R)
  BY <1>1 DEF DraftInv, TextsGood, GoodText
<1>5. Continuation(done, new) = Behind(new, j)
  BY <1>1, <1>2, <1>3, <1>4, EchoesStripped
<1>6. Sound(done \o Behind(new, j))
  BY <1>1, <1>2, <1>3, <1>4, SoundGlue
<1>7. j \in 0..Len(new)
  BY <1>3 DEF OpensWith
<1>8. Behind(new, j) \in TextsOf /\ MadeBy(Behind(new, j), R)
  BY <1>2, <1>7, BehindIs, MadeByBehind
<1>9. done \o Behind(new, j) \in TextsOf /\ MadeBy(done \o Behind(new, j), R)
  BY <1>4, <1>8, ConcatIs, MadeByBoth
<1> QED BY <1>1, <1>5, <1>6, <1>9 DEF GoodText

LEMMA RetakeKeeps ==
  ASSUME DraftInv, Retake
  PROVE  DraftInv'
<1>1. /\ at = "check" /\ at' = "receive" /\ take = "first" /\ take' = "again"
      /\ UNCHANGED <<live, receipts, pool, cache, drafts, scene, done, segment, asked, blocked, handed>>
  BY DEF Retake, rowVars
<1>2. Usable' = Usable /\ Past' = Usable /\ Past = Usable /\ ReceiptsGood'
  BY <1>1, ReceiptsAsTheyAre DEF Past
<1>3. ProseTypes'
  BY <1>1 DEF DraftInv, ProseTypes, ProsePlaces, ProseWorking, Takes
<1>4. TextsGood'
  BY <1>1, <1>2, TextsStay DEF TextsGood
<1>5. SegmentGoes'
  BY <1>1, <1>2 DEF DraftInv, SegmentGoes
<1>6. CombinedGoes' /\ AnswerGoes' /\ NotBought' /\ Rehearsed' /\ SelectionThere'
  BY <1>1 DEF DraftInv, CombinedGoes, AnswerGoes, NotBought, Rehearsed, SelectionThere, Receiving
<1> QED BY <1>2, <1>3, <1>4, <1>5, <1>6 DEF DraftInv

LEMMA TopUpKeeps ==
  ASSUME DraftInv, TopUp
  PROVE  DraftInv'
<1>1. /\ at = "check" /\ at' = "receive" /\ take' = "more" /\ segment' = Taken
      /\ UNCHANGED <<live, receipts, pool, cache, drafts, scene, done, asked, blocked, handed>>
  BY DEF TopUp, rowVars
<1>2. Usable' = Usable /\ Past' = Usable /\ Past = Usable /\ ReceiptsGood'
  BY <1>1, ReceiptsAsTheyAre DEF Past
<1>3. ProseTypes'
  BY <1>1 DEF DraftInv, ProseTypes, ProsePlaces, ProseWorking, Takes
<1>4. TextsGood'
  BY <1>1, <1>2, TextsStay DEF TextsGood
<1>5. SegmentGoes'
  BY <1>1, <1>2, TakenIs DEF SegmentGoes
<1>6. CombinedGoes' /\ AnswerGoes' /\ NotBought' /\ Rehearsed' /\ SelectionThere'
  BY <1>1 DEF DraftInv, CombinedGoes, AnswerGoes, NotBought, Rehearsed, SelectionThere, Receiving
<1> QED BY <1>2, <1>3, <1>4, <1>5, <1>6 DEF DraftInv

\* A draft is finished: it is handed over, or it is a candidate.
LEMMA DraftFinished ==
  ASSUME DraftInv, at = "check", NEW text, GoodText(text, Usable), FinishDraft(text), UNCHANGED <<cache, asked, blocked>>
  PROVE  /\ at' \in {"drafted", "compare", "rehearse"}
         /\ GoodText(handed', Usable) /\ AllGood(drafts', Usable) /\ AllGood(pool'.drafts, Usable)
         /\ pool' \in Pools /\ pool'.selected = 0 /\ SelectionThere'
<1>1. Past = Usable
  BY DEF Past
<1>2. /\ GoodText(handed, Usable) /\ AllGood(drafts, Usable) /\ AllGood(pool.drafts, Usable)
      /\ pool \in Pools
  BY <1>1 DEF DraftInv, TextsGood, ProseTypes
<1>3. /\ pool.selected = 0 /\ Len(drafts) <= Candidates /\ Len(pool.drafts) <= Candidates
      /\ Candidates = 1 => drafts = <<>>
      /\ Len(drafts) # Candidates /\ Candidates \in Nat
  BY ProseAssumption DEF DraftInv, SelectionThere
<1>4. CASE Candidates = 1
  <2>1. handed' = text /\ at' = "drafted" /\ pool' = pool /\ drafts' = drafts
    BY <1>4 DEF FinishDraft
  <2> QED BY <1>2, <1>3, <2>1 DEF SelectionThere, Receiving
<1>5. CASE Candidates # 1
  <2>1. /\ drafts' = Append(drafts, text) /\ pool' = [drafts |-> drafts', selected |-> 0] /\ handed' = handed
        /\ at' = IF Len(drafts') = Candidates THEN "compare" ELSE "rehearse"
    BY <1>5 DEF FinishDraft
  <2>2. text \in TextsOf /\ drafts \in Seq(TextsOf)
    BY <1>2 DEF GoodText, AllGood
  <2>3. PICK n \in Nat : n = Len(drafts)
    BY <2>2
  <2>4. PICK all : all = drafts'
    OBVIOUS
  <2>5. all \in Seq(TextsOf) /\ Len(all) = n + 1 /\ (\A i \in 1..n : all[i] = drafts[i]) /\ all[n + 1] = text
    BY <2>1, <2>2, <2>3, <2>4, AppendHas
  <2>6. AllGood(all, Usable)
    <3>1. \A i \in 1..n : GoodText(all[i], Usable)
      BY <1>2, <2>3, <2>5 DEF AllGood
    <3>2. \A i \in 1..n + 1 : i \in 1..n \/ i = n + 1
      BY <2>3
    <3>3. \A i \in 1..n + 1 : GoodText(all[i], Usable)
      BY <2>5, <3>1, <3>2
    <3> QED BY <2>5, <3>3 DEF AllGood
  <2>7. pool'.drafts = all /\ pool'.selected = 0 /\ pool' \in Pools
    BY <2>1, <2>4, <2>5 DEF Pools
  <2>8. n + 1 <= Candidates
    BY <1>3, <2>3
  <2>9. SelectionThere'
    <3>1. at' = "rehearse" \/ at' = "compare"
      BY <2>1
    <3>2. at' = "rehearse" => Len(drafts') # Candidates
      BY <2>1
    <3> QED BY <1>5, <2>4, <2>5, <2>7, <2>8, <3>1, <3>2 DEF SelectionThere, Receiving
  <2> QED BY <1>2, <2>1, <2>4, <2>6, <2>7, <2>9
<1> QED BY <1>4, <1>5

LEMMA SceneDoneKeeps ==
  ASSUME DraftInv, SceneDone
  PROVE  DraftInv'
<1>1. PICK text : text = done \o Continuation(done, Taken)
  OBVIOUS
<1>2. /\ at = "check" /\ take' = "first" /\ segment' = <<>> /\ NoStream
      /\ UNCHANGED <<live, receipts, cache, asked, blocked>>
      /\ IF scene < Scenes
         THEN scene' = scene + 1 /\ done' = text /\ at' = "receive" /\ UNCHANGED <<pool, drafts, handed>>
         ELSE FinishDraft(text) /\ scene' = 1 /\ done' = <<>>
  BY <1>1 DEF SceneDone
<1>3. Usable' = Usable /\ Past' = Usable /\ Past = Usable /\ ReceiptsGood'
  <2>1. at' # "stream"
    BY <1>2 DEF FinishDraft
  <2> QED BY <1>2, <2>1, ReceiptsAsTheyAre DEF Past
<1>4. GoodText(text, Usable)
  BY <1>1, <1>2, <1>3, SceneTextIs
<1>5. SegmentGoes'
  BY <1>2, NothingMade, NothingFollows DEF SegmentGoes
<1>6. CASE scene < Scenes
  <2>1. done' = text /\ at' = "receive" /\ UNCHANGED <<pool, drafts, handed>>
    BY <1>2, <1>6
  <2>2. TextsGood'
    BY <1>3, <1>4, <2>1, TextsStay DEF TextsGood
  <2>3. ProseTypes'
    BY <1>2, <2>1 DEF DraftInv, ProseTypes, ProsePlaces, ProseWorking, Takes
  <2>4. CombinedGoes' /\ AnswerGoes' /\ NotBought' /\ Rehearsed' /\ SelectionThere'
    BY <1>2, <2>1 DEF DraftInv, CombinedGoes, AnswerGoes, NotBought, Rehearsed, SelectionThere, Receiving
  <2> QED BY <1>3, <1>5, <2>2, <2>3, <2>4 DEF DraftInv
<1>7. CASE ~(scene < Scenes)
  <2>1. FinishDraft(text) /\ done' = <<>>
    BY <1>2, <1>7
  <2>2. /\ at' \in {"drafted", "compare", "rehearse"}
        /\ GoodText(handed', Usable) /\ AllGood(drafts', Usable) /\ AllGood(pool'.drafts, Usable)
        /\ pool' \in Pools /\ pool'.selected = 0 /\ SelectionThere'
    BY <1>2, <1>4, <2>1, DraftFinished
  <2>3. TextsGood'
    BY <1>3, <2>1, <2>2, NothingGood DEF TextsGood
  <2>4. ProseTypes'
    <3>1. Len(pool'.drafts) \in Nat
      BY <2>2 DEF AllGood
    <3> QED BY <1>2, <2>2, <3>1 DEF DraftInv, ProseTypes, ProsePlaces, ProseWorking, Takes
  <2>5. CombinedGoes' /\ AnswerGoes' /\ NotBought' /\ Rehearsed'
    BY <2>2 DEF CombinedGoes, AnswerGoes, NotBought, Rehearsed, Receiving
  <2> QED BY <1>3, <1>5, <2>2, <2>3, <2>4, <2>5 DEF DraftInv
<1> QED BY <1>6, <1>7

LEMMA SceneRefusedKeeps ==
  ASSUME DraftInv, SceneRefused
  PROVE  DraftInv'
<1>1. at = "check" /\ Failed /\ UNCHANGED <<receipts, pool, cache, asked, blocked, handed>>
  BY DEF SceneRefused
<1>2. PICK V : V = (1..asked) \ blocked'
  OBVIOUS
<1>3. V = Usable /\ Past \subseteq V /\ blocked' \subseteq 1..asked
  BY <1>1, <1>2 DEF Usable, Past, DraftInv, ProseTypes
<1>4. Kept(receipts', V, V, Input)
  BY <1>1, <1>3, ReceiptsAsTheyAre
<1> QED BY <1>1, <1>2, <1>3, <1>4, FailedKeeps

----------------------------------------------------------------------------
(* The stream.                                                             *)

\* An answer begins: what of it is new is of no other answer.
LEMMA AnswerKeeps ==
  ASSUME DraftInv, Answer, MaxEchoes <= 3
  PROVE  DraftInv'
<1>1. /\ at = "open" /\ at' = "stream" /\ asked' = asked + 1
      /\ UNCHANGED <<live, pool, cache, drafts, scene, done, take, segment, combined, attempts, blocked, handed>>
      /\ Persist(Joined(combined, pieces'), FALSE)
  BY DEF Answer, takeVars
<1>2. asked \in Nat /\ blocked \subseteq 1..asked
  BY DEF DraftInv, ProseTypes
<1>3. Past = Usable /\ Past' = Past /\ Usable' = Past \cup {asked'} /\ asked' \notin Past
  <2>1. Past = (1..asked) \ blocked
    BY <1>1 DEF Past, Usable
  <2>2. Usable' = ((1..asked) \ blocked) \cup {asked'} /\ asked' \notin 1..asked
    BY <1>1, <1>2 DEF Usable
  <2>3. Past' = Usable' \ {asked'}
    BY <1>1 DEF Past
  <2> QED BY <1>1, <2>1, <2>2, <2>3 DEF Past
<1>4. combined \in TextsOf /\ Follows(Base, Old, combined) /\ MadeBy(combined, Past)
  BY <1>1 DEF DraftInv, CombinedGoes, Receiving
<1>5. Input' = Input /\ Base' = Base /\ Old' = Old /\ Shown' = Shown
  BY <1>1 DEF Input, Base, Old, Shown
<1>6. PICK p : p = pieces'
  OBVIOUS
<1>7. Shown \in TextsOf
  BY <1>4, InputIs DEF DraftInv, Shown, Base
<1>8. PICK e \in 0..MaxEchoes : p \in TextsOf /\ AnswersTo(Shown, asked', p, e)
  <2>1. MaxEchoes \in Nat
    BY ProseAssumption
  <2>2. CASE p = << <<asked', 1>> >>
    <3>1. p \in TextsOf /\ Len(p) = 1 /\ p[1] = <<asked', 1>>
      BY <1>1, <1>2, <2>2 DEF TextsOf, Written
    <3>2. AnswersTo(Shown, asked', p, 0)
      BY <3>1 DEF AnswersTo
    <3> QED BY <2>1, <3>1, <3>2
  <2>3. CASE Shown # <<>> /\ MaxEchoes > 0 /\ p = << Last(Shown) >>
    <3>1. PICK n \in Nat : n = Len(Shown)
      BY <1>7, TextHas
    <3>2. n # 0
      BY <1>7, <2>3, <3>1 DEF TextsOf
    <3>3. Last(Shown) = Shown[n] /\ Shown[n] \in Written
      BY <1>7, <3>1, <3>2, TextHas DEF Last
    <3>4. p \in TextsOf /\ Len(p) = 1 /\ p[1] = Shown[n]
      BY <2>3, <3>3 DEF TextsOf
    <3>5. AnswersTo(Shown, asked', p, 1)
      BY <2>3, <3>1, <3>4 DEF AnswersTo
    <3> QED BY <2>1, <2>3, <3>4, <3>5
  <2> QED BY <1>6, <2>2, <2>3 DEF Answer
<1>9. e \in 0..3
  <2>1. MaxEchoes \in Nat
    BY ProseAssumption
  <2> QED BY <2>1
<1>10. PICK text : text = Joined(combined, p)
  OBVIOUS
<1>11. text \in TextsOf /\ GoesOn(Input, text) /\ MadeBy(text, Past \cup {asked'})
  BY <1>3, <1>4, <1>8, <1>9, <1>10, StreamGoesOn DEF DraftInv
<1>12. Input \in Inputs /\ Input.rehearsal = 1
  BY <1>1, InputIs DEF DraftInv, Rehearsed, Receiving
<1>13. Kept(receipts, Usable, Past, Input)
  BY DEF DraftInv, ReceiptsGood
<1>14. PICK V : V = Past \cup {asked'}
  OBVIOUS
<1>15. Past \subseteq V /\ MadeBy(text, V) /\ Persist(text, FALSE)
  BY <1>1, <1>6, <1>10, <1>11, <1>14
<1>16. /\ Kept(receipts', V, Past, Input)
       /\ \A i \in 1..Len(receipts') : receipts'[i].input = Input => receipts'[i].complete = FALSE
  BY <1>11, <1>12, <1>13, <1>15, CheckpointSaved
<1>17. ReceiptsGood'
  BY <1>3, <1>5, <1>14, <1>16 DEF ReceiptsGood
<1>18. NotBought'
  BY <1>5, <1>16 DEF NotBought
<1>19. ProseTypes'
  BY <1>1, <1>2, <1>3 DEF DraftInv, ProseTypes, ProsePlaces, ProseWorking, Receiving
<1>20. TextsGood' /\ SegmentGoes'
  BY <1>1, <1>3, TextsStay, SegmentStays DEF TextsGood
<1>21. CombinedGoes'
  BY <1>1, <1>3, <1>4, <1>5 DEF CombinedGoes
<1>22. AnswerGoes'
  BY <1>1, <1>5, <1>6, <1>8 DEF AnswerGoes
<1>23. Rehearsed' /\ SelectionThere'
  BY <1>1 DEF DraftInv, Rehearsed, SelectionThere, Receiving
<1> QED BY <1>17, <1>18, <1>19, <1>20, <1>21, <1>22, <1>23 DEF DraftInv

LEMMA PieceKeeps ==
  ASSUME DraftInv, Piece, MaxEchoes <= 3
  PROVE  DraftInv'
<1>1. /\ at = "stream" /\ at' = "stream"
      /\ UNCHANGED <<live, pool, cache, drafts, scene, done, take, segment, combined, attempts, asked, blocked, handed>>
      /\ Persist(Joined(combined, pieces'), FALSE) \/ receipts' = receipts
  BY DEF Piece, takeVars
<1>2. /\ asked \in Nat /\ Past = Usable \ {asked} /\ asked \in Usable
      /\ Past' = Past /\ Usable' = Usable
  BY <1>1 DEF DraftInv, ProseTypes, Past, Usable
<1>3. combined \in TextsOf /\ Follows(Base, Old, combined) /\ MadeBy(combined, Past)
  BY <1>1 DEF DraftInv, CombinedGoes, Receiving
<1>4. Input' = Input /\ Base' = Base /\ Old' = Old /\ Shown' = Shown
  BY <1>1 DEF Input, Base, Old, Shown
<1>5. PICK p : p = pieces'
  OBVIOUS
<1>6. Shown \in TextsOf
  BY <1>3, InputIs DEF DraftInv, Shown, Base
<1>7. PICK d \in 0..MaxEchoes : pieces \in TextsOf /\ AnswersTo(Shown, asked, pieces, d)
  BY <1>1 DEF DraftInv, AnswerGoes
<1>8. PICK m \in Nat : m = Len(pieces)
  BY <1>7, TextHas
<1>9. d \in 0..m /\ d \in Nat /\ MaxEchoes \in Nat
  BY <1>7, <1>8, ProseAssumption DEF AnswersTo
<1>10. pieces \in Seq(Written) /\ DOMAIN pieces = 1..m
  BY <1>7, <1>8 DEF TextsOf
<1>11. PICK e \in 0..MaxEchoes : p \in TextsOf /\ AnswersTo(Shown, asked, p, e)
  <2>1. CASE p = Append(pieces, <<asked, m + 1>>)
    <3>1. <<asked, m + 1>> \in Written
      BY <1>2 DEF Written
    <3>2. p \in Seq(Written) /\ Len(p) = m + 1 /\ (\A i \in 1..m : p[i] = pieces[i]) /\ p[m + 1] = <<asked, m + 1>>
      BY <1>8, <1>10, <2>1, <3>1, AppendHas
    <3>3. d \in 0..Len(p)
      BY <1>9, <3>2
    <3>4. d > 0 => Shown # <<>> /\ \A i \in 1..d : p[i] = Shown[Len(Shown)]
      <4>1. \A i \in 1..d : i \in 1..m
        BY <1>9
      <4> QED BY <1>7, <3>2, <4>1 DEF AnswersTo
    <3>5. ASSUME NEW i \in d + 1..m + 1 PROVE p[i] = <<asked, i>>
      <4>1. CASE i = m + 1
        BY <3>2, <4>1
      <4>2. CASE i # m + 1
        <5>1. i \in d + 1..m /\ i \in 1..m
          BY <1>9, <4>2
        <5> QED BY <1>7, <1>8, <3>2, <5>1 DEF AnswersTo
      <4> QED BY <4>1, <4>2
    <3>6. AnswersTo(Shown, asked, p, d)
      BY <3>2, <3>3, <3>4, <3>5 DEF AnswersTo
    <3> QED BY <3>2, <3>6 DEF TextsOf
  <2>2. CASE /\ Shown # <<>> /\ m < MaxEchoes /\ \A i \in DOMAIN pieces : pieces[i] = Last(Shown)
             /\ p = Append(pieces, Last(Shown))
    <3>1. PICK n \in Nat : n = Len(Shown)
      BY <1>6, TextHas
    <3>2. n # 0
      BY <1>6, <2>2, <3>1 DEF TextsOf
    <3>3. Last(Shown) = Shown[n] /\ Shown[n] \in Written
      BY <1>6, <3>1, <3>2, TextHas DEF Last
    <3>4. p \in Seq(Written) /\ Len(p) = m + 1 /\ (\A i \in 1..m : p[i] = pieces[i]) /\ p[m + 1] = Shown[n]
      BY <1>8, <1>10, <2>2, <3>3, AppendHas
    <3>5. \A i \in 1..m + 1 : p[i] = Shown[n]
      <4>1. TAKE i \in 1..m + 1
      <4>2. i \in 1..m \/ i = m + 1
        BY <1>8
      <4> QED BY <1>10, <2>2, <3>3, <3>4, <4>2
    <3>6. AnswersTo(Shown, asked, p, m + 1)
      BY <2>2, <3>1, <3>4, <3>5 DEF AnswersTo
    <3>7. m + 1 \in 0..MaxEchoes
      BY <1>9, <2>2
    <3> QED BY <3>4, <3>6, <3>7 DEF TextsOf
  <2> QED BY <1>5, <1>8, <2>1, <2>2 DEF Piece
<1>12. AnswerGoes'
  BY <1>1, <1>4, <1>5, <1>11 DEF AnswerGoes
<1>13. e \in 0..3
  BY <1>9
<1>14. Past \cup {asked} = Usable /\ asked \notin Past
  BY <1>2
<1>15. PICK text : text = Joined(combined, p)
  OBVIOUS
<1>16. text \in TextsOf /\ GoesOn(Input, text) /\ MadeBy(text, Usable)
  <2>1. text \in TextsOf /\ GoesOn(Input, text) /\ MadeBy(text, Past \cup {asked})
    BY <1>3, <1>11, <1>13, <1>14, <1>15, StreamGoesOn DEF DraftInv
  <2> QED BY <1>14, <2>1
<1>17. Input \in Inputs /\ Input.rehearsal = 1
  BY <1>1, InputIs DEF DraftInv, Rehearsed, Receiving
<1>18. Kept(receipts, Usable, Past, Input)
  BY DEF DraftInv, ReceiptsGood
<1>19. ReceiptsGood' /\ NotBought'
  <2>1. CASE receipts' = receipts
    BY <1>1, <1>2, <1>4, <2>1 DEF DraftInv, ReceiptsGood, NotBought
  <2>2. CASE Persist(Joined(combined, pieces'), FALSE)
    <3>1. Persist(text, FALSE) /\ Past \subseteq Usable
      BY <1>2, <1>5, <1>15, <2>2
    <3>2. /\ Kept(receipts', Usable, Past, Input)
          /\ \A i \in 1..Len(receipts') : receipts'[i].input = Input => receipts'[i].complete = FALSE
      BY <1>16, <1>17, <1>18, <3>1, CheckpointSaved
    <3> QED BY <1>2, <1>4, <3>2 DEF ReceiptsGood, NotBought
  <2> QED BY <1>1, <2>1, <2>2
<1>20. ProseTypes'
  BY <1>1, <1>2 DEF DraftInv, ProseTypes, ProsePlaces
<1>21. TextsGood' /\ SegmentGoes'
  BY <1>1, <1>2, TextsStay, SegmentStays DEF TextsGood
<1>22. CombinedGoes'
  BY <1>1, <1>2, <1>3, <1>4 DEF CombinedGoes
<1>23. Rehearsed' /\ SelectionThere'
  BY <1>1 DEF DraftInv, Rehearsed, SelectionThere, Receiving
<1> QED BY <1>12, <1>19, <1>20, <1>21, <1>22, <1>23 DEF DraftInv

\* What has been gathered is saved, and the answer is over.
LEMMA GatheredSaved ==
  ASSUME DraftInv, at \in Receiving, MaxEchoes <= 3, NEW complete \in BOOLEAN, Persist(Gathered, complete)
  PROVE  /\ Kept(receipts', Usable, Usable, Input) /\ Past \subseteq Usable
         /\ \A i \in 1..Len(receipts') : receipts'[i].input = Input => receipts'[i].complete = complete
<1>1. Gathered \in TextsOf /\ GoesOn(Input, Gathered) /\ MadeBy(Gathered, Usable)
  BY GatheredIs
<1>2. Input \in Inputs /\ Input.rehearsal = 1
  BY InputIs DEF DraftInv, Rehearsed
<1>3. Kept(receipts, Usable, Past, Input) /\ Past \subseteq Usable
  BY DEF DraftInv, ReceiptsGood, Past
<1>4. /\ Kept(receipts', Usable, Past, Input)
      /\ \A i \in 1..Len(receipts') : receipts'[i].input = Input => receipts'[i].complete = complete
  BY <1>1, <1>2, <1>3, CheckpointSaved
<1> QED BY <1>3, <1>4, KeptAny

\* The answer is cut off: it is gone on with, or the take is given up.
LEMMA CutOffKeeps ==
  ASSUME DraftInv, at \in Receiving, MaxEchoes <= 3, Persist(Gathered, FALSE),
         (Again /\ UNCHANGED <<live, takeVars>>) \/ Failed, UNCHANGED <<pool, cache, asked, blocked, handed>>
  PROVE  DraftInv'
<1>1. /\ Kept(receipts', Usable, Usable, Input) /\ Past \subseteq Usable
      /\ \A i \in 1..Len(receipts') : receipts'[i].input = Input => receipts'[i].complete = FALSE
  BY GatheredSaved
<1>2. CASE Failed
  <2>1. PICK V : V = (1..asked) \ blocked'
    OBVIOUS
  <2>2. V = Usable /\ blocked' \subseteq 1..asked
    BY <2>1 DEF Usable, DraftInv, ProseTypes
  <2> QED BY <1>1, <1>2, <2>1, <2>2, FailedKeeps
<1>3. CASE Again /\ UNCHANGED <<live, takeVars>>
  <2>1. /\ combined' = Gathered /\ pieces' = <<>> /\ at' = "open"
        /\ UNCHANGED <<drafts, scene, done, take, segment>>
    BY <1>3 DEF Again, takeVars
  <2>2. Usable' = Usable /\ Past' = Usable
    BY <2>1 DEF Usable, Past
  <2>3. Input' = Input /\ Base' = Base /\ Old' = Old
    BY <2>1 DEF Input, Base, Old
  <2>4. ReceiptsGood' /\ NotBought'
    BY <1>1, <2>2, <2>3 DEF ReceiptsGood, NotBought
  <2>5. ProseTypes'
    BY <2>1 DEF DraftInv, ProseTypes, ProsePlaces, ProseWorking, Receiving
  <2>6. TextsGood' /\ SegmentGoes'
    BY <1>1, <2>1, <2>2, TextsStay, SegmentStays DEF TextsGood
  <2>7. CombinedGoes'
    <3>1. Gathered \in TextsOf /\ GoesOn(Input, Gathered) /\ MadeBy(Gathered, Usable)
      BY GatheredIs
    <3>2. Follows(Base, Old, Gathered)
      BY <3>1, InputIs DEF DraftInv
    <3> QED BY <2>1, <2>2, <2>3, <3>1, <3>2 DEF CombinedGoes
  <2>8. AnswerGoes'
    BY <2>1 DEF AnswerGoes
  <2>9. Rehearsed' /\ SelectionThere'
    BY <2>1 DEF DraftInv, Rehearsed, SelectionThere, Receiving
  <2> QED BY <2>4, <2>5, <2>6, <2>7, <2>8, <2>9 DEF DraftInv
<1> QED BY <1>2, <1>3

LEMMA CompletedKeeps ==
  ASSUME DraftInv, Completed, MaxEchoes <= 3
  PROVE  DraftInv'
<1>1. /\ at = "stream" /\ at' = "check" /\ Persist(Gathered, TRUE) /\ combined' = Gathered
      /\ UNCHANGED <<live, pool, cache, drafts, scene, done, take, segment, asked, blocked, handed>>
  BY DEF Completed, takeVars
<1>2. Kept(receipts', Usable, Usable, Input) /\ Past \subseteq Usable
  BY <1>1, GatheredSaved DEF Receiving
<1>3. Usable' = Usable /\ Past' = Usable
  BY <1>1 DEF Usable, Past
<1>4. Input' = Input /\ Base' = Base /\ Old' = Old
  BY <1>1 DEF Input, Base, Old
<1>5. ReceiptsGood'
  BY <1>2, <1>3, <1>4 DEF ReceiptsGood
<1>6. ProseTypes'
  BY <1>1 DEF DraftInv, ProseTypes, ProsePlaces, ProseWorking
<1>7. TextsGood' /\ SegmentGoes'
  BY <1>1, <1>2, <1>3, TextsStay, SegmentStays DEF TextsGood
<1>8. CombinedGoes'
  <2>1. Gathered \in TextsOf /\ GoesOn(Input, Gathered) /\ MadeBy(Gathered, Usable)
    BY <1>1, GatheredIs DEF Receiving
  <2>2. Follows(Base, Old, Gathered)
    BY <2>1, InputIs DEF DraftInv
  <2> QED BY <1>1, <1>3, <1>4, <2>1, <2>2 DEF CombinedGoes
<1>9. AnswerGoes' /\ NotBought' /\ Rehearsed' /\ SelectionThere'
  BY <1>1 DEF DraftInv, AnswerGoes, NotBought, Rehearsed, SelectionThere, Receiving
<1> QED BY <1>5, <1>6, <1>7, <1>8, <1>9 DEF DraftInv

\* The content filter: the receipt is empty, and no other holds anything of the answer.
LEMMA FilteredKeeps ==
  ASSUME DraftInv, Filtered
  PROVE  DraftInv'
<1>1. /\ at = "stream" /\ Persist(<<>>, FALSE) /\ blocked' = blocked \cup {asked} /\ Failed
      /\ UNCHANGED <<pool, cache, asked, handed>>
  BY DEF Filtered
<1>2. PICK V : V = (1..asked) \ blocked'
  OBVIOUS
<1>3. V = Past /\ blocked' \subseteq 1..asked
  BY <1>1, <1>2 DEF Past, Usable, DraftInv, ProseTypes
<1>4. Input \in Inputs /\ Input.rehearsal = 1
  BY <1>1, InputIs DEF DraftInv, Rehearsed, Receiving
<1>5. PICK none : none = <<>>
  OBVIOUS
<1>6. none \in TextsOf /\ GoesOn(Input, none) /\ MadeBy(none, V)
  BY <1>5, NothingMade, NothingFollows DEF GoesOn
<1>7. Kept(receipts, Usable, Past, Input) /\ Past \subseteq V /\ Persist(none, FALSE)
  BY <1>1, <1>3, <1>5 DEF DraftInv, ReceiptsGood
<1>8. Kept(receipts', V, Past, Input)
  BY <1>4, <1>6, <1>7, CheckpointSaved
<1>9. Kept(receipts', V, V, Input)
  BY <1>3, <1>8
<1> QED BY <1>1, <1>2, <1>3, <1>9, FailedKeeps DEF Receiving

\* A run that ends: paused, or with the process.
LEMMA EndKeeps ==
  ASSUME DraftInv, Pause \/ ProseCrash, MaxEchoes <= 3
  PROVE  DraftInv'
<1>1. Ended /\ UNCHANGED <<pool, cache, asked, blocked, handed>>
  BY DEF Pause, ProseCrash
<1>2. (at \in Receiving /\ Persist(Gathered, FALSE)) \/ receipts' = receipts
  BY DEF Pause, ProseCrash
<1>3. PICK V : V = (1..asked) \ blocked'
  OBVIOUS
<1>4. V = Usable /\ blocked' \subseteq 1..asked
  BY <1>1, <1>3 DEF Usable, DraftInv, ProseTypes
<1>5. Kept(receipts', V, V, Input) /\ Past \subseteq V
  <2>1. CASE at \in Receiving /\ Persist(Gathered, FALSE)
    BY <1>4, <2>1, GatheredSaved
  <2>2. CASE receipts' = receipts
    BY <1>1, <1>4, <2>2, ReceiptsAsTheyAre
  <2> QED BY <1>2, <2>1, <2>2
<1>6. at' = "idle" /\ NoTake /\ NoStream /\ drafts' = <<>>
  BY <1>1 DEF Ended
<1> QED BY <1>1, <1>3, <1>4, <1>5, <1>6, GivenUp

LEMMA ResumeKeeps ==
  ASSUME DraftInv, ProseResume
  PROVE  DraftInv'
<1>1. /\ at = "idle" /\ at' = "start"
      /\ UNCHANGED <<receipts, pool, cache, drafts, scene, done, take, segment, combined, pieces, attempts, asked, blocked, handed>>
  BY DEF ProseResume, takeVars, streamVars
<1>2. Usable' = Usable /\ Past' = Usable /\ Past = Usable /\ ReceiptsGood'
  BY <1>1, ReceiptsAsTheyAre DEF Past
<1>3. ProseTypes'
  BY <1>1 DEF DraftInv, ProseTypes, ProsePlaces
<1>4. TextsGood' /\ SegmentGoes'
  BY <1>1, <1>2, TextsStay, SegmentStays DEF TextsGood
<1>5. CombinedGoes' /\ AnswerGoes' /\ NotBought' /\ Rehearsed' /\ SelectionThere'
  BY <1>1 DEF DraftInv, CombinedGoes, AnswerGoes, NotBought, Rehearsed, SelectionThere, Receiving
<1> QED BY <1>2, <1>3, <1>4, <1>5 DEF DraftInv

LEMMA StutterKeepsDraft ==
  ASSUME DraftInv, UNCHANGED proseVars
  PROVE  DraftInv'
<1>1. UNCHANGED <<live, receipts, pool, cache, at, drafts, scene, done, take, segment, combined, pieces, attempts, asked, blocked, handed>>
  BY DEF proseVars, rowVars, takeVars, streamVars
<1>2. Usable' = Usable /\ Past' = Past /\ Input' = Input /\ Base' = Base /\ Old' = Old /\ Shown' = Shown
  BY <1>1 DEF Usable, Past, Input, Base, Old, Shown
<1>3. ProseTypes' /\ TextsGood' /\ SegmentGoes' /\ CombinedGoes'
  BY <1>1, <1>2 DEF DraftInv, ProseTypes, TextsGood, SegmentGoes, CombinedGoes
<1>4. AnswerGoes' /\ ReceiptsGood' /\ NotBought' /\ Rehearsed' /\ SelectionThere'
  BY <1>1, <1>2 DEF DraftInv, AnswerGoes, ReceiptsGood, NotBought, Rehearsed, SelectionThere
<1> QED BY <1>3, <1>4 DEF DraftInv

LEMMA DraftStep ==
  ASSUME DraftInv, ProseNext, MaxEchoes <= 3
  PROVE  DraftInv'
<1>1. CASE Start \/ Rehearse \/ Compare
  BY <1>1, StartKeeps, RehearseKeeps, CompareKeeps
<1>2. CASE Receive \/ Retake \/ TopUp \/ SceneDone \/ SceneRefused
  BY <1>2, ReceiveKeeps, RetakeKeeps, TopUpKeeps, SceneDoneKeeps, SceneRefusedKeeps
<1>3. CASE Answer \/ Piece
  BY <1>3, AnswerKeeps, PieceKeeps
<1>4. CASE Interrupted
  BY <1>4, CutOffKeeps DEF Interrupted
<1>5. CASE Truncated
  <2>1. at \in Receiving
    BY <1>5 DEF Truncated, Receiving
  <2> QED BY <1>5, <2>1, CutOffKeeps DEF Truncated
<1>6. CASE Broken
  <2>1. /\ at \in Receiving /\ Persist(Gathered, FALSE) /\ Failed
        /\ UNCHANGED <<pool, cache, asked, blocked, handed>>
    BY <1>6 DEF Broken
  <2> QED BY <2>1, CutOffKeeps
<1>7. CASE Completed \/ Filtered
  BY <1>7, CompletedKeeps, FilteredKeeps
<1>8. CASE Pause \/ ProseCrash \/ ProseResume
  BY <1>8, EndKeeps, ResumeKeeps
<1> QED BY <1>1, <1>2, <1>3, <1>4, <1>5, <1>6, <1>7, <1>8 DEF ProseNext, ProseStep

\* What the invariant says of the drafts.
LEMMA DraftsHold ==
  ASSUME DraftInv
  PROVE  NothingRepeated /\ BlockedIsDropped
<1>1. GoodText(done, Past) /\ GoodText(handed, Past) /\ AllGood(drafts, Past) /\ AllGood(pool.drafts, Past)
  BY DEF DraftInv, TextsGood
<1>2. drafts \in Seq(TextsOf) /\ pool.drafts \in Seq(TextsOf) /\ receipts \in Seq(ReceiptsOf)
  BY <1>1 DEF AllGood, DraftInv, ReceiptsGood, Kept
<1>3. /\ DOMAIN drafts = 1..Len(drafts) /\ DOMAIN pool.drafts = 1..Len(pool.drafts)
      /\ DOMAIN receipts = 1..Len(receipts)
  BY <1>2
<1>4. /\ \A i \in DOMAIN drafts : GoodText(drafts[i], Past)
      /\ \A i \in DOMAIN pool.drafts : GoodText(pool.drafts[i], Past)
  BY <1>1, <1>3 DEF AllGood
<1>5. NothingRepeated
  BY <1>1, <1>4 DEF NothingRepeated, GoodText
<1>6. ASSUME NEW text \in TextsOf, MadeBy(text, Usable) PROVE Requests(text) \cap blocked = {}
  <2>1. DOMAIN text = 1..Len(text)
    BY TextHas
  <2>2. \A i \in DOMAIN text : text[i][1] \notin blocked
    BY <1>6, <2>1 DEF MadeBy, Usable
  <2> QED BY <2>2 DEF Requests
<1>7. Past \subseteq Usable
  BY DEF Past
<1>8. ASSUME NEW text, GoodText(text, Past) PROVE Requests(text) \cap blocked = {}
  BY <1>6, <1>7, <1>8, MadeByMore DEF GoodText
<1>9. ASSUME NEW i \in DOMAIN receipts PROVE Requests(receipts[i].text) \cap blocked = {}
  <2>1. MadeBy(receipts[i].text, Usable)
    BY <1>3 DEF DraftInv, ReceiptsGood, Kept
  <2>2. receipts[i] \in ReceiptsOf
    BY <1>2, <1>3, ElementOfSeq
  <2> QED BY <1>6, <2>1, <2>2 DEF ReceiptsOf
<1>10. BlockedIsDropped
  BY <1>1, <1>4, <1>8, <1>9 DEF BlockedIsDropped
<1> QED BY <1>5, <1>10

LEMMA StepsAsk ==
  ASSUME ProseNext, asked' # asked
  PROVE  Answer
BY DEF ProseNext, ProseStep, Start, Rehearse, Compare, Receive, Retake, TopUp, SceneDone, SceneRefused, Piece,
       Interrupted, Truncated, Completed, Filtered, Broken, Pause, ProseCrash, ProseResume

LEMMA NotAskedAgain ==
  ASSUME DraftInv, ProseNext, asked' # asked, NEW i \in DOMAIN receipts, receipts[i].complete, receipts[i].text # <<>>
  PROVE  [receipts[i].input EXCEPT !.rehearsal = cache] # Input
<1>1. at = "open"
  BY StepsAsk DEF Answer
<1>2. receipts \in Seq(ReceiptsOf) /\ receipts[i].input.rehearsal = 1
  BY DEF DraftInv, ReceiptsGood, Kept
<1>3. i \in 1..Len(receipts) /\ receipts[i] \in ReceiptsOf
  BY <1>2, ElementOfSeq
<1>4. cache = 1
  BY <1>1 DEF DraftInv, Rehearsed, Receiving
<1>5. PICK input : input = receipts[i].input
  OBVIOUS
<1>6. input \in Inputs /\ input.rehearsal = cache
  BY <1>2, <1>3, <1>4, <1>5 DEF ReceiptsOf
<1>7. [input EXCEPT !.rehearsal = cache] = input
  BY <1>6 DEF Inputs
<1>8. input # Input
  BY <1>1, <1>3, <1>5 DEF DraftInv, NotBought, Receiving
<1> QED BY <1>5, <1>7, <1>8

LEMMA SelectionKept ==
  ASSUME DraftInv, ProseNext, pool.selected # 0
  PROVE  pool' = pool /\ asked' = asked /\ (handed' # handed => handed' = pool.drafts[pool.selected])
<1>1. Candidates > 1 /\ at \in {"drafted", "idle", "start"}
  BY DEF DraftInv, SelectionThere
<1>2. Start \/ ProseCrash \/ ProseResume
  BY <1>1 DEF ProseNext, ProseStep, Rehearse, Compare, Receive, Retake, TopUp, SceneDone, SceneRefused, Answer, Piece,
              Interrupted, Truncated, Completed, Filtered, Broken, Pause, Receiving, ProseWorking
<1>3. CASE Start
  BY <1>1, <1>3 DEF Start, rowVars
<1>4. CASE ProseCrash \/ ProseResume
  BY <1>4 DEF ProseCrash, ProseResume
<1> QED BY <1>2, <1>3, <1>4

\* Whatever is cut off, continued, blocked or lost with the process: no draft says a thing twice, none holds
\* text of an answer that was blocked, a scene received to its end is not asked for again while its receipt is
\* kept, and the selected candidate stands.  An answer opens with three echoes at most: no more are taken off.
THEOREM DraftingSound ==
  ASSUME MaxEchoes <= 3
  PROVE  ProseSpec => DraftingIsSound
<1>1. ProseInit => DraftInv
  BY DraftInit
<1>2. DraftInv /\ [ProseNext]_proseVars => DraftInv'
  BY DraftStep, StutterKeepsDraft
<1>3. DraftInv => NothingRepeated /\ BlockedIsDropped
  BY DraftsHold
<1>4. DraftInv /\ [ProseNext]_proseVars =>
        [asked' # asked =>
           \A i \in DOMAIN receipts :
             receipts[i].complete /\ receipts[i].text # <<>> =>
               [receipts[i].input EXCEPT !.rehearsal = cache] # Input]_proseVars
  BY NotAskedAgain
<1>5. DraftInv /\ [ProseNext]_proseVars =>
        [pool.selected # 0 => pool' = pool /\ asked' = asked
           /\ (handed' # handed => handed' = pool.drafts[pool.selected])]_proseVars
  BY SelectionKept
<1> QED BY <1>1, <1>2, <1>3, <1>4, <1>5, PTL DEF ProseSpec, DraftingIsSound, FinishedSceneStays, SelectionStands
=============================================================================
