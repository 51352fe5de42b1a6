--------------------------- MODULE FocusedCritics ---------------------------
(***************************************************************************)
(* The focused critics (review/focused_critics.py): a draft is read by one *)
(* merged checker or by one checker per family, and a small revision of    *)
(* the last draft read is only verified: the earlier issues are judged     *)
(* again and the changed sentences are read.  What the last audit of a     *)
(* chapter left is kept in the process; audits of one chapter may overlap. *)
(***************************************************************************)
EXTENDS Integers, FiniteSets, FiniteSetsExt, SequencesExt

CONSTANTS
  Critics,     \* CHECKERS
  Sentences,   \* what the draft may consist of
  Contexts,    \* values of the blocks of STABLE_CONTEXT_KEYS
  MaxChain,    \* MAX_VERIFY_CHAIN
  Audits,      \* audits that may run at a time
  MaxIssue,    \* bound: issues numbered
  MaxDraftEdits \* bound: revisions of the draft, and restarts

Unattributed == "merged"

ASSUME CriticsAssumption ==
  /\ IsFiniteSet(Critics) /\ Critics # {} /\ Unattributed \notin Critics /\ Sentences # {} /\ 0 \notin Sentences
  /\ Contexts # {} /\ {MaxChain, MaxIssue, MaxDraftEdits} \subseteq Nat

VARIABLES
  readDraft,   \* [text: a set of sentences, context]
  lastRun, \* _last_runs of the chapter: [there, draft, complete, issues, chain, next]
  audit,   \* per audit: [at, draft, prior: lastRun as it began, issues, cleared: numbers judged resolved]
  report,  \* the answer just given: [mode, draft, prior, issues, cleared, done: critics that completed]
  seen,    \* what happened: <<critic, sentence, context>> of a completed check
  revisions

criticVars == <<readDraft, lastRun, audit, report, seen, revisions>>

NoDraft == [text |-> {}, context |-> CHOOSE c \in Contexts : TRUE]
NoRun == [there |-> FALSE, draft |-> NoDraft, complete |-> FALSE, issues |-> {}, chain |-> 0, next |-> 1]
NoAudit == [at |-> "none", draft |-> NoDraft, prior |-> NoRun, issues |-> {}, cleared |-> {}]
NoReport == [mode |-> "none", draft |-> NoDraft, prior |-> {}, issues |-> {}, cleared |-> {}, done |-> {}]

CriticsInit ==
  /\ readDraft = [NoDraft EXCEPT !.text = Sentences]
  /\ lastRun = NoRun /\ audit = [a \in Audits |-> NoAudit] /\ report = NoReport
  /\ seen = {} /\ revisions = 0

----------------------------------------------------------------------------
(* Verification or full audit.                                             *)

\* changed_units: sentences the old text lacks
Changed(old, new) == new.text \ old.text

\* _revision_changes: another draft, in the same context, with few new sentences
SmallRevision(old, new) ==
  /\ new.text # old.text /\ new.context = old.context
  /\ 2 * Cardinality(Changed(old, new)) <= Cardinality(new.text)

\* Mutant of MayVerify: a run in which a checker failed is verified against.
MayVerifyBlind(run, new) ==
  /\ run.there /\ run.chain < MaxChain /\ SmallRevision(run.draft, new)
  /\ Changed(run.draft, new) # {} \/ run.issues # {}

\* plan_verification
MayVerify(run, new) ==
  /\ run.there /\ run.complete /\ run.chain < MaxChain /\ SmallRevision(run.draft, new)
  /\ Changed(run.draft, new) # {} \/ run.issues # {}

----------------------------------------------------------------------------
(* Issues: [number (0 before it has one), critic, severity: 3 high to 1    *)
(* low, at: the sentence of the evidence, 0 when it cannot be located].    *)

\* what a check may find in a text; one issue stands for the few it may return
Findings(critics, text) ==
  {{}} \cup {{i} : i \in [number : {0}, critic : critics, severity : {3, 2}, at : text]}

\* assign_issue_ids
Numbered(issues, next) ==
  LET new == SetToSeq({i \in issues : i.number = 0})
  IN {i \in issues : i.number > 0} \cup {[new[k] EXCEPT !.number = next + k - 1] : k \in 1..Len(new)}

Lower(severity) == IF severity = 1 THEN 1 ELSE severity - 1

\* Mutant of Carried: an issue the answer says nothing of is taken as resolved.
CarriedIfJudged(i, verdict, place) ==
  IF verdict \in {"resolved", "none"} THEN {}
  ELSE {[i EXCEPT !.at = place, !.severity = IF place = 0 THEN 1 ELSE IF verdict = "partially" THEN Lower(@) ELSE @]}

\* carry_prior_issue: only a verdict resolves an issue; one whose evidence is gone becomes low
Carried(i, verdict, place) ==
  IF verdict = "resolved" THEN {}
  ELSE {[i EXCEPT !.at = place, !.severity = IF place = 0 THEN 1 ELSE IF verdict = "partially" THEN Lower(@) ELSE @]}

\* _carry_merged: what the merged checker found and no completed checker looked at again
CarriedOver(merged, done) ==
  IF done = {} THEN merged
  ELSE {i \in merged : IF i.critic = Unattributed THEN done # Critics ELSE i.critic \notin done}

----------------------------------------------------------------------------
(* An audit: run_focused_critics, one step for each call of the model.     *)

\* remember_run and _assemble
Answered(a, mode, issues, done, cleared) ==
  LET new == Numbered(issues, audit[a].prior.next)
      next == audit[a].prior.next + Cardinality({i \in issues : i.number = 0})
      complete == mode = "verify" \/ done = Critics
  IN /\ next <= MaxIssue + 1
     /\ lastRun' = [there |-> TRUE, draft |-> audit[a].draft, complete |-> complete, issues |-> new, next |-> next,
                    chain |-> IF mode = "verify" THEN audit[a].prior.chain + 1 ELSE 0]
     /\ report' = [mode |-> mode, draft |-> audit[a].draft, prior |-> audit[a].prior.issues, issues |-> new,
                   cleared |-> cleared, done |-> done]
     /\ audit' = [audit EXCEPT ![a] = NoAudit]

Goes(a, at, issues, cleared) ==
  /\ audit' = [audit EXCEPT ![a] = [@ EXCEPT !.at = at, !.issues = issues, !.cleared = cleared]]
  /\ UNCHANGED <<lastRun, report>>

Sees(a, critics, text) == seen' = seen \cup {<<c, s, audit[a].draft.context>> : c \in critics, s \in text}

\* the checks of a full audit: choose_budget
Full == {"merged", "focused"}

BeginAudit(a) ==
  /\ audit[a].at = "none"
  /\ \E at \in IF MayVerify(lastRun, readDraft) THEN {IF lastRun.issues # {} THEN "verify" ELSE "delta"} ELSE Full :
       audit' = [audit EXCEPT ![a] = [NoAudit EXCEPT !.at = at, !.draft = readDraft, !.prior = lastRun]]
  /\ report' = NoReport
  /\ UNCHANGED <<readDraft, lastRun, seen, revisions>>

\* _verify_prior: a verdict, or none, on each earlier issue, and where its evidence is found now
PriorJudged(a) ==
  /\ audit[a].at = "verify"
  /\ \E verdict \in [audit[a].prior.issues -> {"resolved", "partially", "unresolved", "none"}],
        place \in [audit[a].prior.issues -> audit[a].draft.text \cup {0}] :
       LET carried == UNION {Carried(i, verdict[i], place[i]) : i \in audit[a].prior.issues}
           cleared == {i.number : i \in {j \in audit[a].prior.issues : verdict[j] = "resolved"}}
       IN IF Changed(audit[a].prior.draft, audit[a].draft) # {}
          THEN Goes(a, "delta", carried, cleared)
          ELSE Answered(a, "verify", carried, {}, cleared)
  /\ UNCHANGED <<readDraft, seen, revisions>>

\* within_changed: what the check of the changed sentences finds elsewhere is dropped
ChangesRead(a) ==
  LET changed == Changed(audit[a].prior.draft, audit[a].draft)
  IN /\ audit[a].at = "delta"
     /\ \E found \in Findings(Critics \cup {Unattributed}, audit[a].draft.text) :
          Answered(a, "verify", audit[a].issues \cup {i \in found : i.at \in changed}, {}, audit[a].cleared)
     /\ Sees(a, Critics, changed)
     /\ UNCHANGED <<readDraft, revisions>>

\* a failed verification falls back to a full audit
VerifyFails(a) ==
  /\ audit[a].at \in {"verify", "delta"}
  /\ \E at \in Full : Goes(a, at, {}, {})
  /\ UNCHANGED <<readDraft, seen, revisions>>

\* _full_audit: a severe finding, or no answer, calls all checkers
MergedRead(a) ==
  /\ audit[a].at = "merged"
  /\ \E found \in Findings(Critics \cup {Unattributed}, audit[a].draft.text) :
       \/ found # {} /\ Goes(a, "focused", found, {})
       \/ (\A i \in found : i.severity < 3) /\ Answered(a, "full", found, Critics, {})
  /\ Sees(a, Critics, audit[a].draft.text)
  /\ UNCHANGED <<readDraft, revisions>>

MergedFails(a) ==
  /\ audit[a].at = "merged" /\ Goes(a, "focused", {}, {})
  /\ UNCHANGED <<readDraft, seen, revisions>>

\* _run_checkers: each completes or fails; when all fail, the merged finding stands for the audit
CheckersRead(a) ==
  /\ audit[a].at = "focused"
  /\ \E done \in SUBSET Critics : \E found \in [done -> {0, 2, 3}], place \in audit[a].draft.text :
       /\ done # {} \/ audit[a].issues # {}
       /\ Answered(a, "full",
            {[number |-> 0, critic |-> c, severity |-> found[c], at |-> place] : c \in {d \in done : found[d] > 0}}
              \cup CarriedOver(audit[a].issues, done), done, {})
       /\ Sees(a, done, audit[a].draft.text)
  /\ UNCHANGED <<readDraft, revisions>>

\* an error that is not the model's, or all checkers failing without a merged answer
AuditBreaks(a) ==
  /\ audit[a].at # "none" /\ audit' = [audit EXCEPT ![a] = NoAudit]
  /\ UNCHANGED <<readDraft, lastRun, report, seen, revisions>>

----------------------------------------------------------------------------
(* The draft is revised, the project behind it changes, the process starts *)
(* again without its memory.                                               *)

EditDraft(text, context) ==
  /\ revisions < MaxDraftEdits /\ revisions' = revisions + 1
  /\ text # {} /\ readDraft' = [text |-> text, context |-> context] /\ readDraft' # readDraft
  /\ report' = NoReport
  /\ UNCHANGED <<lastRun, audit, seen>>

CriticsRestart ==
  /\ lastRun.there /\ revisions < MaxDraftEdits /\ revisions' = revisions + 1
  /\ lastRun' = NoRun /\ audit' = [a \in Audits |-> NoAudit] /\ report' = NoReport
  /\ UNCHANGED <<readDraft, seen>>

CriticsNext ==
  \/ \E a \in Audits :
       \/ BeginAudit(a) \/ PriorJudged(a) \/ ChangesRead(a) \/ VerifyFails(a)
       \/ MergedRead(a) \/ MergedFails(a) \/ CheckersRead(a) \/ AuditBreaks(a)
  \/ \E text \in SUBSET Sentences, context \in Contexts : EditDraft(text, context)
  \/ CriticsRestart

CriticsSpec == CriticsInit /\ [][CriticsNext]_criticVars

----------------------------------------------------------------------------
(* Properties.                                                             *)

\* A draft that was only verified has been read whole: each of its sentences was given to a completed
\* check of every family under the present route, rules and cast, in this audit or an earlier one.
VerifiedIsRead ==
  report.mode = "verify" =>
    \A c \in Critics, s \in report.draft.text : <<c, s, report.draft.context>> \in seen

\* No issue vanishes unjudged: after a verification every earlier issue stands under its number, no lower
\* than low and as severe as before or one less unless its evidence is gone, or a verdict resolved it;
\* after an escalation every merged finding stands unless the checker of its family completed.
NoIssueVanishes ==
  [][report' \notin {report, NoReport} =>
       /\ report'.mode = "verify" =>
            \A i \in report'.prior : i.number \notin report'.cleared =>
              \E j \in report'.issues :
                j.number = i.number /\ j.critic = i.critic /\ (j.at # 0 => j.severity >= i.severity - 1)
       /\ report'.mode = "full" =>
            \E a \in Audits :
              /\ audit[a].at # "none" /\ audit'[a].at = "none"
              /\ \A i \in audit[a].issues : i.critic \in report'.done
                   \/ (i.critic = Unattributed /\ report'.done = Critics)
                   \/ \E j \in report'.issues : j.critic = i.critic /\ j.at = i.at /\ j.severity = i.severity]_criticVars

\* An audit that reuses an earlier one has still read the whole draft and forgets no issue, whatever
\* checkers fail and whatever audits run beside it: the two parts above.
AuditIsSound ==
  /\ []VerifiedIsRead
  /\ NoIssueVanishes
=============================================================================
