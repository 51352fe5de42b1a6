------------------------------ MODULE HookLedger ------------------------------
(***************************************************************************)
(* The hook ledger (story/hook_ledger.py): the ending hook planned for an  *)
(* accepted chapter is a promise, judged by the chapters after it.  A      *)
(* record belongs to a chapter, its evaluations to the chapters that gave  *)
(* them; positions are read off the present order of the chapters.         *)
(***************************************************************************)
EXTENDS Integers, Sequences, FiniteSets, SequencesExt, FiniteSetsExt

CONSTANTS
  Leaves,     \* chapters, those of the book and those that may be inserted
  FirstOrder, \* the book's chapters to begin with
  Promises,   \* texts a planned ending hook may have
  Window,     \* craft_setting hook_window
  Lifetime,   \* DEBT_LIFETIME, in windows
  LedgerLimit,\* LEDGER_LIMIT
  MaxTurns    \* bound: hooks planned anew, chapters accepted again, inserted or deleted

NoPromise == "none"
Verdicts == {"paid", "advanced", "ignored"}

ASSUME HookAssumption ==
  /\ FirstOrder \in Seq(Leaves) /\ IsInjective(FirstOrder) /\ NoPromise \notin Promises
  /\ {Window, Lifetime, LedgerLimit} \subseteq Nat \ {0} /\ MaxTurns \in Nat

VARIABLES
  order,    \* the book: a sequence of chapters
  planned,  \* per chapter its planned ending hook
  ledger,   \* memory.hook_ledger: per chapter [text, evals; since: the list's order] or no record
  accepted, \* what happened: chapters of the book accepted so far
  turns     \* what was done besides accepting one chapter after another

hookVars == <<order, planned, ledger, accepted, turns>>

NoRecord == [text |-> NoPromise, since |-> 0, evals |-> [e \in Leaves |-> "-"]]

\* _positions; 0 for a deleted chapter
Position(c) == IF \E i \in 1..Len(order) : order[i] = c THEN CHOOSE i \in 1..Len(order) : order[i] = c ELSE 0

HookInit ==
  /\ order = FirstOrder
  /\ planned \in [Leaves -> Promises \cup {NoPromise}]
  /\ \A c \in Leaves \ ToSet(FirstOrder) : planned[c] = NoPromise
  /\ ledger = [c \in Leaves |-> NoRecord] /\ accepted = {} /\ turns = 0

----------------------------------------------------------------------------
(* hook_state: the fold of a record's evaluations from the chapters before *)
(* a number.                                                               *)

\* Mutant of Overdue: one chapter more than the window.
OverdueLate(number, anchor) == number - anchor > Window

Overdue(number, anchor) == number - anchor >= Window

\* one evaluation, given by the chapter at number
Judged(state, number, verdict) ==
  IF state.status = "paid" \/ verdict = "-" THEN state
  ELSE IF verdict = "paid" THEN [state EXCEPT !.status = "paid"]
  ELSE IF verdict = "advanced" THEN [status |-> "open", anchor |-> number]
  ELSE IF Overdue(number, state.anchor) THEN [state EXCEPT !.status = "debt"] ELSE state

\* Mutant of SeenBefore: the chapter's own evaluation and later ones count too.
SeenAlways(n, before) == TRUE

SeenBefore(n, before) == n < before

\* Mutant of GivenUp: a debt stays one.
GivenUpNever(before, anchor) == FALSE

GivenUp(before, anchor) == before - anchor > Window * Lifetime

\* the verdicts of the chapters before a number, by their position
Answers(c, before) ==
  [n \in 1..Len(order) |-> IF SeenBefore(n, before) THEN ledger[c].evals[order[n]] ELSE "-"]

\* those behind the hook's own position count, one after another
Folded(position, answers) ==
  LET fold[n \in 0..Len(answers)] ==
        IF n <= position THEN [status |-> "open", anchor |-> position] ELSE Judged(fold[n - 1], n, answers[n]) IN
  fold

HookState(c, before) ==
  LET end == Folded(Position(c), Answers(c, before))[Len(order)] IN
  IF end.status = "debt" /\ GivenUp(before, end.anchor) THEN [end EXCEPT !.status = "expired"] ELSE end

\* due_hooks
IsDue(c, n) ==
  /\ ledger[c] # NoRecord /\ Position(c) \in 1..n - 1
  /\ LET state == HookState(c, n) IN
     \/ state.status = "debt"
     \/ state.status = "open" /\ n - state.anchor <= Window
Due(n) == {c \in Leaves : IsDue(c, n)}
Debts(n) == {c \in Due(n) : HookState(c, n).status = "debt"}

----------------------------------------------------------------------------
(* Operations.                                                             *)

Progress == Cardinality(accepted)

\* record_chapter_hook: a promise that changed starts anew, at the end of the list
Recorded(was, text) ==
  IF text = NoPromise THEN NoRecord
  ELSE IF was.text = text THEN was
  ELSE [NoRecord EXCEPT !.text = text, !.since = Progress + turns]

\* of too many records the first one goes
Entries(book) == {c \in Leaves : book[c] # NoRecord}
Trimmed(book) ==
  [c \in Leaves |-> IF /\ Cardinality(Entries(book)) > LedgerLimit
                       /\ \A d \in Entries(book) : book[c].since <= book[d].since
                    THEN NoRecord ELSE book[c]]

\* settle_hooks: the model's verdicts, or the overlap of the terms
Settled(n, due, verdicts) ==
  [c \in Leaves |-> IF c \in due THEN [ledger[c] EXCEPT !.evals[order[n]] = verdicts[c]] ELSE ledger[c]]

AnotherTurn == turns < MaxTurns /\ turns' = turns + 1

\* the chapter at n is accepted: earlier hooks are judged, its own is recorded
AcceptPage(n) ==
  /\ n <= Progress + 1
  /\ LET due == Due(n) IN
     \E verdicts \in [due -> Verdicts] :
       LET was == Settled(n, due, verdicts) IN
       ledger' = Trimmed([was EXCEPT ![order[n]] = Recorded(was[order[n]], planned[order[n]])])
  /\ IF order[n] \in accepted
     THEN AnotherTurn /\ UNCHANGED accepted
     ELSE accepted' = accepted \cup {order[n]} /\ UNCHANGED turns
  /\ UNCHANGED <<order, planned>>

\* the route or the plan of a chapter gets another ending hook
Replan(n) ==
  /\ AnotherTurn
  /\ \E t \in (Promises \cup {NoPromise}) \ {planned[order[n]]} : planned' = [planned EXCEPT ![order[n]] = t]
  /\ UNCHANGED <<order, ledger, accepted>>

InsertPage(n) ==
  /\ AnotherTurn
  /\ \E c \in Leaves \ ToSet(order) :
       /\ ledger[c] = NoRecord
       /\ order' = InsertAt(order, n, c)
  /\ UNCHANGED <<planned, ledger, accepted>>

\* a deleted chapter's hook is no longer a promise; its record stays
DeletePage(n) ==
  /\ AnotherTurn /\ Len(order) > 1
  /\ order' = RemoveAt(order, n)
  /\ accepted' = accepted \ {order[n]}
  /\ UNCHANGED <<planned, ledger>>

HookNext == \E n \in 1..Len(order) : AcceptPage(n) \/ Replan(n) \/ InsertPage(n) \/ DeletePage(n)

HookSpec == HookInit /\ [][HookNext]_hookVars

----------------------------------------------------------------------------
(* Properties.                                                             *)

\* the hooks that have as many newer ones in the ledger as it takes
Crowded == {c \in Leaves : Cardinality({d \in Entries(ledger') : ledger'[d].since > ledger[c].since}) >= LedgerLimit}

\* What a chapter is asked to answer does not depend on later chapters: to
\* accept the chapter at n, once more or for the first time, changes nothing
\* for the chapters up to n, but for a hook the ledger had no room for.
StandsAsOf ==
  LET touched == {n \in 1..Len(order) :
                    \/ order[n] \notin Crowded /\ ledger'[order[n]].text # ledger[order[n]].text
                    \/ \E c \in Leaves \ Crowded : ledger'[c].evals[order[n]] # ledger[c].evals[order[n]]} IN
  ledger' # ledger /\ order' = order /\ touched # {} =>
    \A m \in 1..Min(touched) : Due(m)' = Due(m) \ Crowded
AsOfStands == [][StandsAsOf]_hookVars

\* No promise slips through: as long as the book is written in order and no
\* chapter is accepted again, a planned hook of an accepted chapter is paid,
\* expired as a debt or due to the next chapter, unless the ledger is full of newer ones.
NoHookForgotten ==
  turns = 0 =>
    LET next == Progress + 1 IN
    \A n \in 1..Progress : planned[order[n]] # NoPromise =>
      \/ order[n] \in Due(next)
      \/ ledger[order[n]] # NoRecord /\ HookState(order[n], next).status \in {"paid", "expired"}
      \/ ledger[order[n]] = NoRecord
         /\ Cardinality({d \in Entries(ledger) : Position(d) > n}) >= LedgerLimit

\* A debt does not follow the book for ever: at most Window * Lifetime chapters
\* in a row are asked about a hook nobody answers, and each of them is asked.
AskedInARow ==
  turns = 0 =>
    \A c \in {x \in Leaves : ledger[x] # NoRecord} :
      LET ignored == {n \in 1..Len(order) : ledger[c].evals[order[n]] = "ignored"
                                            /\ n > HookState(c, Len(order) + 1).anchor} IN
      /\ Cardinality(ignored) <= Window * Lifetime
      /\ ignored # {}
           => ignored = HookState(c, Len(order) + 1).anchor + 1..Max(ignored)

\* Each open promise of the book is asked about, neither forgotten nor for ever, and never because of a
\* later chapter: the three parts above.
HooksAreTended ==
  /\ [](NoHookForgotten /\ AskedInARow)
  /\ AsOfStands
================================================================================
