----------------------------- MODULE MemoryLedger -----------------------------
(***************************************************************************)
(* What the story memory says after chapters have been settled, edited,    *)
(* refined and repaired (review/memory_settlement.py, story/knowledge.py,  *)
(* story/continuity_state.py, story/temporal_context.py).  One character,  *)
(* one item, one plot thread, one relationship and facts that replace each *)
(* other stand for all of them; a text is what can be read out of it, so   *)
(* the evidence of an entry is in a text exactly if the text says so.      *)
(***************************************************************************)
EXTENDS Integers, FiniteSets, FiniteSetsExt

CONSTANTS
  Size,       \* chapters of the book
  Stories,    \* what a text may say: [place, item, fact, thread, bond], "-" for nothing
  Lapses,     \* the sets of extraction stages that may fail together
  MaxRewrites \* bound: settled chapters written anew, by the author or the refinement

StageKinds == {"characters", "facts", "threads", "relations", "objects"}

ASSUME LedgerAssumption ==
  /\ Size \in Nat \ {0} /\ MaxRewrites \in Nat
  /\ \A s \in Stories : s.item \in {"-", "lost", "back", "found"}
  /\ {} \in Lapses /\ Lapses \subseteq SUBSET StageKinds

VARIABLES
  story,     \* what each chapter's text says
  done,      \* chapters with a settlement
  missing,   \* per chapter the stages that failed (incomplete_stages)
  flagged,   \* chapters with memory_stale
  card,      \* the character: [place, last], last_state_chapter_number
  places,    \* knowledge.facts of "current place": the places with their records
  facts,     \* memory.facts
  events,    \* memory.item_events: [chapter, state]
  thread,    \* memory.plot_threads: the thread's [says, last], last_advanced_chapter
  bond,      \* memory.relationships: the pair's [says, last], last_chapter_number
  graph,     \* knowledge.relations: what it has of the pair, and from which chapter
  late,      \* per chapter how it was last told behind a later one, "-" if it was not
  rewrites   \* edits and refinements so far

ledgerVars == <<story, done, missing, flagged, card, places, facts, events, thread, bond, graph, late, rewrites>>

Pages == 1..Size
FactTexts == {s.fact : s \in Stories} \ {"-"}
PlaceNames == {s.place : s \in Stories} \ {"-"}

NoFact == [source |-> 0, from |-> 0, until |-> 0, active |-> FALSE]
NoPlace == [source |-> 0, current |-> FALSE, by |-> "-"]
NoStrand == [says |-> "-", last |-> 0]

Rewritten == rewrites.edits + rewrites.refines

\* memory.stale_from_chapter, 0 for none
StaleFrom(flags) == IF flags = {} THEN 0 ELSE Min(flags)
LatestSettled == IF done = {} THEN 0 ELSE Max(done)

LedgerInit ==
  /\ story \in [Pages -> Stories]
  /\ done = {} /\ missing = [n \in Pages |-> {}] /\ flagged = {}
  /\ card = [place |-> "-", last |-> 0]
  /\ places = [p \in PlaceNames |-> NoPlace] /\ facts = [f \in FactTexts |-> NoFact]
  /\ thread = NoStrand /\ bond = NoStrand /\ graph = NoStrand
  /\ events = {} /\ late = [n \in Pages |-> "-"] /\ rewrites = [edits |-> 0, refines |-> 0]

----------------------------------------------------------------------------
(* The memory as it was before chapter n (chapter_context), which replaces *)
(* the memory when n is the first stale chapter (prepare_memory_rebuild).  *)

\* Mutant of Earlier: what the chapter itself has said before stays.
EarlierOrOwn(source, n) == source <= n

Earlier(source, n) == source < n

\* of a fact that was replaced before the previous chapter nothing is kept
FactSeen(fact, n) ==
  IF fact = NoFact \/ ~Earlier(Max({fact.source, fact.from}), n) \/ (fact.until # 0 /\ fact.until < n - 1)
  THEN NoFact
  ELSE IF ~fact.active /\ fact.until >= Max({1, n - 1})
  THEN [fact EXCEPT !.active = TRUE, !.until = 0] ELSE fact

PlaceSeen(known, p, n) ==
  LET seen(q) == known[q] # NoPlace /\ Earlier(known[q].source, n) IN
  IF ~seen(p) THEN NoPlace
  ELSE [known[p] EXCEPT !.current = @ \/ (known[p].by # "-" /\ ~seen(known[p].by))]

\* what the settlements of the chapters before n say of the character
Told(m) == IF m \in done /\ "characters" \notin missing[m] THEN story[m].place ELSE "-"
PlaceBefore(n) ==
  LET tellers == {m \in 1..n - 1 : Told(m) # "-"} IN
  IF tellers = {} THEN "-" ELSE Told(Max(tellers))

Rebuilds(n) == StaleFrom(flagged) = n
FactsAt(n) == [f \in FactTexts |-> IF Rebuilds(n) THEN FactSeen(facts[f], n) ELSE facts[f]]
PlacesAt(n) == [p \in PlaceNames |-> IF Rebuilds(n) THEN PlaceSeen(places, p, n) ELSE places[p]]
\* a thread or a relationship that this chapter or a later one has told of last
\* is dropped whole, with what earlier chapters have told of it
StrandAt(strand, n) == IF Rebuilds(n) /\ ~Earlier(strand.last, n) THEN NoStrand ELSE strand
EventsAt(n) == IF Rebuilds(n) THEN {e \in events : Earlier(e.chapter, n)} ELSE events
CardAt(n) ==
  IF ~Rebuilds(n) THEN card
  ELSE [place |-> IF card.last >= n THEN PlaceBefore(n) ELSE card.place, last |-> n - 1]

----------------------------------------------------------------------------
(* Applying what was extracted from chapter n (_apply_director_memory).    *)

\* a chapter behind the latest settled one, settled or repaired again
Historical(n) == n < LatestSettled /\ n \notin flagged

\* Mutant of MayProject: an old chapter's state becomes the present one.
MayProjectAlways(was, n) == TRUE

MayProject(was, n) == IF was.last > 0 THEN n >= was.last ELSE ~Historical(n)

CardAfter(was, n, s) ==
  IF s.place # "-" /\ MayProject(was, n) THEN [place |-> s.place, last |-> n] ELSE was

\* Mutant of PlacesAfter: the older place is not superseded.
PlacesAdded(was, n, s) ==
  [p \in PlaceNames |-> IF p = s.place THEN [source |-> n, current |-> TRUE, by |-> "-"] ELSE was[p]]

\* upsert_current_fact: whatever else is current is superseded, without regard
\* to the chapter it is from
PlacesAfter(was, n, s) ==
  [p \in PlaceNames |->
     IF p = s.place THEN [source |-> n, current |-> TRUE, by |-> "-"]
     ELSE IF s.place # "-" /\ was[p].current THEN [was[p] EXCEPT !.current = FALSE, !.by = s.place]
     ELSE was[p]]

NewFact(n) == [source |-> n, from |-> n, until |-> 0, active |-> TRUE]

\* a fact that is told again keeps its first chapter and stays as active as it
\* was; a new one replaces those the model was shown as being in force
FactsAfter(was, n, s) ==
  [f \in FactTexts |->
     IF f = s.fact
     THEN IF was[f] = NoFact THEN NewFact(n)
          ELSE [was[f] EXCEPT !.source = n]
     ELSE IF s.fact # "-" /\ FactSeen(was[f], n).active THEN [was[f] EXCEPT !.active = FALSE, !.until = n - 1]
     ELSE was[f]]

\* item_states: the last event before chapter n
ItemBefore(log, n) ==
  LET before == {e \in log : e.chapter < n} IN
  IF before = {} THEN "-" ELSE (CHOOSE e \in before : \A o \in before : o.chapter <= e.chapter).state

\* Mutant of EventsAfter: the item comes back without being found.
EventsTrusted(was, n, s) ==
  LET others == {e \in was : e.chapter # n} IN
  CASE s.item = "-" -> others
    [] s.item = "lost" -> others \cup {[chapter |-> n, state |-> "lost"]}
    [] OTHER -> others \cup {[chapter |-> n, state |-> "active"]}

\* recovered_near: the text tells how the item came back
Recovered(s) == s.item = "found"

\* apply_continuity_updates: the chapter's events are replaced, and what was
\* lost is only active again if the text says how
EventsAfter(was, n, s) ==
  LET others == {e \in was : e.chapter # n} IN
  CASE s.item = "-" -> others
    [] s.item = "lost" -> others \cup {[chapter |-> n, state |-> "lost"]}
    [] s.item # "lost" /\ ~Recovered(s) /\ ItemBefore(others, n) = "lost" -> others
    [] OTHER -> others \cup {[chapter |-> n, state |-> "active"]}

\* Mutant of ThreadAfter: what was told last counts, whatever chapter it is of.
ThreadTold(was, n, s) == IF s.thread # "-" THEN [says |-> s.thread, last |-> n] ELSE was

\* what a later chapter has told of the thread stays
ThreadAfter(was, n, s) ==
  IF s.thread # "-" /\ was.last <= n THEN [says |-> s.thread, last |-> n] ELSE was

\* of the relationship likewise
BondAfter(was, n, s) == IF s.bond # "-" /\ was.last <= n THEN [says |-> s.bond, last |-> n] ELSE was

\* upsert_relation: one entry of a pair, the last one
GraphEntry(n, word) == [says |-> word, last |-> n]

\* Mutant of GraphAfter: whatever was extracted goes to the knowledge.
GraphUnchecked(was, remembered, n, s) == IF s.bond # "-" THEN GraphEntry(n, s.bond) ELSE was

\* project_accepted_memory_to_knowledge: what the memory has taken from this chapter
GraphAfter(was, remembered, n, s) ==
  IF s.bond # "-" /\ remembered.last = n THEN GraphEntry(n, s.bond) ELSE was

\* of a text, what the stages extract
Extracted(s, stages) ==
  [place |-> IF "characters" \in stages THEN s.place ELSE "-",
   item |-> IF "objects" \in stages THEN s.item ELSE "-",
   fact |-> IF "facts" \in stages THEN s.fact ELSE "-",
   thread |-> IF "threads" \in stages THEN s.thread ELSE "-",
   bond |-> IF "relations" \in stages THEN s.bond ELSE "-"]

Strands(n, s, threadWas, bondWas, graphWas) ==
  /\ thread' = ThreadAfter(threadWas, n, s)
  /\ bond' = BondAfter(bondWas, n, s)
  /\ graph' = GraphAfter(graphWas, bond', n, s)

Apply(n, s) ==
  /\ card' = CardAfter(CardAt(n), n, s)
  /\ places' = PlacesAfter(PlacesAt(n), n, s)
  /\ facts' = FactsAfter(FactsAt(n), n, s)
  /\ events' = EventsAfter(EventsAt(n), n, s)
  /\ Strands(n, s, StrandAt(thread, n), StrandAt(bond, n), StrandAt(graph, n))

----------------------------------------------------------------------------
(* The operations.                                                         *)

\* the first stale chapter has to come first
MaySettle(n) == flagged = {} \/ StaleFrom(flagged) = n

\* accepted and settled: by the director, the editor or an import
SettlePage(n) ==
  /\ MaySettle(n) /\ (n \notin done \/ n \in flagged)
  /\ \E lapse \in Lapses :
       /\ Apply(n, Extracted(story[n], StageKinds \ lapse))
       /\ missing' = [missing EXCEPT ![n] = lapse]
  /\ late' = [late EXCEPT ![n] = IF Historical(n) THEN "settled" ELSE "-"]
  /\ done' = done \cup {n} /\ flagged' = flagged \ {n}
  /\ UNCHANGED <<story, rewrites>>

\* Mutant of Diverted: what an old chapter adds is in force at once.
NeverDiverted(n, f) == FALSE

\* _later_chapters_touch: chapters behind it have told of the same entity
Diverted(n, f) ==
  /\ f # "-" /\ facts[f] = NoFact /\ n < LatestSettled
  /\ \/ \E g \in FactTexts : facts[g].from > n
     \/ \E m \in n + 1..Size : Told(m) # "-"

\* repair_incomplete_memory: the failed stages alone; a new fact that later
\* chapters may have replaced is stored for review
RepairPage(n) ==
  /\ n \in done /\ missing[n] # {} /\ (flagged = {} \/ n < StaleFrom(flagged))
  /\ LET s == Extracted(story[n], missing[n])
         new == IF Diverted(n, s.fact) THEN [s EXCEPT !.fact = "-"] ELSE s IN
     /\ card' = CardAfter(card, n, new)
     /\ places' = PlacesAfter(places, n, new)
     /\ events' = EventsAfter(events, n, new)
     /\ Strands(n, new, thread, bond, graph)
     /\ facts' = IF new = s THEN FactsAfter(facts, n, s)
                 ELSE [facts EXCEPT ![s.fact] = [source |-> n, from |-> n, until |-> 0, active |-> FALSE]]
  /\ missing' = [missing EXCEPT ![n] = {}]
  /\ late' = IF Historical(n) /\ late[n] = "-" THEN [late EXCEPT ![n] = "repaired"] ELSE late
  /\ UNCHANGED <<story, done, flagged, rewrites>>

\* invalidate_changed_manuscript, of a change from chapter n on
Flag(n) == flagged' = flagged \cup n..Size

EditPage(n) ==
  /\ n \in done /\ Rewritten < MaxRewrites
  /\ \E s \in Stories \ {story[n]} : story' = [story EXCEPT ![n] = s]
  /\ Flag(n) /\ rewrites' = [rewrites EXCEPT !.edits = @ + 1]
  /\ UNCHANGED <<done, missing, card, places, facts, events, thread, bond, graph, late>>

\* director/refinement.py: the new text is settled before it is saved, and
\* what is saved carries its hash, so that the next chapter is the first stale
\* (a refused settlement leaves the new text alone: EditPage)
RefinePage(n) ==
  /\ n \in done /\ MaySettle(n) /\ Rewritten < MaxRewrites
  /\ \E s \in Stories \ {story[n]} :
       /\ story' = [story EXCEPT ![n] = s]
       /\ Apply(n, s)
  /\ missing' = [missing EXCEPT ![n] = {}]
  /\ flagged' = (flagged \ {n}) \cup n + 1..Size
  /\ late' = [late EXCEPT ![n] = IF Historical(n) THEN "refined" ELSE "-"]
  /\ rewrites' = [rewrites EXCEPT !.refines = @ + 1]
  /\ UNCHANGED done

LedgerNext == \E n \in Pages : SettlePage(n) \/ RepairPage(n) \/ EditPage(n) \/ RefinePage(n)

LedgerSpec == LedgerInit /\ [][LedgerNext]_ledgerVars

----------------------------------------------------------------------------
(* Properties.                                                             *)

\* A fact in force is told by the present text of its chapter: an edit takes
\* the old facts out of the memory when the chapters are settled again.
FactsArePresent ==
  rewrites.refines = 0 =>
    \A f \in FactTexts : facts[f].active /\ facts[f].source \notin flagged => story[facts[f].source].fact = f

InOrder == flagged = {} /\ \A n \in Pages : late[n] = "-"

\* Of the chapters that were settled in their turn the card shows the newest
\* place, however many were settled, rebuilt or repaired behind them.
CardIsNewest ==
  flagged = {} =>
    \A m \in done : m >= card.last /\ late[m] = "-" /\ Told(m) # "-" => card.place = Told(m)

\* What the knowledge calls the current place is the card's, as long as the
\* chapters are settled in their turn and none is written anew.
KnowledgeFollowsCard ==
  InOrder /\ Rewritten = 0 => \A p \in PlaceNames : places[p].current => p = card.place

\* A lost item is active in a later chapter only if some text in between says
\* how it was found, as long as the chapters are settled in order.
ItemsAreFound ==
  InOrder =>
    \A e \in events : e.state = "active" /\ ItemBefore(events, e.chapter) = "lost" => story[e.chapter].item = "found"

\* Settled in order, with repairs of older chapters in between, two facts that
\* exclude each other are not both in force, unless one was told twice.
OneFactInForce ==
  flagged = {} /\ rewrites.refines = 0 /\ (\A n \in Pages : late[n] # "settled") =>
    \A f, g \in FactTexts :
      f # g /\ facts[f].active /\ facts[g].active =>
        facts[f].source # facts[f].from \/ facts[g].source # facts[g].from

\* The thread stands where the latest chapter that told of it has left it, in
\* whatever order the chapters were settled and repaired, until one is written
\* anew; after edits it is what the present text of its chapter says.
ThreadIsNewest ==
  /\ Rewritten = 0 =>
       LET tellers == {m \in done : "threads" \notin missing[m] /\ story[m].thread # "-"} IN
       thread = IF tellers = {} THEN NoStrand ELSE [says |-> story[Max(tellers)].thread, last |-> Max(tellers)]
  /\ rewrites.refines = 0 /\ thread.last \notin {0} \cup flagged => thread.says = story[thread.last].thread

\* The knowledge graph and the memory tell the same of a relationship, though
\* the one is projected from an answer and the other keeps the newest chapter's.
GraphFollowsMemory == graph = bond

\* What the story's memory holds in force follows from the present text, through edits, rebuilds, repairs
\* and chapters settled out of turn: the seven parts above.
LedgerIsSound ==
  /\ FactsArePresent /\ CardIsNewest /\ KnowledgeFollowsCard /\ ItemsAreFound
  /\ OneFactInForce /\ ThreadIsNewest /\ GraphFollowsMemory
================================================================================
