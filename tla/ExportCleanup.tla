--------------------------- MODULE ExportCleanup ---------------------------
(***************************************************************************)
(* Cleaning a book before it is exported (io/export_cleanup.py, its router *)
(* and the dialogue in features/io/export-cleanup.js): the fixes of marks, *)
(* numbers and names the author confirms, applied to a copy of the book    *)
(* between two awaits and saved if the book is still the one that was      *)
(* read.                                                                   *)
(* A line is a sequence of characters, one for each class the fixes tell   *)
(* apart; single quotes follow the rule of double ones and are left out.   *)
(***************************************************************************)
EXTENDS Integers, Sequences, FiniteSets, SequencesExt

CONSTANTS
  Hanzi, Latin,     \* letters of the two scripts
  FirstBooks,       \* the books to start from: sequences of chapters
  Formal,           \* forms of the names in the cast, longest first
  Selections,       \* what an author may ask: [marks, numbers, maps, unlock, scope]
  MaxOthersEdits,   \* bound: changes of the book by someone else
  MaxCleanups       \* bound: fixes applied

VARIABLES
  pages,      \* the book: chapters [title, lines, locked]
  edition,    \* its updated_at
  held,       \* the editor's serverProjectUpdatedAt
  cleaning,   \* the apply request between its read and its save
  othersEdits, cleanups

cleanVars == <<pages, edition, held, cleaning, othersEdits, cleanups>>

----------------------------------------------------------------------------
(* The fixes of one line.                                                  *)

Letters == Hanzi \cup Latin
Openers == {"lcurly", "lcorner"}
Closers == {"rcurly", "rcorner"}
Punct == Openers \cup Closers \cup {"stop", "comma", "dots", "dash"}
Copies(ch, n) == [i \in 1..n |-> ch]

\* maximal runs of one character, each with its neighbours
RunsOf(line) ==
  FoldLeft(LAMBDA rs, ch : IF rs # <<>> /\ Last(rs).char = ch
                           THEN [rs EXCEPT ![Len(rs)].n = @ + 1]
                           ELSE Append(rs, [char |-> ch, n |-> 1]), <<>>, line)
ByRun(line, New(_, _, _)) ==
  LET runs == RunsOf(line)
      At(i) == IF i \in DOMAIN runs THEN runs[i].char ELSE "end"
  IN FlattenSeq([i \in DOMAIN runs |-> New(runs[i], At(i - 1), At(i + 1))])
Same(run) == Copies(run.char, run.n)

Style(book) ==
  LET Number(ms) == FoldLeft(LAMBDA n, pg : n + FoldLeft(LAMBDA m, ln :
                       m + Cardinality({i \in DOMAIN ln : ln[i] \in ms}), 0, pg.lines), 0, book)
  IN IF Number({"lcorner", "rcorner"}) > Number({"lcurly", "rcurly"})
     THEN <<"lcorner", "rcorner">> ELSE <<"lcurly", "rcurly">>

\* the marks among targets, opening and closing in turn
Toggled(line, targets, marks) ==
  [i \in DOMAIN line |->
     IF line[i] \notin targets THEN line[i]
     ELSE marks[1 + (Cardinality({j \in 1..(i - 1) : line[j] \in targets}) % 2)]]

FixQuotes(line, marks) ==
  LET unified == [i \in DOMAIN line |-> IF line[i] \in Openers THEN marks[1]
                                        ELSE IF line[i] \in Closers THEN marks[2] ELSE line[i]]
      straight == Toggled(unified, {"straight"}, marks)
      paired == Cardinality({i \in DOMAIN line : straight[i] \in {marks[1], marks[2]}}) % 2 = 0
  IN IF \A i \in DOMAIN line : line[i] \notin Hanzi THEN line
     ELSE IF paired THEN Toggled(straight, {marks[1], marks[2]}, marks) ELSE straight

FixEllipsis(line) == ByRun(line, LAMBDA run, before, after :
  IF run.char = "dots" \/ (run.char \in {"dot", "stop"} /\ run.n >= 3)
  THEN <<"dots", "dots">> ELSE Same(run))

\* Mutant of FixDashes: dash by dash, not by runs.
FixDashesEach(line) == ByRun(line, LAMBDA run, before, after :
  IF run.char = "dash" THEN Copies("dash", 2 * run.n) ELSE Same(run))
FixDashes(line) ==
  IF \A i \in DOMAIN line : line[i] \in {"sp", "dash"} THEN line
  ELSE ByRun(line, LAMBDA run, before, after :
         IF run.char = "dash" /\ ~(run.n = 1 /\ {before, after} \subseteq Latin)
         THEN <<"dash", "dash">> ELSE Same(run))

FixHalfwidth(line) == ByRun(line, LAMBDA run, before, after :
  IF /\ run.char = "dot" /\ run.n = 1
     /\ before \in Hanzi \cup Closers
     /\ after \in Hanzi \cup Openers \cup Closers \cup {"sp", "end"}
  THEN <<"stop">> ELSE Same(run))

FixDuplicates(line) == ByRun(line, LAMBDA run, before, after :
  IF run.char \in {"stop", "comma"} THEN <<run.char>> ELSE Same(run))

FixSpaces(line) == ByRun(line, LAMBDA run, before, after :
  IF run.char = "sp" /\ {before, after} \subseteq Hanzi \cup Punct THEN <<>> ELSE Same(run))

FixEnds(line) == ByRun(line, LAMBDA run, before, after :
  IF run.char = "sp" /\ "end" \in {before, after} THEN <<>> ELSE Same(run))

\* LINE_FIX_ORDER: the ellipsis before duplicates collapse it
CleanLine(line, marks) ==
  FixEnds(FixSpaces(FixDuplicates(FixHalfwidth(FixDashes(FixEllipsis(FixQuotes(line, marks)))))))

\* fix_blank_lines: of empty lines one stays between two paragraphs, none at an end
FixBlankLines(lines) ==
  LET kept2 == FoldLeft(LAMBDA ls, ln : IF ln = <<>> /\ (ls = <<>> \/ Last(ls) = <<>>)
                                        THEN ls ELSE Append(ls, ln), <<>>, lines)
  IN IF kept2 # <<>> /\ Last(kept2) = <<>> THEN Front(kept2) ELSE kept2

ApplyPunctuation(lines, marks) ==
  FixBlankLines([i \in DOMAIN lines |-> CleanLine(lines[i], marks)])

----------------------------------------------------------------------------
(* Names: a confirmed variant is replaced wherever it is not part of a     *)
(* longer name of the cast, which a placeholder stands for meanwhile.      *)

Replaced(line, old, new) ==
  LET n == Len(old)
      rest[i \in 1..(Len(line) + 1)] ==
        IF i > Len(line) THEN <<>>
        ELSE IF i + n - 1 <= Len(line) /\ SubSeq(line, i, i + n - 1) = old
             THEN new \o rest[i + n] ELSE <<line[i]>> \o rest[i + 1]
  IN rest[1]
PartOf(old, form) ==
  form # old /\ \E i \in DOMAIN form :
                  i + Len(old) - 1 <= Len(form) /\ SubSeq(form, i, i + Len(old) - 1) = old
Guards(maps) == {k \in DOMAIN Formal : \E m \in Range(maps) : PartOf(m.from, Formal[k])}

\* Mutant of RenameNames: names inside longer names too.
RenameAll(line, maps) == FoldLeft(LAMBDA ln, m : Replaced(ln, m.from, m.to), line, maps)
RenameNames(line, maps) ==
  LET guard == Guards(maps)
      Mark(k) == <<ToString(k)>>
      hidden == FoldLeft(LAMBDA ln, k : IF k \in guard THEN Replaced(ln, Formal[k], Mark(k)) ELSE ln,
                         line, [k \in DOMAIN Formal |-> k])
  IN FoldLeft(LAMBDA ln, k : Replaced(ln, Mark(k), Formal[k]), RenameAll(hidden, maps),
              [k \in DOMAIN Formal |-> k])

----------------------------------------------------------------------------
(* Titles: [style, digits], digits as they are written.                    *)

Units == <<<<"q", 1000>>, <<"b", 100>>, <<"s", 10>>>>
Digit(d) == ToString(d)

\* chinese_number: a unit takes its digit, a gap one zero; ten alone is written without one
Written(v) ==
  LET step(acc, u) ==
        LET d == acc.rem \div u[2]
        IN [rem |-> acc.rem % u[2],
            zero |-> IF d = 0 THEN acc.zero \/ acc.out # <<>> ELSE FALSE,
            out |-> IF d = 0 THEN acc.out
                    ELSE acc.out \o (IF acc.zero THEN <<"0">> ELSE <<>>)
                         \o (IF u[2] = 10 /\ d = 1 /\ acc.out = <<>> THEN <<>> ELSE <<Digit(d)>>)
                         \o <<u[1]>>]
      end == FoldLeft(step, [rem |-> v, zero |-> FALSE, out |-> <<>>], Units)
  IN end.out \o (IF end.rem = 0 THEN <<>>
                 ELSE (IF end.zero THEN <<"0">> ELSE <<>>) \o <<Digit(end.rem)>>)

\* parse_chinese_number: a unit without a digit counts once
DigitValue(ch) == CHOOSE d \in 0..9 : Digit(d) = ch
UnitValue(ch) == LET u == CHOOSE u \in Range(Units) : u[1] = ch IN u[2]
UnitSum(digits, least) ==
  FoldLeft(LAMBDA acc, ch :
             IF ch \in {"q", "b", "s"}
             THEN [sum |-> acc.sum + Max({acc.digit, least}) * UnitValue(ch), digit |-> 0]
             ELSE [acc EXCEPT !.digit = DigitValue(ch)], [sum |-> 0, digit |-> 0], digits)
ReadWith(digits, least) ==
  IF \A i \in DOMAIN digits : digits[i] \notin {"q", "b", "s"}
  THEN FoldLeft(LAMBDA v, ch : 10 * v + DigitValue(ch), 0, digits)
  ELSE UnitSum(digits, least).sum + UnitSum(digits, least).digit
\* Mutant of Read: any digits are a number.
ReadLoose(digits) == ReadWith(digits, 0)
Read(digits) == ReadWith(digits, 1)

Decimal(v) == IF v < 10 THEN <<Digit(v)>> ELSE IF v < 100 THEN <<Digit(v \div 10), Digit(v % 10)>>
              ELSE IF v < 1000 THEN <<Digit(v \div 100), Digit((v \div 10) % 10), Digit(v % 10)>>
              ELSE <<Digit(v \div 1000), Digit((v \div 100) % 10), Digit((v \div 10) % 10), Digit(v % 10)>>
TitleNumber(t) == Read(t.digits)
NumberStyle(book) ==
  LET Has(s) == Cardinality({i \in DOMAIN book : book[i].title.style = s})
  IN IF Has("cn") >= Has("arabic") THEN "cn" ELSE "arabic"
Renumbered(t, style) ==
  IF t.style \in {"", style} THEN t
  ELSE [style |-> style, digits |-> IF style = "cn" /\ TitleNumber(t) > 0 THEN Written(TitleNumber(t))
                                    ELSE Decimal(TitleNumber(t))]

----------------------------------------------------------------------------
(* The request.                                                            *)

NoCleaning == [at |-> "none"]

Fixed(book, pg, sel) ==
  LET lines == IF sel.marks /\ pg.lines # <<>> THEN ApplyPunctuation(pg.lines, Style(book)) ELSE pg.lines
  IN [pg EXCEPT !.lines = [k \in DOMAIN lines |-> RenameNames(lines[k], sel.maps)],
                !.title = IF sel.numbers THEN Renumbered(@, NumberStyle(book)) ELSE @]
\* Mutant of ApplyTo: locked chapters too.
ApplyToAll(book, sel) == [i \in DOMAIN book |-> IF i \in sel.scope THEN Fixed(book, book[i], sel) ELSE book[i]]
ApplyTo(book, sel) ==
  [i \in DOMAIN book |-> IF i \in sel.scope /\ (sel.unlock \/ ~book[i].locked)
                         THEN Fixed(book, book[i], sel) ELSE book[i]]

CleanInit ==
  /\ pages \in FirstBooks
  /\ edition = 0 /\ held = 0
  /\ cleaning = NoCleaning
  /\ othersEdits = 0 /\ cleanups = 0

\* a save by someone else: a paragraph more, or a chapter locked
OthersSave(i) ==
  /\ othersEdits < MaxOthersEdits
  /\ \/ pages' = [pages EXCEPT ![i].lines = Append(@, <<CHOOSE w \in Hanzi : TRUE>>)]
     \/ /\ ~pages[i].locked
        /\ pages' = [pages EXCEPT ![i].locked = TRUE]
  /\ edition' = edition + 1
  /\ othersEdits' = othersEdits + 1
  /\ UNCHANGED <<held, cleaning, cleanups>>

\* loadProject
Reload ==
  /\ held # edition
  /\ held' = edition
  /\ UNCHANGED <<pages, edition, cleaning, othersEdits, cleanups>>

\* the request is read: 409 unless the editor holds the current book
AskCleanup(sel) ==
  /\ cleaning.at = "none" /\ cleanups < MaxCleanups
  /\ sel.marks \/ sel.numbers \/ sel.maps # <<>>
  /\ held = edition
  /\ cleaning' = [at |-> "fixing", sel |-> sel, book |-> pages, edition |-> edition]
  /\ cleanups' = cleanups + 1
  /\ UNCHANGED <<pages, edition, held, othersEdits>>

Arrived == cleaning.at = "fixing"
\* Mutant of SaveCleanup: the version is not compared.
SaveOver ==
  /\ Arrived
  /\ pages' = ApplyTo(cleaning.book, cleaning.sel)
  /\ edition' = edition + 1 /\ held' = edition + 1
  /\ cleaning' = NoCleaning
  /\ UNCHANGED <<othersEdits, cleanups>>

\* the fixes are saved over the book they were made of; then loadProject
SaveCleanup ==
  /\ Arrived
  /\ LET fixed == ApplyTo(cleaning.book, cleaning.sel)
     IN /\ fixed # cleaning.book
        /\ edition = cleaning.edition
        /\ pages' = fixed
  /\ edition' = edition + 1 /\ held' = edition + 1
  /\ cleaning' = NoCleaning
  /\ UNCHANGED <<othersEdits, cleanups>>

\* nothing to change, or 409
NoCleanup ==
  /\ Arrived
  /\ ApplyTo(cleaning.book, cleaning.sel) = cleaning.book \/ edition # cleaning.edition
  /\ cleaning' = NoCleaning
  /\ UNCHANGED <<pages, edition, held, othersEdits, cleanups>>

CleanNext ==
  \/ \E i \in DOMAIN pages : OthersSave(i)
  \/ Reload
  \/ \E sel \in Selections : AskCleanup(sel)
  \/ SaveCleanup
  \/ NoCleanup
CleanSpec == CleanInit /\ [][CleanNext]_cleanVars

----------------------------------------------------------------------------
(* What the author may rely on.                                            *)

Words(pg) == FoldLeft(LAMBDA ws, ln : ws \o SelectSeq(ln, LAMBDA ch : ch \in Letters), <<>>, pg.lines)
Paragraphs(pg) == Cardinality({k \in DOMAIN pg.lines : pg.lines[k] # <<>>})
Saving == cleaning.at = "fixing" /\ cleaning'.at = "none"

\* The fixes of marks and numbers change no word of any chapter, join no two
\* paragraphs, and undo nothing another writer saved while they were made
\* (fix_*, the two checks of apply_cleanup).
WordsStand ==
  [][(Saving /\ cleaning.sel.maps = <<>>) =>
       \A i \in DOMAIN pages : /\ Words(pages'[i]) = Words(pages[i])
                               /\ Paragraphs(pages'[i]) >= Paragraphs(pages[i]) - 1]_cleanVars

\* A chapter that is locked when the fixes are saved is left as it is, unless the
\* author asked for the locked ones too (apply).
LockedStands ==
  [][(Saving /\ ~cleaning.sel.unlock) =>
       \A i \in DOMAIN pages : pages[i].locked => pages'[i] = pages[i]]_cleanVars

\* A title says the same number in the other style (renumber_title, chinese_number,
\* parse_chinese_number).
NumbersStand ==
  [][Saving => \A i \in DOMAIN pages : TitleNumber(pages'[i].title) = TitleNumber(pages[i].title)]_cleanVars

Occurrences(line, form) ==
  Cardinality({i \in DOMAIN line : i + Len(form) - 1 <= Len(line) /\ SubSeq(line, i, i + Len(form) - 1) = form})
\* Renaming leaves every longer name of the cast where it stands, however a variant
\* lies inside it (apply_name_mappings).
LongNamesStand ==
  [][(Saving /\ ~cleaning.sel.marks) =>
       \A i \in DOMAIN pages : \A k \in DOMAIN pages[i].lines : \A g \in Guards(cleaning.sel.maps) :
          /\ k \in DOMAIN pages'[i].lines
          /\ Occurrences(pages'[i].lines[k], Formal[g]) >= Occurrences(pages[i].lines[k], Formal[g])]_cleanVars

\* What a second pass leaves is clean: the report after it offers no fix of marks
\* (LINE_FIX_ORDER: one pass may join marks that a later fix of it cannot see).
TwoPassesSettle ==
  (cleaning.at = "fixing" /\ cleaning.sel.marks) => \A i \in DOMAIN pages :
    LET Pass(lines) == ApplyPunctuation(lines, Style(pages))
        twice == Pass(Pass(pages[i].lines))
    IN Pass(twice) = twice

\* The fixes before an export settle, and touch marks, numbers and asked-for names only, in chapters that
\* may be touched: the five parts above.
CleanupIsCareful ==
  /\ []TwoPassesSettle
  /\ WordsStand /\ LockedStands /\ NumbersStand /\ LongNamesStand
=============================================================================
