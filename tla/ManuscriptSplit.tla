--------------------------- MODULE ManuscriptSplit ---------------------------
(***************************************************************************)
(* The splitting of a manuscript into chapters (io/manuscript_import.py,   *)
(* split_manuscript).  A line is a heading, a heading of a volume, or a    *)
(* paragraph, given by its length.                                         *)
(***************************************************************************)
EXTENDS Integers, Sequences, FiniteSets, SequencesExt, FiniteSetsExt

CONSTANTS
  MaxLines,    \* bound: lines of the manuscript
  SplitParagraphs,  \* lengths of paragraphs
  TargetChars, \* target_chars
  MinChapter,  \* min_chapter_chars
  LongPreamble \* a preamble of this length is a chapter

ASSUME SplitAssumption ==
  /\ {MaxLines, TargetChars, MinChapter, LongPreamble} \subseteq Nat \ {0}
  /\ SplitParagraphs \subseteq Nat \ {0} /\ IsFiniteSet(SplitParagraphs)

VARIABLES
  manuscriptLines, splitMode, splitResult

splitVars == <<manuscriptLines, splitMode, splitResult>>

HeadLine == 0
VolumeLine == -1
NotSplit == [method |-> "none"]

IsText(line) == line > 0
Heads(lines) == {p \in DOMAIN lines : lines[p] = HeadLine}
SplitTexts(lines, from, to) == {p \in from..to : IsText(lines[p])}
LengthOf(lines, places) == MapThenSumSet(LAMBDA p : lines[p], places)

\* Mutant of EndOfBlock: the lines after the last heading are forgotten.
EndBeforeLast(lines, h) ==
  IF \E g \in Heads(lines) : g > h THEN Min({g \in Heads(lines) : g > h}) - 1 ELSE h

\* a block reaches from its heading to the next one or to the end
EndOfBlock(lines, h) ==
  IF \E g \in Heads(lines) : g > h THEN Min({g \in Heads(lines) : g > h}) - 1 ELSE Len(lines)

\* the last volume heading above a chapter heading
VolumeOf(lines, h) ==
  LET above == {p \in 1..h : lines[p] = VolumeLine} IN IF above = {} THEN 0 ELSE Max(above)

Block(lines, h) == SplitTexts(lines, h, EndOfBlock(lines, h))

Preamble(lines) == IF Heads(lines) = {} THEN {} ELSE SplitTexts(lines, 1, Min(Heads(lines)) - 1)

\* Mutant of PiecesOf: a paragraph longer than a chapter is left whole.
PiecesUncut(lines, p) == <<<<p, 1, IF IsText(lines[p]) THEN lines[p] ELSE 1>>>>

\* _hard_split: pieces are <<line, number in the line, length>>
PiecesOf(lines, p) ==
  LET n == IF IsText(lines[p]) THEN lines[p] ELSE 1
      count == (n + TargetChars - 1) \div TargetChars IN
  [k \in 1..count |-> <<p, k, IF k < count THEN TargetChars ELSE n - (count - 1) * TargetChars>>]

WholeParagraphs(lines, places) ==
  LET ordered == SetToSortSeq(places, <) IN
  FlattenSeq([i \in DOMAIN ordered |-> PiecesOf(lines, ordered[i])])

ByHeadings(lines) ==
  LET preamble == Preamble(lines)
      long == LengthOf(lines, preamble) >= LongPreamble
      kept == {h \in Heads(lines) : LengthOf(lines, Block(lines, h)) >= MinChapter}
      ordered == SetToSortSeq(kept, <) IN
  [method |-> "headings",
   chapters |-> (IF long THEN <<[pieces |-> WholeParagraphs(lines, preamble), volume |-> 0]>> ELSE <<>>)
     \o [i \in DOMAIN ordered |-> [pieces |-> WholeParagraphs(lines, Block(lines, ordered[i])),
                                   volume |-> VolumeOf(lines, ordered[i])]],
   warnings |-> (IF kept # Heads(lines) THEN {"dropped"} ELSE {})
     \cup (IF preamble = {} THEN {} ELSE IF long THEN {"own chapter"} ELSE {"preamble"})]

\* only the continuation of a paragraph is moved to the next chapter
Overflows(piece, size) == piece[2] > 1 /\ size > 0 /\ size + piece[3] > TargetChars

SizeOf(pieces) == FoldLeft(LAMBDA sum, piece : sum + piece[3], 0, pieces)

AddPiece(acc, piece) ==
  LET begun == IF Overflows(piece, SizeOf(acc.open))
               THEN [done |-> Append(acc.done, acc.open), open |-> <<piece>>]
               ELSE [acc EXCEPT !.open = Append(@, piece)] IN
  IF SizeOf(begun.open) >= TargetChars
  THEN [done |-> Append(begun.done, begun.open), open |-> <<>>]
  ELSE begun

\* _split_by_length: what is left joins the last chapter if it is short
ByLength(lines) ==
  LET end == FoldLeft(AddPiece, [done |-> <<>>, open |-> <<>>],
                      WholeParagraphs(lines, DOMAIN lines))
      n == Len(end.done)
      short == n > 0 /\ 10 * SizeOf(end.open) < 3 * TargetChars
      parts == IF end.open = <<>> THEN end.done
               ELSE IF short THEN [end.done EXCEPT ![n] = @ \o end.open]
               ELSE Append(end.done, end.open) IN
  [method |-> "length", chapters |-> [i \in DOMAIN parts |-> [pieces |-> parts[i], volume |-> 0]],
   warnings |-> {}]

SplitOf(lines, mode) ==
  LET found == Cardinality(Heads(lines))
      headed == ByHeadings(lines)
      byHead == (mode # "length" /\ found >= 2) \/ (mode = "headings" /\ found >= 1) IN
  IF byHead /\ headed.chapters # <<>> THEN headed
  ELSE [ByLength(lines) EXCEPT !.warnings = IF byHead THEN headed.warnings ELSE {}]

SplitInit ==
  /\ manuscriptLines = <<>> /\ splitMode \in {"auto", "headings", "length"} /\ splitResult = NotSplit

AddLine ==
  /\ splitResult = NotSplit /\ Len(manuscriptLines) < MaxLines
  /\ \E line \in {HeadLine, VolumeLine} \cup SplitParagraphs : manuscriptLines' = Append(manuscriptLines, line)
  /\ UNCHANGED <<splitMode, splitResult>>

SplitUp ==
  /\ splitResult = NotSplit
  /\ splitResult' = SplitOf(manuscriptLines, splitMode)
  /\ UNCHANGED <<manuscriptLines, splitMode>>

SplitNext == AddLine \/ SplitUp

SplitSpec == SplitInit /\ [][SplitNext]_splitVars

----------------------------------------------------------------------------
(* Properties.                                                             *)

PiecesIn(result) == FlattenSeq([i \in DOMAIN result.chapters |-> result.chapters[i].pieces])

\* the paragraphs that stand under heading h
Under(h) == {p \in SplitTexts(manuscriptLines, h + 1, Len(manuscriptLines)) :
               ~ \E g \in Heads(manuscriptLines) : h < g /\ g < p}

\* The split keeps the author's text, in its order and once: a heading with
\* enough text under it is a chapter with all of that text, and what stood
\* before the first heading is a chapter or is reported.
TextIsKept ==
  splitResult # NotSplit =>
    LET all == PiecesIn(splitResult)
        held == {all[i][1] : i \in DOMAIN all} IN
    /\ \A i, j \in DOMAIN all : i < j =>
         all[i][1] < all[j][1] \/ (all[i][1] = all[j][1] /\ all[i][2] < all[j][2])
    /\ \A p \in held : Cardinality({i \in DOMAIN all : all[i][1] = p}) = Len(PiecesOf(manuscriptLines, p))
    /\ \A h \in Heads(manuscriptLines) :
         LengthOf(manuscriptLines, Under(h)) >= MinChapter => Under(h) \subseteq held
    /\ Preamble(manuscriptLines) \subseteq held \/ "preamble" \in splitResult.warnings

\* A chapter cut by length stays below twice the target and the remainder that
\* may join it, however long the paragraphs are.
ChaptersAreBounded ==
  splitResult.method = "length" =>
    \A i \in DOMAIN splitResult.chapters :
      10 * SizeOf(splitResult.chapters[i].pieces) < 23 * TargetChars

\* However a manuscript is cut into chapters, its text comes through in its order, once, in pieces a
\* chapter may have: the two parts above.
SplitIsFaithful == TextIsKept /\ ChaptersAreBounded
=============================================================================
