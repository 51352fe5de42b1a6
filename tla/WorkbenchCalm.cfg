\* Two tabs and a run, none of the windows open
SPECIFICATION Spec
CONSTANTS
  N = 2
  Texts <- MCTexts
  EmptyText <- MCEmptyText
  NoText = NoText
  Plans <- MCPlans
  EmptyPlan = 0
  Receipts = {}
  Bodies = {}
  NoBody = NoBody
  KeepRevisions = 5
  KeepChapterVersions = 0
  MaxRev = 0
  MaxStamp = 4
  Tabs = {a, b}
  ProseEdits = {p1}
  DraftEdits = {}
  RunEdit = runEdit
  CleanupFix = fix
  NoDoc = NoDoc
  Races = {}
  MaxQueue = 1
  MaxRestores = 1
SYMMETRY TabSymmetry
CHECK_DEADLOCK FALSE
INVARIANTS SavedMeansStored StaleMemoryIsMarked
PROPERTIES NoSilentOverwrite TypingIsKept
