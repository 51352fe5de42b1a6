\* A save captured before the answer to the one before it
SPECIFICATION Spec
CONSTANTS
  N = 2
  Texts <- MCTexts
  EmptyText <- MCEmptyText
  NoText = NoText
  Plans <- MCPlans
  EmptyPlan = 0
  Receipts = {}
  Bodies = {}
  NoBody = NoBody
  KeepRevisions = 5
  KeepChapterVersions = 0
  MaxRev = 0
  MaxStamp = 3
  Tabs = {a}
  ProseEdits = {p1}
  DraftEdits = {}
  RunEdit = runEdit
  CleanupFix = fix
  NoDoc = NoDoc
  Races = {}
  MaxQueue = 2
  MaxRestores = 0
CHECK_DEADLOCK FALSE
INVARIANTS StaleMemoryIsMarked
