\* Every window open: what is overwritten can be found again
SPECIFICATION Spec
CONSTANTS
  N = 2
  Texts <- MCTexts
  EmptyText <- MCEmptyText
  NoText = NoText
  Plans <- MCPlans
  EmptyPlan = 0
  Receipts = {}
  Bodies = {}
  NoBody = NoBody
  KeepRevisions = 5
  KeepChapterVersions = 0
  MaxRev = 0
  MaxStamp = 4
  Tabs = {a}
  ProseEdits = {p1}
  DraftEdits = {d1}
  RunEdit = runEdit
  CleanupFix = fix
  NoDoc = NoDoc
  Races = {"preflightButton", "checkedStart", "adoptWhileSaving", "typeElsewhere", "editUnderRun"}
  MaxQueue = 1
  MaxRestores = 1
CHECK_DEADLOCK FALSE
INVARIANTS AcknowledgedIsRecoverable
