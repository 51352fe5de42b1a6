\* The library and the plans of its books, side by side
SPECIFICATION LibrarySpec
CONSTANTS
  \* ProjectStore
  N = 1
  Texts = {t0}
  EmptyText = t0
  NoText = NoText
  Plans = {p0, p1}
  EmptyPlan = p0
  Receipts = {r1}
  b1 = b1
  b2 = b2
  Bodies = {b1, b2}
  NoBody = NoBody
  KeepRevisions = 2
  KeepChapterVersions = 1
  MaxRev = 2
  MaxStamp = 4
  \* ImportJob
  BookSize = 2
  ShortOnes = {}
  ReadBatches = 2
  CastNames = {"lin"}
  SettleAttempts = 2
  MaxAuthorSteps = 2
  MaxLaunches = 3
  \* ManuscriptSplit
  MaxLines = 5
  SplitParagraphs = {1, 3, 7}
  TargetChars = 4
  MinChapter = 2
  LongPreamble = 3
  \* GithubBackup
  Novels = {"n1", "n2"}
  Files = {"page"}
  Targets = {"main", "alt"}
  MaxWrites = 2
  MaxTroubles = 2
  \* ExportCleanup
  Hanzi = {"w", "x", "y"}
  Latin = {"a"}
  FirstBooks <- MCFirstBooks
  Formal <- MCCast
  Selections <- MCSelections
  MaxOthersEdits = 1
  MaxCleanups = 1
  \* DatabaseBackup
  Folders = {"home", "disk"}
  KeepManual = 1
  KeepAuto = 2
  KeepSafety = 1
  MaxContents = 1
  MaxMoment = 3
  \* RouteGate
  MaxRounds = 2
  VolumeSizes = {1, 4}
  TurnCounts = {3}
  \* PlanningRun
  CastSize = 1
  ChapterTarget = 4
  VolumeCounts = {1, 2, 3}
  VolumesKept = 2
  MaxResumes = 2
  MaxEdits = 1
  \* RollingReplan
  RouteCount = 4
  FirstVolume = 3
  ReplanWindow = 2
  RouteGoals = {0, 1, 2, 3, 4, 5}
  Faulty = {0}
  MaxAuthorEdits = 2
  \* PlanningDesk
  Books = {"b1", "b2"}
  Parts = {1, 2}
  PartLength = 3
  CallSize = 2
  Events = {"x", "y", "end"}
  Outcome = "end"
  MaxRequests = 3
  \* MemoryLedger
  Size = 3
  MaxRewrites = 1
  Stories <- MCStories
  Lapses <- MCLapses
  \* HookLedger
  Leaves = {"c1", "c2", "c3", "x"}
  FirstOrder <- MCFirstOrder
  Promises = {"A"}
  Window = 1
  Lifetime = 1
  LedgerLimit = 2
  MaxTurns = 2
INVARIANTS RevisionIdentifiesPlan   
PROPERTIES ReceiptsAppendOnly ImportIsComplete CleanupIsCareful  GateIsSound  ReplanIsBounded DeskIsSound 
\* each component's bounds end it
CHECK_DEADLOCK FALSE
