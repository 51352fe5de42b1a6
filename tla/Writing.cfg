\* The components that write a chapter, side by side
SPECIFICATION WritingSpec
CONSTANTS
  \* ChapterRun
  N = 2
  MaxAttempts = 1
  QualityLimit = 2
  SystemicLimit = 2
  HealthChapters <- LastChapter
  MaxTexts = 2
  \* ProseRun
  Candidates = 2
  Scenes = 2
  RecoveryAttempts = 2
  KeepReceipts = 1
  MaxPieces = 2
  MaxEchoes = 2
  MaxRequests = 4
  \* ModelCall
  Attempts = 3
  Requested = 4
  Ceilings = {0, 6}
  Rooms = {0, 2, 4, 20}
  RepairCost = 1
  MaxDeltas = 2
  \* CandidateChoice
  Rivals = 3
  Scores = {1, 2}
  \* BranchTrials
  BookChapters = 2
  Directions = 2
  KeepBranches = 3
  MaxTrials = 2
  MaxTypedTexts = 2
  MaxFailedSaves = 1
  \* Refinement
  Targets = {1, 2}
  WrittenAtFirst = {1}
  RevisionAttempts = 1
  MaxCandidates = 2
  MaxRounds = 2
  MaxMishaps = 1
  \* MemoryCommit
  Tabs = {"t1", "t2"}
  Versions = {"a", "b"}
  MaxTyped = 1
  MaxAccepts = 2
  MaxOtherSaves = 1
  \* MemoryStages
  Stages <- MCStages
  Core = "core"
  Caps <- MCCaps
  Budget = 5
  LeastTime = 2
  CallTime = 3
  \* VolumeReview
  VolumeChapters = {1}
  Texts = {"", "a"}
  Faults = {"slow", "slower"}
  Alike <- NearlySame
  MaxTasks = 2
  MaxQueue = 2
  MaxEdits = 1
  \* FocusedCritics
  Critics = {"facts", "world"}
  Sentences = {1, 2}
  Contexts = {"c1", "c2"}
  MaxChain = 1
  Audits = {1}
  MaxIssue = 1
  MaxDraftEdits = 2
INVARIANTS MemoryIsOfLockedText NothingPassedOver BreakerBoundsARun ChoiceIsFair StagesAreBounded
PROPERTIES WrittenTextIsKept SettledInOrder  CallIsSound   CommitIsSound ReviewIsSound AuditIsSound
\* each component's bounds end it
CHECK_DEADLOCK FALSE
