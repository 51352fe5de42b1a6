SPECIFICATION Spec
CONSTANTS
  N = 2
  MaxAttempts = 1
  QualityLimit = 2
  SystemicLimit = 2
  HealthChapters <- LastChapter
  MaxTexts = 3
INVARIANT RefusalCanBeFollowed
CHECK_DEADLOCK FALSE
