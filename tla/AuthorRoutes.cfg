SPECIFICATION ReplanSpec
CONSTANTS
  RouteCount = 4
  FirstVolume = 3
  ReplanWindow = 2
  RouteGoals = {0, 1, 2, 3, 4, 5}
  Faulty = {0}
  MaxAuthorEdits = 2
PROPERTIES
  AuthorRoutesStand
CHECK_DEADLOCK FALSE
