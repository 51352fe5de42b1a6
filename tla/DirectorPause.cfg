\* One director task whose memory repairs may hit their time limit.
SPECIFICATION Spec
CONSTANTS
  Tasks = {t1}
  IncubationTasks = {}
  Jobs = {j1, j2}
  NoTask = NoTask
  NoJob = NoJob
  NoBackup = NoBackup
  MaxBoots = 1
  MaxPreflights = 0
  RepairTimeouts = TRUE
  KeepBackup = FALSE
PROPERTIES
  PausedStaysPaused
