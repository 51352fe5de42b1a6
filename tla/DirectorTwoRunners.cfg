\* Two director tasks of one project, no restart.
SPECIFICATION Spec
CONSTANTS
  Tasks = {t1, t2}
  IncubationTasks = {}
  Jobs = {j1, j2, j3}
  NoTask = NoTask
  NoJob = NoJob
  NoBackup = NoBackup
  MaxBoots = 1
  MaxPreflights = 1
  RepairTimeouts = FALSE
  KeepBackup = FALSE
INVARIANTS
  OneRunnerPerProject
