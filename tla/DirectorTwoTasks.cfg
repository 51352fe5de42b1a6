\* A director task and an incubation of one project, two process starts, memory repairs that may hit their time limit.
SPECIFICATION Spec
CONSTANTS
  Tasks = {t1, i1}
  IncubationTasks = {i1}
  Jobs = {j1, j2}
  NoTask = NoTask
  NoJob = NoJob
  NoBackup = NoBackup
  MaxBoots = 2
  MaxPreflights = 1
  RepairTimeouts = TRUE
  KeepBackup = FALSE
SYMMETRY JobSymmetry
INVARIANTS
  SingleRunner
PROPERTIES
  CompletedIsFinal
