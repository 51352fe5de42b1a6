\* One director task through pauses, resumes, failures, two process starts and the restoration of a backup, under the
\* scheduling of the event loop, the polls of the browser and the expiry of leases.
SPECIFICATION FairSpec
CONSTANTS
  Tasks = {t1}
  IncubationTasks = {}
  Jobs = {j1, j2}
  NoTask = NoTask
  NoJob = NoJob
  NoBackup = NoBackup
  MaxBoots = 2
  MaxPreflights = 1
  RepairTimeouts = FALSE
  KeepBackup = TRUE
INVARIANTS
  GateClosedWhileWriting
  LeaseCoversWork
PROPERTIES
  PausedStaysPaused
  ImplementsLifecycle
  OrphanRecovered
  PauseStops
