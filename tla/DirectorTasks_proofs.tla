------------------------ MODULE DirectorTasks_proofs -----------------------
(***************************************************************************)
(* Theorems about DirectorTasks, for any sets of tasks and jobs and any    *)
(* bounds.                                                                 *)
(***************************************************************************)
EXTENDS DirectorTasks, TLAPS

\* Every live job is the one registered for its task: launches replace only
\* finished jobs, and a job leaves the register in the step that ends it.
Registered == \A j \in Jobs : Live(j) => target[j] \in Tasks /\ slot[target[j]] = j

\* No job outlives its process.
JobsNeedHost == \A j \in Jobs : Live(j) => up

\* What a job may find in its row, and hold in memory, before it unwinds.
Unfinished == {"queued", "running", "paused"}
RowUnderWork ==
  \A j \in Jobs : pc[j] \in {"scheduled", "running", "draining"} =>
    status[target[j]] \in Unfinished /\ held[j] \in Unfinished

IInv == TypeOK /\ Registered /\ JobsNeedHost /\ LeaseCoversWork /\ RowUnderWork

USE DEF Statuses, Active, Unfinished, Places, Debts

\* Every initial state satisfies the inductive invariant.
LEMMA InitIInv == Init => IInv
  BY TasksAssumption
  DEF Init, IInv, TypeOK, Registered, JobsNeedHost, LeaseCoversWork,
      RowUnderWork, Live, Claimed

\* Launching keeps the register right, and touches no job that is live.
LEMMA LaunchSafe ==
  ASSUME TypeOK, Registered, NEW t \in Tasks, Launch(t)
  PROVE  /\ slot' \in [Tasks -> Jobs \cup {NoJob}]
         /\ pc' \in [Jobs -> Places]
         /\ target' \in [Jobs -> Tasks \cup {NoTask}]
         /\ held' \in [Jobs -> Statuses]
         /\ cancel' \in [Jobs -> BOOLEAN]
         /\ Registered'
         /\ \A j \in Jobs : \/ pc'[j] = pc[j] /\ target'[j] = target[j]
                               /\ held'[j] = held[j] /\ cancel'[j] = cancel[j]
                            \/ /\ ~Live(j) /\ pc'[j] = "scheduled" /\ target'[j] = t
                               /\ held'[j] = "queued" /\ cancel'[j] = FALSE
  <1>1. CASE UNCHANGED jobVars
    BY <1>1 DEF jobVars, TypeOK, Registered, Live
  <1>2. CASE ~RunnerLive(t)
    <2>1. CASE UNCHANGED jobVars
      BY <2>1, <1>1
    <2>2. PICK j \in Jobs :
            /\ ~Live(j) /\ \A u \in Tasks \ {t} : slot[u] # j
            /\ slot' = [slot EXCEPT ![t] = j]
            /\ pc' = [pc EXCEPT ![j] = "scheduled"]
            /\ target' = [target EXCEPT ![j] = t]
            /\ held' = [held EXCEPT ![j] = "queued"]
            /\ cancel' = [cancel EXCEPT ![j] = FALSE]
      BY <1>2 DEF Launch
    <2>3. Registered'
      BY <2>2, <1>2, TasksAssumption DEF Registered, Live, RunnerLive, TypeOK
    <2>4. QED
      BY <2>2, <2>3 DEF TypeOK
  <1>3. QED
    BY <1>1, <1>2 DEF Launch

\* A handler that creates or resumes a task: the row becomes "queued".
LEMMA QueueSafe ==
  ASSUME IInv, NEW t \in Tasks, status' = [status EXCEPT ![t] = "queued"], Launch(t),
         latest' = t, live' \in [Tasks -> BOOLEAN], owner' = owner,
         blocked' \in [Tasks -> BOOLEAN], debts' \in [Tasks -> Debts],
         up, up' = up, instance' = instance, preflights' \in Nat, backup' = backup
  PROVE  IInv'
  <1> USE DEF IInv
  <1>1. TypeOK' /\ Registered'
    BY LaunchSafe DEF TypeOK
  <1>2. up' = TRUE
    BY DEF TypeOK
  <1>3. JobsNeedHost'
    BY <1>2 DEF JobsNeedHost
  <1>4. LeaseCoversWork'
    <2> SUFFICES ASSUME NEW j \in Jobs, pc'[j] \in {"running", "draining", "unwinding"}
                 PROVE  owner'[target'[j]] = instance'
      BY <1>2 DEF LeaseCoversWork, Claimed
    <2>1. pc'[j] = pc[j] /\ target'[j] = target[j]
      BY LaunchSafe
    <2>2. QED
      BY <2>1 DEF LeaseCoversWork, Claimed
  <1>5. RowUnderWork'
    <2> SUFFICES ASSUME NEW j \in Jobs, pc'[j] \in {"scheduled", "running", "draining"}
                 PROVE  status'[target'[j]] \in Unfinished /\ held'[j] \in Unfinished
      BY DEF RowUnderWork
    <2>1. CASE pc'[j] = pc[j] /\ target'[j] = target[j] /\ held'[j] = held[j]
      BY <2>1 DEF RowUnderWork, Registered, Live, TypeOK
    <2>2. CASE pc'[j] = "scheduled" /\ target'[j] = t /\ held'[j] = "queued"
      BY <2>2 DEF TypeOK
    <2>3. \/ pc'[j] = pc[j] /\ target'[j] = target[j] /\ held'[j] = held[j]
          \/ pc'[j] = "scheduled" /\ target'[j] = t /\ held'[j] = "queued"
      <3>1. TypeOK /\ Registered /\ Launch(t)
        OBVIOUS
      <3>2. QED
        BY <3>1, LaunchSafe
    <2>4. QED
      BY <2>1, <2>2, <2>3
  <1>6. QED
    BY <1>1, <1>3, <1>4, <1>5

\* The handlers of the interface, and the clock of the leases.
LEMMA HandlerSafe == ASSUME IInv, NEW t \in Tasks, Handler(t) PROVE IInv'
  <1> USE DEF SaveRow, SaveTask, CreateAndLaunch, rowVars, projectVars, hostVars, jobVars
  <1>0. TypeOK
    BY DEF IInv
  <1>a. Aged \in [Tasks -> Debts]
    BY <1>0 DEF Aged, TypeOK
  <1>b. ProjectTouched => blocked' \in [Tasks -> BOOLEAN] /\ debts' \in [Tasks -> Debts]
    BY <1>a DEF ProjectTouched
  <1>1. CASE Start(t)
    BY <1>1, <1>0, QueueSafe DEF Start, TypeOK
  <1>2. CASE Refine(t)
    BY <1>2, <1>0, <1>a, QueueSafe DEF Refine, TypeOK
  <1>3. CASE Incubate(t)
    BY <1>3, <1>0, QueueSafe DEF Incubate, TypeOK
  <1>4. CASE WritePlannedCommit(t)
    <2>1. preflights' \in Nat
      BY <1>4, <1>0 DEF WritePlannedCommit, TypeOK
    <2>2. QED
      BY <1>4, <2>1, <1>0, <1>b, QueueSafe DEF WritePlannedCommit, TypeOK
  <1>5. CASE Resume(t)
    <2>1. live' \in [Tasks -> BOOLEAN]
      BY <1>5, <1>0 DEF Resume, TypeOK
    <2>2. QED
      BY <1>5, <2>1, <1>0, QueueSafe DEF Resume, TypeOK
  <1>6. CASE PollOrphan(t)
    <2>1. Reconciled(t) => debts' \in [Tasks -> Debts]
      BY <1>0 DEF Reconciled, TypeOK
    <2>2. QED
      BY <1>6, <2>1 DEF PollOrphan, IInv, TypeOK, Registered, JobsNeedHost,
         LeaseCoversWork, RowUnderWork, Live, Claimed
  <1>7. CASE PollDebts(t)
    <2>1. Reconciled(t) => debts' \in [Tasks -> Debts]
      BY <1>0 DEF Reconciled, TypeOK
    <2>2. QED
      BY <1>7, <2>1 DEF PollDebts, IInv, TypeOK, Registered, JobsNeedHost,
         LeaseCoversWork, RowUnderWork, Live, Claimed
  <1>8. CASE Pause(t)
    BY <1>8 DEF Pause, IInv, TypeOK, Registered, JobsNeedHost,
         LeaseCoversWork, RowUnderWork, Live, Claimed, RunnerLive
  <1>9. CASE LeaseExpire(t)
    BY <1>9 DEF LeaseExpire, IInv, TypeOK, Registered, JobsNeedHost,
         LeaseCoversWork, RowUnderWork, Live, Claimed
  <1>10. QED
    BY <1>1, <1>2, <1>3, <1>4, <1>5, <1>6, <1>7, <1>8, <1>9 DEF Handler

\* The steps of a runner.
LEMMA RunnerSafe == ASSUME IInv, NEW j \in Jobs, Runner(j) PROVE IInv'
  <1> USE DEF SaveRow, SaveTask, Goto, EndJob, Working, rowVars, projectVars, hostVars,
              jobVars, IInv, TypeOK, Registered, JobsNeedHost, LeaseCoversWork,
              RowUnderWork, Live, Claimed
  <1>a. Aged \in [Tasks -> Debts]
    BY DEF Aged
  <1>b. ASSUME NEW t \in Tasks, RunSaves(t)
        PROVE  blocked' \in [Tasks -> BOOLEAN] /\ debts' \in [Tasks -> Debts]
    <2>1. PICK d \in {"none", "fresh"} :
            \/ UNCHANGED blocked /\ debts' = [debts EXCEPT ![t] = d]
            \/ /\ blocked' = [u \in Tasks |-> FALSE]
               /\ debts' = [Aged EXCEPT ![t] = d]
      BY <1>b DEF RunSaves
    <2>2. CASE UNCHANGED blocked /\ debts' = [debts EXCEPT ![t] = d]
      BY <2>2
    <2>3. CASE blocked' = [u \in Tasks |-> FALSE] /\ debts' = [Aged EXCEPT ![t] = d]
      BY <1>a, <2>3
    <2>4. QED
      BY <2>1, <2>2, <2>3
  <1>1. CASE BeginVoid(j)
    BY <1>1 DEF BeginVoid
  <1>2. CASE Begin(j)
    BY <1>2 DEF Begin
  <1>3. CASE Checkpoint(j)
    BY <1>3, <1>b DEF Checkpoint
  <1>4. CASE Reload(j)
    BY <1>4 DEF Reload
  <1>5. CASE Cancelled(j)
    BY <1>5 DEF Cancelled
  <1>6. ASSUME NEW s \in {"paused", "completed"}, Stop(j, s) PROVE IInv'
    BY <1>6, <1>b DEF Stop
  <1>7. ASSUME NEW filtered \in BOOLEAN, Fail(j, filtered) PROVE IInv'
    BY <1>7 DEF Fail
  <1>8. CASE RepairTimeout(j)
    BY <1>8 DEF RepairTimeout
  <1>9. CASE Drained(j)
    BY <1>9 DEF Drained
  <1>10. CASE Settle(j)
    BY <1>10, TasksAssumption DEF Settle
  <1>11. CASE Heartbeat(j)
    BY <1>11 DEF Heartbeat
  <1>12. QED
    BY <1>1, <1>2, <1>3, <1>4, <1>5, <1>6, <1>7, <1>8, <1>9, <1>10, <1>11 DEF Runner

\* Requests without a task, the author, the process and the database file.
LEMMA HostSafe == ASSUME IInv, Host PROVE IInv'
  <1> USE DEF rowVars, projectVars, hostVars, jobVars, IInv, TypeOK, Registered,
              JobsNeedHost, LeaseCoversWork, RowUnderWork, Live, Claimed
  <1>a. ProjectTouched => blocked' \in [Tasks -> BOOLEAN] /\ debts' \in [Tasks -> Debts]
    BY DEF ProjectTouched, Aged
  <1>1. CASE WritePlannedBegin
    BY <1>1 DEF WritePlannedBegin
  <1>2. CASE WritePlannedRefused
    BY <1>2, <1>a DEF WritePlannedRefused
  <1>3. CASE AuthorSave
    BY <1>3, <1>a DEF AuthorSave
  <1>4. CASE Crash
    BY <1>4 DEF Crash, JobsGone
  <1>5. CASE Shutdown
    <2> DEFINE interrupted == {target[j] : j \in {i \in Jobs : pc[i] = "running"}}
                                \ {t \in Tasks : status[t] = "completed"}
               released == {target[j] : j \in {i \in Jobs : Claimed(i)}}
    <2>1. /\ status' = [t \in Tasks |-> IF t \in interrupted THEN "paused" ELSE status[t]]
          /\ latest' \in IF interrupted = {} THEN {latest} ELSE interrupted
          /\ owner' = [t \in Tasks |-> IF t \in released THEN 0 ELSE owner[t]]
          /\ live' = [t \in Tasks |-> live[t] /\ t \notin released]
      BY <1>5 DEF Shutdown
    <2>2. interrupted \subseteq Tasks
      OBVIOUS
    <2>3. latest' \in Tasks \cup {NoTask}
      BY <2>1, <2>2
    <2>4. /\ status' \in [Tasks -> Statuses]
          /\ owner' \in [Tasks -> Nat] /\ live' \in [Tasks -> BOOLEAN]
      <3> HIDE DEF interrupted, released
      <3> QED
        BY <2>1
    <2>5. TypeOK'
      <3> HIDE DEF interrupted, released
      <3> QED
        BY <1>5, <2>3, <2>4 DEF Shutdown, JobsGone
    <2>6. QED
      BY <1>5, <2>5 DEF Shutdown, JobsGone
  <1>6. CASE Boot
    BY <1>6 DEF Boot
  <1>7. CASE TakeBackup
    <2>1. backup' \in Rows
      BY <1>7 DEF TakeBackup, Rows
    <2>2. QED
      BY <1>7, <2>1 DEF TakeBackup
  <1>8. CASE BackupAges
    <2>1. backup' \in Rows
      BY <1>8 DEF BackupAges, Rows
    <2>2. QED
      BY <1>8, <2>1 DEF BackupAges
  <1>9. CASE RestoreBackup
    <2>1. backup \in Rows
      BY <1>9 DEF RestoreBackup
    <2>2. TypeOK'
      BY <1>9, <2>1 DEF RestoreBackup, Rows
    <2>3. \A j \in Jobs : pc[j] = "done"
      BY <1>9, TasksAssumption DEF RestoreBackup, RunnerLive
    <2>4. QED
      BY <1>9, <2>2, <2>3 DEF RestoreBackup
  <1>10. QED
    BY <1>1, <1>2, <1>3, <1>4, <1>5, <1>6, <1>7, <1>8, <1>9 DEF Host

LEMMA StutterSafe == ASSUME IInv, UNCHANGED vars PROVE IInv'
  BY DEF vars, rowVars, projectVars, hostVars, jobVars, IInv, TypeOK, Registered,
         JobsNeedHost, LeaseCoversWork, RowUnderWork, Live, Claimed

\* IInv is an inductive invariant of the director.
THEOREM Inductive == Spec => []IInv
  <1>1. IInv /\ [Next]_vars => IInv'
    BY HandlerSafe, RunnerSafe, HostSafe, StutterSafe DEF Next
  <1>2. QED
    BY InitIInv, <1>1, PTL DEF Spec

\* The rows, the runtime and the host keep their types.
THEOREM TypeCorrect == Spec => []TypeOK
  BY Inductive, PTL DEF IInv

\* No interleaving of launches, unwinding runners, restarts and restores gives
\* a task two live jobs.
THEOREM OneLiveJob == Spec => []SingleRunner
  <1>1. IInv => SingleRunner
    BY DEF IInv, Registered, SingleRunner
  <1>2. QED
    BY Inductive, <1>1, PTL

\* A job past its claim holds the lease of its row until it releases it.
THEOREM LeaseHeld == Spec => []LeaseCoversWork
  BY Inductive, PTL DEF IInv

----------------------------------------------------------------------------
\* No step but the restoration of a database reopens a completed row.
LEMMA CompletedStep ==
  ASSUME IInv, [Next]_vars, NEW t \in Tasks,
         status[t] = "completed", status'[t] # "completed"
  PROVE  RestoreBackup
  <1> USE DEF SaveRow, SaveTask, IInv, TypeOK
  <1>1. ASSUME NEW u \in Tasks, Handler(u) PROVE FALSE
    BY <1>1 DEF Handler, Start, Refine, Incubate, WritePlannedCommit, CreateAndLaunch,
       PollOrphan, Orphaned, PollDebts, Pause, Resume, LeaseExpire
  <1>2. ASSUME NEW j \in Jobs, Runner(j) PROVE FALSE
    <2>1. pc[j] \in {"scheduled", "running", "draining"} =>
            target[j] \in Tasks /\ status[target[j]] # "completed"
      BY DEF Registered, RowUnderWork, Live
    <2>2. CASE \E s \in {"paused", "completed"} : Stop(j, s)
      BY <2>1, <2>2 DEF Stop, Working
    <2>3. CASE \E filtered \in BOOLEAN : Fail(j, filtered)
      BY <2>1, <2>3 DEF Fail, Working
    <2>4. CASE Begin(j) \/ Checkpoint(j) \/ Reload(j) \/ Cancelled(j)
      BY <2>1, <2>4 DEF Begin, Checkpoint, Reload, Cancelled, Working
    <2>5. CASE BeginVoid(j) \/ RepairTimeout(j) \/ Drained(j) \/ Settle(j) \/ Heartbeat(j)
      BY <2>5 DEF BeginVoid, RepairTimeout, Drained, Settle, Heartbeat, rowVars
    <2>6. QED
      BY <1>2, <2>2, <2>3, <2>4, <2>5 DEF Runner
  <1>3. CASE Host
    <2>1. CASE Shutdown
      BY <2>1 DEF Shutdown
    <2>2. CASE WritePlannedBegin \/ WritePlannedRefused \/ AuthorSave \/ Crash \/ Boot
                 \/ TakeBackup \/ BackupAges
      BY <2>2 DEF WritePlannedBegin, WritePlannedRefused, AuthorSave, Crash, Boot,
         TakeBackup, BackupAges, rowVars
    <2>3. QED
      BY <1>3, <2>1, <2>2 DEF Host
  <1>4. CASE UNCHANGED vars
    BY <1>4 DEF vars, rowVars
  <1>5. QED
    BY <1>1, <1>2, <1>3, <1>4 DEF Next

\* A completed task stays completed unless an older database is put back.
THEOREM CompletedStays == Spec => CompletedIsFinal
  <1>1. IInv /\ [Next]_vars =>
          [\A t \in Tasks :
             status[t] = "completed" /\ status'[t] # "completed" => RestoreBackup]_vars
    BY CompletedStep
  <1>2. QED
    BY Inductive, <1>1, PTL DEF Spec, CompletedIsFinal

----------------------------------------------------------------------------
\* Without repair time limits: a job that may still write its row, and was not
\* told to stop, has an active row and knows it as such.
PauseReachesJob ==
  \A j \in Jobs :
    /\ pc[j] # "draining"
    /\ pc[j] \in {"scheduled", "running"} /\ ~cancel[j] =>
         status[target[j]] \in Active /\ held[j] \in Active

LEMMA PauseReachesStep ==
  ASSUME ~RepairTimeouts, IInv, PauseReachesJob, [Next]_vars
  PROVE  PauseReachesJob'
  <1> USE DEF SaveRow, SaveTask, IInv, TypeOK
  <1>a. ASSUME NEW t \in Tasks, Launch(t), status' = [status EXCEPT ![t] = "queued"]
        PROVE  PauseReachesJob'
    <2> SUFFICES ASSUME NEW j \in Jobs
                 PROVE  /\ pc'[j] # "draining"
                        /\ pc'[j] \in {"scheduled", "running"} /\ ~cancel'[j] =>
                             status'[target'[j]] \in Active /\ held'[j] \in Active
      BY DEF PauseReachesJob
    <2>1. CASE pc'[j] = pc[j] /\ target'[j] = target[j] /\ held'[j] = held[j]
                 /\ cancel'[j] = cancel[j]
      BY <1>a, <2>1 DEF PauseReachesJob, Registered, Live
    <2>2. CASE pc'[j] = "scheduled" /\ target'[j] = t /\ held'[j] = "queued"
      BY <1>a, <2>2
    <2>3. QED
      BY <1>a, <2>1, <2>2, LaunchSafe
  <1>1. ASSUME NEW t \in Tasks, Handler(t) PROVE PauseReachesJob'
    <2>1. CASE Start(t) \/ Refine(t) \/ Incubate(t) \/ WritePlannedCommit(t)
      BY <2>1, <1>a DEF Start, Refine, Incubate, WritePlannedCommit, CreateAndLaunch
    <2>2. CASE Resume(t)
      BY <2>2, <1>a DEF Resume
    <2>3. CASE PollOrphan(t)
      BY <2>3, TasksAssumption
      DEF PollOrphan, Orphaned, RunnerLive, PauseReachesJob, Registered, Live, jobVars
    <2>4. CASE Pause(t)
      BY <2>4, TasksAssumption DEF Pause, RunnerLive, PauseReachesJob, Registered, Live
    <2>5. CASE PollDebts(t) \/ LeaseExpire(t)
      BY <2>5 DEF PollDebts, LeaseExpire, PauseReachesJob, jobVars
    <2>6. QED
      BY <1>1, <2>1, <2>2, <2>3, <2>4, <2>5 DEF Handler
  <1>2. ASSUME NEW j \in Jobs, Runner(j) PROVE PauseReachesJob'
    <2> USE DEF PauseReachesJob, Registered, Live, Goto, EndJob, Working, rowVars, jobVars
    <2>1. CASE BeginVoid(j) \/ Settle(j)
      BY <2>1 DEF BeginVoid, Settle
    <2>2. CASE Begin(j)
      BY <2>2 DEF Begin
    <2>3. CASE Checkpoint(j)
      BY <2>3 DEF Checkpoint
    <2>4. CASE Reload(j)
      BY <2>4 DEF Reload
    <2>5. CASE Cancelled(j)
      BY <2>5 DEF Cancelled
    <2>6. CASE \E s \in {"paused", "completed"} : Stop(j, s)
      BY <2>6 DEF Stop
    <2>7. CASE \E filtered \in BOOLEAN : Fail(j, filtered)
      BY <2>7 DEF Fail
    <2>8. CASE RepairTimeout(j) \/ Drained(j) \/ Heartbeat(j)
      BY <2>8 DEF RepairTimeout, Drained, Heartbeat
    <2>9. QED
      BY <1>2, <2>1, <2>2, <2>3, <2>4, <2>5, <2>6, <2>7, <2>8 DEF Runner
  <1>3. CASE Host
    <2> USE DEF PauseReachesJob, Live, rowVars, jobVars
    <2>1. CASE Crash \/ Shutdown
      BY <2>1 DEF Crash, Shutdown, JobsGone
    <2>2. CASE WritePlannedBegin \/ WritePlannedRefused \/ AuthorSave \/ Boot
                 \/ TakeBackup \/ BackupAges
      BY <2>2 DEF WritePlannedBegin, WritePlannedRefused, AuthorSave, Boot,
         TakeBackup, BackupAges
    <2>3. CASE RestoreBackup
      BY <2>3, TasksAssumption DEF RestoreBackup, RunnerLive, Registered
    <2>4. QED
      BY <1>3, <2>1, <2>2, <2>3 DEF Host
  <1>4. CASE UNCHANGED vars
    BY <1>4 DEF vars, rowVars, jobVars, PauseReachesJob
  <1>5. QED
    BY <1>1, <1>2, <1>3, <1>4 DEF Next

\* Only a restoration turns a paused row into a running one in a single step.
LEMMA PausedStep ==
  ASSUME IInv, PauseReachesJob, [Next]_vars, NEW t \in Tasks,
         status[t] = "paused", status'[t] = "running"
  PROVE  RestoreBackup
  <1> USE DEF SaveRow, SaveTask, IInv, TypeOK
  <1>1. ASSUME NEW u \in Tasks, Handler(u) PROVE FALSE
    BY <1>1 DEF Handler, Start, Refine, Incubate, WritePlannedCommit, CreateAndLaunch,
       PollOrphan, PollDebts, Pause, Resume, LeaseExpire
  <1>2. ASSUME NEW j \in Jobs, Runner(j) PROVE FALSE
    <2>1. pc[j] \in {"scheduled", "running"} /\ ~cancel[j] =>
            target[j] \in Tasks /\ status[target[j]] # "paused"
      BY DEF Registered, PauseReachesJob, Live
    <2>2. CASE \E s \in {"paused", "completed"} : Stop(j, s)
      BY <2>1, <2>2 DEF Stop, Working
    <2>3. CASE \E filtered \in BOOLEAN : Fail(j, filtered)
      BY <2>1, <2>3 DEF Fail, Working
    <2>4. CASE Begin(j) \/ Checkpoint(j) \/ Reload(j)
      BY <2>1, <2>4 DEF Begin, Checkpoint, Reload, Working
    <2>5. CASE Cancelled(j)
      BY <2>5 DEF Cancelled
    <2>6. CASE BeginVoid(j) \/ RepairTimeout(j) \/ Drained(j) \/ Settle(j) \/ Heartbeat(j)
      BY <2>6 DEF BeginVoid, RepairTimeout, Drained, Settle, Heartbeat, rowVars
    <2>7. QED
      BY <1>2, <2>2, <2>3, <2>4, <2>5, <2>6 DEF Runner
  <1>3. CASE Host
    <2>1. CASE Shutdown
      BY <2>1 DEF Shutdown
    <2>2. CASE WritePlannedBegin \/ WritePlannedRefused \/ AuthorSave \/ Crash \/ Boot
                 \/ TakeBackup \/ BackupAges
      BY <2>2 DEF WritePlannedBegin, WritePlannedRefused, AuthorSave, Crash, Boot,
         TakeBackup, BackupAges, rowVars
    <2>3. QED
      BY <1>3, <2>1, <2>2 DEF Host
  <1>4. CASE UNCHANGED vars
    BY <1>4 DEF vars, rowVars
  <1>5. QED
    BY <1>1, <1>2, <1>3, <1>4 DEF Next

\* As long as no memory repair hits its time limit, a pause is never undone by
\* the run it stopped (DirectorPause shows the run that undoes it otherwise).
THEOREM PauseIsKept == ~RepairTimeouts => (Spec => PausedStaysPaused)
  <1> SUFFICES ASSUME ~RepairTimeouts PROVE Spec => PausedStaysPaused
    OBVIOUS
  <1>1. Init => PauseReachesJob
    BY DEF Init, PauseReachesJob
  <1>2. IInv /\ PauseReachesJob /\ [Next]_vars => PauseReachesJob'
    BY PauseReachesStep
  <1>3. IInv /\ PauseReachesJob /\ [Next]_vars =>
          [\A t \in Tasks :
             status[t] = "paused" /\ status'[t] = "running" => RestoreBackup]_vars
    BY PausedStep
  <1>4. QED
    BY Inductive, <1>1, <1>2, <1>3, PTL DEF Spec, PausedStaysPaused

----------------------------------------------------------------------------
\* No job is registered for two tasks.
OneSlotEach == \A t, u \in Tasks : slot[t] # NoJob /\ slot[t] = slot[u] => t = u

LEMMA OneSlotEachStep ==
  ASSUME IInv, OneSlotEach, [Next]_vars
  PROVE  OneSlotEach'
  <1> USE DEF IInv, TypeOK, OneSlotEach, jobVars
  <1>1. ASSUME UNCHANGED slot PROVE OneSlotEach'
    BY <1>1
  <1>2. ASSUME NEW t \in Tasks, Launch(t) PROVE OneSlotEach'
    BY <1>2 DEF Launch
  <1>3. ASSUME NEW t \in Tasks, slot' = [slot EXCEPT ![t] = NoJob] PROVE OneSlotEach'
    BY <1>3
  <1>4. ASSUME NEW t \in Tasks, Handler(t) PROVE OneSlotEach'
    BY <1>1, <1>2, <1>4 DEF Handler, Start, Refine, Incubate, WritePlannedCommit, CreateAndLaunch, PollOrphan,
       PollDebts, Pause, Resume, LeaseExpire
  <1>5. ASSUME NEW j \in Jobs, Runner(j) PROVE OneSlotEach'
    <2>1. CASE Settle(j)
      BY <1>3, <2>1 DEF Settle, Registered, Live
    <2> QED BY <1>1, <1>5, <2>1 DEF Runner, BeginVoid, Begin, Checkpoint, Reload, Cancelled, Stop, Fail,
            RepairTimeout, Drained, Heartbeat
  <1>6. CASE Host
    <2>1. CASE Crash \/ Shutdown
      BY <2>1 DEF Crash, Shutdown, JobsGone
    <2> QED BY <1>1, <1>6, <2>1 DEF Host, WritePlannedBegin, WritePlannedRefused, AuthorSave, Boot, TakeBackup,
            BackupAges, RestoreBackup
  <1> QED BY <1>1, <1>4, <1>5, <1>6 DEF Next, vars

\* A job that was told to stop finds its row paused, or asked for again; one
\* that was not told, and has not begun, finds it queued.
StopIsSeen ==
  \A j \in Jobs :
    /\ pc[j] \in {"scheduled", "running"} /\ cancel[j] => status[target[j]] \in {"queued", "paused"}
    /\ pc[j] = "scheduled" /\ ~cancel[j] => status[target[j]] = "queued"

LEMMA StopIsSeenStep ==
  ASSUME ~RepairTimeouts, IInv, PauseReachesJob, OneSlotEach, StopIsSeen, [Next]_vars
  PROVE  StopIsSeen'
  <1> USE DEF SaveRow, SaveTask, IInv, TypeOK
  <1>a. ASSUME NEW t \in Tasks, Launch(t), status' = [status EXCEPT ![t] = "queued"]
        PROVE  StopIsSeen'
    <2> SUFFICES ASSUME NEW j \in Jobs
                 PROVE  /\ pc'[j] \in {"scheduled", "running"} /\ cancel'[j] =>
                             status'[target'[j]] \in {"queued", "paused"}
                        /\ pc'[j] = "scheduled" /\ ~cancel'[j] => status'[target'[j]] = "queued"
      BY DEF StopIsSeen
    <2>1. CASE pc'[j] = pc[j] /\ target'[j] = target[j] /\ held'[j] = held[j]
                 /\ cancel'[j] = cancel[j]
      BY <1>a, <2>1 DEF StopIsSeen, Registered, Live
    <2>2. CASE pc'[j] = "scheduled" /\ target'[j] = t /\ held'[j] = "queued"
                 /\ cancel'[j] = FALSE
      BY <1>a, <2>2
    <2>3. \/ pc'[j] = pc[j] /\ target'[j] = target[j] /\ held'[j] = held[j] /\ cancel'[j] = cancel[j]
          \/ ~Live(j) /\ pc'[j] = "scheduled" /\ target'[j] = t /\ held'[j] = "queued" /\ cancel'[j] = FALSE
      BY <1>a, LaunchSafe
    <2>4. QED
      BY <2>1, <2>2, <2>3, Zenon
  <1>1. ASSUME NEW t \in Tasks, Handler(t) PROVE StopIsSeen'
    <2>1. CASE Start(t) \/ Refine(t) \/ Incubate(t) \/ WritePlannedCommit(t)
      BY <2>1, <1>a DEF Start, Refine, Incubate, WritePlannedCommit, CreateAndLaunch
    <2>2. CASE Resume(t)
      BY <2>2, <1>a DEF Resume
    <2>3. CASE PollOrphan(t)
      BY <2>3, TasksAssumption
      DEF PollOrphan, Orphaned, RunnerLive, StopIsSeen, Registered, Live, jobVars
    <2>4. CASE Pause(t)
      <3> SUFFICES ASSUME NEW j \in Jobs, pc[j] \in {"scheduled", "running"}
                   PROVE  /\ cancel'[j] => status'[target[j]] \in {"queued", "paused"}
                          /\ pc[j] = "scheduled" /\ ~cancel'[j] => status'[target[j]] = "queued"
        BY <2>4 DEF Pause, StopIsSeen
      <3>1. target[j] \in Tasks /\ slot[target[j]] = j /\ j # NoJob
        BY TasksAssumption DEF Registered, Live
      <3>2. CASE target[j] = t
        <4>1. RunnerLive(t) /\ status'[t] = "paused" /\ cancel'[j]
          BY <2>4, <3>1, <3>2 DEF Pause, RunnerLive, Live
        <4> QED BY <3>2, <4>1
      <3>3. CASE target[j] # t
        <4>1. status'[target[j]] = status[target[j]]
          BY <2>4, <3>1, <3>3 DEF Pause
        <4>2. slot[t] # j
          BY <3>1, <3>3 DEF OneSlotEach
        <4>3. cancel'[j] = cancel[j]
          BY <2>4, <4>2 DEF Pause
        <4> QED BY <4>1, <4>3 DEF StopIsSeen
      <3> QED BY <3>2, <3>3
    <2>5. CASE PollDebts(t) \/ LeaseExpire(t)
      BY <2>5 DEF PollDebts, LeaseExpire, StopIsSeen, jobVars
    <2>6. QED
      BY <1>1, <2>1, <2>2, <2>3, <2>4, <2>5 DEF Handler
  <1>2. ASSUME NEW j \in Jobs, Runner(j) PROVE StopIsSeen'
    <2> USE DEF StopIsSeen, Registered, Live, Goto, EndJob, Working, rowVars, jobVars
    <2>1. CASE BeginVoid(j) \/ Settle(j)
      BY <2>1 DEF BeginVoid, Settle
    <2>2. CASE Begin(j)
      BY <2>2 DEF Begin
    <2>3. CASE Checkpoint(j)
      BY <2>3 DEF Checkpoint
    <2>4. CASE Reload(j)
      BY <2>4 DEF Reload
    <2>5. CASE Cancelled(j)
      BY <2>5 DEF Cancelled
    <2>6. CASE \E s \in {"paused", "completed"} : Stop(j, s)
      BY <2>6 DEF Stop
    <2>7. CASE \E filtered \in BOOLEAN : Fail(j, filtered)
      BY <2>7 DEF Fail
    <2>8. CASE RepairTimeout(j) \/ Drained(j) \/ Heartbeat(j)
      BY <2>8 DEF RepairTimeout, Drained, Heartbeat, PauseReachesJob
    <2>9. QED
      BY <1>2, <2>1, <2>2, <2>3, <2>4, <2>5, <2>6, <2>7, <2>8 DEF Runner
  <1>3. CASE Host
    <2> USE DEF StopIsSeen, Live, rowVars, jobVars
    <2>1. CASE Crash \/ Shutdown
      BY <2>1 DEF Crash, Shutdown, JobsGone
    <2>2. CASE WritePlannedBegin \/ WritePlannedRefused \/ AuthorSave \/ Boot
                 \/ TakeBackup \/ BackupAges
      BY <2>2 DEF WritePlannedBegin, WritePlannedRefused, AuthorSave, Boot,
         TakeBackup, BackupAges
    <2>3. CASE RestoreBackup
      BY <2>3, TasksAssumption DEF RestoreBackup, RunnerLive, Registered
    <2>4. QED
      BY <1>3, <2>1, <2>2, <2>3 DEF Host
  <1>4. CASE UNCHANGED vars
    BY <1>4 DEF vars, rowVars, jobVars, StopIsSeen
  <1>5. QED
    BY <1>1, <1>2, <1>3, <1>4 DEF Next

\* A project whose runner lives has a latest row.
LatestKnown == \A j \in Jobs : Live(j) => latest # NoTask

LEMMA LatestKnownStep ==
  ASSUME IInv, LatestKnown, [Next]_vars
  PROVE  LatestKnown'
  <1> USE DEF SaveRow, SaveTask, IInv, TypeOK, LatestKnown
  <1>1. ASSUME NEW t \in Tasks, latest' = t PROVE LatestKnown'
    BY <1>1, TasksAssumption
  <1>2. ASSUME latest' = latest, \A j \in Jobs : Live(j)' => Live(j) PROVE LatestKnown'
    BY <1>2
  <1>3. ASSUME NEW t \in Tasks, Handler(t) PROVE LatestKnown'
    <2>1. CASE LeaseExpire(t)
      BY <1>2, <2>1 DEF LeaseExpire, Live, jobVars
    <2>2. QED
      BY <1>1, <1>3, <2>1 DEF Handler, Start, Refine, Incubate, WritePlannedCommit, CreateAndLaunch,
         PollOrphan, PollDebts, Pause, Resume
  <1>4. ASSUME NEW j \in Jobs, Runner(j) PROVE LatestKnown'
    <2>1. target[j] \in Tasks /\ latest' = target[j] => LatestKnown'
      BY <1>1
    <2>2. CASE BeginVoid(j) \/ RepairTimeout(j) \/ Drained(j) \/ Settle(j) \/ Heartbeat(j)
      <3>1. latest' = latest
        BY <2>2 DEF BeginVoid, RepairTimeout, Drained, Settle, Heartbeat, rowVars
      <3>2. \A i \in Jobs : i # j => pc'[i] = pc[i]
        BY <2>2 DEF BeginVoid, RepairTimeout, Drained, Settle, Heartbeat, EndJob, Goto, jobVars
      <3>3. pc[j] # "done"
        BY <2>2 DEF BeginVoid, RepairTimeout, Working, Drained, Settle, Heartbeat
      <3> QED BY <1>2, <3>1, <3>2, <3>3 DEF Live
    <2>3. CASE Cancelled(j)
      BY <1>2, <2>1, <2>3 DEF Cancelled, Goto, Live, Registered
    <2>4. QED
      BY <1>4, <2>1, <2>2, <2>3 DEF Runner, Begin, Checkpoint, Reload, Stop, Fail, Working, Registered, Live
  <1>5. CASE Host
    <2>1. CASE Crash \/ Shutdown
      BY <2>1 DEF Crash, Shutdown, JobsGone, Live
    <2>2. CASE RestoreBackup
      BY <2>2, TasksAssumption DEF RestoreBackup, RunnerLive, Registered, jobVars, Live
    <2>3. QED
      BY <1>2, <1>5, <2>1, <2>2 DEF Host, WritePlannedBegin, WritePlannedRefused, AuthorSave, Boot,
         TakeBackup, BackupAges, Live, rowVars, jobVars
  <1>6. CASE UNCHANGED vars
    BY <1>2, <1>6 DEF vars, rowVars, jobVars, Live
  <1>7. QED
    BY <1>3, <1>4, <1>5, <1>6 DEF Next

\* While a run may save the project and its own row is the latest one, the
\* guard of the author's save refuses: for any number of tasks of the project.
GateOfOwnRow == \A j \in Jobs : MayWriteProject(j) /\ latest = target[j] => ~SaveGateOpen

THEOREM OwnRowClosesGate == ~RepairTimeouts => (Spec => []GateOfOwnRow)
  <1> SUFFICES ASSUME ~RepairTimeouts PROVE Spec => []GateOfOwnRow
    OBVIOUS
  <1>1. Init => PauseReachesJob
    BY DEF Init, PauseReachesJob
  <1>2. IInv /\ PauseReachesJob /\ [Next]_vars => PauseReachesJob'
    BY PauseReachesStep
  <1>3. IInv /\ PauseReachesJob => GateOfOwnRow
    BY TasksAssumption DEF IInv, TypeOK, Registered, Live, PauseReachesJob, GateOfOwnRow, MayWriteProject, Working,
       SaveGateOpen, LatestIs
  <1>4. QED
    BY Inductive, <1>1, <1>2, <1>3, PTL DEF Spec

\* With one task of the project its row is the latest one, so the guard is
\* closed whenever a run may write.  A second task beside it (which
\* DirectorTwoRunners shows to arise) may become the latest row.
THEOREM GateCloses ==
  (~RepairTimeouts /\ \A t, u \in Tasks : t = u) => (Spec => []GateClosedWhileWriting)
  <1> SUFFICES ASSUME ~RepairTimeouts, \A t, u \in Tasks : t = u PROVE Spec => []GateClosedWhileWriting
    OBVIOUS
  <1>1. Init => LatestKnown
    BY DEF Init, LatestKnown, Live
  <1>2. IInv /\ LatestKnown /\ [Next]_vars => LatestKnown'
    BY LatestKnownStep
  <1>3. IInv /\ LatestKnown /\ GateOfOwnRow => GateClosedWhileWriting
    BY DEF IInv, TypeOK, Registered, Live, LatestKnown, GateOfOwnRow, GateClosedWhileWriting, MayWriteProject, Working
  <1>4. QED
    BY Inductive, OwnRowClosesGate, <1>1, <1>2, <1>3, PTL DEF Spec

----------------------------------------------------------------------------
(* The director implements TaskLifecycle.                                  *)

\* The phase of a task is a function of what its slot and its row say.
LEMMA PhaseCases ==
  ASSUME NEW t \in Tasks
  PROVE  /\ InTry(t) /\ cancel[slot[t]] => Phase(t) = "stopping"
         /\ InTry(t) /\ ~cancel[slot[t]] => Phase(t) = "working"
         /\ ~InTry(t) => Phase(t) = PhaseAtRest(status[t])
  BY DEF Phase

LEMMA PhaseCasesAfter ==
  ASSUME NEW t \in Tasks
  PROVE  /\ InTry(t)' /\ cancel'[slot'[t]] => Phase(t)' = "stopping"
         /\ InTry(t)' /\ ~cancel'[slot'[t]] => Phase(t)' = "working"
         /\ ~InTry(t)' => Phase(t)' = PhaseAtRest(status'[t])
  BY DEF Phase

LEMMA RestCases ==
  /\ PhaseAtRest("absent") = "none" /\ PhaseAtRest("queued") = "wanted"
  /\ PhaseAtRest("running") = "orphan" /\ PhaseAtRest("paused") = "idle"
  /\ PhaseAtRest("completed") = "finished"
  BY DEF PhaseAtRest

Resting == {"none", "wanted", "idle", "orphan", "finished"}

LEMMA RestType == ASSUME NEW s \in Statuses PROVE PhaseAtRest(s) \in Resting
  BY RestCases DEF Resting

\* What a step may make of the phase of one task.
Moves(t) ==
  \/ Phase(t)' = Phase(t)
  \/ Phase(t) \in {"none", "idle", "orphan"} /\ Phase(t)' = "wanted"
  \/ Phase(t) = "wanted" /\ Phase(t)' = "working"
  \/ Phase(t) = "working" /\ Phase(t)' = "stopping"
  \/ Phase(t) \in {"wanted", "working", "stopping", "orphan"} /\ Phase(t)' = "idle"
  \/ Phase(t) = "working" /\ Phase(t)' = "finished"

\* A task whose slot, row and job are left alone stays in its phase.
LEMMA PhaseKept ==
  ASSUME NEW t \in Tasks, status'[t] = status[t], slot'[t] = slot[t],
         slot[t] # NoJob => pc'[slot[t]] = pc[slot[t]] /\ cancel'[slot[t]] = cancel[slot[t]]
  PROVE  Phase(t)' = Phase(t)
  BY DEF Phase, InTry

LifecycleStep == [Lifecycle!Next]_<<[t \in Tasks |-> Phase(t)], Kept>>

\* A step that moves one task and leaves the kept database alone.
LEMMA OneMoves ==
  ASSUME NEW t \in Tasks, Moves(t), \A u \in Tasks \ {t} : Phase(u)' = Phase(u), UNCHANGED backup
  PROVE  LifecycleStep
  <1> DEFINE ph == [u \in Tasks |-> Phase(u)]
  <1>1. Kept' = Kept
    BY DEF Kept
  <1>2. ASSUME NEW p, Phase(t)' = p PROVE ph' = [ph EXCEPT ![t] = p]
    BY <1>2
  <1>3. ph[t] = Phase(t)
    OBVIOUS
  <1>4. CASE Phase(t)' = Phase(t)
    <2>1. ph' = ph
      BY <1>4
    <2> QED BY <1>1, <2>1 DEF LifecycleStep
  <1> HIDE DEF ph
  <1> USE DEF Lifecycle!Next, Lifecycle!Move
  <1>5. CASE Phase(t) \in {"none", "idle", "orphan"} /\ Phase(t)' = "wanted"
    <2>1. Lifecycle!Ask(t)
      BY <1>1, <1>2, <1>3, <1>5 DEF Lifecycle!Ask, ph
    <2> QED BY <2>1 DEF LifecycleStep
  <1>6. CASE Phase(t) = "wanted" /\ Phase(t)' = "working"
    <2>1. Lifecycle!Work(t)
      BY <1>1, <1>2, <1>3, <1>6 DEF Lifecycle!Work, ph
    <2> QED BY <2>1 DEF LifecycleStep
  <1>7. CASE Phase(t) = "working" /\ Phase(t)' = "stopping"
    <2>1. Lifecycle!AskToStop(t)
      BY <1>1, <1>2, <1>3, <1>7 DEF Lifecycle!AskToStop, ph
    <2> QED BY <2>1 DEF LifecycleStep
  <1>8. CASE Phase(t) \in {"wanted", "working", "stopping", "orphan"} /\ Phase(t)' = "idle"
    <2>1. Lifecycle!Pause(t)
      BY <1>1, <1>2, <1>3, <1>8 DEF Lifecycle!Pause, ph
    <2> QED BY <2>1 DEF LifecycleStep
  <1>9. CASE Phase(t) = "working" /\ Phase(t)' = "finished"
    <2>1. Lifecycle!Finish(t)
      BY <1>1, <1>2, <1>3, <1>9 DEF Lifecycle!Finish, ph
    <2> QED BY <2>1 DEF LifecycleStep
  <1> QED BY <1>4, <1>5, <1>6, <1>7, <1>8, <1>9 DEF Moves

\* Everything a step of the run or of a handler relies on.
StepInv == IInv /\ PauseReachesJob /\ OneSlotEach /\ StopIsSeen

\* A live job is the one of its task and of no other.
LEMMA SlotOfJob ==
  ASSUME StepInv, NEW j \in Jobs, pc[j] # "done"
  PROVE  /\ target[j] \in Tasks /\ slot[target[j]] = j /\ j # NoJob
         /\ \A u \in Tasks : u # target[j] => slot[u] # j
         /\ status[target[j]] \in Statuses
  BY TasksAssumption DEF StepInv, IInv, TypeOK, Registered, Live, OneSlotEach

\* A step that is about one job moves its task at most.
LEMMA OneJobMoves ==
  ASSUME StepInv, NEW j \in Jobs, pc[j] # "done", NEW t \in Tasks, t = target[j], Moves(t), UNCHANGED backup,
         \A u \in Tasks \ {t} : status'[u] = status[u] /\ slot'[u] = slot[u],
         \A i \in Jobs \ {j} : pc'[i] = pc[i] /\ cancel'[i] = cancel[i]
  PROVE  LifecycleStep
  <1>1. ASSUME NEW u \in Tasks \ {t} PROVE Phase(u)' = Phase(u)
    <2>1. slot[u] # j /\ slot[u] \in Jobs \cup {NoJob}
      BY <1>1, SlotOfJob DEF StepInv, IInv, TypeOK
    <2>2. slot[u] # NoJob => pc'[slot[u]] = pc[slot[u]] /\ cancel'[slot[u]] = cancel[slot[u]]
      BY <2>1
    <2> QED BY <1>1, <2>2, PhaseKept
  <1> QED BY <1>1, OneMoves

\* A step in which no row changes its status and no job its place.
LEMMA NothingMoves ==
  ASSUME UNCHANGED <<slot, pc, cancel, backup>>, \A t \in Tasks : status'[t] = status[t]
  PROVE  LifecycleStep
  <1>1. \A t \in Tasks : Phase(t)' = Phase(t)
    BY PhaseKept
  <1>2. [t \in Tasks |-> Phase(t)]' = [t \in Tasks |-> Phase(t)]
    BY <1>1
  <1>3. Kept' = Kept
    BY DEF Kept
  <1> QED BY <1>2, <1>3 DEF LifecycleStep

\* Creating or resuming a task asks for it; a live job of it goes on.
LEMMA LaunchMoves ==
  ASSUME StepInv, NEW t \in Tasks, Launch(t), status' = [status EXCEPT ![t] = "queued"],
         status[t] # "completed", UNCHANGED backup
  PROVE  LifecycleStep
  <1> USE DEF StepInv, IInv, TypeOK
  <1>1. \A u \in Tasks : u # t => status'[u] = status[u]
    OBVIOUS
  <1>2. status'[t] = "queued" /\ status[t] \in {"absent", "queued", "running", "paused"}
    OBVIOUS
  <1>3. ~InTry(t) /\ ~InTry(t)' => Moves(t)
    BY <1>2, PhaseCases, PhaseCasesAfter, RestCases DEF Moves
  <1>4. CASE UNCHANGED jobVars
    <2>1. \A u \in Tasks \ {t} : Phase(u)' = Phase(u)
      BY <1>1, <1>4, PhaseKept DEF jobVars
    <2>2. CASE InTry(t)
      <3>1. InTry(t)' /\ slot'[t] = slot[t] /\ cancel' = cancel
        BY <1>4, <2>2 DEF InTry, jobVars
      <3>2. ASSUME cancel[slot[t]] PROVE Moves(t)
        <4>1. cancel'[slot'[t]]
          BY <3>1, <3>2
        <4>2. Phase(t)' = "stopping" /\ Phase(t) = "stopping"
          BY <2>2, <3>1, <3>2, <4>1, PhaseCases, PhaseCasesAfter
        <4> QED BY <4>2 DEF Moves
      <3>3. ASSUME ~cancel[slot[t]] PROVE Moves(t)
        <4>1. ~cancel'[slot'[t]]
          BY <3>1, <3>3
        <4>2. Phase(t)' = "working" /\ Phase(t) = "working"
          BY <2>2, <3>1, <3>3, <4>1, PhaseCases, PhaseCasesAfter
        <4> QED BY <4>2 DEF Moves
      <3> QED BY <2>1, <3>2, <3>3, OneMoves
    <2>3. CASE ~InTry(t)
      <3>1. ~InTry(t)'
        BY <1>4, <2>3 DEF InTry, jobVars
      <3> QED BY <1>3, <2>1, <2>3, <3>1, OneMoves
    <2> QED BY <2>2, <2>3
  <1>5. CASE ~RunnerLive(t)
    <2>1. CASE UNCHANGED jobVars
      BY <1>4, <2>1
    <2>2. PICK j \in Jobs :
            /\ ~Live(j) /\ \A u \in Tasks \ {t} : slot[u] # j
            /\ slot' = [slot EXCEPT ![t] = j]
            /\ pc' = [pc EXCEPT ![j] = "scheduled"]
            /\ target' = [target EXCEPT ![j] = t]
            /\ held' = [held EXCEPT ![j] = "queued"]
            /\ cancel' = [cancel EXCEPT ![j] = FALSE]
      BY <1>5 DEF Launch
    <2>3. ~InTry(t)
      BY <1>5 DEF InTry, RunnerLive, Live
    <2>4. ~InTry(t)'
      BY <2>2 DEF InTry
    <2>5. ASSUME NEW u \in Tasks \ {t} PROVE Phase(u)' = Phase(u)
      <3>1. slot'[u] = slot[u] /\ slot[u] # j /\ slot[u] \in Jobs \cup {NoJob}
        BY <2>2, <2>5
      <3>2. slot[u] # NoJob => pc'[slot[u]] = pc[slot[u]] /\ cancel'[slot[u]] = cancel[slot[u]]
        BY <2>2, <3>1
      <3> QED BY <1>1, <2>5, <3>1, <3>2, PhaseKept
    <2> QED BY <1>3, <2>3, <2>4, <2>5, OneMoves
  <1> QED BY <1>4, <1>5 DEF Launch

LEMMA HandlerMoves ==
  ASSUME StepInv, NEW t \in Tasks, Handler(t)
  PROVE  LifecycleStep
  <1> USE DEF StepInv, IInv, TypeOK, SaveRow, SaveTask
  <1>1. CASE Start(t) \/ Refine(t) \/ Incubate(t) \/ WritePlannedCommit(t)
    <2>1. Launch(t) /\ status' = [status EXCEPT ![t] = "queued"] /\ status[t] = "absent" /\ backup' = backup
      BY <1>1 DEF Start, Refine, Incubate, WritePlannedCommit, CreateAndLaunch, hostVars
    <2> QED BY <2>1, LaunchMoves
  <1>2. CASE Resume(t)
    <2>1. Launch(t) /\ status' = [status EXCEPT ![t] = "queued"] /\ status[t] # "completed" /\ backup' = backup
      BY <1>2 DEF Resume, hostVars
    <2> QED BY <2>1, LaunchMoves
  <1>3. CASE PollOrphan(t)
    <2>1. ~InTry(t) /\ status[t] \in Active /\ status' = [status EXCEPT ![t] = "paused"]
          /\ UNCHANGED <<slot, pc, cancel, backup>>
      BY <1>3 DEF PollOrphan, Orphaned, RunnerLive, Live, InTry, jobVars, hostVars
    <2>2. ~InTry(t)'
      BY <2>1 DEF InTry
    <2>3. status'[t] = "paused" /\ \A u \in Tasks \ {t} : status'[u] = status[u]
      BY <2>1
    <2>4. Moves(t)
      BY <2>1, <2>2, <2>3, PhaseCases, PhaseCasesAfter, RestCases DEF Moves
    <2>5. \A u \in Tasks \ {t} : Phase(u)' = Phase(u)
      BY <2>1, <2>3, PhaseKept
    <2> QED BY <2>1, <2>4, <2>5, OneMoves
  <1>4. CASE PollDebts(t) \/ LeaseExpire(t)
    <2>1. UNCHANGED <<slot, pc, cancel, backup>> /\ \A u \in Tasks : status'[u] = status[u]
      BY <1>4 DEF PollDebts, LeaseExpire, jobVars, hostVars
    <2> QED BY <2>1, NothingMoves
  <1>5. CASE Pause(t)
    <2>1. /\ status[t] \in Active \cup {"paused"} /\ status'[t] = "paused"
          /\ UNCHANGED <<slot, pc, backup>> /\ \A u \in Tasks \ {t} : status'[u] = status[u]
      BY <1>5 DEF Pause, hostVars
    <2>2. ASSUME NEW u \in Tasks \ {t} PROVE Phase(u)' = Phase(u)
      <3>1. slot[t] = NoJob \/ slot[u] # slot[t]
        BY <2>2 DEF OneSlotEach
      <3>2. slot[u] # NoJob => cancel'[slot[u]] = cancel[slot[u]]
        BY <1>5, <2>2, <3>1 DEF Pause, RunnerLive
      <3> QED BY <2>1, <2>2, <3>2, PhaseKept
    <2>3. CASE ~InTry(t)
      <3>1. ~InTry(t)'
        BY <2>1, <2>3 DEF InTry
      <3>2. Moves(t)
        BY <2>1, <2>3, <3>1, PhaseCases, PhaseCasesAfter, RestCases DEF Moves
      <3> QED BY <2>1, <2>2, <3>2, OneMoves
    <2>4. CASE InTry(t)
      <3>1. InTry(t)' /\ slot'[t] = slot[t] /\ RunnerLive(t) /\ slot[t] \in Jobs
        BY <2>1, <2>4, TasksAssumption DEF InTry, RunnerLive, Live
      <3>2. cancel'[slot'[t]]
        BY <1>5, <3>1 DEF Pause
      <3>3. Phase(t)' = "stopping"
        BY <3>1, <3>2, PhaseCasesAfter
      <3>4. Phase(t) \in {"working", "stopping"}
        BY <2>4, PhaseCases
      <3>5. Moves(t)
        BY <3>3, <3>4 DEF Moves
      <3> QED BY <2>1, <2>2, <3>5, OneMoves
    <2> QED BY <2>3, <2>4
  <1> QED BY <1>1, <1>2, <1>3, <1>4, <1>5 DEF Handler

LEMMA RunnerMoves ==
  ASSUME ~RepairTimeouts, StepInv, NEW j \in Jobs, Runner(j)
  PROVE  LifecycleStep
  <1> USE DEF StepInv, IInv, TypeOK, SaveRow, SaveTask
  <1>1. pc[j] # "done"
    BY DEF Runner, BeginVoid, Begin, Checkpoint, Reload, Cancelled, Stop, Fail, RepairTimeout, Drained, Settle,
       Heartbeat, Working
  <1> SUFFICES ASSUME NEW t \in Tasks, t = target[j] PROVE LifecycleStep
    BY <1>1, SlotOfJob
  <1>2. slot[t] = j /\ j # NoJob /\ status[t] \in Statuses
    BY <1>1, SlotOfJob
  <1>3. InTry(t) <=> pc[j] \in {"running", "draining"}
    BY <1>2 DEF InTry
  <1>4. slot'[t] = j => (InTry(t)' <=> pc'[j] \in {"running", "draining"})
    BY <1>2 DEF InTry
  <1>5. CASE BeginVoid(j)
    <2>1. /\ pc[j] = "scheduled" /\ pc'[j] = "done" /\ status' = status /\ slot' = slot /\ backup' = backup
          /\ \A i \in Jobs \ {j} : pc'[i] = pc[i] /\ cancel'[i] = cancel[i]
      BY <1>5 DEF BeginVoid, EndJob, rowVars, hostVars
    <2>2. Moves(t)
      BY <1>2, <1>3, <1>4, <2>1, PhaseCases, PhaseCasesAfter DEF Moves
    <2> QED BY <1>1, <2>1, <2>2, OneJobMoves
  <1>6. CASE Begin(j)
    <2>1. /\ pc[j] = "scheduled" /\ ~cancel[j] /\ pc'[j] = "running" /\ slot' = slot /\ backup' = backup
          /\ cancel' = cancel /\ \A i \in Jobs \ {j} : pc'[i] = pc[i]
          /\ \A u \in Tasks \ {t} : status'[u] = status[u]
      BY <1>6 DEF Begin, Goto, hostVars
    <2>2. status[t] = "queued"
      BY <2>1 DEF StopIsSeen
    <2>3. Phase(t) = "wanted"
      BY <1>2, <1>3, <2>1, <2>2, PhaseCases, RestCases
    <2>4. Phase(t)' = "working"
      BY <1>2, <1>4, <2>1, PhaseCasesAfter
    <2>5. Moves(t)
      BY <2>3, <2>4 DEF Moves
    <2> QED BY <1>1, <2>1, <2>5, OneJobMoves
  <1>7. CASE Checkpoint(j) \/ Reload(j) \/ Heartbeat(j)
    <2>1. /\ pc[j] \in {"running", "draining"} /\ UNCHANGED <<slot, pc, cancel, backup>>
          /\ \A u \in Tasks \ {t} : status'[u] = status[u]
      BY <1>7 DEF Checkpoint, Reload, Heartbeat, Working, jobVars, hostVars
    <2>2. InTry(t) /\ InTry(t)' /\ slot'[t] = slot[t] /\ cancel' = cancel
      BY <1>2, <1>3, <1>4, <2>1
    <2>3. \A u \in Tasks : Phase(u)' = Phase(u)
      <3> SUFFICES ASSUME NEW u \in Tasks, u = t PROVE Phase(u)' = Phase(u)
        BY <2>1, PhaseKept
      <3>1. CASE cancel[slot[t]]
        <4>1. cancel'[slot'[t]]
          BY <2>2, <3>1
        <4> QED BY <2>2, <3>1, <4>1, PhaseCases, PhaseCasesAfter
      <3>2. CASE ~cancel[slot[t]]
        <4>1. ~cancel'[slot'[t]]
          BY <2>2, <3>2
        <4> QED BY <2>2, <3>2, <4>1, PhaseCases, PhaseCasesAfter
      <3> QED BY <3>1, <3>2
    <2>4. Moves(t)
      BY <2>3 DEF Moves
    <2> QED BY <2>1, <2>3, <2>4, OneMoves
  <1>8. CASE Cancelled(j)
    <2>1. /\ pc[j] = "running" /\ pc'[j] = "unwinding" /\ slot' = slot /\ backup' = backup
          /\ \A i \in Jobs \ {j} : pc'[i] = pc[i] /\ cancel'[i] = cancel[i]
          /\ \A u \in Tasks \ {t} : status'[u] = status[u]
      BY <1>8 DEF Cancelled, Goto, hostVars
    <2>2. status[t] # "completed"
      BY <2>1 DEF RowUnderWork
    <2>3. status'[t] = "paused"
      BY <1>2, <1>8, <2>2 DEF Cancelled
    <2>4. Phase(t) \in {"working", "stopping"}
      BY <1>2, <1>3, <2>1, PhaseCases
    <2>5. Phase(t)' = "idle"
      BY <1>2, <1>4, <2>1, <2>3, PhaseCasesAfter, RestCases
    <2>6. Moves(t)
      BY <2>4, <2>5 DEF Moves
    <2> QED BY <1>1, <2>1, <2>6, OneJobMoves
  <1>9. ASSUME NEW s \in {"paused", "completed"}, Working(j), status' = [status EXCEPT ![t] = s],
               pc' = [pc EXCEPT ![j] = "unwinding"], UNCHANGED <<slot, cancel, backup>>
        PROVE  LifecycleStep
    <2>1. /\ pc[j] = "running" /\ ~cancel[j] /\ pc'[j] = "unwinding" /\ status'[t] = s
          /\ \A i \in Jobs \ {j} : pc'[i] = pc[i]
          /\ \A u \in Tasks \ {t} : status'[u] = status[u]
      BY <1>2, <1>9 DEF Working
    <2>2. Phase(t) = "working"
      BY <1>2, <1>3, <2>1, PhaseCases
    <2>3. Phase(t)' \in {"idle", "finished"}
      BY <1>2, <1>4, <1>9, <2>1, PhaseCasesAfter, RestCases
    <2>4. Moves(t)
      BY <2>2, <2>3 DEF Moves
    <2> QED BY <1>1, <1>9, <2>1, <2>4, OneJobMoves
  <1>10. CASE \E s \in {"paused", "completed"} : Stop(j, s)
    BY <1>9, <1>10 DEF Stop, Goto, hostVars
  <1>11. CASE \E filtered \in BOOLEAN : Fail(j, filtered)
    BY <1>9, <1>11 DEF Fail, Goto, hostVars
  <1>12. CASE RepairTimeout(j) \/ Drained(j)
    BY <1>12 DEF RepairTimeout, Drained, PauseReachesJob
  <1>13. CASE Settle(j)
    <2>1. /\ pc[j] = "unwinding" /\ pc'[j] = "done" /\ status' = status /\ backup' = backup
          /\ slot'[t] = NoJob /\ \A u \in Tasks \ {t} : slot'[u] = slot[u]
          /\ \A i \in Jobs \ {j} : pc'[i] = pc[i] /\ cancel'[i] = cancel[i]
      BY <1>2, <1>13 DEF Settle, EndJob, hostVars
    <2>2. ~InTry(t) /\ ~InTry(t)'
      BY <1>2, <1>3, <2>1 DEF InTry
    <2>3. Moves(t)
      BY <1>2, <2>1, <2>2, PhaseCases, PhaseCasesAfter DEF Moves
    <2> QED BY <1>1, <2>1, <2>3, OneJobMoves
  <1> QED BY <1>5, <1>6, <1>7, <1>8, <1>10, <1>11, <1>12, <1>13 DEF Runner

\* The rows as they are can be kept, and what is kept is not NoBackup.
LEMMA BackupIsRecord ==
  ASSUME StepInv
  PROVE  /\ TakeBackup => backup' # NoBackup /\ backup'.status = status
         /\ BackupAges => backup' # NoBackup /\ backup'.status = backup.status
         /\ backup # NoBackup => backup.status \in [Tasks -> Statuses] /\ Kept # NoBackup
  <1> USE DEF StepInv, IInv, TypeOK
  <1>1. ASSUME TakeBackup PROVE backup' # NoBackup /\ backup'.status = status
    <2>1. backup' \in Rows /\ backup'.status = status
      BY <1>1 DEF TakeBackup, Rows
    <2> QED BY <2>1, NoBackupAssumption
  <1>2. ASSUME BackupAges PROVE backup' # NoBackup /\ backup'.status = backup.status
    <2>1. backup \in Rows
      BY <1>2 DEF BackupAges
    <2>2. [t \in Tasks |-> FALSE] \in [Tasks -> BOOLEAN]
      OBVIOUS
    <2>3. backup' = [backup EXCEPT !.live = [t \in Tasks |-> FALSE]]
      BY <1>2 DEF BackupAges
    <2>4. backup' \in Rows /\ backup'.status = backup.status
      BY <2>1, <2>2, <2>3 DEF Rows
    <2> QED BY <2>4, NoBackupAssumption
  <1>3. ASSUME backup # NoBackup PROVE backup.status \in [Tasks -> Statuses] /\ Kept # NoBackup
    <2>1. backup.status \in [Tasks -> Statuses]
      BY <1>3 DEF Rows
    <2>2. Kept = [t \in Tasks |-> PhaseAtRest(backup.status[t])]
      BY <1>3 DEF Kept
    <2>3. Resting = Lifecycle!Resting
      BY DEF Resting, Lifecycle!Resting
    <2>4. Kept \in [Tasks -> Lifecycle!Resting]
      BY <2>1, <2>2, <2>3, RestType
    <2> QED BY <2>1, <2>4, NoBackupAssumption
  <1> QED BY <1>1, <1>2, <1>3

LEMMA HostMoves ==
  ASSUME StepInv, Host, ~RepairTimeouts
  PROVE  LifecycleStep
  <1> DEFINE ph == [t \in Tasks |-> Phase(t)]
  <1> USE DEF StepInv, IInv, TypeOK
  <1>1. CASE WritePlannedBegin \/ WritePlannedRefused \/ AuthorSave \/ Boot
    <2>1. UNCHANGED <<slot, pc, cancel, backup>> /\ \A u \in Tasks : status'[u] = status[u]
      BY <1>1 DEF WritePlannedBegin, WritePlannedRefused, AuthorSave, Boot, rowVars, jobVars, hostVars
    <2> QED BY <2>1, NothingMoves
  <1>2. \A s \in {"absent", "queued", "running", "paused", "completed"} :
          PhaseAtRest(s) \in Lifecycle!AfterHalt(PhaseAtRest(s)) /\ PhaseAtRest(s) \in Lifecycle!Resting
    BY RestCases DEF Lifecycle!AfterHalt, Lifecycle!Resting
  <1>3. /\ Lifecycle!AfterHalt("working") = {"idle", "wanted", "orphan"}
        /\ Lifecycle!AfterHalt("stopping") = {"idle", "wanted"}
    BY DEF Lifecycle!AfterHalt
  \* what is left of a task when its row is put to rest, as it is or paused
  <1>4. ASSUME NEW t \in Tasks, NEW s, s = status[t] \/ (s = "paused" /\ InTry(t))
        PROVE  PhaseAtRest(s) \in Lifecycle!AfterHalt(Phase(t)) /\ PhaseAtRest(s) \in Lifecycle!Resting
    <2>1. CASE ~InTry(t)
      BY <1>2, <1>4, <2>1, PhaseCases
    <2>2. CASE InTry(t)
      <3>1. slot[t] \in Jobs /\ pc[slot[t]] = "running" /\ target[slot[t]] = t
        BY <2>2, TasksAssumption DEF InTry, PauseReachesJob, Registered, Live, OneSlotEach
      <3>2. CASE cancel[slot[t]]
        <4>1. Phase(t) = "stopping" /\ s \in {"queued", "paused"}
          BY <1>4, <2>2, <3>1, <3>2, PhaseCases DEF StopIsSeen
        <4> QED BY <1>3, <4>1, RestCases DEF Lifecycle!Resting
      <3>3. CASE ~cancel[slot[t]]
        <4>1. Phase(t) = "working" /\ s \in {"queued", "running", "paused"}
          BY <1>4, <2>2, <3>1, <3>3, PhaseCases DEF PauseReachesJob
        <4> QED BY <1>3, <4>1, RestCases DEF Lifecycle!Resting
      <3> QED BY <3>2, <3>3
    <2> QED BY <2>1, <2>2
  <1>5. CASE Crash \/ Shutdown
    <2>1. backup' = backup /\ \A t \in Tasks : ~InTry(t)'
      BY <1>5 DEF Crash, Shutdown, JobsGone, InTry
    <2>2. ASSUME NEW t \in Tasks PROVE status'[t] = status[t] \/ (status'[t] = "paused" /\ InTry(t))
      <3>1. CASE Crash
        BY <3>1 DEF Crash, rowVars
      <3>2. CASE Shutdown
        <4>1. \/ status'[t] = status[t]
              \/ status'[t] = "paused" /\ \E j \in Jobs : pc[j] = "running" /\ target[j] = t
          BY <3>2 DEF Shutdown
        <4>2. (\E j \in Jobs : pc[j] = "running" /\ target[j] = t) => InTry(t)
          BY TasksAssumption DEF InTry, Registered, Live
        <4> QED BY <4>1, <4>2
      <3> QED BY <1>5, <3>1, <3>2
    <2>3. \A t \in Tasks : Phase(t)' = PhaseAtRest(status'[t])
      BY <2>1, PhaseCasesAfter
    <2>4. \A t \in Tasks : Phase(t)' \in Lifecycle!AfterHalt(Phase(t)) /\ Phase(t)' \in Lifecycle!Resting
      BY <1>4, <2>2, <2>3
    <2>5. ph' \in [Tasks -> Lifecycle!Resting] /\ \A t \in Tasks : ph'[t] \in Lifecycle!AfterHalt(ph[t])
      BY <2>4
    <2>6. Lifecycle!Halt
      BY <2>1, <2>5 DEF Lifecycle!Halt, Lifecycle!AtRest, Kept
    <2> QED BY <2>6 DEF LifecycleStep, Lifecycle!Next
  <1>6. CASE TakeBackup
    <2>1. UNCHANGED <<status, slot, pc, cancel>> /\ backup = NoBackup /\ backup' # NoBackup
          /\ backup'.status = status
      BY <1>6, BackupIsRecord DEF TakeBackup, rowVars, jobVars
    <2>2. ph' = ph
      BY <2>1, PhaseKept
    <2>3. Kept = NoBackup /\ Kept' = [t \in Tasks |-> PhaseAtRest(status[t])]
      BY <2>1 DEF Kept
    <2>4. \A t \in Tasks : PhaseAtRest(status[t]) \in Lifecycle!AfterHalt(Phase(t)) /\ PhaseAtRest(status[t]) \in Lifecycle!Resting
      BY <1>4
    <2>5. Kept' \in [Tasks -> Lifecycle!Resting] /\ \A t \in Tasks : Kept'[t] \in Lifecycle!AfterHalt(ph[t])
      BY <2>3, <2>4
    <2>6. Lifecycle!Keep
      BY <2>2, <2>3, <2>5 DEF Lifecycle!Keep, Lifecycle!AtRest
    <2> QED BY <2>6 DEF LifecycleStep, Lifecycle!Next
  <1>7. CASE BackupAges
    <2>1. UNCHANGED <<status, slot, pc, cancel>> /\ backup # NoBackup /\ backup' # NoBackup
          /\ backup'.status = backup.status
      BY <1>7, BackupIsRecord DEF BackupAges, rowVars, jobVars
    <2>2. ph' = ph
      BY <2>1, PhaseKept
    <2>3. Kept' = Kept
      BY <2>1 DEF Kept
    <2> QED BY <2>2, <2>3 DEF LifecycleStep
  <1>8. CASE RestoreBackup
    <2>1. /\ backup # NoBackup /\ status' = backup.status /\ UNCHANGED <<slot, pc, cancel, backup>>
          /\ \A t \in Tasks : ~InTry(t) /\ ~InTry(t)'
      BY <1>8 DEF RestoreBackup, jobVars, hostVars, RunnerLive, Live, InTry
    <2>2. \A t \in Tasks : Phase(t) = PhaseAtRest(status[t]) /\ Phase(t)' = PhaseAtRest(status'[t])
      BY <2>1, PhaseCases, PhaseCasesAfter
    <2>3. Kept' = Kept /\ Kept = [t \in Tasks |-> PhaseAtRest(status'[t])]
      BY <2>1 DEF Kept
    <2>4. ph' = Kept /\ ph \in [Tasks -> Lifecycle!Resting]
      BY <1>2, <2>2, <2>3 DEF Statuses
    <2>5. Lifecycle!Restore
      BY <2>1, <2>3, <2>4, BackupIsRecord DEF Lifecycle!Restore
    <2> QED BY <2>5 DEF LifecycleStep, Lifecycle!Next
  <1> QED BY <1>1, <1>5, <1>6, <1>7, <1>8 DEF Host

\* The director implements TaskLifecycle: seen through the phases of its tasks
\* every step of rows, leases, runners, restarts and restores is one of those
\* promised or none, as long as no memory repair hits its time limit.
THEOREM DirectorImplementsLifecycle == ~RepairTimeouts => (Spec => ImplementsLifecycle)
  <1> SUFFICES ASSUME ~RepairTimeouts PROVE Spec => ImplementsLifecycle
    OBVIOUS
  <1>1. Init => Lifecycle!Init
    <2> SUFFICES ASSUME Init PROVE Lifecycle!Init
      OBVIOUS
    <2>1. \A t \in Tasks : ~InTry(t) /\ status[t] = "absent"
      BY DEF Init, InTry
    <2>2. \A t \in Tasks : Phase(t) = "none"
      BY <2>1, PhaseCases, RestCases
    <2> QED BY <2>2 DEF Init, Lifecycle!Init, Kept
  <1>2. Init => PauseReachesJob /\ OneSlotEach /\ StopIsSeen
    BY DEF Init, PauseReachesJob, OneSlotEach, StopIsSeen
  <1>3. StepInv /\ [Next]_vars => (PauseReachesJob /\ OneSlotEach /\ StopIsSeen)'
    BY PauseReachesStep, OneSlotEachStep, StopIsSeenStep DEF StepInv
  <1>4. StepInv /\ [Next]_vars => LifecycleStep
    <2>1. CASE UNCHANGED vars
      BY <2>1, NothingMoves DEF vars, rowVars, jobVars, hostVars
    <2> QED BY <2>1, HandlerMoves, RunnerMoves, HostMoves DEF Next
  <1>5. QED
    BY Inductive, <1>1, <1>2, <1>3, <1>4, PTL DEF Spec, StepInv, ImplementsLifecycle, Lifecycle!Spec, LifecycleStep
=============================================================================
