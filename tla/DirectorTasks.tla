--------------------------- MODULE DirectorTasks ---------------------------
(***************************************************************************)
(* The automatic director's task rows, their single-runner leases, and the *)
(* asyncio runners that work on them (storage/director_tasks.py,           *)
(* director/state.py, director/runner.py, director/control.py), for one    *)
(* project.  All handlers are coroutines of one event loop, so a handler   *)
(* is atomic up to its next await and every await is a step boundary.      *)
(*                                                                         *)
(* A job is one asyncio.Task running _run_auto_director.  Its pc:          *)
(*   "done"       not live (never created, or finished)                    *)
(*   "scheduled"  created by create_task, body not entered yet             *)
(*   "running"    inside the try block, the lease claimed                  *)
(*   "draining"   in run_while_running's finally, awaiting the inner job   *)
(*                after a timeout: a cancellation is swallowed there       *)
(*   "unwinding"  in the finally block, awaiting the lease heartbeat       *)
(***************************************************************************)
EXTENDS Naturals, FiniteSets

CONSTANTS
  Tasks,            \* task ids of the project
  IncubationTasks,  \* those of task_type "incubation": they never write it
  Jobs,             \* asyncio.Task objects
  NoTask, NoJob, NoBackup,
  MaxBoots,         \* bound: process starts
  MaxPreflights,    \* bound: write-planned requests awaiting the preflight
  RepairTimeouts,   \* does an in-place memory repair ever hit its time limit?
  KeepBackup        \* is a database backup ever taken (and restored)?

ASSUME TasksAssumption ==
  /\ IncubationTasks \subseteq Tasks
  /\ NoTask \notin Tasks /\ NoJob \notin Jobs
ASSUME BoundsAssumption == MaxBoots \in Nat \ {0} /\ MaxPreflights \in Nat
ASSUME SwitchAssumption == RepairTimeouts \in BOOLEAN /\ KeepBackup \in BOOLEAN

VARIABLES
  status,     \* director_tasks.status; "absent" while the row does not exist
  latest,     \* the row with the greatest updated_at: latest_director_task
  owner,      \* owner_instance_id, 0 for ''
  live,       \* lease_expires_at is in the future
  blocked,    \* content_filtered, and the project unchanged since
  debts,      \* quality_debts: "none", "fresh", or "stale" (the project was
              \* saved since, so a poll may find them settled or rescored)
  up,         \* the process holds the application lock and serves
  instance,   \* runtime_instance_id of the current (or last) process
  slot,       \* director_runners: the job registered for a task
  pc, target, \* each job's place and task
  held,       \* the status in the job's in-memory copy of the row
  cancel,     \* Task.cancel() was called and not delivered yet
  preflights, \* write-planned requests suspended in run_preflight
  backup      \* a database backup file: the rows as they were

rowVars == <<status, latest, owner, live, blocked, debts>>
projectVars == <<blocked, debts>>
jobVars == <<slot, pc, target, held, cancel>>
hostVars == <<up, instance, preflights, backup>>
vars == <<rowVars, jobVars, hostVars>>

Active == {"queued", "running"}
Statuses == Active \cup {"absent", "paused", "completed"}
Debts == {"none", "fresh", "stale"}
Places == {"done", "scheduled", "running", "draining", "unwinding"}

Live(j) == pc[j] # "done"                       \* not runner.done()
Claimed(j) == pc[j] \in {"running", "draining", "unwinding"}
RunnerLive(t) == slot[t] # NoJob /\ Live(slot[t])
LeaseActive(t) == owner[t] # 0 /\ live[t]
LatestIs(S) == latest # NoTask /\ status[latest] \in S

----------------------------------------------------------------------------
(* Row writes.  Every save makes its row the latest one.                   *)

\* ProjectStore.save_director_task
SaveRow(t, s) ==
  /\ status' = [status EXCEPT ![t] = s]
  /\ latest' = t

\* _save_director_task: also renews this instance's lease of an active row
SaveTask(t, s) ==
  /\ SaveRow(t, s)
  /\ live' = [live EXCEPT ![t] = @ \/ (s \in Active /\ owner[t] = instance)]

\* A new version of the project: a recorded content filter no longer matches
\* it, and the debts held by the rows (but not by the saver's) may be behind.
Aged == [t \in Tasks |-> IF debts[t] = "fresh" THEN "stale" ELSE debts[t]]
ProjectTouched ==
  /\ blocked' = [t \in Tasks |-> FALSE]
  /\ debts' = Aged

\* A run saves its row with the debts it now has, and perhaps the project.
RunSaves(t) ==
  \E d \in {"none", "fresh"} :
    \/ UNCHANGED blocked /\ debts' = [debts EXCEPT ![t] = d]
    \/ /\ blocked' = [u \in Tasks |-> FALSE]
       /\ debts' = [Aged EXCEPT ![t] = d]

\* _reconcile_director_quality_debts on an inactive row
Reconciled(t) ==
  IF debts[t] = "stale"
  THEN \E d \in {"none", "fresh"} : debts' = [debts EXCEPT ![t] = d]
  ELSE UNCHANGED debts

\* Mutant of Launch: the register is not asked whether its job is done.
LaunchAlways(t) ==
  \E j \in Jobs :
    /\ ~Live(j) /\ \A u \in Tasks \ {t} : slot[u] # j
    /\ slot' = [slot EXCEPT ![t] = j]
    /\ pc' = [pc EXCEPT ![j] = "scheduled"]
    /\ target' = [target EXCEPT ![j] = t]
    /\ held' = [held EXCEPT ![j] = "queued"]
    /\ cancel' = [cancel EXCEPT ![j] = FALSE]

\* The registered job, when it is done, is replaced; a live one is kept.
Launch(t) ==
  IF RunnerLive(t)
  THEN UNCHANGED jobVars
  ELSE \E j \in Jobs :
         /\ ~Live(j) /\ \A u \in Tasks \ {t} : slot[u] # j
         /\ slot' = [slot EXCEPT ![t] = j]
         /\ pc' = [pc EXCEPT ![j] = "scheduled"]
         /\ target' = [target EXCEPT ![j] = t]
         /\ held' = [held EXCEPT ![j] = "queued"]
         /\ cancel' = [cancel EXCEPT ![j] = FALSE]

CreateAndLaunch(t) ==
  /\ status[t] = "absent"
  /\ SaveRow(t, "queued")
  /\ Launch(t)
  /\ UNCHANGED <<owner, live>>

----------------------------------------------------------------------------
(* HTTP handlers.                                                          *)

\* director_start: a new project and its first task
Start(t) ==
  /\ up /\ latest = NoTask /\ preflights = 0
  /\ t \notin IncubationTasks
  /\ CreateAndLaunch(t)
  /\ UNCHANGED <<projectVars, hostVars>>

\* director_refine and incubator_start: guard, create and launch, no await
Refine(t) ==
  /\ up /\ ~LatestIs(Active)
  /\ t \notin IncubationTasks
  /\ CreateAndLaunch(t)
  /\ blocked' = [u \in Tasks |-> FALSE]
  /\ debts' = [Aged EXCEPT ![t] = "fresh"]
  /\ UNCHANGED hostVars

Incubate(t) ==
  /\ up /\ ~LatestIs(Active)
  /\ t \in IncubationTasks
  /\ CreateAndLaunch(t)
  /\ UNCHANGED <<projectVars, hostVars>>

\* director_write_planned up to `await run_preflight`
WritePlannedBegin ==
  /\ up /\ ~LatestIs(Active)
  /\ preflights < MaxPreflights
  /\ preflights' = preflights + 1
  /\ UNCHANGED <<rowVars, jobVars, up, instance, backup>>

\* ... the model found no severe conflict: the task check is not repeated
WritePlannedCommit(t) ==
  /\ up /\ preflights > 0
  /\ t \notin IncubationTasks
  /\ CreateAndLaunch(t)
  /\ ProjectTouched
  /\ preflights' = preflights - 1
  /\ UNCHANGED <<up, instance, backup>>

\* ... severe conflicts, or every chapter is written: saved, then refused
WritePlannedRefused ==
  /\ up /\ preflights > 0
  /\ ProjectTouched
  /\ preflights' = preflights - 1
  /\ UNCHANGED <<status, latest, owner, live, jobVars, up, instance, backup>>

\* Mutant of Orphaned: a row with an owner is never an orphan.
OwnedIsNoOrphan(t) == status[t] \in Active /\ ~RunnerLive(t) /\ owner[t] = 0

\* director_task / director_latest: an active row that has neither a runner
\* nor a lease becomes paused; the debts of an inactive row may be rewritten.
Orphaned(t) == status[t] \in Active /\ ~RunnerLive(t) /\ ~LeaseActive(t)

PollOrphan(t) ==
  /\ up /\ Orphaned(t)
  /\ SaveTask(t, "paused")
  /\ Reconciled(t)
  /\ UNCHANGED <<owner, blocked, jobVars, hostVars>>

PollDebts(t) ==
  /\ up /\ status[t] \in {"paused", "completed"} /\ debts[t] = "stale"
  /\ SaveRow(t, status[t])
  /\ Reconciled(t)
  /\ UNCHANGED <<owner, live, blocked, jobVars, hostVars>>

\* Mutants of Pause: it does not refuse a completed task; it does not cancel.
PauseCompleted(t) ==
  /\ up /\ status[t] # "absent"
  /\ SaveTask(t, "paused")
  /\ cancel' = IF RunnerLive(t) THEN [cancel EXCEPT ![slot[t]] = TRUE] ELSE cancel
  /\ UNCHANGED <<owner, projectVars, slot, pc, target, held, hostVars>>

PauseRowOnly(t) ==
  /\ up /\ status[t] \in Active \cup {"paused"}
  /\ SaveTask(t, "paused")
  /\ UNCHANGED <<owner, projectVars, jobVars, hostVars>>

\* director_pause
Pause(t) ==
  /\ up /\ status[t] \in Active \cup {"paused"}
  /\ SaveTask(t, "paused")
  /\ cancel' = IF RunnerLive(t) THEN [cancel EXCEPT ![slot[t]] = TRUE] ELSE cancel
  /\ UNCHANGED <<owner, projectVars, slot, pc, target, held, hostVars>>

\* Mutant of Resume: it does not refuse a completed task.
ResumeCompleted(t) ==
  /\ up /\ status[t] # "absent" /\ ~blocked[t]
  /\ SaveTask(t, "queued")
  /\ Launch(t)
  /\ UNCHANGED <<owner, projectVars, hostVars>>

\* director_resume
Resume(t) ==
  /\ up /\ status[t] \in Active \cup {"paused"}
  /\ ~blocked[t]
  /\ SaveTask(t, "queued")
  /\ Launch(t)
  /\ UNCHANGED <<owner, projectVars, hostVars>>

\* project_save (and the other guarded writers): is the author let through?
SaveGateOpen == ~(LatestIs(Active) /\ latest \notin IncubationTasks)

AuthorSave ==
  /\ up /\ SaveGateOpen
  /\ ProjectTouched
  /\ UNCHANGED <<status, latest, owner, live, jobVars, hostVars>>

----------------------------------------------------------------------------
(* The runner, _run_auto_director.                                         *)

Goto(j, place) == pc' = [pc EXCEPT ![j] = place]

EndJob(j) ==
  /\ pc' = [pc EXCEPT ![j] = "done"]
  /\ target' = [target EXCEPT ![j] = NoTask]
  /\ held' = [held EXCEPT ![j] = "absent"]
  /\ cancel' = [cancel EXCEPT ![j] = FALSE]

Claimable(t) == owner[t] \in {0, instance} \/ ~live[t]

\* The first step of a job: cancelled before it began, or refused the lease,
\* it ends without touching the row and stays registered; else it claims.
BeginVoid(j) ==
  /\ pc[j] = "scheduled"
  /\ cancel[j] \/ ~Claimable(target[j])
  /\ EndJob(j)
  /\ UNCHANGED <<rowVars, slot, hostVars>>

Begin(j) ==
  /\ pc[j] = "scheduled" /\ ~cancel[j] /\ Claimable(target[j])
  /\ SaveRow(target[j], "running")
  /\ owner' = [owner EXCEPT ![target[j]] = instance]
  /\ live' = [live EXCEPT ![target[j]] = TRUE]
  /\ held' = [held EXCEPT ![j] = "running"]
  /\ Goto(j, "running")
  /\ UNCHANGED <<projectVars, slot, target, cancel, hostVars>>

Working(j) == pc[j] = "running" /\ ~cancel[j]

\* A phase saves its in-memory row; the project is often saved with it
Checkpoint(j) ==
  /\ Working(j)
  /\ SaveTask(target[j], held[j])
  /\ RunSaves(target[j])
  /\ UNCHANGED <<owner, jobVars, hostVars>>

\* A prose step re-reads the row, adds its receipt and saves it back
Reload(j) ==
  /\ Working(j)
  /\ SaveRow(target[j], status[target[j]])
  /\ held' = [held EXCEPT ![j] = status[target[j]]]
  /\ UNCHANGED <<owner, live, projectVars, slot, pc, target, cancel, hostVars>>

\* Mutant of Cancelled: the run catches the cancellation and goes on.
CancelSwallowed(j) ==
  /\ pc[j] = "running" /\ cancel[j]
  /\ cancel' = [cancel EXCEPT ![j] = FALSE]
  /\ UNCHANGED <<rowVars, slot, pc, target, held, hostVars>>

\* CancelledError: delivered by Task.cancel(), or raised by a status check
\* that found the row no longer "running".  A completed row is left alone.
Cancelled(j) ==
  /\ pc[j] = "running"
  /\ cancel[j] \/ status[target[j]] # "running"
  /\ IF status[target[j]] = "completed"
     THEN UNCHANGED <<status, latest, live>>
     ELSE SaveTask(target[j], "paused")
  /\ cancel' = [cancel EXCEPT ![j] = FALSE]
  /\ Goto(j, "unwinding")
  /\ UNCHANGED <<owner, projectVars, slot, target, held, hostVars>>

\* A breaker or a gate pauses the run, or its last phase completes it
Stop(j, s) ==
  /\ Working(j)
  /\ SaveTask(target[j], s)
  /\ RunSaves(target[j])
  /\ Goto(j, "unwinding")
  /\ UNCHANGED <<owner, slot, target, held, cancel, hostVars>>

\* Any other exception: paused, remembering whether the model filtered it
Fail(j, filtered) ==
  /\ Working(j)
  /\ SaveTask(target[j], "paused")
  /\ blocked' = [blocked EXCEPT ![target[j]] = filtered]
  /\ Goto(j, "unwinding")
  /\ UNCHANGED <<owner, debts, slot, target, held, cancel, hostVars>>

\* run_while_running gives up on the memory repair and awaits its inner job
RepairTimeout(j) ==
  /\ RepairTimeouts /\ Working(j)
  /\ Goto(j, "draining")
  /\ UNCHANGED <<rowVars, slot, target, held, cancel, hostVars>>

\* `except BaseException: pass` around that await
Drained(j) ==
  /\ pc[j] = "draining"
  /\ Goto(j, "running")
  /\ cancel' = [cancel EXCEPT ![j] = FALSE]
  /\ UNCHANGED <<rowVars, slot, target, held, hostVars>>

\* The finally block after its await: release the lease, pop the runner
Settle(j) ==
  /\ pc[j] = "unwinding"
  /\ LET t == target[j] IN
       /\ owner' = [owner EXCEPT ![t] = IF @ = instance THEN 0 ELSE @]
       /\ live' = [live EXCEPT ![t] = @ /\ owner[t] # instance]
       /\ slot' = [slot EXCEPT ![t] = NoJob]
  /\ EndJob(j)
  /\ UNCHANGED <<status, latest, projectVars, hostVars>>

\* keep_lease_alive
Heartbeat(j) ==
  /\ pc[j] \in {"running", "draining"} /\ owner[target[j]] = instance
  /\ ~live[target[j]]
  /\ live' = [live EXCEPT ![target[j]] = TRUE]
  /\ UNCHANGED <<status, latest, owner, projectVars, jobVars, hostVars>>

----------------------------------------------------------------------------
(* Time, the process and the database file.                                *)

\* Ninety seconds without a renewal (a suspended machine, a dead process)
LeaseExpire(t) ==
  /\ LeaseActive(t)
  /\ live' = [live EXCEPT ![t] = FALSE]
  /\ UNCHANGED <<status, latest, owner, projectVars, jobVars, hostVars>>

JobsGone ==
  /\ slot' = [t \in Tasks |-> NoJob]
  /\ pc' = [j \in Jobs |-> "done"]
  /\ target' = [j \in Jobs |-> NoTask]
  /\ held' = [j \in Jobs |-> "absent"]
  /\ cancel' = [j \in Jobs |-> FALSE]
  /\ up' = FALSE /\ preflights' = 0
  /\ UNCHANGED <<instance, backup>>

Crash ==
  /\ up /\ instance < MaxBoots
  /\ JobsGone
  /\ UNCHANGED rowVars

\* The loop cancels every task on the way out: a run in its try block writes
\* "paused" and releases; one not begun leaves its row queued.
Shutdown ==
  /\ up /\ instance < MaxBoots
  /\ \A j \in Jobs : pc[j] # "draining"
  /\ LET interrupted == {target[j] : j \in {i \in Jobs : pc[i] = "running"}}
                          \ {t \in Tasks : status[t] = "completed"}
         released == {target[j] : j \in {i \in Jobs : Claimed(i)}}
     IN /\ status' = [t \in Tasks |-> IF t \in interrupted THEN "paused" ELSE status[t]]
        /\ latest' \in IF interrupted = {} THEN {latest} ELSE interrupted
        /\ owner' = [t \in Tasks |-> IF t \in released THEN 0 ELSE owner[t]]
        /\ live' = [t \in Tasks |-> live[t] /\ t \notin released]
  /\ JobsGone
  /\ UNCHANGED projectVars

\* application_lifespan: take the lock, clear_director_task_leases
Boot ==
  /\ ~up
  /\ up' = TRUE
  /\ instance' = instance + 1
  /\ owner' = [t \in Tasks |-> 0]
  /\ live' = [t \in Tasks |-> FALSE]
  /\ UNCHANGED <<status, latest, projectVars, jobVars, preflights, backup>>

TakeBackup ==
  /\ KeepBackup /\ up /\ backup = NoBackup
  /\ backup' = [status |-> status, latest |-> latest, owner |-> owner,
                live |-> live, blocked |-> blocked, debts |-> debts]
  /\ UNCHANGED <<rowVars, jobVars, up, instance, preflights>>

\* The deadlines written in the backup pass
BackupAges ==
  /\ backup # NoBackup /\ \E t \in Tasks : backup.live[t]
  /\ backup' = [backup EXCEPT !.live = [t \in Tasks |-> FALSE]]
  /\ UNCHANGED <<rowVars, jobVars, up, instance, preflights>>

\* Mutant of RestoreBackup: the registered runners are not looked at.
RestoreUnderRun ==
  /\ up /\ backup # NoBackup
  /\ status' = backup.status /\ latest' = backup.latest
  /\ owner' = backup.owner /\ live' = backup.live
  /\ blocked' = backup.blocked /\ debts' = backup.debts
  /\ UNCHANGED <<jobVars, hostVars>>

\* database_backup_restore: refused while a registered runner is not done;
\* the leases come back with the rows.
RestoreBackup ==
  /\ up /\ backup # NoBackup
  /\ \A t \in Tasks : ~RunnerLive(t)
  /\ status' = backup.status /\ latest' = backup.latest
  /\ owner' = backup.owner /\ live' = backup.live
  /\ blocked' = backup.blocked /\ debts' = backup.debts
  /\ UNCHANGED <<jobVars, hostVars>>

----------------------------------------------------------------------------
Init ==
  /\ status = [t \in Tasks |-> "absent"] /\ latest = NoTask
  /\ owner = [t \in Tasks |-> 0] /\ live = [t \in Tasks |-> FALSE]
  /\ blocked = [t \in Tasks |-> FALSE] /\ debts = [t \in Tasks |-> "none"]
  /\ up = TRUE /\ instance = 1
  /\ slot = [t \in Tasks |-> NoJob]
  /\ pc = [j \in Jobs |-> "done"] /\ target = [j \in Jobs |-> NoTask]
  /\ held = [j \in Jobs |-> "absent"] /\ cancel = [j \in Jobs |-> FALSE]
  /\ preflights = 0 /\ backup = NoBackup

Handler(t) ==
  \/ Start(t) \/ Refine(t) \/ Incubate(t) \/ WritePlannedCommit(t)
  \/ PollOrphan(t) \/ PollDebts(t) \/ Pause(t) \/ Resume(t)
  \/ LeaseExpire(t)

Runner(j) ==
  \/ BeginVoid(j) \/ Begin(j) \/ Checkpoint(j) \/ Reload(j) \/ Cancelled(j)
  \/ \E s \in {"paused", "completed"} : Stop(j, s)
  \/ \E filtered \in BOOLEAN : Fail(j, filtered)
  \/ RepairTimeout(j) \/ Drained(j) \/ Settle(j) \/ Heartbeat(j)

Host ==
  \/ WritePlannedBegin \/ WritePlannedRefused \/ AuthorSave
  \/ Crash \/ Shutdown \/ Boot \/ TakeBackup \/ BackupAges \/ RestoreBackup

Next ==
  \/ \E t \in Tasks : Handler(t)
  \/ \E j \in Jobs : Runner(j)
  \/ Host

Spec == Init /\ [][Next]_vars

\* The event loop runs every ready job; the browser polls an active task; a
\* lease nobody renews runs out; the author starts the program again.
Fairness ==
  /\ \A j \in Jobs :
       WF_vars(BeginVoid(j) \/ Begin(j) \/ Cancelled(j) \/ Drained(j) \/ Settle(j))
  /\ \A t \in Tasks :
       /\ WF_vars(PollOrphan(t))
       /\ WF_vars(~RunnerLive(t) /\ LeaseExpire(t))
  /\ WF_vars(Boot) /\ WF_vars(BackupAges)

FairSpec == Spec /\ Fairness

----------------------------------------------------------------------------
(* Properties.                                                             *)

\* The types of the rows, the runtime and the host.
Rows == [status: [Tasks -> Statuses], latest: Tasks \cup {NoTask},
         owner: [Tasks -> Nat], live: [Tasks -> BOOLEAN],
         blocked: [Tasks -> BOOLEAN], debts: [Tasks -> Debts]]

TypeOK ==
  /\ status \in [Tasks -> Statuses] /\ latest \in Tasks \cup {NoTask}
  /\ owner \in [Tasks -> Nat] /\ live \in [Tasks -> BOOLEAN]
  /\ blocked \in [Tasks -> BOOLEAN] /\ debts \in [Tasks -> Debts]
  /\ up \in BOOLEAN /\ instance \in Nat \ {0}
  /\ slot \in [Tasks -> Jobs \cup {NoJob}]
  /\ pc \in [Jobs -> Places]
  /\ target \in [Jobs -> Tasks \cup {NoTask}]
  /\ held \in [Jobs -> Statuses]
  /\ cancel \in [Jobs -> BOOLEAN]
  /\ preflights \in Nat
  /\ backup \in Rows \cup {NoBackup}

\* A task never has two live jobs, whatever the interleaving of launches,
\* unwinding runners and restarts (the done() test of _runtime_launch_director
\* and the pop that runs after the last await of _run_auto_director).
SingleRunner ==
  \A i, j \in Jobs :
    Live(i) /\ Live(j) /\ target[i] = target[j] => i = j

\* A job past its claim owns the lease of its row until it has released it:
\* no restart, restore or other job takes the row away under a running job.
LeaseCoversWork ==
  \A j \in Jobs : Claimed(j) => up /\ owner[target[j]] = instance

\* A paused task never becomes running again except through a resume (which
\* makes it queued first) or the restoration of an older database: no save of
\* the runner that was told to stop overwrites the pause.
PausedStaysPaused ==
  [][\A t \in Tasks :
       status[t] = "paused" /\ status'[t] = "running" => RestoreBackup]_vars

\* A completed task is never reopened: not by a late pause, a resume, an
\* orphan check, or the cancellation of its own finishing run.
CompletedIsFinal ==
  [][\A t \in Tasks :
       status[t] = "completed" /\ status'[t] # "completed" => RestoreBackup]_vars

\* While a job may still save the project, the guard of the author's save
\* (project_save) refuses.
MayWriteProject(j) ==
  /\ \/ Working(j)
     \/ pc[j] = "draining"
  /\ target[j] \notin IncubationTasks

GateClosedWhileWriting ==
  (\E j \in Jobs : MayWriteProject(j)) => ~SaveGateOpen

\* At most one job works on the project ("an AI task is already running").
OneRunnerPerProject ==
  \A i, j \in Jobs : MayWriteProject(i) /\ MayWriteProject(j) => i = j

\* A task left active without a runner (crash, shutdown, refused lease) does
\* not stay so: it is paused by a poll or gets a runner.
OrphanRecovered ==
  \A t \in Tasks :
    (status[t] \in Active /\ ~RunnerLive(t))
      ~> (status[t] \notin Active \/ RunnerLive(t))

\* A job that was told to cancel ends.
PauseStops == \A j \in Jobs : cancel[j] ~> ~Live(j)

----------------------------------------------------------------------------
(* The abstract lifecycle this module implements.                          *)

InTry(t) == slot[t] # NoJob /\ pc[slot[t]] \in {"running", "draining"}

PhaseAtRest(s) ==
  CASE s = "absent"    -> "none"
    [] s = "queued"    -> "wanted"
    [] s = "running"   -> "orphan"
    [] s = "paused"    -> "idle"
    [] s = "completed" -> "finished"

Phase(t) ==
  CASE InTry(t) /\ cancel[slot[t]]  -> "stopping"
    [] InTry(t) /\ ~cancel[slot[t]] -> "working"
    [] OTHER -> PhaseAtRest(status[t])

Kept == IF backup = NoBackup THEN NoBackup
        ELSE [t \in Tasks |-> PhaseAtRest(backup.status[t])]

Lifecycle == INSTANCE TaskLifecycle WITH kept <- Kept, phase <- [t \in Tasks |-> Phase(t)]

\* Having no backup is not a backup.
ASSUME NoBackupAssumption == NoBackup \notin Rows /\ NoBackup \notin [Tasks -> Lifecycle!Resting]

\* The director keeps the promises of TaskLifecycle.
ImplementsLifecycle == Lifecycle!Spec
=============================================================================
