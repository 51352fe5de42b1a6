--------------------------- MODULE TaskLifecycle ---------------------------
(***************************************************************************)
(* What the automatic director promises about a task, whatever the rows,   *)
(* leases and runners it is built from: work starts only on a task that    *)
(* was asked for, a stop that was asked for is not undone by the work, and *)
(* a finished task stays finished.  DirectorTasks implements it.           *)
(***************************************************************************)
CONSTANTS Tasks, NoBackup

VARIABLES phase,
          kept     \* the phases in an older database that is kept, or NoBackup

(***************************************************************************)
(*   "none"      not created          "stopping"  told to stop, not yet    *)
(*   "wanted"    created or resumed   "idle"      paused at a checkpoint   *)
(*   "working"   a run works on it    "orphan"    its run is gone          *)
(*   "finished"                                                            *)
(***************************************************************************)
Resting == {"none", "wanted", "idle", "orphan", "finished"}
Phases == Resting \cup {"working", "stopping"}

TypeOK == phase \in [Tasks -> Phases] /\ kept \in [Tasks -> Resting] \cup {NoBackup}

Init == phase = [t \in Tasks |-> "none"] /\ kept = NoBackup

Move(t, from, to) ==
  /\ phase[t] \in from
  /\ phase' = [phase EXCEPT ![t] = to]
  /\ UNCHANGED kept

Ask(t) == Move(t, {"none", "idle", "orphan"}, "wanted")
Work(t) == Move(t, {"wanted"}, "working")
AskToStop(t) == Move(t, {"working"}, "stopping")
Pause(t) == Move(t, {"wanted", "working", "stopping", "orphan"}, "idle")
Finish(t) == Move(t, {"working"}, "finished")

\* What is left of a task when no work is: nothing else changes.
AfterHalt(p) ==
  CASE p = "working" -> {"idle", "wanted", "orphan"}
    [] p = "stopping" -> {"idle", "wanted"}
    [] OTHER -> {p}

AtRest == {f \in [Tasks -> Resting] : \A t \in Tasks : f[t] \in AfterHalt(phase[t])}

\* The process ends
Halt == phase' \in AtRest /\ UNCHANGED kept

\* The database is kept as it is now, and put back later, while nothing works
Keep == kept = NoBackup /\ kept' \in AtRest /\ UNCHANGED phase

Restore ==
  /\ kept # NoBackup
  /\ phase \in [Tasks -> Resting]
  /\ phase' = kept
  /\ UNCHANGED kept

Next ==
  \/ \E t \in Tasks : Ask(t) \/ Work(t) \/ AskToStop(t) \/ Pause(t) \/ Finish(t)
  \/ Halt \/ Keep \/ Restore

Spec == Init /\ [][Next]_<<phase, kept>>
=============================================================================
