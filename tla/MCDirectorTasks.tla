-------------------------- MODULE MCDirectorTasks --------------------------
(***************************************************************************)
(* Instances of DirectorTasks for TLC: model values for the tasks and jobs *)
(* and the symmetry of the jobs (an asyncio.Task has no identity beyond    *)
(* the slot that refers to it).                                            *)
(***************************************************************************)
EXTENDS DirectorTasks, TLC

JobSymmetry == Permutations(Jobs)
=============================================================================
