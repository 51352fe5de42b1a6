---------------------------- MODULE MCChapterRun ----------------------------
(***************************************************************************)
(* Instances of ChapterRun for TLC.  The breaker's limits are lowered to   *)
(* what a book of N chapters can reach; a book of one volume has its       *)
(* manuscript gate after the last chapter.                                 *)
(***************************************************************************)
EXTENDS ChapterRun

LastChapter == {N}
=============================================================================
