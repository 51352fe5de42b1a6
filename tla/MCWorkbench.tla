---------------------------- MODULE MCWorkbench ----------------------------
(***************************************************************************)
(* Instances of Workbench for TLC: model values for tabs and edits, which  *)
(* make the texts, and the symmetry of the tabs.                           *)
(***************************************************************************)
EXTENDS Workbench, TLC

MCTexts == {text : text \in SUBSET Edits}
MCPlans == 0..MaxStamp
MCEmptyText == {}

TabSymmetry == Permutations(Tabs)
=============================================================================
