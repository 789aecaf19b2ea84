----------------------------- MODULE MCToolTasks -----------------------------
(* Instances of ToolTasks: interchangeable calls. *)
EXTENDS ToolTasks, TLC

Symmetry == Permutations(Call)
=============================================================================
