----------------------------- MODULE MCMclQueue -----------------------------
(* Instances of MclQueue: interchangeable commands of clients. *)
EXTENDS MclQueue, TLC

Symmetry == Permutations(Command \ Own)
=============================================================================
