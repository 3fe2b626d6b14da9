------------------------------ MODULE MCStages ------------------------------
(* Stages for TLC: clients and file names are interchangeable. *)
EXTENDS Stages, TLC

Symmetry == Permutations(Clients) \cup Permutations(Files)
=============================================================================
