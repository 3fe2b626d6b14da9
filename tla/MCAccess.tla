------------------------------ MODULE MCAccess ------------------------------
(* Access for TLC: administrators and role names are interchangeable. *)
EXTENDS Access, TLC

Symmetry == Permutations(Admins) \cup Permutations(Names)
=============================================================================
