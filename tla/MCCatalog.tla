----------------------------- MODULE MCCatalog -----------------------------
(***************************************************************************)
(* Values for TLC: names whose physical names differ, and, for             *)
(* CollidingNames.cfg, names of which two give the same physical name.     *)
(***************************************************************************)
EXTENDS Catalog, FiniteSets, TLC

CONSTANTS Public, A, T

Default == <<Public>>
TwoSchemas == {<<Public>>, <<A>>}
OneTable == {<<T>>}
CollidingSchemas == {<<Public>>, <<Public, T>>}
CollidingTables == {<<T>>, <<T, T>>}
Symmetry == Permutations(Clients)
=============================================================================
