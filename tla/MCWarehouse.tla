---------------------------- MODULE MCWarehouse ----------------------------
(***************************************************************************)
(* Warehouse for TLC: sizes are positions in the list of manager.go:445,   *)
(* and a warehouse of the i-th size runs 2^i statements (manager.go:459).  *)
(***************************************************************************)
EXTENDS Warehouse

CONSTANT MaxSize

MCSizes == 0..MaxSize
MCCapacity == [z \in MCSizes |-> 2^z]
=============================================================================
