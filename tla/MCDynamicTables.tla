-------------------------- MODULE MCDynamicTables --------------------------
(* Values for TLC: every dynamic table is on the same warehouse. *)
EXTENDS DynamicTables

OneWarehouse == [t \in Tables |-> CHOOSE w \in Warehouses : TRUE]
=============================================================================
