-------------------------- MODULE MCGatewaySession --------------------------
(***************************************************************************)
(* Small instances of GatewaySession: one or two rows, queries of one or   *)
(* two UPDATEs, and a DDL statement.                                       *)
(***************************************************************************)
EXTENDS GatewaySession, TLC

MCLower  == [n \in Names |-> n]
Updates  == {<<k>> : k \in Keys}
Batches  == Updates \cup {<<k, j>> : k \in Keys, j \in Keys}
MySqlWorks == Batches \cup {<<DDL>>}
Symmetry == Permutations(Sessions)
=============================================================================
