---------------------------- MODULE MCReplication ----------------------------
(***************************************************************************)
(* Instances of Replication: two agents, a rogue holder, and two versions  *)
(* that share the blob x.                                                  *)
(***************************************************************************)
EXTENDS Replication

CONSTANTS n1, n2, r, x, y

MCFilesOf == [v \in 1..2 |-> IF v = 1 THEN {x} ELSE {x, y}]

=============================================================================
