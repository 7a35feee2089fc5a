----------------------------- MODULE MCPublisher -----------------------------
(* Two manifests that share a blob, in a small number of inodes.           *)
EXTENDS Publisher, FiniteSets

CONSTANTS m1, m2, a, b

MCFilesOf == [m \in {m1, m2} |-> IF m = m1 THEN {a} ELSE {a, b}]

=============================================================================
