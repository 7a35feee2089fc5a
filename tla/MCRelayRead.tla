----------------------------- MODULE MCRelayRead -----------------------------
(***************************************************************************)
(* Instances of RelayRead: two versions that share one blob and differ in  *)
(* another, the least with a blob that a newer version keeps and one that  *)
(* it drops.                                                               *)
(***************************************************************************)
EXTENDS RelayRead

CONSTANTS m1, m2, a, b, c

MCManifest == {m1, m2}
MCBlob == {a, b, c}
MCVersionOf == [m \in MCManifest |-> IF m = m1 THEN 1 ELSE 2]
MCFilesOf == [m \in MCManifest |-> IF m = m1 THEN {a, b} ELSE {b, c}]

=============================================================================
