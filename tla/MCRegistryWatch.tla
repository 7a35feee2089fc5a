---------------------------- MODULE MCRegistryWatch ----------------------------
(* Three registries: the member's key is rotated from the first to the     *)
(* second, and the third, of the same version as it, lists the first key   *)
(* and not the agent.                                                      *)
EXTENDS RegistryWatch

CONSTANTS r1, r2, r2x, k1, k2

MCVersionOf == [r \in {r1, r2, r2x} |-> IF r = r1 THEN 1 ELSE 2]
MCKeyOf == [r \in {r1, r2, r2x} |->
             IF r = r2 THEN k2 ELSE k1]

\* Version 1 is signed again after the rotation, then version 2 comes.
MCBundle == {[version |-> 1, key |-> k1], [version |-> 1, key |-> k2],
             [version |-> 2, key |-> k2]}

=============================================================================
