------------------------------- MODULE MCProbe -------------------------------
(***************************************************************************)
(* Instances of Probe: one holder beside the probing agent, every way a    *)
(* visit may end, and two versions, so that a holder can lag.              *)
(***************************************************************************)
EXTENDS Probe

CONSTANTS h1

=============================================================================
