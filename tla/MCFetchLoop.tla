----------------------------- MODULE MCFetchLoop -----------------------------
(***************************************************************************)
(* Instances of FetchLoop: one member whose sync may fail or be hinted     *)
(* while another waits for its turn.                                       *)
(***************************************************************************)
EXTENDS FetchLoop

CONSTANTS a, b

=============================================================================
