------------------------------- MODULE MCDemo -------------------------------
(***************************************************************************)
(* Instances of Demo: three members, of which the second is watched, so    *)
(* that peers come before and after it in the order of the walk.           *)
(***************************************************************************)
EXTENDS Demo

CONSTANTS a, b, c

MCOrder == <<a, b, c>>

=============================================================================
