---------------------------- MODULE SignedRegister ----------------------------
(***************************************************************************)
(* What replication promises: every agent's copy is a signed version, and  *)
(* it only moves up, unless its owner wipes it.                            *)
(***************************************************************************)
EXTENDS Naturals

CONSTANTS Agent, Version

VARIABLES signed, copy

avars == <<signed, copy>>

Init ==
  /\ signed = {}
  /\ copy = [n \in Agent |-> 0]

Sign(v) ==
  /\ signed' = signed \cup {v}
  /\ UNCHANGED copy

Adopt(n) ==
  /\ \E v \in signed : v > copy[n] /\ copy' = [copy EXCEPT ![n] = v]
  /\ UNCHANGED signed

Forget(n) ==
  /\ copy' = [copy EXCEPT ![n] = 0]
  /\ UNCHANGED signed

Next ==
  \/ \E v \in Version : Sign(v)
  \/ \E n \in Agent : Adopt(n) \/ Forget(n)

Spec == Init /\ [][Next]_avars

=============================================================================
