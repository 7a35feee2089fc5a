----------------------------- MODULE AtomicBundle -----------------------------
(***************************************************************************)
(* What internal/store promises of one member's bundle: a register that    *)
(* survives crashes, changes in one step, and never goes back to a lower   *)
(* version while the data directory is left alone.  The durable value is   *)
(* what a restart would serve; the live value is what the process serves.  *)
(***************************************************************************)
EXTENDS Naturals

CONSTANTS Manifest, VersionOf, None

VARIABLES durable, live, running

avars == <<durable, live, running>>

VersionIn(m) == IF m = None THEN 0 ELSE VersionOf[m]

Init ==
  /\ durable = None
  /\ live = None
  /\ running = FALSE

\* A higher version becomes durable, in one step and only from a state in
\* which the process serves what is durable.
Commit(m) ==
  /\ running
  /\ durable = live
  /\ VersionIn(m) > VersionIn(live)
  /\ durable' = m
  /\ UNCHANGED <<live, running>>

\* The process serves the version it made durable.
Adopt ==
  /\ running
  /\ live' = durable
  /\ UNCHANGED <<durable, running>>

Stop ==
  /\ running
  /\ running' = FALSE
  /\ live' = None
  /\ UNCHANGED durable

Start ==
  /\ ~running
  /\ running' = TRUE
  /\ live' = durable
  /\ UNCHANGED durable

\* A stopped agent's data directory is wiped or its pointer file destroyed.
Lose ==
  /\ ~running
  /\ durable' = None
  /\ UNCHANGED <<live, running>>

Next ==
  \/ \E m \in Manifest : Commit(m)
  \/ Adopt
  \/ Stop
  \/ Start
  \/ Lose

Spec == Init /\ [][Next]_avars

=============================================================================
