-------------------------------- MODULE Probe --------------------------------
(***************************************************************************)
(* internal/probe: one agent's view of who holds one member's bundle, and  *)
(* how fresh, while its own fetcher changes the store underneath.          *)
(*                                                                         *)
(* A sweep fixes its clock once (now), anchors the version the store has   *)
(* seen, and then visits the holders one by one; a visit is the HTTP       *)
(* request (Observe) and, later, the verdict (record).  Between any two of *)
(* these steps the fetch goroutine may note or store a version, holders    *)
(* change, and time passes.                                                *)
(*                                                                         *)
(* Time is kept as elapsed ticks.  The code compares now.Sub(first) with   *)
(* Staleness only, so no verdict depends on counters above Tolerance; they *)
(* run on to Horizon so that an age can be told from the sweep's own view  *)
(* of it.                                                                  *)
(***************************************************************************)
EXTENDS Naturals

CONSTANTS
  Holder,        \* agents probed over the network
  Self,          \* the probing agent, which looks into its own store
  Version,       \* versions the member has signed
  Tolerance,     \* Staleness, in ticks
  Horizon,       \* the bound at which every clock stops
  Failure,       \* the ways a visit may find no valid manifest
  Unknown        \* firstKnown has no entry

ASSUME ProbeAssumption ==
  /\ Self \notin Holder
  /\ Version \subseteq Nat \ {0}
  /\ Tolerance \in Nat
  /\ Horizon \in Nat /\ Tolerance < Horizon
  /\ "missing" \in Failure
  /\ Failure \subseteq {"unreachable", "missing", "invalid"}
  /\ Unknown \notin Nat

VARIABLES
  copy,          \* copy[h]: what holder h would answer now
  held,          \* Store.Version of the probing agent, 0 for none
  seen,          \* Store.SeenVersion
  age,           \* age[v]: ticks since the anchor firstKnown[v], or Unknown
  since,         \* ticks since the running sweep fixed its clock
  elapsed,       \* elapsed[v]: now.Sub(firstKnown[v]) for the running sweep
  left,          \* holders the sweep still has to visit
  visit,         \* the observation that waits for its verdict
  matrix,        \* matrix[h]: the latest entry for holder h
  settled        \* the store, the holders and the process stop changing

store == <<held, seen>>
clock == <<age, since, elapsed>>
vars == <<copy, held, seen, age, since, elapsed, left, visit, matrix, settled>>

Everyone == Holder \cup {Self}
Known == Version \cup {0}
Ticks == (0 .. Horizon) \cup {Unknown}

\* What a visit can find, as the version it learns (0: none).
Observation ==
  [status : Failure, version : {0}]
    \cup [status : {"healthy"}, version : Version]

Entry ==
  [status : Failure \cup {"none"}, version : {0}, fresh : {FALSE}]
    \cup [status : {"healthy", "stale"}, version : Version, fresh : BOOLEAN]

NoEntry == [status |-> "none", version |-> 0, fresh |-> FALSE]
NoVisit == [holder |-> Self, seen |-> [status |-> "missing", version |-> 0], done |-> TRUE]

Larger(x, y) == IF x < y THEN y ELSE x
Later(t) == IF t = Unknown \/ t = Horizon THEN t ELSE t + 1

Init ==
  /\ copy = [h \in Holder |-> [status |-> "missing", version |-> 0]]
  /\ held = 0
  /\ seen = 0
  /\ age = [v \in Version |-> Unknown]
  /\ since = 0
  /\ elapsed = age
  /\ left = {}
  /\ visit = NoVisit
  /\ matrix = [h \in Everyone |-> NoEntry]
  /\ settled = FALSE

-----------------------------------------------------------------------------
(* The probe loop.                                                         *)

\* Variant of Anchored: every meeting with a version moves its anchor.
AnchoredAfresh(f, v, at) == [w \in Version |-> IF w = v THEN at ELSE f[w]]

\* noteVersion: the first time a version is met it is anchored at now, which
\* is `at' ticks ago.
Anchored(f, v, at) == [w \in Version |-> IF w = v /\ f[w] = Unknown THEN at ELSE f[w]]

\* Variant of SweepStart: the clock is not read again, so that the versions
\* met are no older than they were for the sweep before.
SweepStartOldTimes ==
  /\ left = {} /\ visit.done
  /\ age' = Anchored(age, seen, 0)
  /\ elapsed' = Anchored(elapsed, seen, 0)
  /\ since' = 0
  /\ left' = Everyone
  /\ UNCHANGED <<copy, store, visit, matrix, settled>>

SweepStart ==
  /\ left = {} /\ visit.done
  /\ age' = Anchored(age, seen, 0)
  /\ elapsed' = age'
  /\ since' = 0
  /\ left' = Everyone
  /\ UNCHANGED <<copy, store, visit, matrix, settled>>

\* Variant of ObserveRemote: the store is not told of the version.
ObserveRemoteUnnoted(h) ==
  /\ h \in left \cap Holder /\ visit.done
  /\ visit' = [holder |-> h, seen |-> copy[h], done |-> FALSE]
  /\ left' = left \ {h}
  /\ UNCHANGED <<copy, store, clock, matrix, settled>>

\* observeRemote: a verified manifest also raises the store's seen version.
ObserveRemote(h) ==
  /\ h \in left \cap Holder /\ visit.done
  /\ visit' = [holder |-> h, seen |-> copy[h], done |-> FALSE]
  /\ left' = left \ {h}
  /\ seen' = Larger(seen, copy[h].version)
  /\ UNCHANGED <<copy, held, clock, matrix, settled>>

\* Variant of ObserveSelf: an empty store is healthy too.
ObserveSelfHealthy ==
  /\ Self \in left /\ visit.done
  /\ visit' = [holder |-> Self, done |-> FALSE,
               seen |-> [status |-> "healthy", version |-> held]]
  /\ left' = left \ {Self}
  /\ UNCHANGED <<copy, store, clock, matrix, settled>>

\* observeSelf trusts the store.
ObserveSelf ==
  /\ Self \in left /\ visit.done
  /\ visit' = [holder |-> Self, done |-> FALSE,
               seen |-> [status |-> IF held = 0 THEN "missing" ELSE "healthy",
                         version |-> held]]
  /\ left' = left \ {Self}
  /\ UNCHANGED <<copy, store, clock, matrix, settled>>

\* record: the highest version known, and whether the observation meets it
\* or lags behind it within the grace window.
KnownBy(f) == {seen} \cup {v \in Version : f[v] # Unknown}
Highest(f) == CHOOSE v \in KnownBy(f) : \A w \in KnownBy(f) : w <= v

InGrace(f, v) == v \in Version /\ f[v] # Unknown /\ f[v] <= Tolerance

\* Variant of Verdict: a copy must be above the highest version to be current.
VerdictStrict(obs, f) ==
  IF obs.status # "healthy" THEN [status |-> obs.status, version |-> 0, fresh |-> FALSE]
  ELSE LET fresh == obs.version > Highest(f) \/ InGrace(f, Highest(f))
       IN [status |-> IF fresh THEN "healthy" ELSE "stale",
           version |-> obs.version, fresh |-> fresh]

Verdict(obs, f) ==
  IF obs.status # "healthy" THEN [status |-> obs.status, version |-> 0, fresh |-> FALSE]
  ELSE LET fresh == obs.version >= Highest(f) \/ InGrace(f, Highest(f))
       IN [status |-> IF fresh THEN "healthy" ELSE "stale",
           version |-> obs.version, fresh |-> fresh]

Record ==
  /\ ~visit.done
  /\ age' = Anchored(age, visit.seen.version, since)
  /\ elapsed' = Anchored(elapsed, visit.seen.version, 0)
  /\ matrix' = [matrix EXCEPT ![visit.holder] = Verdict(visit.seen, elapsed')]
  /\ visit' = NoVisit
  /\ UNCHANGED <<copy, store, since, left, settled>>

Tick ==
  /\ age' = [v \in Version |-> Later(age[v])]
  /\ since' = Later(since)
  /\ UNCHANGED <<copy, store, elapsed, left, visit, matrix, settled>>

-----------------------------------------------------------------------------
(* The fetch goroutine of the same agent.                                  *)

\* SyncMember verified a manifest from some source: NoteSeen.
FetchNotes(v) ==
  /\ ~settled
  /\ v > seen
  /\ seen' = v
  /\ UNCHANGED <<copy, held, clock, left, visit, matrix, settled>>

\* SyncMember stored a version it had noted: Put.
FetchStores(v) ==
  /\ ~settled
  /\ v > held /\ v <= seen
  /\ held' = v
  /\ UNCHANGED <<copy, seen, clock, left, visit, matrix, settled>>

-----------------------------------------------------------------------------
(* The environment.                                                        *)

\* A holder upgrades, loses its copy, breaks, or comes and goes.
HolderChanges(h) ==
  /\ ~settled
  /\ \E obs \in Observation : copy' = [copy EXCEPT ![h] = obs]
  /\ UNCHANGED <<store, clock, left, visit, matrix, settled>>

\* A restart forgets the matrix and the anchors; the store is durable.
Restart ==
  /\ ~settled
  /\ age' = [v \in Version |-> Unknown]
  /\ elapsed' = age'
  /\ since' = 0
  /\ left' = {}
  /\ visit' = NoVisit
  /\ matrix' = [h \in Everyone |-> NoEntry]
  /\ UNCHANGED <<copy, store, settled>>

Settle ==
  /\ ~settled
  /\ settled' = TRUE
  /\ UNCHANGED <<copy, store, clock, left, visit, matrix>>

-----------------------------------------------------------------------------

Sweep ==
  \/ SweepStart
  \/ \E h \in Holder : ObserveRemote(h)
  \/ ObserveSelf
  \/ Record

Fetcher == \E v \in Version : FetchNotes(v) \/ FetchStores(v)

Environment ==
  \/ \E h \in Holder : HolderChanges(h)
  \/ Restart
  \/ Settle

Next == Sweep \/ Tick \/ Fetcher \/ Environment

Spec == Init /\ [][Next]_vars

\* The probe loop never stops, each request is bounded by a timeout, and
\* time passes.
Fairness ==
  /\ WF_vars(SweepStart)
  /\ \A h \in Holder : WF_vars(ObserveRemote(h))
  /\ WF_vars(ObserveSelf)
  /\ WF_vars(Record)
  /\ WF_vars(Tick)
  /\ WF_vars(Settle)

FairSpec == Spec /\ Fairness

-----------------------------------------------------------------------------
(* Properties.                                                             *)

\* Every variable stays in its type.
TypeOK ==
  /\ copy \in [Holder -> Observation]
  /\ held \in Known
  /\ seen \in Known
  /\ age \in [Version -> Ticks]
  /\ since \in 0 .. Horizon
  /\ elapsed \in [Version -> Ticks]
  /\ left \subseteq Everyone
  /\ visit \in [holder : Everyone, seen : Observation, done : BOOLEAN]
  /\ matrix \in [Everyone -> Entry]
  /\ settled \in BOOLEAN

\* The prober and the store agree on what the highest version is: nothing
\* is anchored that the store has not seen, so the two sources record takes
\* its highest from cannot contradict each other, also after a restart.
AnchorsWereSeen == \A v \in Version : age[v] # Unknown => v <= seen

\* A holder is reported stale only for a version really below one that this
\* agent has seen: no false alarm about an up-to-date copy, whatever the
\* fetcher does during the sweep.
StaleIsBehind == \A h \in Everyone : matrix[h].status = "stale" => matrix[h].version < seen

\* A holder that lags behind the highest version is not reported fresh after
\* that version's grace window: however long the requests of a sweep take,
\* the true age of the version, which the sweep does not look at again, is at
\* most the tolerance and what the sweep has lasted.
FreshIsCurrent ==
  [][\A h \in Everyone :
       matrix'[h] # matrix[h] /\ matrix'[h].fresh /\ matrix'[h].version < seen
         => age'[seen] # Unknown /\ age'[seen] <= Tolerance + since']_vars

\* "when the prober first learns of version V, other holders may lag behind
\* V for up to the staleness tolerance before they flip" (probe.go): no
\* holder is reported stale before some newer version has been known for
\* longer than the tolerance.
GraceIsGiven ==
  [][\A h \in Everyone :
       matrix'[h] # matrix[h] /\ matrix'[h].status = "stale"
         => \E v \in Version : /\ v > matrix'[h].version
                               /\ elapsed'[v] # Unknown
                               /\ elapsed'[v] > Tolerance]_vars

\* The entry that describes what observation obs really is.
Truth(obs) ==
  IF obs.status # "healthy" THEN [status |-> obs.status, version |-> 0, fresh |-> FALSE]
  ELSE [status |-> IF obs.version >= seen THEN "healthy" ELSE "stale",
        version |-> obs.version, fresh |-> obs.version >= seen]

\* Once nothing changes any more the matrix becomes, and stays, the truth:
\* every lagging holder is stale, every other one is what it is.
TruthInTheEnd ==
  <>[](\A h \in Holder : matrix[h] = Truth(copy[h]))

=============================================================================
