------------------------------ MODULE ProbeProofs ------------------------------
(***************************************************************************)
(* What Probe promises for any holders, versions and tolerance, whatever   *)
(* the fetcher, the holders and the clock do between two steps of a sweep. *)
(*                                                                         *)
(* Everything rests on two facts.  Whatever has an anchor, waits for its   *)
(* verdict or is held has been seen, so that the highest version of record *)
(* is the store's seen version at that moment.  And a sweep's view of an   *)
(* age is late by no more than the sweep has lasted.                       *)
(***************************************************************************)
EXTENDS Probe, TLAPS

USE ProbeAssumption

-----------------------------------------------------------------------------
(* The invariant.                                                          *)

\* The running sweep's clock knows the anchors that the prober knows.  It
\* stands still while they grow older, and they grow no faster than the sweep.
ClocksAgree ==
  \A v \in Version :
    /\ elapsed[v] = Unknown <=> age[v] = Unknown
    /\ age[v] # Unknown => elapsed[v] <= age[v] /\ age[v] <= elapsed[v] + since

\* What the prober's own store holds, and what a visit has found, was seen.
FoundWasSeen ==
  /\ held <= seen
  /\ ~visit.done => visit.seen.version <= seen

Inv == TypeOK /\ AnchorsWereSeen /\ ClocksAgree /\ FoundWasSeen /\ StaleIsBehind

-----------------------------------------------------------------------------
(* The operators of the probe.                                             *)

\* Versions are positive, and no elapsed time is Unknown.
LEMMA Constants ==
  /\ Version \subseteq Nat /\ 0 \notin Version
  /\ Horizon \in Nat /\ Tolerance < Horizon
  /\ Unknown \notin 0 .. Horizon
  /\ Known \subseteq Nat
  BY DEF Known

\* The larger of two versions is one of them and bounds both.
LEMMA LargerIsMax ==
  ASSUME NEW x \in Known, NEW y \in Known
  PROVE  Larger(x, y) \in Known /\ x <= Larger(x, y) /\ y <= Larger(x, y)
  BY Constants DEF Larger

\* Time passes without losing an anchor.
LEMMA LaterGrows ==
  ASSUME NEW t \in Ticks
  PROVE  /\ Later(t) \in Ticks
         /\ Later(t) = Unknown <=> t = Unknown
         /\ t # Unknown => t <= Later(t) /\ Later(t) <= t + 1
         /\ t # Unknown /\ Later(t) # t + 1 => Later(t) = t /\ t = Horizon
  BY Constants DEF Ticks, Later

\* Anchoring a version gives it an elapsed time unless it has one.
LEMMA AnchoredIsAnchored ==
  ASSUME NEW f \in [Version -> Ticks], NEW v \in Known, NEW at \in 0 .. Horizon
  PROVE  /\ Anchored(f, v, at) \in [Version -> Ticks]
         /\ \A w \in Version :
              /\ f[w] # Unknown => Anchored(f, v, at)[w] = f[w]
              /\ w # v => Anchored(f, v, at)[w] = f[w]
              /\ f[w] = Unknown /\ w = v => Anchored(f, v, at)[w] = at
  BY DEF Anchored, Ticks

\* When nothing above the seen version has an anchor, record compares with
\* the seen version, although it searches the store and the anchors.
LEMMA HighestIsSeen ==
  ASSUME NEW f, seen \in Known,
         \A v \in Version : f[v] # Unknown => v <= seen
  PROVE  Highest(f) = seen
<1>1. seen \in KnownBy(f) /\ \A w \in KnownBy(f) : w <= seen /\ w \in Nat
  BY Constants DEF KnownBy
<1>2. \A v \in KnownBy(f) : (\A w \in KnownBy(f) : w <= v) => v = seen
  BY <1>1
<1> QED BY <1>1, <1>2 DEF Highest

\* The fields of an observation and of an entry.
LEMMA ObservationFields ==
  ASSUME NEW obs \in Observation
  PROVE  /\ obs.status \in Failure \cup {"healthy"}
         /\ obs.version \in Known
         /\ obs.status = "healthy" => obs.version \in Version
         /\ obs.status # "healthy" => obs.version = 0
  BY DEF Observation, Known

\* A verdict against the seen version: it is an entry, it says stale of a
\* version below only and after the window, and fresh only inside it.
LEMMA VerdictIsSound ==
  ASSUME NEW obs \in Observation, NEW f \in [Version -> Ticks], seen \in Known,
         \A v \in Version : f[v] # Unknown => v <= seen
  PROVE  /\ Verdict(obs, f) \in Entry
         /\ Verdict(obs, f).version = obs.version
         /\ Verdict(obs, f).status = "stale" => obs.version < seen /\ ~InGrace(f, seen)
         /\ Verdict(obs, f).fresh /\ obs.version < seen => InGrace(f, seen)
<1>1. Highest(f) = seen
  BY HighestIsSeen
<1>2. CASE obs.status # "healthy"
  BY <1>2, ObservationFields DEF Verdict, Entry
<1>3. CASE obs.status = "healthy"
  <2> DEFINE fresh == obs.version >= seen \/ InGrace(f, seen)
  <2>1. Verdict(obs, f) = [status |-> IF fresh THEN "healthy" ELSE "stale",
                           version |-> obs.version, fresh |-> fresh]
    BY <1>1, <1>3 DEF Verdict
  <2>2. obs.version \in Version /\ obs.version \in Nat /\ seen \in Nat
    BY <1>3, ObservationFields, Constants
  <2>3. CASE fresh
    <3>1. Verdict(obs, f) = [status |-> "healthy", version |-> obs.version, fresh |-> TRUE]
      BY <2>1, <2>3
    <3>2. Verdict(obs, f) \in Entry
      BY <2>2, <3>1 DEF Entry
    <3>3. obs.version < seen => InGrace(f, seen)
      BY <2>2, <2>3
    <3> QED BY <3>1, <3>2, <3>3
  <2>4. CASE ~fresh
    <3>1. Verdict(obs, f) = [status |-> "stale", version |-> obs.version, fresh |-> FALSE]
      BY <2>1, <2>4
    <3>2. Verdict(obs, f) \in Entry
      BY <2>2, <3>1 DEF Entry
    <3>3. obs.version < seen /\ ~InGrace(f, seen)
      BY <2>2, <2>4
    <3> QED BY <3>1, <3>2, <3>3
  <2> QED BY <2>3, <2>4
<1> QED BY <1>2, <1>3

-----------------------------------------------------------------------------
(* The invariant is one.                                                   *)

LEMMA InvInit == Init => Inv
<1> SUFFICES ASSUME Init PROVE Inv
  OBVIOUS
<1>1. [status |-> "missing", version |-> 0] \in Observation
  BY DEF Observation
<1>2. NoEntry \in Entry /\ NoEntry.status # "stale"
  BY DEF NoEntry, Entry
<1>3. NoVisit \in [holder : Everyone, seen : Observation, done : BOOLEAN] /\ NoVisit.done
  BY <1>1 DEF NoVisit, Everyone
<1>4. TypeOK
  <2>1. age \in [Version -> Ticks] /\ elapsed \in [Version -> Ticks] /\ since \in 0 .. Horizon
    BY Constants DEF Init, Ticks
  <2>2. copy \in [Holder -> Observation] /\ matrix \in [Everyone -> Entry]
    BY <1>1, <1>2 DEF Init
  <2> QED BY <1>3, <2>1, <2>2 DEF Init, TypeOK, Known
<1> QED BY <1>2, <1>3, <1>4 DEF Init, Inv, AnchorsWereSeen, ClocksAgree, FoundWasSeen, StaleIsBehind

\* A sweep begins: the seen version gets its anchor.
LEMMA SweepStartInv == ASSUME Inv, SweepStart PROVE Inv'
<1>1. /\ age' = Anchored(age, seen, 0) /\ elapsed' = age' /\ since' = 0 /\ left' = Everyone
      /\ UNCHANGED <<copy, held, seen, visit, matrix, settled>>
  BY DEF SweepStart, store
<1>2. age \in [Version -> Ticks] /\ seen \in Known /\ 0 \in 0 .. Horizon
  BY Constants DEF Inv, TypeOK
<1>3. TypeOK'
  BY <1>1, <1>2, AnchoredIsAnchored DEF Inv, TypeOK
<1>4. AnchorsWereSeen'
  BY <1>1, <1>2, AnchoredIsAnchored, Constants DEF Inv, AnchorsWereSeen
<1>5. ClocksAgree'
  BY <1>1, <1>3, Constants DEF ClocksAgree, TypeOK, Ticks
<1> QED BY <1>1, <1>3, <1>4, <1>5 DEF Inv, FoundWasSeen, StaleIsBehind

\* A visit has found something.
LEMMA ObserveInv ==
  ASSUME Inv, (\E h \in Holder : ObserveRemote(h)) \/ ObserveSelf
  PROVE  Inv'
<1>1. PICK h \in Everyone, obs \in Observation :
        /\ visit' = [holder |-> h, seen |-> obs, done |-> FALSE]
        /\ obs.version <= seen'
        /\ seen \in Known /\ seen' \in Known /\ seen <= seen'
        /\ left' \subseteq left
        /\ UNCHANGED <<copy, held, age, since, elapsed, matrix, settled>>
  <2>1. CASE \E h \in Holder : ObserveRemote(h)
    <3>1. PICK h \in Holder : ObserveRemote(h)
      BY <2>1
    <3>2. copy[h] \in Observation /\ copy[h].version \in Known /\ seen \in Known
      BY ObservationFields DEF Inv, TypeOK
    <3>3. visit' = [holder |-> h, seen |-> copy[h], done |-> FALSE]
      BY <3>1 DEF ObserveRemote
    <3> QED BY <3>1, <3>2, <3>3, LargerIsMax DEF ObserveRemote, Everyone, clock
  <2>2. CASE ObserveSelf
    <3> DEFINE obs == [status |-> IF held = 0 THEN "missing" ELSE "healthy", version |-> held]
    <3>1. obs \in Observation
      BY DEF Inv, TypeOK, Known, Observation
    <3>2. visit' = [holder |-> Self, seen |-> obs, done |-> FALSE]
      BY <2>2 DEF ObserveSelf
    <3>3. obs.version <= seen /\ seen \in Known /\ seen <= seen
      BY Constants DEF Inv, FoundWasSeen, TypeOK
    <3> QED BY <2>2, <3>1, <3>2, <3>3 DEF ObserveSelf, Everyone, store, clock
  <2> QED BY <2>1, <2>2
<1>2. TypeOK'
  BY <1>1 DEF Inv, TypeOK
<1>3. \A v \in Known : v <= seen => v <= seen'
  BY <1>1, Constants
<1>4. AnchorsWereSeen'
  BY <1>1, <1>3 DEF Inv, AnchorsWereSeen, Known
<1>5. FoundWasSeen'
  BY <1>1, <1>3 DEF Inv, FoundWasSeen, TypeOK
<1>6. StaleIsBehind'
  <2>1. SUFFICES ASSUME NEW k \in Everyone, matrix[k].status = "stale"
                 PROVE  matrix[k].version < seen'
    BY <1>1 DEF StaleIsBehind
  <2>2. matrix[k].version \in Nat /\ matrix[k].version < seen
    BY <2>1, Constants DEF Inv, TypeOK, StaleIsBehind, Entry
  <2> QED BY <1>1, <2>2, Constants
<1> QED BY <1>1, <1>2, <1>4, <1>5, <1>6 DEF Inv, ClocksAgree

\* What the clocks know when a verdict is given.
LEMMA RecordClocks ==
  ASSUME Inv, Record
  PROVE  /\ visit \in [holder : Everyone, seen : Observation, done : BOOLEAN]
         /\ visit.seen \in Observation
         /\ age' \in [Version -> Ticks] /\ elapsed' \in [Version -> Ticks]
         /\ AnchorsWereSeen' /\ ClocksAgree'
         /\ \A v \in Version : elapsed'[v] # Unknown => v <= seen
<1>1. /\ age' = Anchored(age, visit.seen.version, since)
      /\ elapsed' = Anchored(elapsed, visit.seen.version, 0)
      /\ seen' = seen /\ since' = since /\ ~visit.done
  BY DEF Record, store
<1>2. /\ visit \in [holder : Everyone, seen : Observation, done : BOOLEAN]
      /\ visit.seen \in Observation
      /\ visit.seen.version \in Known /\ visit.seen.version <= seen
      /\ age \in [Version -> Ticks] /\ elapsed \in [Version -> Ticks]
      /\ since \in 0 .. Horizon /\ 0 \in 0 .. Horizon
  BY <1>1, ObservationFields, Constants DEF Inv, TypeOK, FoundWasSeen
<1>3. /\ age' \in [Version -> Ticks] /\ elapsed' \in [Version -> Ticks]
  BY <1>1, <1>2, AnchoredIsAnchored
<1>4. ASSUME NEW v \in Version
      PROVE  /\ age'[v] # Unknown => v <= seen
             /\ elapsed'[v] = Unknown <=> age'[v] = Unknown
             /\ age'[v] # Unknown => elapsed'[v] <= age'[v] /\ age'[v] <= elapsed'[v] + since
  <2>1. CASE age[v] # Unknown
    BY <1>1, <1>2, <2>1, AnchoredIsAnchored DEF Inv, AnchorsWereSeen, ClocksAgree
  <2>2. CASE age[v] = Unknown /\ v # visit.seen.version
    BY <1>1, <1>2, <2>2, AnchoredIsAnchored DEF Inv, AnchorsWereSeen, ClocksAgree
  <2>3. CASE age[v] = Unknown /\ v = visit.seen.version
    <3>1. elapsed[v] = Unknown
      BY <2>3 DEF Inv, ClocksAgree
    <3>2. age'[v] = since
      BY <1>1, <2>3 DEF Anchored
    <3>3. elapsed'[v] = 0
      BY <1>1, <2>3, <3>1 DEF Anchored
    <3> QED BY <1>2, <2>3, <3>2, <3>3, Constants
  <2> QED BY <2>1, <2>2, <2>3
<1> QED BY <1>1, <1>2, <1>3, <1>4 DEF AnchorsWereSeen, ClocksAgree

\* The verdict that is entered.
LEMMA RecordVerdict ==
  ASSUME Inv, Record
  PROVE  /\ matrix' \in [Everyone -> Entry]
         /\ \A h \in Everyone : matrix'[h] # matrix[h] =>
              /\ matrix'[h].status = "stale" =>
                   matrix'[h].version < seen /\ ~InGrace(elapsed', seen)
              /\ matrix'[h].fresh /\ matrix'[h].version < seen => InGrace(elapsed', seen)
<1> DEFINE entry == Verdict(visit.seen, elapsed')
<1>1. matrix' = [matrix EXCEPT ![visit.holder] = entry] /\ matrix \in [Everyone -> Entry]
  BY DEF Record, Inv, TypeOK
<1>2. seen \in Known
  BY DEF Inv, TypeOK
<1>3. /\ entry \in Entry
      /\ entry.version = visit.seen.version
      /\ entry.status = "stale" => visit.seen.version < seen /\ ~InGrace(elapsed', seen)
      /\ entry.fresh /\ visit.seen.version < seen => InGrace(elapsed', seen)
  BY <1>2, RecordClocks, VerdictIsSound
<1> HIDE DEF entry
<1> QED BY <1>1, <1>3

LEMMA RecordInv == ASSUME Inv, Record PROVE Inv'
<1>1. visit' = NoVisit /\ UNCHANGED <<copy, held, seen, since, left, settled>>
  BY DEF Record, store
<1>2. NoVisit \in [holder : Everyone, seen : Observation, done : BOOLEAN] /\ NoVisit.done
  BY DEF NoVisit, Everyone, Observation
<1>3. TypeOK'
  BY <1>1, <1>2, RecordClocks, RecordVerdict DEF Inv, TypeOK
<1>4. FoundWasSeen'
  BY <1>1, <1>2 DEF Inv, FoundWasSeen
<1>5. StaleIsBehind'
  BY <1>1, RecordVerdict DEF Inv, StaleIsBehind
<1> QED BY <1>3, <1>4, <1>5, RecordClocks DEF Inv

\* Time passes.
LEMMA TickInv == ASSUME Inv, Tick PROVE Inv'
<1>1. /\ age' = [v \in Version |-> Later(age[v])] /\ since' = Later(since)
      /\ UNCHANGED <<copy, held, seen, elapsed, left, visit, matrix, settled>>
  BY DEF Tick, store
<1>2. /\ age \in [Version -> Ticks] /\ elapsed \in [Version -> Ticks] /\ since \in 0 .. Horizon
  BY DEF Inv, TypeOK
<1>3. age' \in [Version -> Ticks] /\ since' \in 0 .. Horizon
  <2>1. since \in Ticks /\ since # Unknown
    BY <1>2, Constants DEF Ticks
  <2>2. since' \in Ticks /\ since' # Unknown
    BY <1>1, <2>1, LaterGrows
  <2>3. age' \in [Version -> Ticks]
    BY <1>1, <1>2, LaterGrows
  <2> QED BY <2>2, <2>3 DEF Ticks
<1>4. ASSUME NEW v \in Version
      PROVE  /\ age'[v] = Unknown <=> age[v] = Unknown
             /\ age[v] # Unknown => age[v] <= age'[v] /\ age'[v] <= age[v] + 1
             /\ age[v] \in Ticks /\ age'[v] \in Ticks /\ elapsed[v] \in Ticks
  BY <1>1, <1>2, <1>3, LaterGrows
<1>5. ClocksAgree'
  <2>1. SUFFICES ASSUME NEW v \in Version, age[v] # Unknown
                 PROVE  elapsed[v] <= age'[v] /\ age'[v] <= elapsed[v] + since'
    BY <1>1, <1>4 DEF Inv, ClocksAgree
  <2>2. /\ elapsed[v] # Unknown /\ elapsed[v] <= age[v] /\ age[v] <= elapsed[v] + since
        /\ age[v] <= age'[v] /\ age'[v] <= age[v] + 1 /\ age'[v] # Unknown
    BY <1>4, <2>1 DEF Inv, ClocksAgree
  <2>3. elapsed[v] \in Nat /\ age[v] \in Nat /\ age'[v] \in 0 .. Horizon
    BY <1>4, <2>1, <2>2, Constants DEF Ticks
  <2>4. since \in Nat /\ (since' = since + 1 \/ since' = Horizon)
    BY <1>1, <1>2, Constants DEF Later
  <2> QED BY <2>2, <2>3, <2>4, Constants
<1>6. TypeOK'
  BY <1>1, <1>3 DEF Inv, TypeOK
<1> QED BY <1>1, <1>4, <1>5, <1>6 DEF Inv, AnchorsWereSeen, FoundWasSeen, StaleIsBehind

\* The fetch goroutine notes or stores a version under the sweep's feet.
LEMMA FetcherInv == ASSUME Inv, Fetcher PROVE Inv'
<1>1. /\ seen \in Known /\ seen' \in Known /\ seen <= seen'
      /\ held' \in Known /\ held' <= seen'
      /\ UNCHANGED <<copy, age, since, elapsed, left, visit, matrix, settled>>
  BY Constants DEF Fetcher, FetchNotes, FetchStores, clock, Inv, TypeOK, FoundWasSeen, Known
<1>2. TypeOK'
  BY <1>1 DEF Inv, TypeOK
<1>3. \A v \in Known : v <= seen => v <= seen'
  BY <1>1, Constants
<1>4. AnchorsWereSeen'
  BY <1>1, <1>3 DEF Inv, AnchorsWereSeen, Known
<1>5. FoundWasSeen'
  <2>1. visit.seen.version \in Known
    BY ObservationFields DEF Inv, TypeOK
  <2> QED BY <1>1, <1>3, <2>1 DEF Inv, FoundWasSeen
<1>6. StaleIsBehind'
  <2>1. SUFFICES ASSUME NEW k \in Everyone, matrix[k].status = "stale"
                 PROVE  matrix[k].version < seen'
    BY <1>1 DEF StaleIsBehind
  <2>2. matrix[k].version \in Nat /\ matrix[k].version < seen
    BY <2>1, Constants DEF Inv, TypeOK, StaleIsBehind, Entry
  <2> QED BY <1>1, <2>2, Constants
<1> QED BY <1>1, <1>2, <1>4, <1>5, <1>6 DEF Inv, ClocksAgree

\* Holders change, the agent restarts, the world settles.
LEMMA EnvironmentInv == ASSUME Inv, Environment PROVE Inv'
<1>1. CASE \E h \in Holder : HolderChanges(h)
  <2>1. PICK h \in Holder, obs \in Observation : copy' = [copy EXCEPT ![h] = obs]
    BY <1>1 DEF HolderChanges
  <2>2. UNCHANGED <<held, seen, age, since, elapsed, left, visit, matrix, settled>>
    BY <1>1 DEF HolderChanges, store, clock
  <2>3. TypeOK'
    BY <2>1, <2>2 DEF Inv, TypeOK
  <2> QED BY <2>2, <2>3 DEF Inv, AnchorsWereSeen, ClocksAgree, FoundWasSeen, StaleIsBehind
<1>2. CASE Restart
  <2>1. /\ NoVisit \in [holder : Everyone, seen : Observation, done : BOOLEAN] /\ NoVisit.done
        /\ NoEntry \in Entry /\ NoEntry.status # "stale"
    BY DEF NoVisit, NoEntry, Entry, Everyone, Observation
  <2>2. /\ age' = [v \in Version |-> Unknown] /\ elapsed' = age' /\ since' = 0 /\ left' = {}
        /\ visit' = NoVisit /\ matrix' = [h \in Everyone |-> NoEntry]
        /\ UNCHANGED <<copy, held, seen, settled>>
    BY <1>2 DEF Restart, store
  <2>3. TypeOK'
    BY <2>1, <2>2, Constants DEF Inv, TypeOK, Ticks
  <2> QED BY <2>1, <2>2, <2>3 DEF Inv, AnchorsWereSeen, ClocksAgree, FoundWasSeen, StaleIsBehind
<1>3. CASE Settle
  BY <1>3 DEF Settle, store, clock, Inv, TypeOK, AnchorsWereSeen, ClocksAgree, FoundWasSeen, StaleIsBehind
<1> QED BY <1>1, <1>2, <1>3 DEF Environment

LEMMA NextInv == Inv /\ [Next]_vars => Inv'
<1> SUFFICES ASSUME Inv, [Next]_vars PROVE Inv'
  OBVIOUS
<1>1. CASE UNCHANGED vars
  BY <1>1 DEF vars, Inv, TypeOK, AnchorsWereSeen, ClocksAgree, FoundWasSeen, StaleIsBehind
<1> QED BY <1>1, SweepStartInv, ObserveInv, RecordInv, TickInv, FetcherInv, EnvironmentInv
        DEF Next, Sweep

LEMMA Invariant == Spec => []Inv
  BY InvInit, NextInv, PTL DEF Spec

-----------------------------------------------------------------------------
(* The theorems.                                                           *)

\* The types hold in every reachable state.
THEOREM TypeCorrect == Spec => []TypeOK
<1>1. Inv => TypeOK
  BY DEF Inv
<1> QED BY Invariant, <1>1, PTL

\* The prober anchors nothing that the store has not seen.
THEOREM AnchorsAreSeen == Spec => []AnchorsWereSeen
<1>1. Inv => AnchorsWereSeen
  BY DEF Inv
<1> QED BY Invariant, <1>1, PTL

\* No false alarm: what the matrix calls stale lags behind a version that
\* this agent has seen.
THEOREM StaleIsAlwaysBehind == Spec => []StaleIsBehind
<1>1. Inv => StaleIsBehind
  BY DEF Inv
<1> QED BY Invariant, <1>1, PTL

\* Only a sweep's verdict and a restart change the matrix.
LEMMA MatrixChanges ==
  ASSUME Inv, [Next]_vars, NEW h \in Everyone, matrix'[h] # matrix[h]
  PROVE  Record \/ matrix'[h] = NoEntry
<1>1. CASE Sweep
  BY <1>1 DEF Sweep, SweepStart, ObserveRemote, ObserveSelf
<1>2. CASE Tick \/ Fetcher
  BY <1>2 DEF Tick, Fetcher, FetchNotes, FetchStores
<1>3. CASE Environment
  BY <1>3 DEF Environment, HolderChanges, Restart, Settle
<1> QED BY <1>1, <1>2, <1>3 DEF Next, vars

\* No missed lag: a copy that lags behind is called fresh only while the true
\* age of the version then highest exceeds the tolerance by no more than the
\* sweep has lasted.
THEOREM FreshIsAlwaysCurrent == Spec => FreshIsCurrent
<1>1. Inv /\ Inv' /\ [Next]_vars =>
        [\A h \in Everyone :
           matrix'[h] # matrix[h] /\ matrix'[h].fresh /\ matrix'[h].version < seen
             => age'[seen] # Unknown /\ age'[seen] <= Tolerance + since']_vars
  <2> SUFFICES ASSUME Inv, Inv', [Next]_vars, NEW h \in Everyone,
                      matrix'[h] # matrix[h], matrix'[h].fresh, matrix'[h].version < seen
               PROVE  age'[seen] # Unknown /\ age'[seen] <= Tolerance + since'
    OBVIOUS
  <2>1. Record
    BY MatrixChanges DEF NoEntry
  <2>2. seen \in Version /\ elapsed'[seen] # Unknown /\ elapsed'[seen] <= Tolerance
    BY <2>1, RecordVerdict DEF InGrace
  <2>3. /\ age'[seen] # Unknown /\ age'[seen] <= elapsed'[seen] + since'
        /\ age'[seen] \in Ticks /\ elapsed'[seen] \in Ticks /\ since' \in Nat
    BY <2>2 DEF Inv, ClocksAgree, TypeOK
  <2> QED BY <2>2, <2>3, Constants DEF Ticks
<1> QED BY Invariant, <1>1, PTL DEF Spec, FreshIsCurrent

\* The grace window as it is: a holder is called stale only when the version
\* then highest, with which the verdict compares, is truly out of its window.
\* The comment in probe.go promises a window to every version, which is more
\* (GraceIsGiven).
StaleIsLate ==
  [][\A h \in Everyone :
       matrix'[h] # matrix[h] /\ matrix'[h].status = "stale"
         => ~InGrace(age', seen)]_vars

\* Within the window of the highest version nobody is called stale.
THEOREM StaleIsAlwaysLate == Spec => StaleIsLate
<1>1. Inv /\ Inv' /\ [Next]_vars =>
        [\A h \in Everyone :
           matrix'[h] # matrix[h] /\ matrix'[h].status = "stale"
             => ~InGrace(age', seen)]_vars
  <2> SUFFICES ASSUME Inv, Inv', [Next]_vars, NEW h \in Everyone,
                      matrix'[h] # matrix[h], matrix'[h].status = "stale",
                      InGrace(age', seen)
               PROVE  FALSE
    OBVIOUS
  <2>1. Record
    BY MatrixChanges DEF NoEntry
  <2>2. seen \in Version /\ age'[seen] # Unknown /\ age'[seen] <= Tolerance
    BY DEF InGrace
  <2>3. /\ elapsed'[seen] # Unknown /\ elapsed'[seen] <= age'[seen]
        /\ age'[seen] \in Ticks /\ elapsed'[seen] \in Ticks
    BY <2>2 DEF Inv, ClocksAgree, TypeOK
  <2>4. elapsed'[seen] <= Tolerance
    BY <2>2, <2>3, Constants DEF Ticks
  <2> QED BY <2>1, <2>2, <2>3, <2>4, RecordVerdict DEF InGrace
<1> QED BY Invariant, <1>1, PTL DEF Spec, StaleIsLate

=============================================================================
