----------------------------- MODULE DemoProofs -----------------------------
(***************************************************************************)
(* What Demo promises, for any number of members in any order.             *)
(***************************************************************************)
EXTENDS Demo, Integers, SequenceTheorems, TLAPS

LEMMA EndpointsAreASequence ==
  Endpoints \in Seq(ToSet(Endpoints)) /\ Len(Endpoints) \in Nat
<1>1. PICK p \in DOMAIN Order : Order[p] = Watched
  BY DemoAssumption DEF Member, ToSet
<1>2. Own \in DOMAIN Order
  BY <1>1 DEF Own
<1>3. DOMAIN Order = 1..Len(Order) /\ Len(Order) \in Nat
  BY DemoAssumption
<1>4. /\ SubSeq(Order, 1, Own - 1) \in Seq(Member)
      /\ SubSeq(Order, Own + 1, Len(Order)) \in Seq(Member)
  <2>1. \A i \in 1..Len(Order) : Order[i] \in Member
    BY <1>3, DemoAssumption
  <2>2. \A i \in 1..(Own - 1) : Order[i] \in Member
    BY <1>2, <1>3, <2>1
  <2>3. \A i \in (Own + 1)..Len(Order) : Order[i] \in Member
    BY <1>2, <1>3, <2>1
  <2> QED BY <1>2, <1>3, <2>2, <2>3, SubSeqProperties
<1> DEFINE S == Member \cup {Origin}
<1>5. Endpoints \in Seq(S)
  <2>1. RemoveAt(Order, Own) \in Seq(Member)
    BY <1>4, ConcatProperties DEF RemoveAt
  <2>2. RemoveAt(Order, Own) \in Seq(S)
    BY <2>1
  <2>3. <<Origin>> \in Seq(S)
    OBVIOUS
  <2> QED BY <2>2, <2>3, ConcatProperties DEF Endpoints
<1>6. DOMAIN Endpoints = 1..Len(Endpoints) /\ Len(Endpoints) \in Nat
  BY <1>5
<1> QED BY <1>5, <1>6 DEF ToSet

-----------------------------------------------------------------------------
(* The invariant.                                                          *)

\* The lock is held across a StopAgent exactly while an agent shuts down, and
\* by chaosLoop only for its victim; a hand has touched what it stops.
LockSound ==
  /\ loop = "stopping" => mu = "chaos"
  /\ mu = "chaos" => loop = "stopping"
  /\ \A m \in Member : agent[m] = "stopping" =>
       \/ mu = "chaos" /\ m = victim
       \/ mu = "hand" /\ m \in touched
  /\ \A m, k \in Member : agent[m] = "stopping" /\ agent[k] = "stopping" => m = k

\* The victim of an outage is dark, unless a hand has revived it.
OutageIsDark ==
  loop \in {"stopping", "outage"} => down[victim] \/ victim \in touched

\* Every endpoint that the walk has passed has failed.
PassedHasFailed == \A i \in 1..(walk - 1) : Endpoints[i] \notin steady

Inv == TypeOK /\ LockSound /\ OutageIsDark /\ ChaosCleansUp /\ PassedHasFailed

\* The members and the endpoints are indexed from one.
LEMMA Constants ==
  /\ DOMAIN Order = 1..Len(Order) /\ Len(Order) \in Nat \ {0}
  /\ DOMAIN Endpoints = 1..Len(Endpoints) /\ Len(Endpoints) \in Nat
  /\ \A i \in DOMAIN Order : Order[i] \in Member
<1>1. \E i \in DOMAIN Order : Order[i] = Watched
  BY DemoAssumption DEF Member, ToSet
<1>2. DOMAIN Order = 1..Len(Order) /\ Len(Order) \in Nat
  BY DemoAssumption
<1>3. DOMAIN Endpoints = 1..Len(Endpoints) /\ Len(Endpoints) \in Nat
  BY EndpointsAreASequence
<1>4. \A i \in DOMAIN Order : Order[i] \in Member
  BY DEF Member, ToSet
<1> QED BY <1>1, <1>2, <1>3, <1>4

LEMMA InvInit == ASSUME Init PROVE Inv
<1>1. TypeOK
  <2>1. 1 \in DOMAIN Order /\ Order[1] \in Member
    BY Constants
  <2>2. /\ down \in [Member -> BOOLEAN]
        /\ agent \in [Member -> {"up", "stopping", "off"}]
    BY DEF Init
  <2>3. 0 \in 0..(Len(Endpoints) + 1)
    BY Constants
  <2> QED BY <2>1, <2>2, <2>3 DEF Init, TypeOK
<1>2. LockSound /\ OutageIsDark /\ ChaosCleansUp /\ PassedHasFailed
  BY DEF Init, LockSound, OutageIsDark, ChaosCleansUp, InOutage, PassedHasFailed
<1> QED BY <1>1, <1>2 DEF Inv

-----------------------------------------------------------------------------
(* The walk.                                                               *)

\* What the record of steady endpoints may become.
LEMMA SteadyShrinks ==
  ASSUME TypeOK, Watching
  PROVE  /\ steady' \subseteq ToSet(Endpoints) /\ steady' \subseteq Answering'
         /\ walk # 0 => steady' \subseteq steady
<1>1. Answering' \subseteq ToSet(Endpoints)
  BY DEF Answering
<1>2. CASE walk' = 0 \/ page' # "none"
  BY <1>1, <1>2 DEF Watching
<1>3. CASE walk' # 0 /\ page' = "none" /\ walk = 0
  BY <1>1, <1>3 DEF Watching
<1>4. CASE walk' # 0 /\ page' = "none" /\ walk # 0
  BY <1>1, <1>4 DEF Watching, TypeOK
<1> QED BY <1>2, <1>3, <1>4

\* While the walk stands still, no endpoint becomes steady again.
LEMMA WalkStands ==
  ASSUME Inv, UNCHANGED visit, Watching
  PROVE  PassedHasFailed'
<1>1. CASE walk = 0
  BY <1>1 DEF visit, PassedHasFailed
<1>2. CASE walk # 0
  BY <1>2, SteadyShrinks DEF Inv, PassedHasFailed, visit
<1> QED BY <1>1, <1>2

LEMMA WalkInv == ASSUME Inv, Walk, Watching PROVE Inv'
<1>1. /\ TypeOK /\ LockSound /\ OutageIsDark /\ ChaosCleansUp /\ PassedHasFailed
      /\ walk \in Nat
  BY Constants DEF Inv, TypeOK
<1>2. UNCHANGED <<switches, holds, chaos, loopVars, touched>>
  BY DEF Walk, WalkStart, WalkAsk, WalkNone, recordWalk
<1>3. walk' \in 0..(Len(Endpoints) + 1) /\ page' \in {"none", "served", "dark"}
  <2>1. CASE WalkStart
    BY <1>1, <2>1, Constants DEF WalkStart, TypeOK
  <2>2. CASE WalkAsk
    BY <1>1, <2>2, Constants DEF WalkAsk, TypeOK
  <2>3. CASE WalkNone
    BY <1>1, <2>3, Constants DEF WalkNone, TypeOK
  <2>4. CASE recordWalk
    BY <1>1, <2>4, Constants DEF recordWalk, TypeOK
  <2> QED BY <2>1, <2>2, <2>3, <2>4 DEF Walk
<1>4. TypeOK'
  BY <1>1, <1>2, <1>3, SteadyShrinks DEF TypeOK, switches, loopVars
<1>5. LockSound' /\ OutageIsDark' /\ ChaosCleansUp'
  BY <1>1, <1>2 DEF LockSound, OutageIsDark, ChaosCleansUp, InOutage, switches, loopVars
<1>6. PassedHasFailed'
  <2>1. CASE walk' \in {0, 1}
    <3> SUFFICES ASSUME NEW k \in 1..(walk' - 1) PROVE FALSE
      BY DEF PassedHasFailed
    <3>1. walk' = 0 \/ walk' = 1
      BY <2>1
    <3>2. k \in Int /\ 1 <= k /\ k <= walk' - 1
      BY <3>1
    <3> QED BY <3>1, <3>2
  <2>2. CASE walk' = walk /\ walk # 0
    BY <1>1, <2>2, SteadyShrinks DEF PassedHasFailed
  <2>3. CASE walk \in DOMAIN Endpoints /\ walk' = walk + 1 /\ ~Answers(Endpoints[walk])
    <3>1. Endpoints[walk] \notin steady'
      <4>1. Endpoints[walk] \notin Answering
        BY <2>3 DEF Answering
      <4>2. Answering' = Answering
        BY <1>2 DEF Answering, Answers, switches
      <4> QED BY <1>1, <4>1, <4>2, SteadyShrinks
    <3>2. \A i \in 1..(walk - 1) : Endpoints[i] \notin steady'
      BY <1>1, <2>3, SteadyShrinks, Constants DEF PassedHasFailed
    <3> QED BY <1>1, <2>3, <3>1, <3>2 DEF PassedHasFailed
  <2> QED
    BY <1>1, <2>1, <2>2, <2>3, Constants DEF Walk, WalkStart, WalkAsk, WalkNone, recordWalk
<1> QED BY <1>4, <1>5, <1>6 DEF Inv

-----------------------------------------------------------------------------
(* The switches.                                                           *)

\* What StartAgent leaves behind.
LEMMA StartedIsSound ==
  ASSUME TypeOK, NEW m \in Member, Started(m)
  PROVE  /\ agent' \in [Member -> {"up", "stopping", "off"}]
         /\ \A k \in Member : k # m => agent'[k] = agent[k]
         /\ agent'[m] = "stopping" => agent[m] = "stopping"
BY DEF TypeOK, Started

\* What StopAgent leaves behind when it was called with the lock.
LEMMA StoppingIsSound ==
  ASSUME TypeOK, NEW m \in Member, NEW who \in {"chaos", "hand"}, mu = "free", Stopping(m, who)
  PROVE  /\ agent' \in [Member -> {"up", "stopping", "off"}] /\ mu' \in {"free", "chaos", "hand"}
         /\ \A k \in Member : k # m => agent'[k] = agent[k]
         /\ agent[m] = "up" => agent'[m] = "stopping" /\ mu' = who
         /\ agent[m] # "up" => agent' = agent /\ mu' = mu
BY DEF TypeOK, Stopping

LEMMA AgentStoppedInv == ASSUME Inv, AgentStopped, Watching PROVE Inv'
<1>1. TypeOK /\ LockSound /\ OutageIsDark /\ ChaosCleansUp /\ steady' \subseteq ToSet(Endpoints)
  BY SteadyShrinks DEF Inv
<1>2. PICK k \in Member : agent[k] = "stopping" /\ agent' = [agent EXCEPT ![k] = "off"]
  BY DEF AgentStopped
<1>3. /\ mu' = "free" /\ loop' = (IF mu = "chaos" THEN "outage" ELSE loop)
      /\ UNCHANGED <<down, holds, chaos, turn, victim, visit, touched>>
  BY DEF AgentStopped
<1>4. agent' \in [Member -> {"up", "stopping", "off"}] /\ loop' \in {"gap", "chosen", "stopping", "outage"}
  BY <1>1, <1>2, <1>3 DEF TypeOK
<1>5. TypeOK'
  BY <1>1, <1>3, <1>4 DEF visit, TypeOK
<1>6. agent'[k] = "off" /\ \A m \in Member : m # k => agent'[m] = agent[m]
  BY <1>1, <1>2 DEF TypeOK
<1>7. \/ mu = "chaos" /\ k = victim /\ loop = "stopping"
      \/ mu = "hand" /\ k \in touched /\ loop # "stopping"
  BY <1>1, <1>2 DEF LockSound
<1>8. \A m \in Member : agent'[m] # "stopping"
  BY <1>1, <1>2, <1>6 DEF LockSound
<1>9. LockSound' /\ OutageIsDark'
  BY <1>1, <1>3, <1>7, <1>8 DEF LockSound, OutageIsDark
<1>10. ChaosCleansUp'
  BY <1>1, <1>3, <1>6, <1>7 DEF ChaosCleansUp, InOutage
<1> QED BY <1>3, <1>5, <1>9, <1>10, WalkStands DEF Inv

LEMMA ChaosPickInv == ASSUME Inv, ChaosPick, Watching PROVE Inv'
<1>1. TypeOK /\ LockSound /\ OutageIsDark /\ ChaosCleansUp /\ steady' \subseteq ToSet(Endpoints)
  BY SteadyShrinks DEF Inv
<1>2. /\ loop = "gap" /\ mu = "free" /\ loop' = "chosen"
      /\ victim' = Order[turn] /\ turn' = (turn % Len(Order)) + 1
      /\ UNCHANGED <<switches, holds, chaos, visit, touched>>
  BY DEF ChaosPick
<1>3. turn' \in DOMAIN Order /\ victim' \in Member
  BY <1>1, <1>2, Constants DEF TypeOK
<1>4. TypeOK'
  BY <1>1, <1>2, <1>3 DEF visit, TypeOK, switches
<1>5. LockSound' /\ OutageIsDark' /\ ChaosCleansUp'
  BY <1>1, <1>2 DEF LockSound, OutageIsDark, ChaosCleansUp, InOutage, switches
<1> QED BY <1>2, <1>4, <1>5, WalkStands DEF Inv

LEMMA ChaosStrikeInv == ASSUME Inv, ChaosStrike, Watching PROVE Inv'
<1>1. TypeOK /\ LockSound /\ OutageIsDark /\ ChaosCleansUp /\ steady' \subseteq ToSet(Endpoints)
  BY SteadyShrinks DEF Inv
<1>2. /\ loop = "chosen" /\ mu = "free" /\ victim \in Member
      /\ UNCHANGED <<holds, chaos, turn, victim, visit, touched>>
  BY <1>1 DEF ChaosStrike, TypeOK
<1>3. CASE down[victim]
  <2>1. loop' = "gap" /\ UNCHANGED <<down, agent, mu>>
    BY <1>3 DEF ChaosStrike
  <2>2. TypeOK'
    BY <1>1, <1>2, <2>1 DEF visit, TypeOK
  <2>3. LockSound' /\ OutageIsDark' /\ ChaosCleansUp'
    BY <1>1, <1>2, <2>1 DEF LockSound, OutageIsDark, ChaosCleansUp, InOutage
  <2> QED BY <1>2, <2>2, <2>3, WalkStands DEF Inv
<1>4. CASE ~down[victim]
  <2>1. /\ down' = [down EXCEPT ![victim] = TRUE] /\ Stopping(victim, "chaos")
        /\ loop' = IF agent[victim] = "up" THEN "stopping" ELSE "outage"
    BY <1>4 DEF ChaosStrike
  <2>2. /\ down' \in [Member -> BOOLEAN] /\ down'[victim]
        /\ \A m \in Member : m # victim => down'[m] = down[m]
    BY <1>1, <1>2, <2>1 DEF TypeOK
  <2>3. /\ agent' \in [Member -> {"up", "stopping", "off"}] /\ mu' \in {"free", "chaos", "hand"}
        /\ \A k \in Member : k # victim => agent'[k] = agent[k]
        /\ agent[victim] = "up" => agent'[victim] = "stopping" /\ mu' = "chaos"
        /\ agent[victim] # "up" => agent' = agent /\ mu' = mu
    BY <1>1, <1>2, <2>1, StoppingIsSound
  <2>4. TypeOK'
    BY <1>1, <1>2, <2>1, <2>2, <2>3 DEF visit, TypeOK
  <2>5. \A m \in Member : agent[m] # "stopping"
    BY <1>1, <1>2 DEF LockSound
  <2>6. LockSound'
    BY <1>2, <2>1, <2>3, <2>5 DEF LockSound
  <2>7. OutageIsDark' /\ ChaosCleansUp'
    BY <1>1, <1>2, <2>1, <2>2, <2>3 DEF OutageIsDark, ChaosCleansUp, InOutage
  <2> QED BY <1>2, <2>4, <2>6, <2>7, WalkStands DEF Inv
<1> QED BY <1>3, <1>4

LEMMA ChaosRestoreInv == ASSUME Inv, ChaosRestore, Watching PROVE Inv'
<1>1. TypeOK /\ LockSound /\ OutageIsDark /\ ChaosCleansUp /\ steady' \subseteq ToSet(Endpoints)
  BY SteadyShrinks DEF Inv
<1>2. /\ loop = "outage" /\ mu = "free" /\ victim \in Member /\ loop' = "gap"
      /\ UNCHANGED <<mu, holds, chaos, turn, victim, visit>>
  BY <1>1 DEF ChaosRestore, TypeOK
<1>3. CASE ~down[victim]
  <2>1. UNCHANGED <<down, agent, touched>>
    BY <1>3 DEF ChaosRestore
  <2>2. TypeOK'
    BY <1>1, <1>2, <2>1 DEF visit, TypeOK
  <2>3. LockSound' /\ OutageIsDark' /\ ChaosCleansUp'
    BY <1>1, <1>2, <1>3, <2>1 DEF LockSound, OutageIsDark, ChaosCleansUp, InOutage
  <2> QED BY <1>2, <2>2, <2>3, WalkStands DEF Inv
<1>4. CASE down[victim]
  <2>1. /\ down' = [down EXCEPT ![victim] = FALSE] /\ Started(victim)
        /\ touched' = IF agent'[victim] = "up" THEN touched \ {victim} ELSE touched \cup {victim}
    BY <1>4 DEF ChaosRestore
  <2>2. /\ down' \in [Member -> BOOLEAN] /\ ~down'[victim]
        /\ \A m \in Member : m # victim => down'[m] = down[m]
    BY <1>1, <1>2, <2>1 DEF TypeOK
  <2>3. /\ agent' \in [Member -> {"up", "stopping", "off"}]
        /\ \A k \in Member : k # victim => agent'[k] = agent[k]
        /\ agent'[victim] = "stopping" => agent[victim] = "stopping"
    BY <1>1, <1>2, <2>1, StartedIsSound
  <2>4. TypeOK'
    BY <1>1, <1>2, <2>1, <2>2, <2>3 DEF visit, TypeOK
  <2>5. LockSound' /\ OutageIsDark'
    BY <1>1, <1>2, <2>3 DEF LockSound, OutageIsDark
  <2>6. ChaosCleansUp'
    BY <1>1, <1>2, <2>1, <2>2, <2>3 DEF ChaosCleansUp, InOutage
  <2> QED BY <1>2, <2>4, <2>5, <2>6, WalkStands DEF Inv
<1> QED BY <1>3, <1>4

LEMMA HandsInv == ASSUME Inv, Hands, Watching PROVE Inv'
<1>1. TypeOK /\ LockSound /\ OutageIsDark /\ ChaosCleansUp /\ steady' \subseteq ToSet(Endpoints)
  BY SteadyShrinks DEF Inv
<1>2. CASE ToggleChaos
  <2>1. /\ chaos' \in BOOLEAN
        /\ UNCHANGED <<switches, holds, loopVars, visit, touched>>
    BY <1>1, <1>2 DEF ToggleChaos, TypeOK
  <2>2. TypeOK' /\ LockSound' /\ OutageIsDark' /\ ChaosCleansUp'
    BY <1>1, <2>1
    DEF visit, TypeOK, LockSound, OutageIsDark, ChaosCleansUp, InOutage, switches, loopVars
  <2> QED BY <2>1, <2>2, WalkStands DEF Inv
<1>3. ASSUME NEW k \in Member, ToggleOrigin(k) PROVE Inv'
  <2>1. /\ mu = "free" /\ down' = [down EXCEPT ![k] = ~@] /\ touched' = touched \cup {k}
        /\ UNCHANGED <<agent, mu, holds, chaos, loop, turn, victim, visit>>
    BY <1>3 DEF ToggleOrigin, loopVars
  <2>2. /\ down' \in [Member -> BOOLEAN]
        /\ \A m \in Member : m # k => down'[m] = down[m]
    BY <1>1, <2>1 DEF TypeOK
  <2>3. TypeOK'
    BY <1>1, <2>1, <2>2 DEF visit, TypeOK
  <2>4. LockSound' /\ OutageIsDark' /\ ChaosCleansUp'
    BY <1>1, <2>1, <2>2 DEF TypeOK, LockSound, OutageIsDark, ChaosCleansUp, InOutage
  <2> QED BY <2>1, <2>3, <2>4, WalkStands DEF Inv
<1>4. ASSUME NEW k \in Member, ToggleAgent(k) PROVE Inv'
  <2>1. /\ mu = "free" /\ touched' = touched \cup {k}
        /\ UNCHANGED <<down, holds, chaos, loop, turn, victim, visit>>
        /\ Stopping(k, "hand") \/ (Started(k) /\ mu' = mu)
    BY <1>4 DEF ToggleAgent, loopVars
  <2>2. /\ agent' \in [Member -> {"up", "stopping", "off"}] /\ mu' \in {"free", "chaos", "hand"}
        /\ \A m \in Member : m # k => agent'[m] = agent[m]
    BY <1>1, <2>1, StartedIsSound, StoppingIsSound DEF TypeOK
  <2>3. \A m \in Member : agent[m] # "stopping"
    BY <1>1, <2>1 DEF LockSound
  <2>4. (agent'[k] = "stopping" => mu' = "hand") /\ mu' # "chaos"
    BY <1>1, <2>1, <2>3, StartedIsSound, StoppingIsSound DEF TypeOK
  <2>5. TypeOK'
    BY <1>1, <2>1, <2>2 DEF visit, TypeOK
  <2>6. LockSound' /\ OutageIsDark' /\ ChaosCleansUp'
    BY <1>1, <2>1, <2>2, <2>3, <2>4 DEF LockSound, OutageIsDark, ChaosCleansUp, InOutage
  <2> QED BY <2>1, <2>5, <2>6, WalkStands DEF Inv
<1> QED BY <1>2, <1>3, <1>4 DEF Hands

LEMMA WorldInv == ASSUME Inv, World, Watching PROVE Inv'
<1>1. TypeOK /\ LockSound /\ OutageIsDark /\ ChaosCleansUp /\ steady' \subseteq ToSet(Endpoints)
  BY SteadyShrinks DEF Inv
<1>2. /\ holds' \subseteq Member
      /\ UNCHANGED <<switches, chaos, loopVars, visit, touched>>
  BY <1>1 DEF World, Fetched, TypeOK
<1>3. TypeOK' /\ LockSound' /\ OutageIsDark' /\ ChaosCleansUp'
  BY <1>1, <1>2 DEF visit, TypeOK, LockSound, OutageIsDark, ChaosCleansUp, InOutage, switches, loopVars
<1> QED BY <1>2, <1>3, WalkStands DEF Inv

LEMMA NextInv == ASSUME Inv, [Next]_vars PROVE Inv'
<1>1. CASE UNCHANGED vars
  BY <1>1 DEF visit, Inv, TypeOK, LockSound, OutageIsDark, ChaosCleansUp, InOutage, PassedHasFailed,
     vars, switches, loopVars
<1> QED BY <1>1, AgentStoppedInv, ChaosPickInv, ChaosStrikeInv, ChaosRestoreInv, WalkInv,
        HandsInv, WorldInv DEF Next, ChaosLoop

LEMMA Invariant == Spec => []Inv
BY InvInit, NextInv, PTL DEF Spec

-----------------------------------------------------------------------------
(* The theorems.                                                           *)

\* Every variable of the demo stays in its type.
THEOREM TypeCorrect == Spec => []TypeOK
<1>1. Inv => TypeOK
  BY DEF Inv
<1> QED BY <1>1, Invariant, PTL

\* Whatever the hands do between the steps of the chaos loop, and whichever
\* restarts fail, a member that none of them interfered with is dark only as
\* the victim of the outage under way.
THEOREM ChaosAlwaysCleansUp == Spec => []ChaosCleansUp
<1>1. Inv => ChaosCleansUp
  BY DEF Inv
<1> QED BY <1>1, Invariant, PTL

\* No walk, however the switches are thrown during it, passes over an endpoint
\* that answered all the while, and none ends with the dark page while there is
\* such an endpoint.
THEOREM WalkIsAlwaysHonest == Spec => WalkIsHonest
<1> DEFINE Honest ==
      page = "none" =>
        /\ page' = "served" => \A i \in 1..(walk - 1) : Endpoints[i] \notin steady
        /\ page' = "dark" => steady = {}
<1>1. ASSUME Inv, [Next]_vars PROVE Honest
  <2>1. /\ TypeOK /\ PassedHasFailed
        /\ walk \in 0..(Len(Endpoints) + 1) /\ steady \subseteq ToSet(Endpoints)
    BY <1>1 DEF Inv, TypeOK
  <2>2. ASSUME page = "none", page' = "dark" PROVE steady = {}
    <3>1. WalkNone
      BY <1>1, <2>2 DEF Next, vars, visit, Walk, WalkStart, WalkAsk, recordWalk, AgentStopped,
         ChaosLoop, ChaosPick, ChaosStrike, ChaosRestore, Hands, ToggleChaos, ToggleOrigin,
         ToggleAgent, World, Fetched
    <3>2. walk = Len(Endpoints) + 1
      BY <2>1, <3>1, Constants DEF WalkNone
    <3>3. \A i \in DOMAIN Endpoints : Endpoints[i] \notin steady
      BY <2>1, <3>2, Constants DEF PassedHasFailed
    <3> QED BY <2>1, <3>3 DEF ToSet
  <2> QED BY <2>1, <2>2 DEF PassedHasFailed
<1> QED BY <1>1, Invariant, PTL DEF Spec, WalkIsHonest

=============================================================================
