-------------------------------- MODULE Demo --------------------------------
(***************************************************************************)
(* The demo (internal/demo) over a simulated wreath (internal/sim): the    *)
(* chaos loop that takes members dark in turn, the people who toggle       *)
(* origins and agents by hand, and the page of one member as a visitor     *)
(* reaches it, walking from the origin to the fallback of each peer.       *)
(*                                                                         *)
(* Server.mu is held while the switches are thrown, also while StopAgent   *)
(* waits for an agent to shut down.  The walk asks without it, but needs   *)
(* it to record its result before the visitor gets the page.               *)
(***************************************************************************)
EXTENDS Naturals, Sequences, SequencesExt

CONSTANTS
  Order,         \* the members, as a sequence in registry order
  Watched,       \* the member whose page is visited
  Origin         \* the endpoint of its own web server

Member == ToSet(Order)

ASSUME DemoAssumption ==
  /\ Order \in Seq(Member)
  /\ Watched \in Member
  /\ Origin \notin Member

VARIABLES
  down,          \* down[m]: m's origin plays dead
  agent,         \* agent[m]: m's agent is "up", "stopping" or "off"
  holds,         \* the agents that hold Watched's bundle
  mu,            \* who holds Server.mu across a StopAgent, or "free"
  chaos,         \* chaos is switched on
  loop,          \* where chaosLoop is: "gap", "chosen", "stopping", "outage"
  turn,          \* the position in Order of the next victim
  victim,        \* the member that chaosLoop deals with
  walk,          \* the endpoint the visitor's walk is at, 0 when none is under way
  page,          \* its result: "none" yet, "served" by walk, or the "dark" page
  touched,       \* (ghost) members a hand or a failed start interfered with
  steady         \* (ghost) endpoints that have answered since the walk began

switches == <<down, agent, mu>>
loopVars == <<loop, turn, victim>>
visit == <<walk, page>>
vars == <<switches, holds, chaos, loopVars, visit, touched, steady>>

\* The endpoints in the order of the simulated HTTPS records; the member's
\* own agent is not among them.
Own == CHOOSE i \in DOMAIN Order : Order[i] = Watched
Endpoints == <<Origin>> \o RemoveAt(Order, Own)

\* The endpoint answers a request for the page with 200.
Answers(e) == IF e = Origin THEN ~down[Watched] ELSE agent[e] = "up" /\ e \in holds
Answering == {e \in ToSet(Endpoints) : Answers(e)}

\* While the walk asks: endpoints that have answered since its start.
Watching ==
  steady' = CASE walk' = 0 \/ page' # "none" -> {}
              [] walk' # 0 /\ page' = "none" /\ walk = 0 -> Answering'
              [] OTHER -> steady \cap Answering'

Init ==
  /\ down = [m \in Member |-> FALSE]
  /\ agent = [m \in Member |-> "up"]
  /\ holds = {}
  /\ mu = "free"
  /\ chaos \in BOOLEAN
  /\ loop = "gap"
  /\ turn = 1
  /\ victim = Order[1]
  /\ walk = 0
  /\ page = "none"
  /\ touched = {}
  /\ steady = {}

-----------------------------------------------------------------------------
(* The simulator's switches.                                               *)

\* StartAgent: nothing when the agent runs.  Else it may fail, above all
\* because another socket has got the ephemeral port that StopAgent freed.
Started(m) ==
  \/ agent[m] # "off" /\ UNCHANGED agent
  \/ agent[m] = "off" /\ agent' = [agent EXCEPT ![m] = "up"]
  \/ agent[m] = "off" /\ UNCHANGED agent

\* StopAgent: the listener closes at once, the call returns when Run has;
\* meanwhile who holds the lock.
Stopping(m, who) ==
  IF agent[m] = "up"
    THEN agent' = [agent EXCEPT ![m] = "stopping"] /\ mu' = who
    ELSE UNCHANGED <<agent, mu>>

\* Agent.Run has returned and the caller of StopAgent drops the lock.
AgentStopped ==
  /\ \E m \in Member :
       agent[m] = "stopping" /\ agent' = [agent EXCEPT ![m] = "off"]
  /\ mu' = "free"
  /\ loop' = IF mu = "chaos" THEN "outage" ELSE loop
  /\ UNCHANGED <<down, holds, chaos, turn, victim, visit, touched>>

-----------------------------------------------------------------------------
(* chaosLoop.                                                              *)

\* The gap is over and chaos is on (else the loop waits another gap).
ChaosPick ==
  /\ loop = "gap" /\ mu = "free" /\ chaos
  /\ victim' = Order[turn]
  /\ turn' = (turn % Len(Order)) + 1
  /\ loop' = "chosen"
  /\ UNCHANGED <<switches, holds, chaos, visit, touched>>

\* Variant of ChaosStrike: the same member is tried again after the gap.
ChaosStrikeAgain ==
  /\ loop = "chosen" /\ mu = "free"
  /\ IF down[victim]
       THEN /\ loop' = "gap"
            /\ turn' = CHOOSE i \in DOMAIN Order : Order[i] = victim
            /\ UNCHANGED <<down, agent, mu>>
       ELSE /\ down' = [down EXCEPT ![victim] = TRUE]
            /\ Stopping(victim, "chaos")
            /\ loop' = IF agent[victim] = "up" THEN "stopping" ELSE "outage"
            /\ UNCHANGED turn
  /\ UNCHANGED <<holds, chaos, victim, visit, touched>>

\* Variant of ChaosStrike: a member whose agent is stopped is skipped, too.
ChaosStrikeRunning ==
  /\ loop = "chosen" /\ mu = "free"
  /\ IF down[victim] \/ agent[victim] = "off"
       THEN /\ loop' = "gap"
            /\ UNCHANGED <<down, agent, mu>>
       ELSE /\ down' = [down EXCEPT ![victim] = TRUE]
            /\ Stopping(victim, "chaos")
            /\ loop' = IF agent[victim] = "up" THEN "stopping" ELSE "outage"
  /\ UNCHANGED <<holds, chaos, turn, victim, visit, touched>>

\* setDark(victim, true): a member that is dark by hand is skipped.
ChaosStrike ==
  /\ loop = "chosen" /\ mu = "free"
  /\ IF down[victim]
       THEN /\ loop' = "gap"
            /\ UNCHANGED <<down, agent, mu>>
       ELSE /\ down' = [down EXCEPT ![victim] = TRUE]
            /\ Stopping(victim, "chaos")
            /\ loop' = IF agent[victim] = "up" THEN "stopping" ELSE "outage"
  /\ UNCHANGED <<holds, chaos, turn, victim, visit, touched>>

\* Variant of ChaosRestore: an outage during which chaos is switched off is
\* left as it is.
ChaosRestoreIfOn ==
  /\ loop = "outage" /\ mu = "free"
  /\ loop' = "gap"
  /\ IF down[victim] /\ chaos
       THEN /\ down' = [down EXCEPT ![victim] = FALSE]
            /\ Started(victim)
            /\ touched' = IF agent'[victim] = "up" THEN touched \ {victim}
                                                   ELSE touched \cup {victim}
       ELSE UNCHANGED <<down, agent, touched>>
  /\ UNCHANGED <<mu, holds, chaos, turn, victim, visit>>

\* setDark(victim, false) at the end of the outage: nothing happens, to the
\* agent neither, when a hand has revived the origin in the meantime.
ChaosRestore ==
  /\ loop = "outage" /\ mu = "free"
  /\ loop' = "gap"
  /\ IF down[victim]
       THEN /\ down' = [down EXCEPT ![victim] = FALSE]
            /\ Started(victim)
            /\ touched' = IF agent'[victim] = "up" THEN touched \ {victim}
                                                   ELSE touched \cup {victim}
       ELSE UNCHANGED <<down, agent, touched>>
  /\ UNCHANGED <<mu, holds, chaos, turn, victim, visit>>

ChaosLoop == ChaosPick \/ ChaosStrike \/ ChaosRestore

-----------------------------------------------------------------------------
(* The visitor: handleWalk.                                                *)

WalkStart ==
  /\ walk = 0
  /\ walk' = 1
  /\ UNCHANGED <<switches, holds, chaos, loopVars, page, touched>>

\* Variant of WalkAsk: the first endpoint that fails ends the walk.
WalkAskOnce ==
  /\ walk \in DOMAIN Endpoints /\ page = "none"
  /\ page' = IF Answers(Endpoints[walk]) THEN "served" ELSE "dark"
  /\ UNCHANGED <<switches, holds, chaos, loopVars, walk, touched>>

\* Variant of WalkAsk: behind the last endpoint the walk begins again.
WalkAskAround ==
  /\ walk \in DOMAIN Endpoints /\ page = "none"
  /\ IF Answers(Endpoints[walk])
       THEN page' = "served" /\ UNCHANGED walk
       ELSE walk' = (walk % Len(Endpoints)) + 1 /\ UNCHANGED page
  /\ UNCHANGED <<switches, holds, chaos, loopVars, touched>>

\* The next endpoint is asked: a 200 ends the walk, anything else moves it on.
WalkAsk ==
  /\ walk \in DOMAIN Endpoints /\ page = "none"
  /\ IF Answers(Endpoints[walk])
       THEN page' = "served" /\ UNCHANGED walk
       ELSE walk' = walk + 1 /\ UNCHANGED page
  /\ UNCHANGED <<switches, holds, chaos, loopVars, touched>>

\* No endpoint is left: the page says that the member is dark.
WalkNone ==
  /\ walk \notin DOMAIN Endpoints \cup {0} /\ page = "none"
  /\ page' = "dark"
  /\ UNCHANGED <<switches, holds, chaos, loopVars, walk, touched>>

\* The lock is taken for the record, and the visitor gets the page.
recordWalk ==
  /\ page # "none" /\ mu = "free"
  /\ walk' = 0
  /\ page' = "none"
  /\ UNCHANGED <<switches, holds, chaos, loopVars, touched>>

Walk == WalkStart \/ WalkAsk \/ WalkNone \/ recordWalk

-----------------------------------------------------------------------------
(* The hands at the dashboard, and the world around.                       *)

ToggleOrigin(m) ==
  /\ mu = "free"
  /\ down' = [down EXCEPT ![m] = ~@]
  /\ touched' = touched \cup {m}
  /\ UNCHANGED <<agent, mu, holds, chaos, loopVars, visit>>

ToggleAgent(m) ==
  /\ mu = "free"
  /\ IF agent[m] = "up" THEN Stopping(m, "hand") ELSE Started(m) /\ UNCHANGED mu
  /\ touched' = touched \cup {m}
  /\ UNCHANGED <<down, holds, chaos, loopVars, visit>>

ToggleChaos ==
  /\ mu = "free"
  /\ chaos' = ~chaos
  /\ UNCHANGED <<switches, holds, loopVars, visit, touched>>

\* A running agent gets Watched's bundle from the origin or from a peer.
Fetched(m) ==
  /\ agent[m] = "up" /\ m \notin holds
  /\ ~down[Watched] \/ \E h \in holds \ {m} : agent[h] = "up"
  /\ holds' = holds \cup {m}
  /\ UNCHANGED <<switches, chaos, loopVars, visit, touched>>

Hands == ToggleChaos \/ \E m \in Member : ToggleOrigin(m) \/ ToggleAgent(m)

World == \E m \in Member : Fetched(m)

Next ==
  /\ AgentStopped \/ ChaosLoop \/ Walk \/ Hands \/ World
  /\ Watching

Spec == Init /\ [][Next]_vars

\* The timers of the loop fire, an agent shuts down within its five seconds
\* also while a walk has not read its answer, requests end, and a mutex is in
\* the end given to everyone who waits for it.
Fairness ==
  /\ WF_vars(ChaosLoop /\ Watching)
  /\ WF_vars(AgentStopped /\ Watching)
  /\ SF_vars((WalkAsk \/ WalkNone \/ recordWalk) /\ Watching)

FairSpec == Spec /\ Fairness

-----------------------------------------------------------------------------
(* Properties.                                                             *)

\* Every variable stays in its type.
TypeOK ==
  /\ down \in [Member -> BOOLEAN]
  /\ agent \in [Member -> {"up", "stopping", "off"}]
  /\ holds \subseteq Member
  /\ mu \in {"free", "chaos", "hand"}
  /\ chaos \in BOOLEAN
  /\ loop \in {"gap", "chosen", "stopping", "outage"}
  /\ turn \in DOMAIN Order
  /\ victim \in Member
  /\ walk \in 0..(Len(Endpoints) + 1)
  /\ page \in {"none", "served", "dark"}
  /\ touched \subseteq Member
  /\ steady \subseteq ToSet(Endpoints)

\* A walk passes over an endpoint only if that failed at some moment of it, and
\* the page says that the member is dark only if no endpoint was there all the
\* time: no outage, restart or fetch in the middle of a walk hides a live one
\* (comment of handleWalk: "the first 200 wins").
WalkIsHonest ==
  [][page = "none" =>
       /\ page' = "served" => \A i \in 1..(walk - 1) : Endpoints[i] \notin steady
       /\ page' = "dark" => steady = {}]_vars

\* Every walk comes to an end and its visitor gets a page, although the lock is
\* needed for it that chaos and the hands hold while agents shut down.
VisitorIsAnswered == walk # 0 ~> walk = 0

\* The member that chaos keeps dark at present.
InOutage(m) == m = victim /\ loop \in {"stopping", "outage"}

\* Chaos leaves nothing behind: a member that is not its victim has a live
\* origin and a running agent, unless a hand or a failed start interfered, and
\* when it rests this holds of all (comment of chaosLoop: "then restores it").
ChaosCleansUp ==
  \A m \in Member \ touched :
    \/ ~down[m] /\ agent[m] = "up"
    \/ InOutage(m)

\* A hand at a switch, or a restart that fails.
Interference ==
  \/ Hands
  \/ ChaosRestore /\ down[victim] /\ agent'[victim] = "off"

\* Chaos stays on and nobody interferes any more.
LeftAlone == <>[]chaos /\ <>[][~Interference]_vars

\* Left alone with chaos, every member has its turn in the dark again and again,
\* also when others are kept dark by hand and skipped.
TakesTurns == LeftAlone => \A m \in Member : []<>down[m]

\* Left alone with chaos, every member that no hand has left dark is again and
\* again wholly alive: also an agent that a hand, an aborted outage or a failed
\* start has left stopped comes back with the member's next outage.
ComesBack ==
  LeftAlone => \A m \in Member :
    <>[](~down[m] \/ InOutage(m)) => []<>(~down[m] /\ agent[m] = "up")

=============================================================================
