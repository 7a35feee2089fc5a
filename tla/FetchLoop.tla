------------------------------ MODULE FetchLoop ------------------------------
(***************************************************************************)
(* The fetch goroutine of one agent from start to stop: Fetcher.Run with   *)
(* its ticker and its queue of hints, SyncAll, the notification handler    *)
(* that fills the queue, and the registry that changes under both.         *)
(*                                                                         *)
(* Run chooses at random among the branches of its select that are ready.  *)
(* SyncMember is three steps here (ask, answer, store) for several members *)
(* at a time; module Replication has one member, request by request, and   *)
(* assumes of this loop that it calls SyncMember again and again.          *)
(***************************************************************************)
EXTENDS Naturals, Sequences

CONSTANTS
  Member,        \* everyone who is ever in the registry
  Stranger,      \* a well-formed member id that no registry lists
  MaxVersion,    \* bound on the versions published
  QueueCap,      \* capacity of Fetcher.kick (64 in the code)
  None

ASSUME FetchLoopAssumption ==
  /\ MaxVersion \in Nat
  /\ QueueCap \in Nat
  /\ Stranger \notin Member
  /\ None \notin Member \cup {Stranger}

VARIABLES
  reg,           \* the members of the registry in force
  origin,        \* origin[m]: the version m's sources offer, 0 for none
  reach,         \* reach[m]: some source of m's bundle answers
  held,          \* held[m]: the version in the store (durable)
  phase,         \* where Run is: "off", "sweep", "select", "kick"
  cancelled,     \* the context of Run is done
  todo,          \* the members SyncAll has still to visit
  call,          \* the SyncMember call in progress
  kicks,         \* the channel of hints
  tick,          \* the ticker's channel has its one tick
  owed           \* owed[m]: what the last sweep must have brought in of m

world == <<reg, origin, reach>>
vars == <<reg, origin, reach, held, phase, cancelled, todo, call, kicks, tick, owed>>

Version == 0..MaxVersion
Id == Member \cup {Stranger}

Call == [id : Member \cup {None}, best : Version]
NoCall == [id |-> None, best |-> 0]
Idle == call = NoCall
Nothing == [m \in Member |-> 0]

\* The version m's sources offer somebody who asks now.
Offered(m) == IF reach[m] THEN origin[m] ELSE 0

Init ==
  /\ reg \in SUBSET Member
  /\ origin = Nothing
  /\ reach = [m \in Member |-> TRUE]
  /\ held = Nothing
  /\ phase = "off"
  /\ cancelled = FALSE
  /\ todo = {}
  /\ call = NoCall
  /\ kicks = <<>>
  /\ tick = FALSE
  /\ owed = Nothing

-----------------------------------------------------------------------------
(* SyncMember: the member is looked up in the registry in force, its       *)
(* sources are asked, and the best answer is stored.                       *)

\* An id that is not registered (any more) makes the call return at once.
Called(id) == IF id \in reg THEN [NoCall EXCEPT !.id = id] ELSE NoCall

\* The call returns: to the next member of a sweep, or to the select.
Return ==
  /\ call' = NoCall
  /\ phase' = IF phase = "kick" THEN "select" ELSE phase

\* Variant of Failed: SyncAll gives up at the first member that fails.
FailedEndsSweep ==
  /\ call' = NoCall
  /\ phase' = IF phase = "kick" THEN "select" ELSE phase
  /\ todo' = {}

\* The call returns an error, which its caller only logs.
Failed == Return /\ UNCHANGED todo

\* A manifest above the one held was verified; the blobs follow.
Answered ==
  /\ ~Idle /\ call.best = 0 /\ ~cancelled
  /\ Offered(call.id) > held[call.id]
  /\ call' = [call EXCEPT !.best = Offered(call.id)]
  /\ UNCHANGED <<world, held, phase, cancelled, todo, kicks, tick, owed>>

\* Nothing newer is offered: the call returns without an error.
UpToDate ==
  /\ ~Idle /\ call.best = 0 /\ ~cancelled
  /\ Offered(call.id) \in 1..held[call.id]
  /\ Return
  /\ UNCHANGED <<world, held, cancelled, todo, kicks, tick, owed>>

\* Nobody answers, or every request fails because the context is done.
NoAnswer ==
  /\ ~Idle /\ call.best = 0
  /\ cancelled \/ Offered(call.id) = 0
  /\ Failed
  /\ UNCHANGED <<world, held, cancelled, kicks, tick, owed>>

\* The blobs do not come, or the disk refuses them.
StoreFails ==
  /\ call.best # 0
  /\ Failed
  /\ owed' = [owed EXCEPT ![call.id] = 0]
  /\ UNCHANGED <<world, held, cancelled, kicks, tick>>

\* Store.Put takes no context: it completes also after the cancellation.
Stored ==
  /\ call.best # 0
  /\ held' = [held EXCEPT ![call.id] = call.best]
  /\ Return
  /\ UNCHANGED <<world, cancelled, todo, kicks, tick, owed>>

SyncStep == Answered \/ UpToDate \/ NoAnswer \/ StoreFails \/ Stored

-----------------------------------------------------------------------------
(* Run and SyncAll.                                                        *)

\* Variant of Visited: members with a hint in the queue are left to it.
VisitedUnhinted == {m \in reg : \A i \in DOMAIN kicks : kicks[i] # m}

\* SyncAll goes over the members of the registry it finds when it begins.
Visited == reg

\* What a sweep that begins now has to bring in.
Sweep ==
  /\ phase' = "sweep"
  /\ todo' = Visited
  /\ owed' = [m \in Member |-> IF m \in reg /\ ~cancelled' THEN Offered(m) ELSE 0]

\* fetch.New and the immediate first sweep of Run.
Start ==
  /\ phase = "off"
  /\ cancelled' = FALSE
  /\ Sweep
  /\ call' = NoCall
  /\ kicks' = <<>>
  /\ tick' = FALSE
  /\ UNCHANGED <<world, held>>

\* The context is checked before every member; a failed one is skipped.
SweepNext ==
  /\ phase = "sweep" /\ Idle /\ ~cancelled
  /\ \E m \in todo : todo' = todo \ {m} /\ call' = Called(m)
  /\ UNCHANGED <<world, held, phase, cancelled, kicks, tick, owed>>

SweepEnd ==
  /\ phase = "sweep" /\ Idle
  /\ todo = {} \/ cancelled
  /\ phase' = "select"
  /\ todo' = {}
  /\ UNCHANGED <<world, held, cancelled, call, kicks, tick, owed>>

TakeTick ==
  /\ phase = "select" /\ tick
  /\ tick' = FALSE
  /\ UNCHANGED <<world, held, cancelled, call, kicks>>
  /\ Sweep

\* Variant of TakeKick: hints are served only when no tick is waiting.
TakeKickIdle ==
  /\ phase = "select" /\ kicks # <<>> /\ ~tick
  /\ kicks' = Tail(kicks)
  /\ call' = Called(Head(kicks))
  /\ phase' = IF Head(kicks) \in reg THEN "kick" ELSE "select"
  /\ UNCHANGED <<world, held, cancelled, todo, tick, owed>>

TakeKick ==
  /\ phase = "select" /\ kicks # <<>>
  /\ kicks' = Tail(kicks)
  /\ call' = Called(Head(kicks))
  /\ phase' = IF Head(kicks) \in reg THEN "kick" ELSE "select"
  /\ UNCHANGED <<world, held, cancelled, todo, tick, owed>>

\* The context is done: Run returns.
TakeDone ==
  /\ phase = "select" /\ cancelled
  /\ phase' = "off"
  /\ owed' = Nothing
  /\ UNCHANGED <<world, held, cancelled, todo, call, kicks, tick>>

Run == SweepNext \/ SweepEnd \/ TakeTick \/ TakeKick \/ TakeDone

-----------------------------------------------------------------------------
(* Everything else.                                                        *)

\* The ticker; a tick that finds the channel full is dropped.
Tick ==
  /\ phase # "off" /\ ~tick
  /\ tick' = TRUE
  /\ UNCHANGED <<world, held, phase, cancelled, todo, call, kicks, owed>>

\* Variant of Kick: a hint is queued although the queue is full.
KickAlways(id) == Len(kicks) <= QueueCap /\ kicks' = Append(kicks, id)

\* A full queue drops the hint.
Kick(id) == Len(kicks) < QueueCap /\ kicks' = Append(kicks, id)

\* serveNotify with a well-formed id, from anyone, as often as they like.
Notify(id) ==
  /\ phase # "off"
  /\ Kick(id)
  /\ UNCHANGED <<world, held, phase, cancelled, todo, call, tick, owed>>

\* A member publishes any version, or rolls its origin back.
Publish(m, v) ==
  /\ v # origin[m]
  /\ origin' = [origin EXCEPT ![m] = v]
  /\ owed' = [owed EXCEPT ![m] = IF @ < v THEN @ ELSE v]
  /\ UNCHANGED <<reg, reach, held, phase, cancelled, todo, call, kicks, tick>>

\* All sources of m go down or come back.
Toggle(m) ==
  /\ reach' = [reach EXCEPT ![m] = ~@]
  /\ owed' = [owed EXCEPT ![m] = 0]
  /\ UNCHANGED <<reg, origin, held, phase, cancelled, todo, call, kicks, tick>>

\* Another registry is put in force; it may come, go and come again.
Reload(r) ==
  /\ r # reg
  /\ reg' = r
  /\ owed' = [m \in Member |-> IF m \in r THEN owed[m] ELSE 0]
  /\ UNCHANGED <<origin, reach, held, phase, cancelled, todo, call, kicks, tick>>

Cancel ==
  /\ phase # "off" /\ ~cancelled
  /\ cancelled' = TRUE
  /\ owed' = Nothing
  /\ UNCHANGED <<world, held, phase, todo, call, kicks, tick>>

\* The process dies, or exits when Agent.Run returns, wherever the loop is.
Die ==
  /\ phase # "off"
  /\ phase' = "off"
  /\ todo' = {}
  /\ call' = NoCall
  /\ owed' = Nothing
  /\ UNCHANGED <<world, held, cancelled, kicks, tick>>

Environment ==
  \/ Tick
  \/ \E id \in Id : Notify(id)
  \/ \E m \in Member : Toggle(m) \/ \E v \in 1..MaxVersion : Publish(m, v)
  \/ \E r \in SUBSET Member : Reload(r)
  \/ Cancel
  \/ Die

Next == Start \/ SyncStep \/ Run \/ Environment

Spec == Init /\ [][Next]_vars

\* Requests are bounded by the client's timeout and time passes.  A select
\* picks uniformly among its ready branches, so a branch that is ready again
\* and again is taken with probability one: strong fairness of each.
Fairness ==
  /\ WF_vars(SyncStep)
  /\ WF_vars(SweepNext \/ SweepEnd)
  /\ WF_vars(Tick)
  /\ SF_vars(TakeTick)
  /\ SF_vars(TakeKick)

FairSpec == Spec /\ Fairness

-----------------------------------------------------------------------------
(* Properties.                                                             *)

\* Every variable stays in its type.
TypeOK ==
  /\ reg \subseteq Member
  /\ origin \in [Member -> Version]
  /\ reach \in [Member -> BOOLEAN]
  /\ held \in [Member -> Version]
  /\ phase \in {"off", "sweep", "select", "kick"}
  /\ cancelled \in BOOLEAN
  /\ todo \subseteq Member
  /\ call \in Call
  /\ kicks \in Seq(Id) /\ Len(kicks) <= QueueCap
  /\ tick \in BOOLEAN
  /\ owed \in [Member -> Version]

\* One sweep is enough: when it ends, every member that was registered and
\* reachable all the while is held in the version its sources had at the
\* beginning, or a newer one, whatever failed for other members, whatever the
\* registry did to them, and whichever hints were dropped (the comment of
\* Kick: "the regular poll will catch up - by design").
SweepSuffices ==
  phase \in {"select", "kick"} => \A m \in Member : held[m] >= owed[m]

\* A registered member is polled again and again, however many hints for
\* others keep coming in and however often the others fail: what Replication
\* assumes of the loop.
PolledForever ==
  \A m \in Member :
    <>[](phase # "off" /\ ~cancelled /\ m \in reg)
      => []<>(phase = "sweep" /\ call.id = m)

\* A hint that was accepted (202) for a member that stays registered leads to
\* a sync of its own, unless the agent stops: sweeps do not starve the queue.
HintIsHonoured ==
  \A m \in Member :
    (\E i \in DOMAIN kicks : kicks[i] = m)
      ~> (phase = "off" \/ cancelled \/ m \notin reg \/ (phase = "kick" /\ call.id = m))

=============================================================================
