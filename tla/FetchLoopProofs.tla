--------------------------- MODULE FetchLoopProofs ---------------------------
(***************************************************************************)
(* What FetchLoop promises, for any set of members, any bound on versions  *)
(* and any capacity of the queue.                                          *)
(***************************************************************************)
EXTENDS FetchLoop, TLAPS

\* A sweep owes something only of members that were registered and reachable
\* all the while, and the running context is not done.
Owing ==
  \A m \in Member : owed[m] # 0 =>
    /\ ~cancelled
    /\ m \in reg
    /\ reach[m]
    /\ owed[m] <= origin[m]

\* A call that found something newer carries it to the store.
CallSound ==
  /\ call.id = None => call.best = 0
  /\ call.best # 0 => call.best > held[call.id]

\* In the middle of a sweep, what is still owed is still to come.
StillToCome ==
  phase = "sweep" =>
    \A m \in Member :
      \/ held[m] >= owed[m]
      \/ m \in todo
      \/ call.id = m /\ (call.best # 0 => call.best >= owed[m])

\* No call is in progress when the loop is off or waits in its select.
AtRest == phase \in {"off", "select"} => call = NoCall

Inv == TypeOK /\ Owing /\ CallSound /\ StillToCome /\ AtRest /\ SweepSuffices

LEMMA Constants ==
  /\ MaxVersion \in Nat /\ QueueCap \in Nat
  /\ None \notin Member
  /\ NoCall \in Call
  /\ Nothing \in [Member -> Version]
  /\ \A v \in Version : v \in Nat
BY FetchLoopAssumption DEF NoCall, Call, Nothing, Version

LEMMA InvInit == ASSUME Init PROVE Inv
<1>1. /\ \A m \in Member : held[m] = 0 /\ owed[m] = 0
      /\ held \in [Member -> Version] /\ owed \in [Member -> Version]
      /\ origin \in [Member -> Version]
  BY Constants DEF Init, Nothing
<1>2. kicks \in Seq(Id) /\ Len(kicks) <= QueueCap
  BY Constants DEF Init
<1>3. TypeOK
  BY <1>1, <1>2, Constants DEF Init, TypeOK
<1>4. Owing /\ SweepSuffices /\ StillToCome
  BY <1>1 DEF Init, Owing, SweepSuffices, StillToCome
<1>5. CallSound /\ AtRest
  BY Constants DEF Init, CallSound, AtRest, NoCall
<1> QED BY <1>3, <1>4, <1>5 DEF Inv

\* What somebody who asks now is told.
LEMMA OfferedIsVersion ==
  ASSUME TypeOK, NEW m \in Member
  PROVE  Offered(m) \in Version /\ (Offered(m) # 0 => reach[m] /\ Offered(m) = origin[m])
BY Constants DEF TypeOK, Offered, Version

\* The steps of a SyncMember call.
LEMMA SyncInv == ASSUME Inv, SyncStep PROVE Inv'
<1>1. TypeOK /\ Owing /\ CallSound /\ StillToCome /\ AtRest /\ SweepSuffices
  BY DEF Inv
<1>2. /\ held \in [Member -> Version] /\ owed \in [Member -> Version]
      /\ origin \in [Member -> Version] /\ call \in Call
      /\ \A m \in Member : held[m] \in Nat /\ owed[m] \in Nat /\ origin[m] \in Nat
      /\ call.best \in Version /\ call.best \in Nat
      /\ call.id \in Member \cup {None}
  BY <1>1, Constants DEF TypeOK, Call
<1>3. CASE Answered
  <2>1. call.id \in Member
    BY <1>2, <1>3 DEF Answered, Idle, NoCall, Call
  <2> DEFINE new == [call EXCEPT !.best = Offered(call.id)]
  <2>2. Offered(call.id) \in Version /\ Offered(call.id) \in Nat /\ Offered(call.id) > held[call.id]
    BY <1>1, <1>3, <2>1, OfferedIsVersion, Constants DEF Answered
  <2>3. new \in Call /\ new.id = call.id /\ new.best = Offered(call.id)
    BY <1>2, <2>2 DEF Call
  <2>4. owed[call.id] <= Offered(call.id)
    BY <1>1, <1>2, <2>1, <2>2 DEF Owing, Offered
  <2>5. call' = new /\ UNCHANGED <<world, held, phase, cancelled, todo, kicks, tick, owed>>
    BY <1>3 DEF Answered
  <2> HIDE DEF new
  <2>6. TypeOK' /\ Owing' /\ SweepSuffices'
    BY <1>1, <2>3, <2>5 DEF TypeOK, Owing, SweepSuffices, world, Call
  <2>7. CallSound'
    BY <1>2, <2>1, <2>2, <2>3, <2>5, Constants DEF CallSound
  <2>8. StillToCome'
    BY <1>1, <1>2, <2>3, <2>4, <2>5 DEF StillToCome
  <2>9. AtRest'
    BY <1>1, <1>3, <2>5 DEF AtRest, Answered, Idle
  <2> QED BY <2>6, <2>7, <2>8, <2>9 DEF Inv
<1>4. ASSUME Return, UNCHANGED <<world, held, cancelled, todo, kicks, tick>>,
             owed' \in [Member -> Version],
             \A m \in Member : owed'[m] = owed[m] \/ owed'[m] = 0,
             call.id \in Member,
             held[call.id] >= owed'[call.id]
      PROVE  Inv'
  <2>1. TypeOK'
    BY <1>1, <1>4, Constants DEF TypeOK, Return, world
  <2>2. Owing'
    BY <1>1, <1>4 DEF Owing, world
  <2>3. CallSound'
    BY <1>4 DEF CallSound, Return, NoCall
  <2>4. ASSUME NEW m \in Member, held[m] >= owed[m] PROVE held'[m] >= owed'[m]
    BY <1>2, <1>4, <2>4
  <2>5. SweepSuffices'
    <3> SUFFICES ASSUME phase' \in {"select", "kick"}, NEW m \in Member
                 PROVE  held'[m] >= owed'[m]
      BY DEF SweepSuffices
    <3>1. phase \in {"select", "kick"}
      BY <1>1, <1>4 DEF Return, TypeOK
    <3> QED BY <1>1, <2>4, <3>1 DEF SweepSuffices
  <2>6. StillToCome'
    <3> SUFFICES ASSUME phase' = "sweep", NEW m \in Member
                 PROVE  held'[m] >= owed'[m] \/ m \in todo'
      BY DEF StillToCome
    <3>1. phase = "sweep"
      BY <1>4 DEF Return
    <3>2. CASE call.id = m
      BY <1>4, <3>2
    <3>3. CASE call.id # m
      BY <1>1, <1>4, <2>4, <3>1, <3>3 DEF StillToCome
    <3> QED BY <3>2, <3>3
  <2>7. AtRest'
    BY <1>4 DEF AtRest, Return
  <2> QED BY <2>1, <2>2, <2>3, <2>5, <2>6, <2>7 DEF Inv
<1>5. CASE UpToDate
  <2>1. call.id \in Member
    BY <1>2, <1>5 DEF UpToDate, Idle, NoCall, Call
  <2>2. Offered(call.id) # 0 /\ Offered(call.id) <= held[call.id]
    BY <1>2, <1>5, <2>1 DEF UpToDate
  <2>3. held[call.id] >= owed[call.id]
    BY <1>1, <1>2, <2>1, <2>2, OfferedIsVersion DEF Owing
  <2> QED BY <1>2, <1>4, <1>5, <2>1, <2>3 DEF UpToDate
<1>6. CASE NoAnswer
  <2>1. call.id \in Member
    BY <1>2, <1>6 DEF NoAnswer, Idle, NoCall, Call
  <2>2. owed[call.id] = 0
    BY <1>1, <1>2, <1>6, <2>1 DEF NoAnswer, Owing, Offered
  <2> QED BY <1>2, <1>4, <1>6, <2>1, <2>2 DEF NoAnswer, Failed
<1>7. CASE StoreFails
  <2>1. call.id \in Member
    BY <1>1, <1>2, <1>7 DEF StoreFails, CallSound
  <2>2. owed' = [owed EXCEPT ![call.id] = 0]
    BY <1>7 DEF StoreFails
  <2>3. /\ owed' \in [Member -> Version] /\ owed'[call.id] = 0
        /\ \A m \in Member : owed'[m] = owed[m] \/ owed'[m] = 0
    BY <1>2, <2>1, <2>2, Constants DEF Version
  <2> QED BY <1>2, <1>4, <1>7, <2>1, <2>3 DEF StoreFails, Failed
<1>8. CASE Stored
  <2>1. call.id \in Member /\ call.best > held[call.id]
    BY <1>1, <1>2, <1>8 DEF Stored, CallSound
  <2>2. /\ held' = [held EXCEPT ![call.id] = call.best] /\ Return
        /\ UNCHANGED <<world, cancelled, todo, kicks, tick, owed>>
    BY <1>8 DEF Stored
  <2>3. /\ held' \in [Member -> Version]
        /\ \A m \in Member : held'[m] >= held[m]
        /\ held'[call.id] = call.best
    BY <1>2, <2>1, <2>2
  <2>4. TypeOK'
    BY <1>1, <2>2, <2>3, Constants DEF TypeOK, Return, world
  <2>5. Owing' /\ CallSound' /\ AtRest'
    BY <1>1, <2>2, Constants DEF Owing, CallSound, AtRest, Return, NoCall, world, TypeOK
  <2>6. SweepSuffices'
    <3>1. phase' \in {"select", "kick"} => phase = "kick" \/ phase = "select"
      BY <1>1, <2>2 DEF Return, TypeOK
    <3> QED BY <1>1, <1>2, <2>2, <2>3, <3>1, Constants DEF SweepSuffices
  <2>7. StillToCome'
    <3>1. ASSUME phase' = "sweep", NEW m \in Member PROVE held'[m] >= owed'[m] \/ m \in todo'
      <4>1. phase = "sweep"
        BY <2>2, <3>1 DEF Return
      <4>2. CASE held[m] >= owed[m] \/ m \in todo
        BY <1>2, <2>2, <2>3, <4>2, Constants
      <4>3. CASE call.id = m /\ (call.best # 0 => call.best >= owed[m])
        BY <1>8, <2>2, <2>3, <4>3 DEF Stored
      <4> QED BY <1>1, <4>1, <4>2, <4>3 DEF StillToCome
    <3> QED BY <3>1 DEF StillToCome
  <2> QED BY <2>4, <2>5, <2>6, <2>7 DEF Inv
<1> QED BY <1>3, <1>5, <1>6, <1>7, <1>8 DEF SyncStep

-----------------------------------------------------------------------------
(* The loop.                                                               *)

\* A call that begins is for a registered member, or there is none.
LEMMA CalledIsCall ==
  ASSUME TypeOK, NEW id
  PROVE  /\ Called(id) \in Call /\ Called(id).best = 0
         /\ id \in reg => Called(id).id = id
         /\ id \notin reg => Called(id) = NoCall
BY Constants DEF TypeOK, Called, NoCall, Call, Version

LEMMA SweepNextInv == ASSUME Inv, SweepNext PROVE Inv'
<1>1. TypeOK /\ Owing /\ CallSound /\ StillToCome /\ AtRest /\ SweepSuffices
  BY DEF Inv
<1>2. PICK k \in todo : todo' = todo \ {k} /\ call' = Called(k)
  BY DEF SweepNext
<1>3. phase = "sweep" /\ call = NoCall
      /\ UNCHANGED <<world, held, phase, cancelled, kicks, tick, owed>>
  BY DEF SweepNext, Idle
<1>4. TypeOK'
  BY <1>1, <1>2, <1>3, CalledIsCall DEF TypeOK, world
<1>5. Owing' /\ SweepSuffices' /\ AtRest'
  BY <1>1, <1>3 DEF Owing, SweepSuffices, AtRest, world
<1>6. CallSound'
  BY <1>1, <1>2, CalledIsCall DEF CallSound
<1>7. StillToCome'
  <2> SUFFICES ASSUME NEW m \in Member
               PROVE  held[m] >= owed[m] \/ m \in todo' \/ (call'.id = m /\ call'.best = 0)
    BY <1>3 DEF StillToCome
  <2>1. held[m] >= owed[m] \/ m \in todo
    BY <1>1, <1>3, Constants DEF StillToCome, NoCall
  <2>2. m \notin reg => held[m] >= owed[m]
    BY <1>1, Constants DEF Owing, TypeOK
  <2> QED BY <1>1, <1>2, <2>1, <2>2, CalledIsCall
<1> QED BY <1>4, <1>5, <1>6, <1>7 DEF Inv

LEMMA SweepEndInv == ASSUME Inv, SweepEnd PROVE Inv'
<1>1. TypeOK /\ Owing /\ CallSound /\ StillToCome /\ AtRest /\ SweepSuffices
  BY DEF Inv
<1>2. /\ phase = "sweep" /\ call = NoCall /\ (todo = {} \/ cancelled)
      /\ phase' = "select" /\ todo' = {}
      /\ UNCHANGED <<world, held, cancelled, call, kicks, tick, owed>>
  BY DEF SweepEnd, Idle
<1>3. TypeOK' /\ Owing' /\ CallSound' /\ StillToCome' /\ AtRest'
  BY <1>1, <1>2 DEF TypeOK, Owing, CallSound, StillToCome, AtRest, world
<1>4. ASSUME NEW m \in Member PROVE held[m] >= owed[m]
  <2>1. CASE todo = {}
    BY <1>1, <1>2, <2>1, Constants DEF StillToCome, NoCall
  <2>2. CASE cancelled
    BY <1>1, <2>2, Constants DEF Owing, TypeOK
  <2> QED BY <1>2, <2>1, <2>2
<1> QED BY <1>2, <1>3, <1>4 DEF Inv, SweepSuffices

\* A sweep owes what its members' sources offer when it begins.
LEMMA SweepInv ==
  ASSUME Inv, Sweep, call' = NoCall, UNCHANGED <<world, held>>,
         kicks' \in Seq(Id) /\ Len(kicks') <= QueueCap,
         tick' \in BOOLEAN, cancelled' \in BOOLEAN
  PROVE  Inv'
<1>1. TypeOK
  BY DEF Inv
<1>2. /\ phase' = "sweep" /\ todo' = reg
      /\ owed' = [m \in Member |-> IF m \in reg /\ ~cancelled' THEN Offered(m) ELSE 0]
  BY DEF Sweep, Visited
<1>3. /\ owed' \in [Member -> Version]
      /\ \A m \in Member : owed'[m] # 0 =>
           m \in reg /\ ~cancelled' /\ reach[m] /\ owed'[m] = origin[m]
  BY <1>1, <1>2, OfferedIsVersion, Constants DEF Version
<1>4. \A m \in Member : held[m] \in Nat /\ origin[m] \in Nat
  BY <1>1, Constants DEF TypeOK
<1>5. TypeOK'
  BY <1>1, <1>2, <1>3, Constants DEF TypeOK, world
<1>6. Owing'
  BY <1>3, <1>4 DEF Owing, world
<1>7. CallSound' /\ AtRest' /\ SweepSuffices'
  BY <1>2, Constants DEF CallSound, AtRest, SweepSuffices, NoCall
<1>8. StillToCome'
  BY <1>2, <1>3, <1>4 DEF StillToCome
<1> QED BY <1>5, <1>6, <1>7, <1>8 DEF Inv

LEMMA TakeKickInv == ASSUME Inv, TakeKick PROVE Inv'
<1>1. TypeOK /\ Owing /\ CallSound /\ StillToCome /\ AtRest /\ SweepSuffices
  BY DEF Inv
<1> DEFINE id == Head(kicks)
<1>2. /\ phase = "select" /\ kicks # <<>> /\ kicks' = Tail(kicks) /\ call' = Called(id)
      /\ phase' = IF id \in reg THEN "kick" ELSE "select"
      /\ UNCHANGED <<world, held, cancelled, todo, tick, owed>>
  BY DEF TakeKick
<1>3. kicks' \in Seq(Id) /\ Len(kicks') <= QueueCap
  BY <1>1, <1>2, Constants DEF TypeOK
<1>4. /\ Called(id) \in Call /\ Called(id).best = 0
      /\ id \notin reg => Called(id) = NoCall
  BY <1>1, CalledIsCall
<1> HIDE DEF id
<1>5. TypeOK'
  BY <1>1, <1>2, <1>3, <1>4 DEF TypeOK, world
<1>6. Owing' /\ CallSound' /\ StillToCome' /\ AtRest' /\ SweepSuffices'
  BY <1>1, <1>2, <1>4 DEF Owing, CallSound, StillToCome, AtRest, SweepSuffices, world
<1> QED BY <1>5, <1>6 DEF Inv

\* Nothing but a sweep adds to what is owed: a step that lets the loop be
\* where it is and may forgive some of it.
LEMMA ForgivingInv ==
  ASSUME Inv, UNCHANGED <<held, phase, todo, call>>, TypeOK', Owing',
         \A m \in Member : owed'[m] <= owed[m]
  PROVE  Inv'
<1>1. TypeOK /\ CallSound /\ StillToCome /\ AtRest /\ SweepSuffices
  BY DEF Inv
<1>2. \A m \in Member : held[m] \in Nat /\ owed[m] \in Nat /\ owed'[m] \in Nat
  BY <1>1, Constants DEF TypeOK
<1>3. call.best \in Nat
  BY <1>1, Constants DEF TypeOK, Call
<1>4. CallSound' /\ AtRest'
  BY <1>1 DEF CallSound, AtRest
<1>5. SweepSuffices'
  BY <1>1, <1>2 DEF SweepSuffices
<1>6. StillToCome'
  BY <1>1, <1>2, <1>3 DEF StillToCome
<1> QED BY <1>4, <1>5, <1>6 DEF Inv

\* Whoever stops the loop drops what it was doing.
LEMMA OffInv ==
  ASSUME Inv, phase' = "off", todo' \subseteq Member, call' = NoCall, owed' = Nothing,
         UNCHANGED <<world, held, cancelled, kicks, tick>>
  PROVE  Inv'
<1>1. TypeOK
  BY DEF Inv
<1>2. TypeOK'
  BY <1>1, Constants DEF TypeOK, world
<1>3. Owing' /\ CallSound' /\ StillToCome' /\ AtRest' /\ SweepSuffices'
  BY Constants DEF Owing, CallSound, StillToCome, AtRest, SweepSuffices, Nothing, NoCall
<1> QED BY <1>2, <1>3 DEF Inv

LEMMA RunInv == ASSUME Inv, Run PROVE Inv'
<1>1. TypeOK /\ AtRest
  BY DEF Inv
<1>2. CASE TakeTick
  <2>1. Sweep /\ call = NoCall /\ tick' = FALSE
        /\ UNCHANGED <<world, held, cancelled, call, kicks>>
    BY <1>1, <1>2 DEF TakeTick, AtRest
  <2>2. kicks' \in Seq(Id) /\ Len(kicks') <= QueueCap /\ cancelled' \in BOOLEAN
    BY <1>1, <2>1 DEF TypeOK
  <2> QED BY <2>1, <2>2, SweepInv
<1>3. CASE TakeDone
  <2>1. /\ call = NoCall /\ phase' = "off" /\ owed' = Nothing
        /\ UNCHANGED <<world, held, cancelled, todo, call, kicks, tick>>
    BY <1>1, <1>3 DEF TakeDone, AtRest
  <2> QED BY <1>1, <2>1, OffInv DEF TypeOK
<1> QED BY <1>2, <1>3, SweepNextInv, SweepEndInv, TakeKickInv DEF Run

LEMMA StartInv == ASSUME Inv, Start PROVE Inv'
<1>1. /\ Sweep /\ call' = NoCall /\ UNCHANGED <<world, held>>
      /\ kicks' = <<>> /\ tick' = FALSE /\ cancelled' = FALSE
  BY DEF Start
<1>2. kicks' \in Seq(Id) /\ Len(kicks') <= QueueCap
  BY <1>1, Constants
<1> QED BY <1>1, <1>2, SweepInv

-----------------------------------------------------------------------------
(* Everything else.                                                        *)

LEMMA EnvironmentInv == ASSUME Inv, Environment PROVE Inv'
<1>1. TypeOK /\ Owing
  BY DEF Inv
<1>2. \A m \in Member : owed[m] \in Nat /\ owed[m] \in Version /\ origin[m] \in Nat
  BY <1>1, Constants DEF TypeOK
<1>3. CASE Tick
  <2>1. TypeOK' /\ Owing'
    BY <1>1, <1>3 DEF Tick, TypeOK, Owing, world
  <2> QED BY <1>2, <1>3, <2>1, ForgivingInv DEF Tick
<1>4. ASSUME NEW id \in Id, Notify(id) PROVE Inv'
  <2>1. kicks' \in Seq(Id) /\ Len(kicks') <= QueueCap
    BY <1>1, <1>4, Constants DEF Notify, Kick, TypeOK
  <2>2. TypeOK' /\ Owing'
    BY <1>1, <1>4, <2>1 DEF Notify, Kick, TypeOK, Owing, world
  <2> QED BY <1>2, <1>4, <2>2, ForgivingInv DEF Notify
<1>5. ASSUME NEW k \in Member, Toggle(k) PROVE Inv'
  <2>1. /\ reach' = [reach EXCEPT ![k] = ~@] /\ owed' = [owed EXCEPT ![k] = 0]
        /\ UNCHANGED <<reg, origin, held, phase, cancelled, todo, call, kicks, tick>>
    BY <1>5 DEF Toggle
  <2>2. owed' \in [Member -> Version] /\ reach' \in [Member -> BOOLEAN]
    BY <1>1, <2>1, Constants DEF TypeOK, Version
  <2>3. \A m \in Member : owed'[m] <= owed[m] /\ (owed'[m] # 0 => m # k /\ owed'[m] = owed[m])
    BY <1>1, <1>2, <2>1 DEF TypeOK
  <2>4. \A m \in Member : m # k => reach'[m] = reach[m]
    BY <1>1, <2>1 DEF TypeOK
  <2>5. TypeOK'
    BY <1>1, <2>1, <2>2 DEF TypeOK
  <2>6. Owing'
    BY <1>1, <2>1, <2>3, <2>4 DEF Owing
  <2> QED BY <2>1, <2>3, <2>5, <2>6, ForgivingInv
<1>6. ASSUME NEW k \in Member, NEW v \in 1..MaxVersion, Publish(k, v) PROVE Inv'
  <2>1. /\ origin' = [origin EXCEPT ![k] = v]
        /\ owed' = [owed EXCEPT ![k] = IF @ < v THEN @ ELSE v]
        /\ UNCHANGED <<reg, reach, held, phase, cancelled, todo, call, kicks, tick>>
    BY <1>6 DEF Publish
  <2>2. v \in Version /\ v \in Nat
    BY Constants DEF Version
  <2>3. owed' \in [Member -> Version] /\ origin' \in [Member -> Version]
    BY <1>1, <2>1, <2>2 DEF TypeOK
  <2>4. \A m \in Member :
          /\ owed'[m] <= owed[m] /\ owed'[m] \in Nat
          /\ m = k => owed'[m] <= v /\ origin'[m] = v
          /\ m # k => owed'[m] = owed[m] /\ origin'[m] = origin[m]
    BY <1>1, <1>2, <2>1, <2>2 DEF TypeOK
  <2>5. TypeOK'
    BY <1>1, <2>1, <2>3 DEF TypeOK
  <2>6. Owing'
    BY <1>1, <1>2, <2>1, <2>4 DEF Owing
  <2> QED BY <2>1, <2>4, <2>5, <2>6, ForgivingInv
<1>7. ASSUME NEW r \in SUBSET Member, Reload(r) PROVE Inv'
  <2>1. /\ reg' = r /\ owed' = [m \in Member |-> IF m \in r THEN owed[m] ELSE 0]
        /\ UNCHANGED <<origin, reach, held, phase, cancelled, todo, call, kicks, tick>>
    BY <1>7 DEF Reload
  <2>2. owed' \in [Member -> Version]
    BY <1>2, <2>1, Constants DEF Version
  <2>3. TypeOK'
    BY <1>1, <2>1, <2>2 DEF TypeOK
  <2>4. Owing'
    BY <1>1, <2>1 DEF Owing
  <2> QED BY <1>2, <2>1, <2>3, <2>4, ForgivingInv
<1>8. CASE Cancel
  <2>1. /\ cancelled' = TRUE /\ owed' = Nothing
        /\ UNCHANGED <<world, held, phase, todo, call, kicks, tick>>
    BY <1>8 DEF Cancel
  <2>2. \A m \in Member : owed'[m] = 0
    BY <2>1 DEF Nothing
  <2>3. TypeOK' /\ Owing'
    BY <1>1, <2>1, <2>2, Constants DEF TypeOK, Owing, world
  <2> QED BY <1>2, <2>1, <2>2, <2>3, ForgivingInv
<1>9. CASE Die
  BY <1>1, <1>9, OffInv DEF Die, TypeOK
<1> QED BY <1>3, <1>4, <1>5, <1>6, <1>7, <1>8, <1>9 DEF Environment

LEMMA NextInv == ASSUME Inv, [Next]_vars PROVE Inv'
<1>1. CASE UNCHANGED vars
  BY <1>1 DEF Inv, TypeOK, Owing, CallSound, StillToCome, AtRest, SweepSuffices, vars, world
<1> QED BY <1>1, StartInv, SyncInv, RunInv, EnvironmentInv DEF Next

LEMMA Invariant == Spec => []Inv
BY InvInit, NextInv, PTL DEF Spec

-----------------------------------------------------------------------------
(* The theorems.                                                           *)

\* Every variable of the loop stays in its type, and the queue of hints never
\* exceeds its capacity.
THEOREM TypeCorrect == Spec => []TypeOK
<1>1. Inv => TypeOK
  BY DEF Inv
<1> QED BY <1>1, Invariant, PTL

\* When a sweep ends, whoever was registered and reachable all the while is
\* held in the version offered at its beginning or a newer one, for any number
\* of members that fail, any registry put in force, and any hints dropped.
THEOREM OneSweepSuffices == Spec => []SweepSuffices
<1>1. Inv => SweepSuffices
  BY DEF Inv
<1> QED BY <1>1, Invariant, PTL

=============================================================================
