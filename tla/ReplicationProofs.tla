--------------------------- MODULE ReplicationProofs ---------------------------
(***************************************************************************)
(* What Replication guarantees for every number of agents and rogue peers, *)
(* every set of versions and every file list.  The argument follows a      *)
(* version through SyncMember: only a signed version can become the best   *)
(* one, and what has been downloaded is at every moment exactly the files  *)
(* of that version that are no longer missing.                             *)
(***************************************************************************)
EXTENDS Replication, TLAPS

USE ReplicationAssumption

-----------------------------------------------------------------------------
(* Helpers.                                                                *)

\* Versions, and 0 for none, are natural numbers.
LEMMA HeldIsNat ==
  ASSUME NEW v \in Held
  PROVE  v \in Nat
  BY DEF Held

\* The maximum of two such numbers is one of them and bounds both.
LEMMA LargerIsMax ==
  ASSUME NEW x \in Held, NEW y \in Held
  PROVE  /\ Larger(x, y) \in {x, y}
         /\ x <= Larger(x, y) /\ y <= Larger(x, y)
  BY HeldIsNat DEF Larger

\* An accepted manifest is one that the owner signed, whoever sent it.
LEMMA AcceptedIsSigned ==
  ASSUME NEW s \in Source, NEW ans \in Manifests(s), Accepted(ans),
         origin \in signed \cup {0},
         \A n \in Agent : held[n] \in signed \cup {0}
  PROVE  ans.version \in signed
<1>1. CASE s = Origin
  BY <1>1 DEF Manifests, Genuine
<1>2. CASE s \in Agent
  BY <1>2 DEF Manifests, Genuine
<1>3. CASE s # Origin /\ s \notin Agent
  <2>1. ans \in {Genuine(v) : v \in signed} \cup {Forged(v) : v \in Version}
                  \cup {Foreign(v) : v \in Version}
    BY <1>3 DEF Manifests
  <2>2. ans \in {Genuine(v) : v \in signed}
    BY <2>1 DEF Accepted, Forged, Foreign
  <2> QED BY <2>2 DEF Genuine
<1> QED BY <1>1, <1>2, <1>3

-----------------------------------------------------------------------------
(* The invariant.                                                          *)

\* A SyncMember call under way: its best version is signed, and what it has
\* got is what the best version names and is no longer missing (nothing
\* while it still polls).
SyncSound(t) ==
  /\ t.best # 0 => t.best \in signed
  /\ t.src # None => t.best # 0
  /\ t.step = "poll" => t.got = {} /\ t.want = None
  /\ t.step = "blobs" =>
       /\ t.src # None
       /\ t.missing \subseteq FilesOf[t.best]
       /\ t.got = FilesOf[t.best] \ t.missing
       /\ t.want # None => t.want \in t.missing

Inv ==
  /\ TypeOK
  /\ origin # 0 => origin \in signed
  /\ OnlyGenuine
  /\ \A n \in Agent : SyncSound(sync[n])

\* A call that is not running claims nothing.
LEMMA IdleIsSound == Idle \in SyncState /\ SyncSound(Idle)
  BY DEF Idle, SyncState, SyncSound, Held, Source

\* Replacing the state of one agent's call by a well-typed and sound one
\* keeps all of them so.
LEMMA SyncUpdate ==
  ASSUME Inv, NEW n \in Agent, NEW t \in SyncState, SyncSound(t),
         sync' = [sync EXCEPT ![n] = t], signed' = signed
  PROVE  /\ sync' \in [Agent -> SyncState]
         /\ \A p \in Agent : SyncSound(sync[p])'
<1>1. sync \in [Agent -> SyncState] /\ \A p \in Agent : SyncSound(sync[p])
  BY DEF Inv, TypeOK
<1>2. sync' \in [Agent -> SyncState] /\ \A p \in Agent : sync'[p] \in {t, sync[p]}
  BY <1>1
<1>3. ASSUME NEW p \in Agent PROVE SyncSound(sync[p])'
  <2>1. CASE sync'[p] = t
    BY <2>1 DEF SyncSound
  <2>2. CASE sync'[p] = sync[p]
    BY <1>1, <2>2 DEF SyncSound
  <2> QED BY <1>2, <2>1, <2>2
<1> QED BY <1>2, <1>3

\* A step that touches nothing but one agent's call.
LEMMA OnlySync ==
  ASSUME Inv, NEW n \in Agent, NEW t \in SyncState, SyncSound(t),
         sync' = [sync EXCEPT ![n] = t],
         UNCHANGED <<world, held, body, seen>>
  PROVE  Inv'
<1>1. signed' = signed
  BY DEF world
<1>2. sync' \in [Agent -> SyncState] /\ \A p \in Agent : SyncSound(sync[p])'
  BY <1>1, SyncUpdate
<1> QED BY <1>2 DEF Inv, TypeOK, OnlyGenuine, world

\* The SyncMember steps of one agent.
LEMMA SyncStep ==
  ASSUME Inv, NEW n \in Agent, SyncMember(n)
  PROVE  Inv'
<1> DEFINE t == sync[n]
<1>1. /\ TypeOK /\ OnlyGenuine /\ t \in SyncState /\ SyncSound(t)
      /\ origin \in signed \cup {0}
      /\ \A p \in Agent : held[p] \in signed \cup {0}
      /\ signed \subseteq Held
  BY DEF Inv, TypeOK, OnlyGenuine, Held
<1>2. /\ t.step \in {"idle", "poll", "blobs"} /\ t.left \subseteq Source
      /\ t.best \in Held /\ t.src \in Source \cup {None}
      /\ t.want \in Blob \cup {None} /\ t.missing \subseteq Blob
      /\ t.got \subseteq Content
  BY <1>1 DEF SyncState
<1>3. Sources(n) \subseteq Source
  BY DEF Sources
<1>4. CASE SyncStart(n)
  <2> DEFINE u == [Idle EXCEPT !.step = "poll", !.left = Sources(n), !.best = held[n]]
  <2>1. /\ u.step = "poll" /\ u.left = Sources(n) /\ u.best = held[n] /\ u.src = None
        /\ u.want = None /\ u.missing = {} /\ u.got = {}
    BY DEF Idle
  <2>3. sync' = [sync EXCEPT ![n] = u] /\ UNCHANGED <<world, held, body, seen>>
    BY <1>4 DEF SyncStart
  <2>4. held[n] \in Held
    BY <1>1 DEF TypeOK
  <2>5. u \in SyncState
    BY <1>3, <2>4, IdleIsSound DEF SyncState
  <2> HIDE DEF u
  <2>2. SyncSound(u)
    BY <1>1, <2>1 DEF SyncSound
  <2> QED BY <2>2, <2>3, <2>5, OnlySync
<1>5. ASSUME NEW s \in Source, PollFail(n, s) PROVE Inv'
  <2> DEFINE u == [t EXCEPT !.left = @ \ {s}]
  <2>1. u \in SyncState /\ SyncSound(u)
    BY <1>1, <1>2 DEF SyncState, SyncSound
  <2>2. sync' = [sync EXCEPT ![n] = u] /\ UNCHANGED <<world, held, body, seen>>
    BY <1>5 DEF PollFail
  <2> HIDE DEF u
  <2> QED BY <2>1, <2>2, OnlySync
<1>6. ASSUME NEW s \in Source, NEW ans \in Manifests(s), PollAnswer(n, s, ans)
      PROVE  Inv'
  <2>1. ans.version \in signed /\ ans.version \in Held /\ ans.version # 0
    BY <1>1, <1>6, AcceptedIsSigned DEF PollAnswer, TypeOK, Held
  <2> DEFINE u == [t EXCEPT !.left = @ \ {s},
                            !.best = Larger(@, ans.version),
                            !.src = IF ans.version > t.best THEN s ELSE @]
  <2>2. t.step = "poll"
    BY <1>6 DEF PollAnswer, MayAsk
  <2>3. Larger(t.best, ans.version) \in {t.best, ans.version}
    BY DEF Larger
  <2>4. Larger(t.best, ans.version) # 0
    BY <1>2, <2>1, HeldIsNat DEF Larger
  <2>5. u \in SyncState
    BY <1>1, <1>2, <2>1, <2>3 DEF SyncState
  <2>6. SyncSound(u)
    BY <1>1, <1>2, <2>1, <2>2, <2>3, <2>4 DEF SyncSound, SyncState
  <2>7. sync' = [sync EXCEPT ![n] = u]
    BY <1>6 DEF PollAnswer
  <2>8. seen' = [seen EXCEPT ![n] = Larger(seen[n], ans.version)] /\ UNCHANGED <<world, held, body>>
    BY <1>6 DEF PollAnswer
  <2> HIDE DEF u
  <2>9. sync' \in [Agent -> SyncState] /\ \A p \in Agent : SyncSound(sync[p])'
    BY <2>5, <2>6, <2>7, <2>8, SyncUpdate DEF world
  <2>10. seen' \in [Agent -> Held] /\ \A p \in Agent : seen'[p] \in {seen[p], ans.version}
    BY <1>1, <2>1, <2>8 DEF TypeOK, Larger
  <2> QED BY <1>1, <2>1, <2>8, <2>9, <2>10 DEF Inv, TypeOK, OnlyGenuine, world
<1>7. CASE NothingNewer(n) \/ BlobNowhere(n)
  BY <1>7, IdleIsSound, OnlySync DEF NothingNewer, BlobNowhere
<1>8. CASE PollEnd(n)
  <2> DEFINE u == [t EXCEPT !.step = "blobs", !.missing = FilesOf[t.best]]
  <2>1. t.best \in Version /\ t.best \in signed /\ t.src # None /\ t.step = "poll"
    BY <1>1, <1>2, <1>8 DEF PollEnd, SyncSound, TypeOK
  <2>2. sync' = [sync EXCEPT ![n] = u] /\ UNCHANGED <<world, held, body, seen>>
    BY <1>8 DEF PollEnd
  <2>3. t.got = {} /\ t.want = None
    BY <1>1, <2>1 DEF SyncSound
  <2>4. FilesOf[t.best] \subseteq Blob
    BY <2>1
  <2>5. u \in SyncState
    BY <1>1, <1>2, <2>4 DEF SyncState
  <2>6. SyncSound(u)
    BY <1>1, <1>2, <2>1, <2>3 DEF SyncState, SyncSound
  <2> HIDE DEF u
  <2> QED BY <2>2, <2>5, <2>6, OnlySync
<1>9. CASE WantBlob(n)
  <2>1. PICK b \in t.missing : sync' = [sync EXCEPT ![n].want = b, ![n].left = Sources(n)]
    BY <1>9 DEF WantBlob
  <2> DEFINE u == [t EXCEPT !.want = b, !.left = Sources(n)]
  <2>2. u \in SyncState /\ SyncSound(u)
    BY <1>1, <1>2, <1>3, <1>9 DEF WantBlob, SyncState, SyncSound
  <2>3. sync' = [sync EXCEPT ![n] = u] /\ UNCHANGED <<world, held, body, seen>>
    BY <1>9, <2>1 DEF WantBlob
  <2> HIDE DEF u
  <2> QED BY <2>2, <2>3, OnlySync
<1>10. ASSUME NEW s \in Source, NEW content \in Content, BlobAnswer(n, s, content)
       PROVE  Inv'
  <2> DEFINE u == [t EXCEPT !.missing = @ \ {t.want}, !.got = @ \cup {content},
                            !.want = None, !.left = {}]
  <2>1. t.step = "blobs" /\ t.want # None /\ content = t.want
    BY <1>10 DEF BlobAnswer, MayTry, HashMatches
  <2>2. t.want \in t.missing
    BY <1>1, <2>1 DEF SyncSound
  <2>3. u \in SyncState
    BY <1>1, <1>2 DEF SyncState
  <2>4. SyncSound(u)
    BY <1>1, <1>2, <2>1, <2>2 DEF SyncState, SyncSound
  <2>5. sync' = [sync EXCEPT ![n] = u] /\ UNCHANGED <<world, held, body, seen>>
    BY <1>10 DEF BlobAnswer
  <2> HIDE DEF u
  <2> QED BY <2>3, <2>4, <2>5, OnlySync
<1>11. ASSUME NEW s \in Source, BlobFail(n, s) PROVE Inv'
  <2> DEFINE u == [t EXCEPT !.left = @ \ {s}]
  <2>1. u \in SyncState /\ SyncSound(u)
    BY <1>1, <1>2 DEF SyncState, SyncSound
  <2>2. sync' = [sync EXCEPT ![n] = u] /\ UNCHANGED <<world, held, body, seen>>
    BY <1>11 DEF BlobFail
  <2> HIDE DEF u
  <2> QED BY <2>1, <2>2, OnlySync
<1>12. CASE Put(n)
  <2>1. sync' = [sync EXCEPT ![n] = Idle] /\ UNCHANGED world
    BY <1>12 DEF Put
  <2>2. sync' \in [Agent -> SyncState] /\ \A p \in Agent : SyncSound(sync[p])'
    BY <2>1, IdleIsSound, SyncUpdate DEF world
  <2>3. t.best # 0 /\ t.best \in signed /\ t.got = FilesOf[t.best]
    BY <1>1, <1>12 DEF Put, SyncSound
  <2>4. CASE UNCHANGED <<held, body, seen>>
    BY <1>1, <2>1, <2>2, <2>4 DEF Inv, TypeOK, OnlyGenuine, world
  <2>5. CASE /\ held' = [held EXCEPT ![n] = t.best]
             /\ body' = [body EXCEPT ![n] = t.got]
             /\ seen' = [seen EXCEPT ![n] = Larger(@, t.best)]
    <3>1. seen' \in [Agent -> Held] /\ \A p \in Agent : seen'[p] \in {seen[p], t.best}
      BY <1>1, <1>2, <2>5 DEF TypeOK, Larger
    <3>2. held' \in [Agent -> Held] /\ body' \in [Agent -> SUBSET Content]
      BY <1>1, <1>2, <2>5 DEF TypeOK
    <3>3. OnlyGenuine'
      BY <1>1, <2>1, <2>3, <2>5, <3>1 DEF OnlyGenuine, TypeOK, world
    <3> QED BY <1>1, <2>1, <2>2, <3>1, <3>2, <3>3 DEF Inv, TypeOK, world
  <2> QED BY <1>12, <2>4, <2>5 DEF Put
<1>13. sync[n].left \subseteq Source
  BY <1>2 DEF SyncState
<1> QED
  BY <1>4, <1>5, <1>6, <1>7, <1>8, <1>9, <1>10, <1>11, <1>12, <1>13
  DEF SyncMember, Poll, Download

\* Every step keeps the invariant.
LEMMA InvStep ==
  ASSUME Inv, [Next]_vars
  PROVE  Inv'
<1>1. /\ TypeOK /\ OnlyGenuine /\ (origin # 0 => origin \in signed)
      /\ \A p \in Agent : SyncSound(sync[p])
  BY DEF Inv
<1>2. ASSUME NEW n \in Agent, SyncMember(n) PROVE Inv'
  BY <1>2, SyncStep
<1>3. ASSUME NEW n \in Agent, NEW s \in Source, ProbeNotes(n, s) PROVE Inv'
  <2>1. PICK ans \in Manifests(s) : Accepted(ans) /\ seen' = [seen EXCEPT ![n] = ans.version]
    BY <1>3 DEF ProbeNotes
  <2>2. ans.version \in signed /\ ans.version \in Held
    BY <1>1, <2>1, AcceptedIsSigned DEF TypeOK, OnlyGenuine, Held
  <2>3. UNCHANGED <<world, held, body, sync>>
    BY <1>3 DEF ProbeNotes
  <2>4. seen' \in [Agent -> Held] /\ \A p \in Agent : seen'[p] \in {seen[p], ans.version}
    BY <1>1, <2>1, <2>2 DEF TypeOK
  <2> QED BY <1>1, <2>2, <2>3, <2>4 DEF Inv, TypeOK, OnlyGenuine, SyncSound, world
<1>4. ASSUME NEW v \in Version, Publish(v) PROVE Inv'
  <2>1. /\ signed' = signed \cup {v} /\ origin' = v
        /\ UNCHANGED <<originUp, up, held, body, seen, sync, settled>>
    BY <1>4 DEF Publish
  <2>2. \A p \in Agent : SyncSound(sync[p])'
    BY <1>1, <2>1 DEF SyncSound
  <2>3. TypeOK'
    BY <1>1, <2>1 DEF TypeOK, Held
  <2>4. OnlyGenuine'
    BY <1>1, <2>1 DEF OnlyGenuine
  <2> QED BY <2>1, <2>2, <2>3, <2>4 DEF Inv
<1>5. CASE ToggleOrigin
  BY <1>1, <1>5 DEF ToggleOrigin, Inv, TypeOK, OnlyGenuine, SyncSound
<1>6. ASSUME NEW n \in Agent, Crash(n) PROVE Inv'
  <2>1. sync' = [sync EXCEPT ![n] = Idle] /\ signed' = signed
    BY <1>6 DEF Crash
  <2>2. sync' \in [Agent -> SyncState] /\ \A p \in Agent : SyncSound(sync[p])'
    BY <2>1, IdleIsSound, SyncUpdate
  <2>3. up' \in [Agent -> BOOLEAN]
    BY <1>1, <1>6 DEF Crash, TypeOK
  <2> QED BY <1>1, <1>6, <2>2, <2>3 DEF Crash, Inv, TypeOK, OnlyGenuine
<1>7. ASSUME NEW n \in Agent, Restart(n) PROVE Inv'
  BY <1>1, <1>7 DEF Restart, Inv, TypeOK, OnlyGenuine, SyncSound
<1>8. ASSUME NEW n \in Agent, Wipe(n) PROVE Inv'
  BY <1>1, <1>8 DEF Wipe, world, Inv, TypeOK, OnlyGenuine, SyncSound, Held
<1>9. CASE Settle
  BY <1>1, <1>9 DEF Settle, Inv, TypeOK, OnlyGenuine, SyncSound
<1>10. CASE UNCHANGED vars
  BY <1>1, <1>10 DEF vars, Inv, TypeOK, OnlyGenuine, SyncSound
<1> QED
  BY <1>2, <1>3, <1>4, <1>5, <1>6, <1>7, <1>8, <1>9, <1>10 DEF Next, Environment

\* Initially nothing is signed, held or under way.
LEMMA InvInit == Init => Inv
<1> SUFFICES ASSUME Init PROVE Inv
  OBVIOUS
<1>1. \A n \in Agent : sync[n] = Idle /\ held[n] = 0 /\ seen[n] = 0
  BY DEF Init
<1>2. \A n \in Agent : SyncSound(sync[n])
  BY <1>1, IdleIsSound
<1>3. TypeOK
  BY IdleIsSound DEF Init, TypeOK, Held
<1> QED BY <1>1, <1>2, <1>3 DEF Init, Inv, OnlyGenuine

\* The invariant holds in every reachable state.
LEMMA Invariant == Spec => []Inv
<1>1. Inv /\ [Next]_vars => Inv'
  BY InvStep
<1> QED BY InvInit, <1>1, PTL DEF Spec

\* The types hold in every reachable state.
THEOREM TypeCorrect == Spec => []TypeOK
<1>1. Inv => TypeOK
  BY DEF Inv
<1> QED BY Invariant, <1>1, PTL

\* However many rogue peers answer whatever they like, what an agent holds
\* or believes to exist was signed by the owner, and the blobs stored with
\* a version are exactly the ones it names.
THEOREM AlwaysGenuine == Spec => []OnlyGenuine
<1>1. Inv => OnlyGenuine
  BY DEF Inv
<1> QED BY Invariant, <1>1, PTL

-----------------------------------------------------------------------------
(* Which steps touch the durable state.                                    *)

\* Only Put and a wipe change what is held, only Publish what is signed.
LEMMA WhatChanges ==
  ASSUME [Next]_vars
  PROVE  \/ UNCHANGED <<signed, held>>
         \/ \E v \in Version : Publish(v)
         \/ \E n \in Agent : Put(n) \/ Wipe(n)
<1> DEFINE Goal == \/ UNCHANGED <<signed, held>>
                   \/ \E v \in Version : Publish(v)
                   \/ \E n \in Agent : Put(n) \/ Wipe(n)
<1>1. ASSUME NEW n \in Agent, SyncStart(n) \/ Poll(n) PROVE Goal
  BY <1>1 DEF Poll, SyncStart, PollAnswer, PollFail, NothingNewer, PollEnd, world
<1>2. ASSUME NEW n \in Agent, Download(n) PROVE Goal
  BY <1>2 DEF Download, WantBlob, BlobAnswer, BlobFail, BlobNowhere, world
<1>3. ASSUME NEW n \in Agent, NEW s \in Source, ProbeNotes(n, s) PROVE Goal
  BY <1>3 DEF ProbeNotes, world
<1>4. CASE Environment
  BY <1>4 DEF Environment, ToggleOrigin, Crash, Restart, Settle
<1>5. CASE UNCHANGED vars
  BY <1>5 DEF vars
<1> QED BY <1>1, <1>2, <1>3, <1>4, <1>5 DEF Next, SyncMember

-----------------------------------------------------------------------------
(* Versions only move up.                                                  *)

\* A step that does not wipe an agent lowers neither number of it.
LEMMA UpStep ==
  ASSUME Inv, [Next]_vars, NEW n \in Agent, ~Wipe(n)
  PROVE  held'[n] >= held[n] /\ seen'[n] >= seen[n]
<1>1. /\ TypeOK /\ OnlyGenuine /\ (origin # 0 => origin \in signed)
      /\ held[n] \in Held /\ seen[n] \in Held
      /\ held[n] \in Nat /\ seen[n] \in Nat
  BY HeldIsNat DEF Inv, TypeOK
<1> DEFINE Goal == held'[n] >= held[n] /\ seen'[n] >= seen[n]
<1>2. CASE UNCHANGED <<held, seen>>
  BY <1>1, <1>2
<1>3. ASSUME NEW p \in Agent, NEW s \in Source, NEW ans \in Manifests(s), PollAnswer(p, s, ans)
      PROVE  Goal
  <2>1. ans.version \in signed
    BY <1>1, <1>3, AcceptedIsSigned DEF PollAnswer, OnlyGenuine
  <2>2. ans.version \in Held
    BY <1>1, <2>1 DEF TypeOK, Held
  <2>3. seen[n] <= Larger(seen[n], ans.version) /\ Larger(seen[n], ans.version) \in Nat
    BY <1>1, <2>2, LargerIsMax, HeldIsNat
  <2>4. seen'[n] \in {seen[n], Larger(seen[n], ans.version)} /\ held' = held
    BY <1>1, <1>3 DEF PollAnswer, TypeOK
  <2> QED BY <1>1, <2>3, <2>4
<1>4. ASSUME NEW p \in Agent, Put(p) PROVE Goal
  <2>1. sync[p].best \in Held
    BY <1>1 DEF TypeOK, SyncState
  <2>2. CASE UNCHANGED <<held, body, seen>>
    BY <1>2, <2>2
  <2>3. CASE /\ sync[p].best > held[p]
             /\ held' = [held EXCEPT ![p] = sync[p].best]
             /\ seen' = [seen EXCEPT ![p] = Larger(@, sync[p].best)]
    <3>1. seen[n] <= Larger(seen[n], sync[p].best) /\ Larger(seen[n], sync[p].best) \in Nat
      BY <1>1, <2>1, LargerIsMax, HeldIsNat
    <3>2. seen'[n] \in {seen[n], Larger(seen[n], sync[p].best)}
      BY <1>1, <2>3 DEF TypeOK
    <3>3. held'[n] = held[n] \/ (held'[n] = sync[p].best /\ sync[p].best > held[n])
      BY <1>1, <2>3 DEF TypeOK
    <3>4. sync[p].best \in Nat
      BY <2>1, HeldIsNat
    <3> QED BY <1>1, <3>1, <3>2, <3>3, <3>4
  <2> QED BY <1>4, <2>2, <2>3 DEF Put
<1>5. ASSUME NEW p \in Agent, NEW s \in Source, ProbeNotes(p, s) PROVE Goal
  <2>1. PICK ans \in Manifests(s) :
          Accepted(ans) /\ ans.version > seen[p] /\ seen' = [seen EXCEPT ![p] = ans.version]
    BY <1>5 DEF ProbeNotes
  <2>2. ans.version \in signed
    BY <1>1, <2>1, AcceptedIsSigned DEF OnlyGenuine
  <2>3. ans.version \in Nat
    BY <1>1, <2>2 DEF TypeOK
  <2>4. seen'[n] = seen[n] \/ (seen'[n] = ans.version /\ ans.version > seen[n])
    BY <1>1, <2>1 DEF TypeOK
  <2> QED BY <1>1, <1>5, <2>3, <2>4 DEF ProbeNotes
<1>6. ASSUME NEW p \in Agent, Wipe(p) PROVE Goal
  <2>1. p # n
    BY <1>6
  <2> QED BY <1>1, <1>6, <2>1 DEF Wipe, TypeOK
<1>7. \A p \in Agent : sync[p].left \subseteq Source
  BY <1>1 DEF TypeOK, SyncState
<1> QED
  BY <1>2, <1>3, <1>4, <1>5, <1>6, <1>7
  DEF Next, Environment, SyncMember, Poll, Download, vars, world, SyncStart, PollFail,
      NothingNewer, PollEnd, WantBlob, BlobAnswer, BlobFail, BlobNowhere, Publish,
      ToggleOrigin, Crash, Restart, Settle

\* Anti-rollback: an agent whose data directory is not wiped never goes back
\* to a lower version, nor forgets the highest one it has seen.
THEOREM NoRollback == Spec => NeverRollsBack
<1>1. Inv /\ [Next]_vars =>
        [\A n \in Agent : ~Wipe(n) => held'[n] >= held[n] /\ seen'[n] >= seen[n]]_vars
  BY UpStep
<1> QED BY Invariant, <1>1, PTL DEF Spec, NeverRollsBack

-----------------------------------------------------------------------------
(* Seen covers held.                                                       *)

\* The freshness baseline of an agent is never below what it holds: Put
\* raises both, and nothing but a wipe lowers either.
THEOREM SeenAlwaysCoversHeld == Spec => []SeenCoversHeld
<1> DEFINE Both == Inv /\ SeenCoversHeld
<1>1. Init => Both
  <2>1. Init => \A n \in Agent : held[n] = 0 /\ seen[n] = 0
    BY DEF Init
  <2> QED BY <2>1, InvInit DEF SeenCoversHeld
<1>2. Both /\ [Next]_vars => Both'
  <2> SUFFICES ASSUME Both, [Next]_vars, NEW n \in Agent
               PROVE  held'[n] <= seen'[n]
    BY InvStep DEF SeenCoversHeld
  <2>1. /\ TypeOK /\ TypeOK' /\ held[n] <= seen[n]
        /\ held[n] \in Nat /\ seen[n] \in Nat /\ held'[n] \in Nat /\ seen'[n] \in Nat
    BY InvStep, HeldIsNat DEF Inv, TypeOK, SeenCoversHeld
  <2>2. CASE held'[n] = held[n]
    <3>1. CASE Wipe(n)
      BY <2>1, <3>1 DEF Wipe, TypeOK
    <3>2. CASE ~Wipe(n)
      <4>1. seen'[n] >= seen[n]
        BY <3>2, UpStep
      <4> QED BY <2>1, <2>2, <4>1
    <3> QED BY <3>1, <3>2
  <2>3. ASSUME NEW p \in Agent, Put(p) PROVE held'[n] <= seen'[n]
    <3>1. CASE UNCHANGED held
      BY <2>2, <3>1
    <3>2. CASE /\ held' = [held EXCEPT ![p] = sync[p].best]
               /\ seen' = [seen EXCEPT ![p] = Larger(@, sync[p].best)]
      <4>1. CASE p = n
        <5>1. sync[n].best \in Held /\ seen[n] \in Held
          BY <2>1 DEF TypeOK, SyncState
        <5>2. sync[n].best <= Larger(seen[n], sync[n].best)
          BY <5>1, LargerIsMax
        <5> QED BY <2>1, <3>2, <4>1, <5>2 DEF TypeOK
      <4>2. CASE p # n
        BY <2>1, <2>2, <3>2, <4>2 DEF TypeOK
      <4> QED BY <4>1, <4>2
    <3> QED BY <2>3, <3>1, <3>2 DEF Put
  <2>4. ASSUME NEW p \in Agent, Wipe(p) PROVE held'[n] <= seen'[n]
    <3>1. CASE p = n
      <4>1. held'[n] = 0 /\ seen'[n] = 0
        BY <2>1, <2>4, <3>1 DEF Wipe, TypeOK
      <4> QED BY <4>1
    <3>2. CASE p # n
      BY <2>1, <2>2, <2>4, <3>2 DEF Wipe, TypeOK
    <3> QED BY <3>1, <3>2
  <2> QED
    BY <2>2, <2>3, <2>4, WhatChanges DEF Publish
<1> QED BY <1>1, <1>2, PTL DEF Spec

-----------------------------------------------------------------------------
(* Refinement: replication is a register of signed copies.                 *)

\* A step of replication is a step of the register or leaves it alone.
LEMMA RegisterStep ==
  ASSUME Inv, [Next]_vars
  PROVE  [Register!Next]_(Register!avars)
<1>1. TypeOK /\ \A n \in Agent : SyncSound(sync[n])
  BY DEF Inv
<1>2. CASE UNCHANGED <<signed, held>>
  BY <1>2 DEF Register!avars
<1>3. ASSUME NEW v \in Version, Publish(v) PROVE Register!Next
  BY <1>3 DEF Publish, Register!Next, Register!Sign
<1>4. ASSUME NEW n \in Agent, Wipe(n) PROVE Register!Next
  BY <1>4 DEF Wipe, world, Register!Next, Register!Forget
<1>5. ASSUME NEW n \in Agent, Put(n), held' # held PROVE Register!Next
  <2>1. sync[n].best > held[n] /\ held' = [held EXCEPT ![n] = sync[n].best] /\ signed' = signed
    BY <1>5 DEF Put, world
  <2>2. sync[n].best \in signed
    BY <1>1, <1>5 DEF Put, SyncSound
  <2>3. Register!Adopt(n)
    BY <2>1, <2>2 DEF Register!Adopt
  <2> QED BY <2>3 DEF Register!Next
<1>6. ASSUME NEW n \in Agent, Put(n) PROVE UNCHANGED signed
  BY <1>6 DEF Put, world
<1> QED
  BY <1>2, <1>3, <1>4, <1>5, <1>6, WhatChanges

\* Every agent's copy moves only to signed and higher versions, in one step,
\* unless its data directory is wiped.
THEOREM ReplicationIsRegister == Spec => ImplementsRegister
<1>1. Init => Register!Init
  BY DEF Init, Register!Init
<1>2. Inv /\ [Next]_vars => [Register!Next]_(Register!avars)
  BY RegisterStep
<1> QED BY Invariant, <1>1, <1>2, PTL DEF Spec, ImplementsRegister, Register!Spec

=============================================================================
