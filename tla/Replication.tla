----------------------------- MODULE Replication -----------------------------
(***************************************************************************)
(* How one member's bundle travels from its origin to every agent          *)
(* (internal/fetch over internal/serve and internal/store).                *)
(*                                                                         *)
(* Each agent's fetch goroutine runs SyncMember over and over: it asks the *)
(* origin and then every other agent for the signed manifest, picks the    *)
(* highest version, gets its blobs one by one from whoever has them, and   *)
(* stores the bundle.  Every HTTP request is a step of its own, so origins *)
(* and agents come and go, publish and upgrade between any two of them.    *)
(*                                                                         *)
(* Other members' bundles use other state of the store and the same        *)
(* goroutine, so they only delay what is shown here.  Store.Put is one     *)
(* step, which is what module BundleStore shows of it.                     *)
(***************************************************************************)
EXTENDS Naturals

CONSTANTS
  Agent,         \* agents that run this code
  Rogue,         \* registry peers that may answer anything
  Origin,        \* the member's own web server
  Version,       \* the versions the owner may sign
  Blob,
  FilesOf,       \* FilesOf[v]: the blobs that version v names
  Junk,          \* bytes that hash to nothing asked for
  None

ASSUME ReplicationAssumption ==
  /\ Version \subseteq Nat \ {0}
  /\ FilesOf \in [Version -> SUBSET Blob]
  /\ Agent \cap Rogue = {}
  /\ Origin \notin Agent \cup Rogue
  /\ Junk \notin Blob
  /\ None \notin Agent \cup Rogue \cup {Origin} \cup Blob \cup {Junk}

VARIABLES
  signed,        \* versions whose manifest the owner has signed and pushed
  origin,        \* the version the origin serves, 0 before the first push
  originUp,
  up,            \* up[n]: agent n runs
  held,          \* held[n]: version in n's store, 0 for none (durable)
  body,          \* body[n]: the blob contents stored with it (durable)
  seen,          \* seen[n]: highest version n ever observed (durable)
  sync,          \* sync[n]: the SyncMember call in progress
  settled        \* outages, network failures and publishing have ended

world == <<signed, origin, originUp, up, settled>>
vars == <<signed, origin, originUp, up, held, body, seen, sync, settled>>

Source == Agent \cup Rogue \cup {Origin}
Content == Blob \cup {Junk}
Held == Version \cup {0}

\* A SyncMember call: the sources still to be asked for the manifest
\* ("poll") or for the blob wanted ("blobs"); the best version so far and
\* who offered it; the blobs still missing and the contents received.
SyncState ==
  [step : {"idle", "poll", "blobs"}, left : SUBSET Source, best : Held,
   src : Source \cup {None}, want : Blob \cup {None}, missing : SUBSET Blob,
   got : SUBSET Content]

Idle == [step |-> "idle", left |-> {}, best |-> 0, src |-> None,
         want |-> None, missing |-> {}, got |-> {}]

Larger(x, y) == IF x < y THEN y ELSE x

\* Variant of Sources: only the origin is asked.
OriginOnly(n) == {Origin}

\* sourcesFor: the origin, then every peer agent but oneself.
Sources(n) == Source \ {n}

Init ==
  /\ signed = {}
  /\ origin = 0
  /\ originUp = TRUE
  /\ up = [n \in Agent |-> TRUE]
  /\ held = [n \in Agent |-> 0]
  /\ body = [n \in Agent |-> {}]
  /\ seen = [n \in Agent |-> 0]
  /\ sync = [n \in Agent |-> Idle]
  /\ settled = FALSE

-----------------------------------------------------------------------------
(* What a source answers.  A rogue replays any signed manifest, forges     *)
(* one, passes off another member's, and sends junk for blobs, until the   *)
(* world settles.                                                          *)

Genuine(v) == [version |-> v, validSig |-> TRUE, mine |-> TRUE]
Forged(v) == [version |-> v, validSig |-> FALSE, mine |-> TRUE]
Foreign(v) == [version |-> v, validSig |-> TRUE, mine |-> FALSE]

Manifests(s) ==
  CASE s = Origin -> IF originUp /\ origin # 0 THEN {Genuine(origin)} ELSE {}
    [] s \in Agent -> IF up[s] /\ held[s] # 0 THEN {Genuine(held[s])} ELSE {}
    [] OTHER -> IF settled THEN {}
                ELSE {Genuine(v) : v \in signed} \cup {Forged(v) : v \in Version}
                       \cup {Foreign(v) : v \in Version}

\* The origin's blobs directory keeps the blobs of all that was pushed to it
\* (WriteDir removes nothing); an agent serves only the blobs its current
\* manifest names (Store.BlobPath), whatever bytes it stored for them.
Blobs(s, b) ==
  CASE s = Origin -> IF originUp /\ \E v \in signed : b \in FilesOf[v]
                       THEN {b} ELSE {}
    [] s \in Agent -> IF up[s] /\ held[s] # 0 /\ b \in FilesOf[held[s]]
                        THEN body[s] \cap {b, Junk} ELSE {}
    [] OTHER -> IF settled THEN {} ELSE {b, Junk}

\* Variant of Accepted: any registered member's signature will do.
AcceptedAnySigned(ans) == ans.validSig

\* Variant of Accepted: the signature is not verified.
AcceptedUnsigned(ans) == ans.mine

\* VerifyManifestBytes under the member's key, and the member_id check.
Accepted(ans) == ans.validSig /\ ans.mine

\* The received bytes hash to what the manifest says.
HashMatches(b, content) == content = b

-----------------------------------------------------------------------------
(* SyncMember of agent n.                                                  *)

\* A tick or a kick of the poll loop.
SyncStart(n) ==
  /\ up[n] /\ sync[n].step = "idle"
  /\ sync' = [sync EXCEPT ![n] =
       [Idle EXCEPT !.step = "poll", !.left = Sources(n), !.best = held[n]]]
  /\ UNCHANGED <<world, held, body, seen>>

\* The origin is asked first; the registry lists the peers in any order.
MayAsk(n, s) ==
  /\ sync[n].step = "poll"
  /\ s \in sync[n].left
  /\ Origin \in sync[n].left => s = Origin

\* Variant of PollAnswer: the last version answered is noted, also a lower one.
PollAnswerLast(n, s, ans) ==
  /\ MayAsk(n, s)
  /\ ans \in Manifests(s)
  /\ Accepted(ans)
  /\ seen' = [seen EXCEPT ![n] = ans.version]
  /\ sync' = [sync EXCEPT
       ![n].left = @ \ {s},
       ![n].best = Larger(@, ans.version),
       ![n].src = IF ans.version > sync[n].best THEN s ELSE @]
  /\ UNCHANGED <<world, held, body>>

\* A manifest arrives: it is verified, noted as seen, and kept if it is the
\* highest so far.  An unacceptable one counts as no answer.
PollAnswer(n, s, ans) ==
  /\ MayAsk(n, s)
  /\ ans \in Manifests(s)
  /\ Accepted(ans)
  /\ seen' = [seen EXCEPT ![n] = Larger(@, ans.version)]
  /\ sync' = [sync EXCEPT
       ![n].left = @ \ {s},
       ![n].best = Larger(@, ans.version),
       ![n].src = IF ans.version > sync[n].best THEN s ELSE @]
  /\ UNCHANGED <<world, held, body>>

\* No answer, an error status, or a manifest that is not accepted.
PollFail(n, s) ==
  /\ MayAsk(n, s)
  /\ ~settled \/ \A ans \in Manifests(s) : ~Accepted(ans)
  /\ sync' = [sync EXCEPT ![n].left = @ \ {s}]
  /\ UNCHANGED <<world, held, body, seen>>

\* Nothing newer than what is held: the call returns.
NothingNewer(n) ==
  /\ sync[n].step = "poll" /\ sync[n].left = {} /\ sync[n].src = None
  /\ sync' = [sync EXCEPT ![n] = Idle]
  /\ UNCHANGED <<world, held, body, seen>>

\* The winner is chosen; there is no way back to the second best.
PollEnd(n) ==
  /\ sync[n].step = "poll" /\ sync[n].left = {} /\ sync[n].src # None
  /\ sync' = [sync EXCEPT ![n].step = "blobs",
                          ![n].missing = FilesOf[sync[n].best]]
  /\ UNCHANGED <<world, held, body, seen>>

\* getBlob is called for the next file, with every source to try.
WantBlob(n) ==
  /\ sync[n].step = "blobs" /\ sync[n].want = None
  /\ \E b \in sync[n].missing :
       sync' = [sync EXCEPT ![n].want = b, ![n].left = Sources(n)]
  /\ UNCHANGED <<world, held, body, seen>>

\* The source of the manifest is tried first.
MayTry(n, s) ==
  /\ sync[n].step = "blobs" /\ sync[n].want # None
  /\ s \in sync[n].left
  /\ sync[n].src \in sync[n].left => s = sync[n].src

BlobAnswer(n, s, content) ==
  /\ MayTry(n, s)
  /\ content \in Blobs(s, sync[n].want)
  /\ HashMatches(sync[n].want, content)
  /\ sync' = [sync EXCEPT
       ![n].missing = @ \ {sync[n].want},
       ![n].got = @ \cup {content},
       ![n].want = None,
       ![n].left = {}]
  /\ UNCHANGED <<world, held, body, seen>>

\* No answer, or bytes with another hash: on to the next source.
BlobFail(n, s) ==
  /\ MayTry(n, s)
  /\ \/ ~settled
     \/ \A content \in Blobs(s, sync[n].want) : ~HashMatches(sync[n].want, content)
  /\ sync' = [sync EXCEPT ![n].left = @ \ {s}]
  /\ UNCHANGED <<world, held, body, seen>>

\* No source had the blob: the call returns an error and stores nothing.
BlobNowhere(n) ==
  /\ sync[n].step = "blobs" /\ sync[n].want # None /\ sync[n].left = {}
  /\ sync' = [sync EXCEPT ![n] = Idle]
  /\ UNCHANGED <<world, held, body, seen>>

\* Store.Put: compared with what is HELD, not with what was seen.
Put(n) ==
  /\ sync[n].step = "blobs" /\ sync[n].want = None /\ sync[n].missing = {}
  /\ IF sync[n].best > held[n]
       THEN /\ held' = [held EXCEPT ![n] = sync[n].best]
            /\ body' = [body EXCEPT ![n] = sync[n].got]
            /\ seen' = [seen EXCEPT ![n] = Larger(@, sync[n].best)]
       ELSE UNCHANGED <<held, body, seen>>
  /\ sync' = [sync EXCEPT ![n] = Idle]
  /\ UNCHANGED world

-----------------------------------------------------------------------------

\* Variant of ProbeNotes: it notes the version expected next.
ProbeNotesNext(n, s) ==
  /\ up[n] /\ s \in Sources(n) \ {Origin}
  /\ \E ans \in Manifests(s) :
       /\ Accepted(ans)
       /\ ans.version > seen[n]
       /\ seen' = [seen EXCEPT ![n] = ans.version + 1]
  /\ UNCHANGED <<world, held, body, sync>>

\* The prober, another goroutine, also notes the versions it verifies.
ProbeNotes(n, s) ==
  /\ up[n] /\ s \in Sources(n) \ {Origin}
  /\ \E ans \in Manifests(s) :
       /\ Accepted(ans)
       /\ ans.version > seen[n]
       /\ seen' = [seen EXCEPT ![n] = ans.version]
  /\ UNCHANGED <<world, held, body, sync>>

-----------------------------------------------------------------------------
(* The environment, until it settles.                                      *)

\* The owner signs a version and pushes it; push compares it with nothing,
\* so numbers may be skipped and an older version may be pushed again.
Publish(v) ==
  /\ ~settled
  /\ signed' = signed \cup {v}
  /\ origin' = v
  /\ UNCHANGED <<originUp, up, held, body, seen, sync, settled>>

ToggleOrigin ==
  /\ ~settled
  /\ originUp' = ~originUp
  /\ UNCHANGED <<signed, origin, up, held, body, seen, sync, settled>>

Crash(n) ==
  /\ ~settled /\ up[n]
  /\ up' = [up EXCEPT ![n] = FALSE]
  /\ sync' = [sync EXCEPT ![n] = Idle]
  /\ UNCHANGED <<signed, origin, originUp, held, body, seen, settled>>

Restart(n) ==
  /\ ~up[n]
  /\ up' = [up EXCEPT ![n] = TRUE]
  /\ UNCHANGED <<signed, origin, originUp, held, body, seen, sync, settled>>

\* The data directory of a stopped agent is wiped.
Wipe(n) ==
  /\ ~settled /\ ~up[n]
  /\ held' = [held EXCEPT ![n] = 0]
  /\ body' = [body EXCEPT ![n] = {}]
  /\ seen' = [seen EXCEPT ![n] = 0]
  /\ UNCHANGED <<world, sync>>

Settle ==
  /\ ~settled
  /\ settled' = TRUE
  /\ UNCHANGED <<signed, origin, originUp, up, held, body, seen, sync>>

-----------------------------------------------------------------------------

Poll(n) ==
  \/ \E s \in sync[n].left : PollFail(n, s) \/ \E ans \in Manifests(s) : PollAnswer(n, s, ans)
  \/ NothingNewer(n)
  \/ PollEnd(n)

Download(n) ==
  \/ WantBlob(n)
  \/ \E s \in sync[n].left : BlobFail(n, s) \/ \E content \in Content : BlobAnswer(n, s, content)
  \/ BlobNowhere(n)
  \/ Put(n)

SyncMember(n) == SyncStart(n) \/ Poll(n) \/ Download(n)

Environment ==
  \/ \E v \in Version : Publish(v)
  \/ ToggleOrigin
  \/ \E n \in Agent : Crash(n) \/ Restart(n) \/ Wipe(n)
  \/ Settle

Next ==
  \/ \E n \in Agent : SyncMember(n)
  \/ \E n \in Agent, s \in Source : ProbeNotes(n, s)
  \/ Environment

Spec == Init /\ [][Next]_vars

\* The ticker starts a sync again and again and every request is bounded by
\* the client's timeout; the world settles but stopped agents may stay down.
Fairness ==
  /\ \A n \in Agent : WF_vars(SyncMember(n))
  /\ WF_vars(Settle)

FairSpec == Spec /\ Fairness

-----------------------------------------------------------------------------
(* Properties.                                                             *)

\* Every variable stays in its type.
TypeOK ==
  /\ signed \subseteq Version
  /\ origin \in Held
  /\ originUp \in BOOLEAN
  /\ up \in [Agent -> BOOLEAN]
  /\ held \in [Agent -> Held]
  /\ body \in [Agent -> SUBSET Content]
  /\ seen \in [Agent -> Held]
  /\ sync \in [Agent -> SyncState]
  /\ settled \in BOOLEAN

\* What an agent holds, or believes to exist, was signed by the owner, and
\* the stored blobs are exactly the ones that version names, whatever rogue
\* peers answered (KICKOFF.md: "signing makes relay safe").
OnlyGenuine ==
  \A n \in Agent :
    /\ held[n] # 0 => held[n] \in signed /\ body[n] = FilesOf[held[n]]
    /\ seen[n] # 0 => seen[n] \in signed

\* The freshness baseline covers what is held, whatever was met in between.
SeenCoversHeld == \A n \in Agent : held[n] <= seen[n]

\* While its data directory is not wiped, an agent never goes back: not when
\* the origin is rolled back, not when a stale or rogue peer replays an old
\* manifest, not across a crash (KICKOFF.md M4 scenario 5).
NeverRollsBack ==
  [][\A n \in Agent : ~Wipe(n) => held'[n] >= held[n] /\ seen'[n] >= seen[n]]_vars

\* The newest version that a running origin or agent has to offer.
Available == (IF originUp THEN {origin} ELSE {}) \cup {held[n] : n \in {p \in Agent : up[p]}}

\* Once the world settles, every running agent ends up with the newest
\* version that anybody running holds: from the origin, and without it from
\* the peers, with an empty cache as well as with an old one.
Converges ==
  <>[](\A n \in Agent : up[n] => \A v \in Available : held[n] >= v)

\* Replication implements the register of signed copies.
Register == INSTANCE SignedRegister WITH copy <- held
ImplementsRegister == Register!Spec

=============================================================================
