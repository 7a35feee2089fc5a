----------------------------- MODULE BundleStore -----------------------------
(***************************************************************************)
(* internal/store: the on-disk cache of ONE member's bundle, with the      *)
(* memory image that the agent serves from.                                *)
(*                                                                         *)
(* Members have disjoint directories and the code touches one member per   *)
(* call, so one member is the whole story.  Put holds Store.mu from its    *)
(* first line to its last; what can interleave with its file operations is *)
(* a crash of the process, an I/O error that makes it return early, and    *)
(* readers that already left the lock (module RelayRead).                  *)
(*                                                                         *)
(* A version directory is what it contains: the manifest envelope, or None *)
(* when the file is absent or unparseable, and the set of blobs that are   *)
(* completely written.  A crash is the death of the process: the kernel    *)
(* keeps the system calls already made (the code never calls fsync, and    *)
(* power loss is not modelled).                                            *)
(***************************************************************************)
EXTENDS Naturals

CONSTANTS
  Manifest,      \* verified manifests that callers may hand to Put
  Blob,          \* content-addressed blobs (a blob is its sha256)
  VersionOf,     \* VersionOf[m]: the version field of manifest m
  FilesOf,       \* FilesOf[m]: the blobs that m names
  Fault,         \* the kinds of damage the disk may suffer between runs
  None,          \* no manifest
  Garbage        \* a pointer file that parseVersionDir rejects

FaultKinds == {"pointer", "manifest", "blob", "seen"}

ASSUME StoreAssumption ==
  /\ VersionOf \in [Manifest -> Nat \ {0}]
  /\ FilesOf \in [Manifest -> SUBSET Blob]
  /\ None \notin Manifest
  /\ Garbage \notin Nat
  /\ Fault \subseteq FaultKinds

VARIABLES
  dirs,          \* dirs[v]: the directory v<version>
  tmp,           \* tmp[v]: the staging directory .tmp-v<version>
  current,       \* the pointer file: a version, 0 (no file) or Garbage
  seen,          \* the seen file, 0 when absent or unparseable
  mem,           \* memberState of the running store
  pc,            \* where Put is ("idle": Store.mu is free)
  offer,         \* the manifest Put is storing
  up,            \* the process runs (the store is open)
  calm           \* no crash, I/O error, wipe or damage from here on

disk == <<dirs, tmp, current, seen>>
vars == <<dirs, tmp, current, seen, mem, pc, offer, up, calm>>

Version == {VersionOf[m] : m \in Manifest}
Dir == [manifest : Manifest \cup {None}, blobs : SUBSET Blob]
EmptyDir == [manifest |-> None, blobs |-> {}]
MemberState == [manifest : Manifest \cup {None}, seen : Version \cup {0}]
NoState == [manifest |-> None, seen |-> 0]
PutStep == {"idle", "clearTmp", "writeTmp", "clearFinal", "commit", "prune"}

VersionIn(m) == IF m = None THEN 0 ELSE VersionOf[m]
Larger(a, b) == IF a < b THEN b ELSE a

\* Store.Version: the version held in memory, 0 when none.
HeldVersion == VersionIn(mem.manifest)

\* The directory d holds everything manifest m names.
Whole(d, m) == d.manifest = m /\ FilesOf[m] \subseteq d.blobs

\* The manifest the pointer file leads to (None: no pointer, or corrupt).
Durable == IF current \in Version THEN dirs[current].manifest ELSE None

\* What os.RemoveAll leaves of d after one more unlink, in any order.
Unlinked(d) ==
  {[d EXCEPT !.blobs = @ \ {b}] : b \in d.blobs}
    \cup (IF d.manifest = None THEN {} ELSE {[d EXCEPT !.manifest = None]})

Init ==
  /\ dirs = [v \in Version |-> EmptyDir]
  /\ tmp = [v \in Version |-> EmptyDir]
  /\ current = 0
  /\ seen = 0
  /\ mem = NoState
  /\ pc = "idle"
  /\ offer = None
  /\ up = FALSE
  /\ calm = FALSE

-----------------------------------------------------------------------------
(* Opening the data directory.                                             *)

\* Variant of Loaded: the seen file is believed although the pointer is ahead.
LoadedSeenFile ==
  IF current # 0 /\ Durable = None THEN NoState
  ELSE [manifest |-> Durable, seen |-> seen]

\* Variant of Loaded: the directory with the highest version wins, and the
\* pointer is not read.
LoadedHighest ==
  LET whole == {v \in Version : dirs[v].manifest # None}
      best == CHOOSE v \in whole : \A w \in whole : w <= v
  IN IF whole = {} THEN NoState
     ELSE [manifest |-> dirs[best].manifest, seen |-> Larger(seen, best)]

\* loadMember: a pointer that cannot be followed makes Open skip the member,
\* and the seen file already read is dropped with it.
Loaded ==
  IF current # 0 /\ Durable = None THEN NoState
  ELSE [manifest |-> Durable, seen |-> Larger(seen, VersionIn(Durable))]

Open ==
  /\ ~up
  /\ up' = TRUE
  /\ mem' = Loaded
  /\ UNCHANGED <<disk, pc, offer, calm>>

-----------------------------------------------------------------------------
(* Put, one action per file operation that a crash or an error can follow. *)

Target == VersionOf[offer]

\* Variant of PutBegin: any other manifest is stored, a lower version too.
PutBeginAny(m) ==
  /\ up /\ pc = "idle"
  /\ m # mem.manifest
  /\ pc' = "clearTmp"
  /\ offer' = m
  /\ UNCHANGED <<disk, mem, up, calm>>

\* Variant of PutBegin: the version must exceed every version observed.
PutBeginUnseen(m) ==
  /\ up /\ pc = "idle"
  /\ VersionOf[m] > mem.seen
  /\ pc' = "clearTmp"
  /\ offer' = m
  /\ UNCHANGED <<disk, mem, up, calm>>

\* The mutex is taken and the version check passes.  A lower version
\* (ErrRollback) and an equal one (no-op) leave the state as it is.
PutBegin(m) ==
  /\ up /\ pc = "idle"
  /\ VersionOf[m] > HeldVersion
  /\ pc' = "clearTmp"
  /\ offer' = m
  /\ UNCHANGED <<disk, mem, up, calm>>

PutClearTmp ==
  /\ pc = "clearTmp"
  /\ tmp' = [tmp EXCEPT ![Target] = EmptyDir]
  /\ pc' = "writeTmp"
  /\ UNCHANGED <<dirs, current, seen, mem, offer, up, calm>>

PutWriteBlob(b) ==
  /\ pc = "writeTmp"
  /\ b \in FilesOf[offer] \ tmp[Target].blobs
  /\ tmp' = [tmp EXCEPT ![Target].blobs = @ \cup {b}]
  /\ UNCHANGED <<dirs, current, seen, mem, pc, offer, up, calm>>

\* Variant of PutWriteManifest: it is written while blobs are missing.
PutWriteManifestFirst ==
  /\ pc = "writeTmp"
  /\ tmp' = [tmp EXCEPT ![Target].manifest = offer]
  /\ pc' = "clearFinal"
  /\ UNCHANGED <<dirs, current, seen, mem, offer, up, calm>>

PutWriteManifest ==
  /\ pc = "writeTmp"
  /\ FilesOf[offer] \subseteq tmp[Target].blobs
  /\ tmp' = [tmp EXCEPT ![Target].manifest = offer]
  /\ pc' = "clearFinal"
  /\ UNCHANGED <<dirs, current, seen, mem, offer, up, calm>>

\* RemoveAll(final), one entry at a time.
PutClearFinal ==
  /\ pc = "clearFinal"
  /\ \E d \in Unlinked(dirs[Target]) : dirs' = [dirs EXCEPT ![Target] = d]
  /\ UNCHANGED <<tmp, current, seen, mem, pc, offer, up, calm>>

\* Variant of PutRename: a version directory that exists is kept.
PutRenameIfAbsent ==
  /\ pc = "clearFinal"
  /\ dirs' = [dirs EXCEPT ![Target] = IF @ = EmptyDir THEN tmp[Target] ELSE @]
  /\ tmp' = [tmp EXCEPT ![Target] = EmptyDir]
  /\ pc' = "commit"
  /\ UNCHANGED <<current, seen, mem, offer, up, calm>>

PutRename ==
  /\ pc = "clearFinal"
  /\ dirs[Target] = EmptyDir
  /\ dirs' = [dirs EXCEPT ![Target] = tmp[Target]]
  /\ tmp' = [tmp EXCEPT ![Target] = EmptyDir]
  /\ pc' = "commit"
  /\ UNCHANGED <<current, seen, mem, offer, up, calm>>

\* The commit point: the pointer file is replaced by a rename.
PutCommit ==
  /\ pc = "commit"
  /\ current' = Target
  /\ pc' = "prune"
  /\ UNCHANGED <<dirs, tmp, seen, mem, offer, up, calm>>

\* Variant of PutPrune: the new version's directory is not spared.
PutPruneAll ==
  /\ pc = "prune"
  /\ \E v \in Version :
       \E d \in Unlinked(dirs[v]) : dirs' = [dirs EXCEPT ![v] = d]
  /\ UNCHANGED <<tmp, current, seen, mem, pc, offer, up, calm>>

\* RemoveAll of every superseded directory, one entry at a time.
PutPrune ==
  /\ pc = "prune"
  /\ \E v \in Version \ {Target} :
       \E d \in Unlinked(dirs[v]) : dirs' = [dirs EXCEPT ![v] = d]
  /\ UNCHANGED <<tmp, current, seen, mem, pc, offer, up, calm>>

\* Variant of PersistSeen: the file gets the version expected next.
PersistNext(v) == seen' = v + 1

\* persistSeenLocked: a failed write of the seen file is only logged.
PersistSeen(v) == seen' = v \/ (~calm /\ UNCHANGED seen)

\* Pruning is best effort; then memory follows the disk and the lock drops.
PutFinish ==
  /\ pc = "prune"
  /\ calm => \A v \in Version \ {Target} : dirs[v] = EmptyDir
  /\ mem' = [manifest |-> offer, seen |-> Larger(mem.seen, Target)]
  /\ IF mem.seen < Target THEN PersistSeen(Target) ELSE UNCHANGED seen
  /\ pc' = "idle"
  /\ offer' = None
  /\ UNCHANGED <<dirs, tmp, current, up, calm>>

\* Variant of PutFail: a directory that cannot be pruned fails the call.
PutFailLate ==
  /\ ~calm
  /\ pc \in {"clearTmp", "writeTmp", "clearFinal", "commit", "prune"}
  /\ pc' = "idle"
  /\ offer' = None
  /\ UNCHANGED <<disk, mem, up, calm>>

\* Any file operation up to the commit point may return an error: Put gives
\* up where it stands and leaves its half-made files behind.
PutFail ==
  /\ ~calm
  /\ pc \in {"clearTmp", "writeTmp", "clearFinal", "commit"}
  /\ pc' = "idle"
  /\ offer' = None
  /\ UNCHANGED <<disk, mem, up, calm>>

-----------------------------------------------------------------------------

\* A verified manifest of version v was met somewhere.
NoteSeen(v) ==
  /\ up /\ pc = "idle"
  /\ v > mem.seen
  /\ mem' = [mem EXCEPT !.seen = v]
  /\ PersistSeen(v)
  /\ UNCHANGED <<dirs, tmp, current, pc, offer, up, calm>>

-----------------------------------------------------------------------------
(* The environment.                                                        *)

Crash ==
  /\ ~calm /\ up
  /\ up' = FALSE
  /\ mem' = NoState
  /\ pc' = "idle"
  /\ offer' = None
  /\ UNCHANGED <<disk, calm>>

\* The operator wipes the data directory of a stopped agent.
Wipe ==
  /\ ~calm /\ ~up
  /\ dirs' = [v \in Version |-> EmptyDir]
  /\ tmp' = [v \in Version |-> EmptyDir]
  /\ current' = 0
  /\ seen' = 0
  /\ UNCHANGED <<mem, pc, offer, up, calm>>

\* The disk of a stopped agent is damaged, in one of the ways in Fault.
DamagePointer ==
  /\ "pointer" \in Fault
  /\ current # 0
  /\ current' = Garbage
  /\ UNCHANGED <<dirs, tmp, seen>>

DamageManifest ==
  /\ "manifest" \in Fault
  /\ \E v \in Version : dirs' = [dirs EXCEPT ![v].manifest = None]
  /\ UNCHANGED <<tmp, current, seen>>

DamageBlob ==
  /\ "blob" \in Fault
  /\ \E v \in Version, b \in Blob : dirs' = [dirs EXCEPT ![v].blobs = @ \ {b}]
  /\ UNCHANGED <<tmp, current, seen>>

DamageSeen ==
  /\ "seen" \in Fault
  /\ seen' = 0
  /\ UNCHANGED <<dirs, tmp, current>>

Damage ==
  /\ ~calm /\ ~up
  /\ \/ DamagePointer
     \/ DamageManifest
     \/ DamageBlob
     \/ DamageSeen
  /\ UNCHANGED <<mem, pc, offer, up, calm>>

Calm ==
  /\ ~calm
  /\ calm' = TRUE
  /\ UNCHANGED <<disk, mem, pc, offer, up>>

-----------------------------------------------------------------------------

PutProgress ==
  \/ PutClearTmp
  \/ \E b \in Blob : PutWriteBlob(b)
  \/ PutWriteManifest
  \/ PutClearFinal
  \/ PutRename
  \/ PutCommit
  \/ PutPrune
  \/ PutFinish

\* Calls of the store's operations.
Calls ==
  \/ Open
  \/ \E m \in Manifest : PutBegin(m)
  \/ PutProgress
  \/ PutFail
  \/ \E v \in Version : NoteSeen(v)

\* What happens to a stopped agent.
Outage == Wipe \/ Damage

Next == Calls \/ Outage \/ Calm \/ Crash

Spec == Init /\ [][Next]_vars

\* No manifest has a higher version.
Newest == {m \in Manifest : \A n \in Manifest : VersionOf[n] <= VersionOf[m]}

\* A supervisor restarts the agent, a call of Put returns, the fetch loop
\* keeps offering a newest manifest, and the disturbances end.
Fairness ==
  /\ WF_vars(Open)
  /\ WF_vars(PutProgress)
  /\ WF_vars(\E m \in Newest : PutBegin(m))
  /\ WF_vars(Calm)

FairSpec == Spec /\ Fairness

-----------------------------------------------------------------------------
(* Properties.                                                             *)

\* Every variable stays in its type.
TypeOK ==
  /\ dirs \in [Version -> Dir]
  /\ tmp \in [Version -> Dir]
  /\ current \in Version \cup {0, Garbage}
  /\ seen \in Version \cup {0}
  /\ mem \in MemberState
  /\ pc \in PutStep
  /\ offer \in Manifest \cup {None}
  /\ up \in BOOLEAN
  /\ calm \in BOOLEAN

\* What the pointer file leads to is complete at every moment, in the middle
\* of a Put, after a failed one and after a crash: a restart never loads a
\* manifest whose blobs are not there (the comment of Put: "atomically
\* stores").
CurrentIsWhole == Durable # None => Whole(dirs[current], Durable)

\* A Put that returns without an error leaves its whole bundle on disk and
\* serves it, over whatever debris of failed Puts and crashes, and whatever
\* damage, it found in the staging and the version directory.
PutRepairs == [][PutFinish => Whole(dirs'[current'], mem'.manifest)]_vars

\* The running store serves what a restart would load, except between the
\* pointer swap and the end of Put, when a restart would load the offered
\* manifest.  So a Put that returns an error changed nothing that lasts.
MemoryIsDisk ==
  up => Durable = (IF pc = "prune" THEN offer ELSE mem.manifest)

\* The freshness baseline never falls below the version that is held, also
\* when the seen file is lost or older than the pointer.
SeenCoversHeld == HeldVersion <= mem.seen

\* The persisted "highest version ever observed" is never lowered while the
\* data directory is not wiped (package comment: it "survives restarts").
SeenSurvives == [][~Wipe => seen' >= seen]_vars

\* Every step, crashes and errors included, is a step of the crash-safe
\* register or leaves it alone (package comment: "Updates are atomic").
Register == INSTANCE AtomicBundle
              WITH durable <- Durable, live <- mem.manifest, running <- up
ImplementsRegister == Register!Spec

\* After the last disturbance the store ends up serving a newest manifest
\* with all its blobs on disk (the comment of Open: the fetch loop "will
\* re-converge" what was corrupt).
Reconverges ==
  <>[](up /\ mem.manifest \in Newest /\ Whole(dirs[current], mem.manifest))

=============================================================================
