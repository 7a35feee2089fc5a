-------------------------- MODULE BundleStoreProofs --------------------------
(***************************************************************************)
(* What BundleStore guarantees for every set of manifests, versions, blobs *)
(* and file lists.  The argument is in layers: the types; an invariant     *)
(* that follows a bundle from the staging directory to the pointer; for a  *)
(* disk that loses no manifest file, that the pointer, the directory it    *)
(* names and the memory agree; then the seen file; last, the visitors that *)
(* read the store between its steps (RelayRead, which extends it).         *)
(***************************************************************************)
EXTENDS RelayRead, TLAPS

USE StoreAssumption

-----------------------------------------------------------------------------
(* Helpers.                                                                *)

\* A version is a positive number.
LEMMA VersionsArePositive == Version \subseteq Nat \ {0}
  BY DEF Version

\* So is every number that stands for a version or for none.
LEMMA VersionOrNoneIsNat ==
  ASSUME NEW v \in Version \cup {0}
  PROVE  v \in Nat
  BY DEF Version

\* The version of a manifest is a version.
LEMMA VersionOfManifest ==
  ASSUME NEW m \in Manifest
  PROVE  VersionOf[m] \in Version /\ VersionIn(m) = VersionOf[m]
  BY DEF Version, VersionIn

\* Unlinking one entry of a directory leaves a directory, and its manifest
\* is the old one or gone.
LEMMA UnlinkedIsDir ==
  ASSUME NEW d \in Dir, NEW e \in Unlinked(d)
  PROVE  e \in Dir /\ e.manifest \in {d.manifest, None}
<1>1. d.manifest \in Manifest \cup {None} /\ d.blobs \subseteq Blob
  BY DEF Dir
<1>2. CASE \E b \in d.blobs : e = [d EXCEPT !.blobs = @ \ {b}]
  <2> PICK b \in d.blobs : e = [d EXCEPT !.blobs = @ \ {b}]
    BY <1>2
  <2> QED BY <1>1 DEF Dir
<1>3. CASE e = [d EXCEPT !.manifest = None]
  BY <1>1, <1>3 DEF Dir
<1> QED BY <1>2, <1>3 DEF Unlinked

\* The maximum of two version numbers is one of them and bounds both.
LEMMA LargerIsMax ==
  ASSUME NEW x \in Nat, NEW y \in Nat
  PROVE  /\ Larger(x, y) \in {x, y}
         /\ x <= Larger(x, y) /\ y <= Larger(x, y)
  BY DEF Larger

-----------------------------------------------------------------------------
(* Types.                                                                  *)

\* What a restart loads is a member state.
LEMMA LoadedType ==
  ASSUME TypeOK
  PROVE  Loaded \in MemberState /\ Durable \in Manifest \cup {None}
<1>1. Durable \in Manifest \cup {None}
  BY DEF TypeOK, Durable, Dir
<1>2. VersionIn(Durable) \in Version \cup {0} /\ seen \in Version \cup {0}
  BY <1>1, VersionOfManifest DEF TypeOK, VersionIn
<1>3. Larger(seen, VersionIn(Durable)) \in Version \cup {0}
  BY <1>2 DEF Larger
<1>4. NoState \in MemberState
  BY DEF NoState, MemberState
<1> QED BY <1>1, <1>3, <1>4 DEF Loaded, MemberState

\* The Put steps run with a manifest in hand while the process is up.
PutHasOffer ==
  /\ (pc = "idle") = (offer = None)
  /\ pc # "idle" => up

TypeInv == TypeOK /\ PutHasOffer

\* Every step keeps the types (each action of the store once).
LEMMA TypeStep ==
  ASSUME TypeInv, [Next]_vars
  PROVE  TypeInv'
<1> USE DEF TypeInv, PutHasOffer
<1>0. TypeOK
  OBVIOUS
<1>1. CASE Open
  BY <1>1, LoadedType DEF Open, TypeOK, disk
<1>2. ASSUME NEW m \in Manifest, PutBegin(m)
      PROVE  TypeInv'
  BY <1>2 DEF PutBegin, TypeOK, disk, PutStep
<1>3. ASSUME pc # "idle"
      PROVE  offer \in Manifest /\ Target \in Version /\ dirs[Target] \in Dir /\ tmp[Target] \in Dir
  BY <1>3, VersionOfManifest DEF TypeOK, Target
<1>4. CASE PutClearTmp
  BY <1>4, <1>3 DEF PutClearTmp, TypeOK, EmptyDir, Dir, PutStep
<1>5. ASSUME NEW b \in Blob, PutWriteBlob(b)
      PROVE  TypeInv'
  <2>1. [tmp[Target] EXCEPT !.blobs = @ \cup {b}] \in Dir
    BY <1>3, <1>5 DEF PutWriteBlob, Dir
  <2>2. tmp' = [tmp EXCEPT ![Target] = [tmp[Target] EXCEPT !.blobs = @ \cup {b}]]
    BY <1>3, <1>5 DEF PutWriteBlob, TypeOK
  <2> QED BY <2>1, <2>2, <1>5 DEF PutWriteBlob, TypeOK
<1>6. CASE PutWriteManifest
  <2>1. [tmp[Target] EXCEPT !.manifest = offer] \in Dir
    BY <1>3, <1>6 DEF PutWriteManifest, Dir
  <2>2. tmp' = [tmp EXCEPT ![Target] = [tmp[Target] EXCEPT !.manifest = offer]]
    BY <1>3, <1>6 DEF PutWriteManifest, TypeOK
  <2> QED BY <2>1, <2>2, <1>6 DEF PutWriteManifest, TypeOK, PutStep
<1>7. CASE PutClearFinal
  BY <1>7, <1>3, UnlinkedIsDir DEF PutClearFinal, TypeOK
<1>8. CASE PutRename
  BY <1>8, <1>3 DEF PutRename, TypeOK, EmptyDir, Dir, PutStep
<1>9. CASE PutCommit
  BY <1>9, <1>3 DEF PutCommit, TypeOK, PutStep
<1>10. CASE PutPrune
  BY <1>10, UnlinkedIsDir DEF PutPrune, TypeOK
<1>11. CASE PutFinish
  <2>1. offer \in Manifest /\ Target \in Version /\ mem.seen \in Version \cup {0}
    BY <1>3, <1>11 DEF PutFinish, TypeOK, MemberState
  <2>2. Larger(mem.seen, Target) \in Version \cup {0}
    BY <2>1 DEF Larger
  <2>3. mem' \in MemberState
    BY <2>1, <2>2, <1>11 DEF PutFinish, MemberState
  <2>4. seen' \in Version \cup {0}
    BY <2>1, <1>11 DEF PutFinish, PersistSeen, TypeOK
  <2> QED BY <2>3, <2>4, <1>11 DEF PutFinish, TypeOK, PutStep
<1>12. CASE PutFail
  BY <1>12 DEF PutFail, TypeOK, disk, PutStep
<1>13. ASSUME NEW v \in Version, NoteSeen(v)
       PROVE  TypeInv'
  BY <1>13 DEF NoteSeen, PersistSeen, TypeOK, MemberState
<1>14. CASE Crash
  BY <1>14 DEF Crash, TypeOK, disk, MemberState, NoState, PutStep
<1>15. CASE Wipe
  BY <1>15 DEF Wipe, TypeOK, Dir, EmptyDir
<1>16. CASE Damage
  <2>1. CASE DamagePointer
    BY <1>16, <2>1 DEF Damage, DamagePointer, TypeOK
  <2>2. CASE DamageManifest
    BY <1>16, <2>2 DEF Damage, DamageManifest, TypeOK, Dir
  <2>3. CASE DamageBlob
    BY <1>16, <2>3 DEF Damage, DamageBlob, TypeOK, Dir
  <2>4. CASE DamageSeen
    BY <1>16, <2>4 DEF Damage, DamageSeen, TypeOK
  <2> QED BY <1>16, <2>1, <2>2, <2>3, <2>4 DEF Damage
<1>17. CASE Calm
  BY <1>17 DEF Calm, TypeOK, disk
<1>18. CASE UNCHANGED vars
  BY <1>18 DEF vars, TypeOK
<1> QED
  BY <1>1, <1>2, <1>4, <1>5, <1>6, <1>7, <1>8, <1>9, <1>10, <1>11, <1>12,
     <1>13, <1>14, <1>15, <1>16, <1>17, <1>18
  DEF Next, Calls, Outage, PutProgress

\* The types hold in every reachable state, whatever the disk suffers.
THEOREM TypeCorrect == Spec => []TypeOK
<1>1. Init => TypeInv
  <2>1. EmptyDir \in Dir /\ NoState \in MemberState /\ "idle" \in PutStep
    BY DEF EmptyDir, Dir, NoState, MemberState, PutStep
  <2> QED BY <2>1 DEF Init, TypeInv, TypeOK, PutHasOffer
<1>2. TypeInv /\ [Next]_vars => TypeInv'
  BY TypeStep
<1>3. TypeInv => TypeOK
  BY DEF TypeInv
<1> QED BY <1>1, <1>2, <1>3, PTL DEF Spec

-----------------------------------------------------------------------------
(* Put.  A bundle is complete in the staging directory before the final    *)
(* one is touched, and complete in the final one before the pointer names  *)
(* it.  No damage happens during a Put (only to stopped agents), so this   *)
(* holds on every disk.                                                    *)

\* How far the offered bundle has got.
Staged ==
  /\ pc # "idle" => Target > HeldVersion
  /\ pc = "clearFinal" => Whole(tmp[Target], offer)
  /\ pc \in {"commit", "prune"} => Whole(dirs[Target], offer)
  /\ pc = "prune" => current = Target

StageInv == TypeInv /\ Staged

\* What the steps of a Put under way have in hand.
LEMMA PutInHand ==
  ASSUME TypeInv, pc # "idle"
  PROVE  offer \in Manifest /\ Target \in Version /\ Target \in Nat /\ up
  BY VersionOfManifest, VersionsArePositive DEF TypeInv, TypeOK, PutHasOffer, Target

\* Every step keeps what is staged.
LEMMA StageStep ==
  ASSUME StageInv, [Next]_vars
  PROVE  StageInv'
<1>1. TypeInv /\ TypeInv' /\ TypeOK /\ PutHasOffer /\ Staged
  BY TypeStep DEF StageInv, TypeInv
<1>2. SUFFICES Staged'
  BY <1>1 DEF StageInv
<1>3. ASSUME pc' = "idle" PROVE Staged'
  BY <1>3 DEF Staged
<1>4. ASSUME NEW m \in Manifest, PutBegin(m) PROVE Staged'
  BY <1>4 DEF PutBegin, Staged, Target, HeldVersion
<1>5. CASE PutClearTmp
  BY <1>1, <1>5 DEF PutClearTmp, Staged, Target, HeldVersion
<1>6. ASSUME NEW b \in Blob, PutWriteBlob(b) PROVE Staged'
  BY <1>1, <1>6 DEF PutWriteBlob, Staged, Target, HeldVersion
<1>7. CASE PutWriteManifest
  <2>1. Target \in Version /\ tmp[Target] \in Dir
    BY <1>1, <1>7, PutInHand DEF PutWriteManifest, TypeOK
  <2>2. tmp'[Target] = [tmp[Target] EXCEPT !.manifest = offer]
    BY <1>1, <1>7, <2>1 DEF PutWriteManifest, TypeOK
  <2>3. Whole(tmp'[Target], offer)
    BY <1>7, <2>1, <2>2 DEF PutWriteManifest, Whole, Dir
  <2> QED BY <1>1, <1>7, <2>3 DEF PutWriteManifest, Staged, Target, HeldVersion
<1>8. CASE PutClearFinal
  BY <1>1, <1>8 DEF PutClearFinal, Staged, Target, HeldVersion
<1>9. CASE PutRename
  <2>1. Target \in Version /\ Whole(tmp[Target], offer)
    BY <1>1, <1>9, PutInHand DEF Staged, PutRename
  <2>2. Whole(dirs'[Target], offer)
    BY <1>1, <1>9, <2>1 DEF PutRename, TypeOK
  <2> QED BY <1>1, <1>9, <2>2 DEF PutRename, Staged, Target, HeldVersion
<1>10. CASE PutCommit
  BY <1>1, <1>10 DEF PutCommit, Staged, Target, HeldVersion
<1>11. CASE PutPrune
  <2>1. Target \in Version /\ current = Target
    BY <1>1, <1>11, PutInHand DEF PutPrune, Staged
  <2>2. \E v \in Version \ {Target} : \E d : dirs' = [dirs EXCEPT ![v] = d]
    BY <1>11 DEF PutPrune
  <2>3. dirs'[Target] = dirs[Target]
    BY <1>1, <2>1, <2>2 DEF TypeOK
  <2> QED BY <1>1, <1>11, <2>3 DEF PutPrune, Staged, Target, HeldVersion
<1>12. CASE UNCHANGED <<dirs, tmp, current, mem, pc, offer>>
  BY <1>1, <1>12 DEF Staged, Target, HeldVersion
<1>13. CASE PutFinish \/ PutFail \/ Crash
  BY <1>3, <1>13 DEF PutFinish, PutFail, Crash
<1>14. CASE Open \/ Outage
  BY <1>1, <1>3, <1>14 DEF Open, Outage, Wipe, Damage, PutHasOffer
<1>15. ASSUME NEW v \in Version, NoteSeen(v) PROVE Staged'
  BY <1>3, <1>15 DEF NoteSeen
<1> QED
  BY <1>4, <1>5, <1>6, <1>7, <1>8, <1>9, <1>10, <1>11, <1>12, <1>13, <1>14, <1>15
  DEF Next, Calls, PutProgress, Calm, disk, vars

\* Nothing is staged initially.
LEMMA StageInit == Init => StageInv
<1>1. EmptyDir \in Dir /\ NoState \in MemberState /\ "idle" \in PutStep
  BY DEF EmptyDir, Dir, NoState, MemberState, PutStep
<1> QED BY <1>1 DEF Init, StageInv, Staged, TypeInv, TypeOK, PutHasOffer

\* A Put that returns without an error leaves its whole bundle on disk, over
\* whatever it found there and whatever the disk has suffered.
THEOREM PutAlwaysRepairs == Spec => PutRepairs
<1>1. StageInv /\ [Next]_vars => StageInv'
  BY StageStep
<1>2. StageInv => [PutFinish => Whole(dirs'[current'], mem'.manifest)]_vars
  BY DEF StageInv, Staged, PutFinish
<1> QED BY StageInit, <1>1, <1>2, PTL DEF Spec, PutRepairs

-----------------------------------------------------------------------------
(* The bundle, on a disk that may destroy the pointer, the seen file and   *)
(* blobs but leaves the manifest files alone.  The pointer never names the *)
(* directory that Put is about to clear, since it names the version in     *)
(* memory and that one is lower.                                           *)

ManifestsSurvive == "manifest" \notin Fault

\* A version directory holds a manifest of that version.
Filed ==
  \A v \in Version : dirs[v].manifest # None => VersionOf[dirs[v].manifest] = v

\* A readable pointer leads to a manifest and, if blobs survive, to all its
\* blobs.
Led ==
  current \in Version =>
    /\ dirs[current].manifest # None
    /\ "blob" \notin Fault => Whole(dirs[current], dirs[current].manifest)

StoreInv == StageInv /\ Filed /\ Led /\ MemoryIsDisk

\* Up to the commit point the pointer does not name Put's target.
LEMMA TargetIsNotCurrent ==
  ASSUME StoreInv, pc # "idle", pc # "prune"
  PROVE  current # Target
<1>1. Durable = mem.manifest /\ Target > HeldVersion
  BY DEF StoreInv, StageInv, TypeInv, PutHasOffer, MemoryIsDisk, Staged
<1>2. Target \in Version /\ Target \in Nat
  BY PutInHand DEF StoreInv, StageInv
<1>3. SUFFICES ASSUME current = Target PROVE FALSE
  OBVIOUS
<1>4. Durable # None /\ VersionOf[Durable] = Target
  BY <1>2, <1>3 DEF StoreInv, Led, Filed, Durable
<1>5. HeldVersion = Target
  BY <1>1, <1>4 DEF HeldVersion, VersionIn
<1> QED BY <1>1, <1>2, <1>5

\* Every step keeps the bundle's invariant.
LEMMA StoreStep ==
  ASSUME ManifestsSurvive, StoreInv, [Next]_vars
  PROVE  StoreInv'
<1>1. TypeInv /\ TypeInv' /\ StageInv'
  BY TypeStep, StageStep DEF StoreInv, StageInv
<1>2. TypeOK /\ PutHasOffer
  BY <1>1 DEF TypeInv
<1>3. SUFFICES Filed' /\ Led' /\ MemoryIsDisk'
  BY <1>1 DEF StoreInv
<1>4. Filed /\ Staged /\ Led /\ MemoryIsDisk
  BY DEF StoreInv, StageInv
<1> DEFINE Goal == Filed' /\ Led' /\ MemoryIsDisk'
<1>5. CASE Open
  <2>1. pc = "idle" /\ mem'.manifest = Durable
    BY <1>2, <1>5 DEF Open, Loaded, NoState, PutHasOffer
  <2> QED BY <1>4, <1>5, <2>1 DEF Open, disk, Filed, Led, MemoryIsDisk, Durable
<1>6. ASSUME NEW m \in Manifest, PutBegin(m) PROVE Goal
  BY <1>4, <1>6 DEF PutBegin, disk, Filed, Led, MemoryIsDisk, Durable, Target, HeldVersion
<1>7. CASE PutClearTmp
  BY <1>4, <1>7 DEF PutClearTmp, Filed, Led, MemoryIsDisk, Durable, Target, HeldVersion
<1>8. ASSUME NEW b \in Blob, PutWriteBlob(b) PROVE Goal
  BY <1>4, <1>8 DEF PutWriteBlob, Filed, Led, MemoryIsDisk, Durable, Target, HeldVersion
<1>9. CASE PutWriteManifest
  BY <1>4, <1>9 DEF PutWriteManifest, Filed, Led, MemoryIsDisk, Durable
<1>10. CASE PutClearFinal
  <2>1. Target \in Version /\ current # Target
    BY <1>1, <1>10, PutInHand, TargetIsNotCurrent DEF PutClearFinal
  <2>2. PICK d \in Unlinked(dirs[Target]) : dirs' = [dirs EXCEPT ![Target] = d]
    BY <1>10 DEF PutClearFinal
  <2>3. d.manifest \in {dirs[Target].manifest, None}
    BY <1>2, <2>1, UnlinkedIsDir DEF TypeOK
  <2>4. Filed'
    BY <1>2, <1>4, <2>1, <2>2, <2>3 DEF Filed, TypeOK
  <2>5. current \in Version => dirs'[current] = dirs[current]
    BY <1>2, <2>1, <2>2 DEF TypeOK
  <2> QED BY <1>4, <1>10, <2>4, <2>5 DEF PutClearFinal, Staged, Led, MemoryIsDisk, Durable, Target, HeldVersion, Whole
<1>11. CASE PutRename
  <2>1. Target \in Version /\ current # Target /\ offer \in Manifest
    BY <1>1, <1>11, PutInHand, TargetIsNotCurrent DEF PutRename
  <2>2. Whole(tmp[Target], offer)
    BY <1>4, <1>11 DEF Staged, PutRename
  <2>3. dirs'[Target] = tmp[Target] /\ \A v \in Version \ {Target} : dirs'[v] = dirs[v]
    BY <1>2, <1>11, <2>1 DEF PutRename, TypeOK
  <2>4. Filed'
    BY <1>4, <2>2, <2>3 DEF Filed, Whole, Target
  <2>5. Whole(dirs'[Target], offer)
    BY <2>2, <2>3
  <2> QED BY <1>4, <1>11, <2>1, <2>3, <2>4, <2>5 DEF PutRename, Staged, Led, MemoryIsDisk, Durable, Target, HeldVersion, Whole
<1>12. CASE PutCommit
  <2>1. Target \in Version /\ offer \in Manifest /\ Whole(dirs[Target], offer)
    BY <1>1, <1>4, <1>12, PutInHand DEF PutCommit, Staged
  <2> QED BY <1>4, <1>12, <2>1 DEF PutCommit, Filed, Led, MemoryIsDisk, Durable, Target, HeldVersion, Whole
<1>13. CASE PutPrune
  <2>1. Target \in Version /\ current = Target
    BY <1>1, <1>4, <1>13, PutInHand DEF PutPrune, Staged
  <2>2a. PICK v \in Version \ {Target} :
           \E d \in Unlinked(dirs[v]) : dirs' = [dirs EXCEPT ![v] = d]
    BY <1>13 DEF PutPrune
  <2>2. PICK d \in Unlinked(dirs[v]) : dirs' = [dirs EXCEPT ![v] = d]
    BY <2>2a
  <2>3. d.manifest \in {dirs[v].manifest, None}
    BY <1>2, UnlinkedIsDir DEF TypeOK
  <2>4. Filed'
    BY <1>2, <1>4, <2>2, <2>3 DEF Filed, TypeOK
  <2>5. dirs'[Target] = dirs[Target]
    BY <1>2, <2>1, <2>2 DEF TypeOK
  <2> QED BY <1>4, <1>13, <2>1, <2>4, <2>5 DEF PutPrune, Staged, Led, MemoryIsDisk, Durable, Target, HeldVersion, Whole
<1>14. CASE PutFinish
  <2>1. mem'.manifest = offer /\ Durable = offer
    BY <1>2, <1>4, <1>14 DEF PutFinish, MemoryIsDisk, PutHasOffer
  <2> QED BY <1>4, <1>14, <2>1 DEF PutFinish, Filed, Led, MemoryIsDisk, Durable
<1>15. CASE PutFail
  BY <1>2, <1>4, <1>15 DEF PutFail, disk, Filed, Led, MemoryIsDisk, Durable, PutHasOffer
<1>16. ASSUME NEW v \in Version, NoteSeen(v) PROVE Goal
  <2>1. mem'.manifest = mem.manifest
    BY <1>2, <1>16 DEF NoteSeen, TypeOK, MemberState
  <2> QED BY <1>4, <1>16, <2>1 DEF NoteSeen, Filed, Led, MemoryIsDisk, Durable
<1>17. CASE Crash
  BY <1>4, <1>17 DEF Crash, disk, Filed, Led, MemoryIsDisk, Durable
<1>18. CASE Wipe
  <2>1. pc = "idle" /\ 0 \notin Version
    BY <1>2, <1>18, VersionsArePositive DEF Wipe, PutHasOffer
  <2> QED BY <1>4, <1>18, <2>1 DEF Wipe, Filed, Led, MemoryIsDisk, Durable, EmptyDir
<1>19. CASE Damage
  <2>1. ~up /\ ~up'
    BY <1>19 DEF Damage
  <2>2. Garbage \notin Version
    BY VersionsArePositive
  <2>3. CASE DamageBlob
    <3>1. "blob" \in Fault /\ current' = current
      BY <2>3 DEF DamageBlob
    <3>2. \A v \in Version : dirs'[v].manifest = dirs[v].manifest
      BY <1>2, <2>3 DEF DamageBlob, TypeOK, Dir
    <3> QED BY <1>4, <2>1, <3>1, <3>2 DEF Filed, Led, MemoryIsDisk
  <2>4. CASE ~DamageBlob
    <3>1. dirs' = dirs /\ current' \in {current, Garbage}
      BY <1>19, <2>4 DEF Damage, DamagePointer, DamageManifest, DamageSeen, ManifestsSurvive
    <3> QED BY <1>4, <2>1, <2>2, <3>1 DEF Filed, Led, MemoryIsDisk
  <2> QED BY <2>3, <2>4
<1>20. CASE Calm
  BY <1>4, <1>20 DEF Calm, disk, Filed, Led, MemoryIsDisk, Durable, Target, HeldVersion
<1>21. CASE UNCHANGED vars
  BY <1>4, <1>21 DEF vars, Filed, Led, MemoryIsDisk, Durable, Target, HeldVersion
<1> QED
  BY <1>5, <1>6, <1>7, <1>8, <1>9, <1>10, <1>11, <1>12, <1>13, <1>14, <1>15,
     <1>16, <1>17, <1>18, <1>19, <1>20, <1>21
  DEF Next, Calls, Outage, PutProgress

\* The bundle's invariant holds initially, with nothing on disk.
LEMMA StoreInit == Init => StoreInv
<1> SUFFICES ASSUME Init PROVE StoreInv
  OBVIOUS
<1>1. 0 \notin Version
  BY VersionsArePositive
<1> QED BY <1>1, StageInit DEF Init, StoreInv, Filed, Led, MemoryIsDisk, EmptyDir

\* The bundle's invariant holds in every reachable state.
LEMMA StoreInvariant ==
  ASSUME ManifestsSurvive
  PROVE  Spec => []StoreInv
<1>1. StoreInv /\ [Next]_vars => StoreInv'
  BY StoreStep
<1> QED BY StoreInit, <1>1, PTL DEF Spec

\* What the pointer file leads to is complete at every moment, whatever
\* crash or I/O error interrupts whatever Put.
THEOREM CurrentAlwaysWhole ==
  ASSUME ManifestsSurvive, "blob" \notin Fault
  PROVE  Spec => []CurrentIsWhole
<1>1. StoreInv => CurrentIsWhole
  BY DEF StoreInv, Led, CurrentIsWhole, Durable
<1> QED BY StoreInvariant, <1>1, PTL

\* Memory and disk agree whenever no Put is past its commit point: a Put
\* that failed has changed nothing that a restart would show.
THEOREM MemoryAlwaysDisk ==
  ASSUME ManifestsSurvive
  PROVE  Spec => []MemoryIsDisk
<1>1. StoreInv => MemoryIsDisk
  BY DEF StoreInv
<1> QED BY StoreInvariant, <1>1, PTL

-----------------------------------------------------------------------------
(* Refinement: the store is a crash-safe register.                         *)

\* A step of the store is a step of the register or leaves it alone.
LEMMA RegisterStep ==
  ASSUME ManifestsSurvive, StoreInv, [Next]_vars
  PROVE  [Register!Next]_(Register!avars)
<1>1. StoreInv'
  BY StoreStep
<1>2. TypeInv /\ TypeOK /\ PutHasOffer /\ Filed /\ Staged /\ Led /\ MemoryIsDisk
  BY DEF StoreInv, StageInv, TypeInv
<1> DEFINE Same == Durable' = Durable /\ mem'.manifest = mem.manifest /\ up' = up
<1> DEFINE Goal == [Register!Next]_(Register!avars)
<1>3. Same => Goal
  BY DEF Register!avars
<1>4. CASE Open
  <2>1. mem'.manifest = Durable
    BY <1>4 DEF Open, Loaded, NoState
  <2>2. Durable' = Durable
    BY <1>4 DEF Open, disk, Durable
  <2> QED BY <1>4, <2>1, <2>2 DEF Open, Register!Next, Register!Start
<1>5. ASSUME NEW m \in Manifest, PutBegin(m) PROVE Goal
  BY <1>3, <1>5 DEF PutBegin, disk, Durable
<1>6. CASE PutClearTmp
  BY <1>3, <1>6 DEF PutClearTmp, Durable
<1>7. ASSUME NEW b \in Blob, PutWriteBlob(b) PROVE Goal
  BY <1>3, <1>7 DEF PutWriteBlob, Durable
<1>8. CASE PutWriteManifest
  BY <1>3, <1>8 DEF PutWriteManifest, Durable
<1>9. CASE PutClearFinal \/ PutRename
  <2>1. Target \in Version /\ current # Target
    BY <1>2, <1>9, PutInHand, TargetIsNotCurrent DEF PutClearFinal, PutRename
  <2>2. \E d : dirs' = [dirs EXCEPT ![Target] = d]
    BY <1>9 DEF PutClearFinal, PutRename
  <2>3. current' = current /\ UNCHANGED <<mem, up>>
    BY <1>9 DEF PutClearFinal, PutRename
  <2>4. current \in Version => dirs'[current] = dirs[current]
    BY <1>2, <2>1, <2>2 DEF TypeOK
  <2> QED BY <1>3, <2>3, <2>4 DEF Durable
<1>10. CASE PutCommit
  <2>1. /\ offer \in Manifest /\ Target \in Version /\ up
        /\ Durable = mem.manifest /\ Target > HeldVersion
        /\ Whole(dirs[Target], offer)
    BY <1>2, <1>10, PutInHand DEF PutCommit, MemoryIsDisk, Staged
  <2>2. Durable' = offer
    BY <1>10, <2>1 DEF PutCommit, Durable, Whole
  <2>3. Register!VersionIn(offer) > Register!VersionIn(mem.manifest)
    BY <2>1 DEF Register!VersionIn, Target, HeldVersion, VersionIn
  <2>4. Register!Commit(offer)
    BY <1>10, <2>1, <2>2, <2>3 DEF PutCommit, Register!Commit
  <2> QED BY <2>1, <2>4 DEF Register!Next
<1>11. CASE PutPrune
  <2>1. Target \in Version /\ current = Target
    BY <1>2, <1>11, PutInHand DEF PutPrune, Staged
  <2>2. \E v \in Version \ {Target} : \E d : dirs' = [dirs EXCEPT ![v] = d]
    BY <1>11 DEF PutPrune
  <2>3. dirs'[Target] = dirs[Target]
    BY <1>2, <2>1, <2>2 DEF TypeOK
  <2> QED BY <1>3, <1>11, <2>1, <2>3 DEF PutPrune, Durable
<1>12. CASE PutFinish
  <2>1. up /\ Durable = offer
    BY <1>2, <1>12 DEF PutFinish, MemoryIsDisk, PutHasOffer
  <2>2. Durable' = Durable /\ mem'.manifest = offer /\ up' = up
    BY <1>12 DEF PutFinish, Durable
  <2> QED BY <2>1, <2>2 DEF Register!Next, Register!Adopt
<1>13. CASE PutFail
  BY <1>3, <1>13 DEF PutFail, disk, Durable
<1>14. ASSUME NEW v \in Version, NoteSeen(v) PROVE Goal
  <2>1. mem'.manifest = mem.manifest
    BY <1>2, <1>14 DEF NoteSeen, TypeOK, MemberState
  <2> QED BY <1>3, <1>14, <2>1 DEF NoteSeen, Durable
<1>15. CASE Crash
  BY <1>15 DEF Crash, NoState, disk, Durable, Register!Next, Register!Stop
<1>16. CASE Wipe
  <2>1. Durable' = None
    BY <1>16, VersionsArePositive DEF Wipe, Durable
  <2> QED BY <1>16, <2>1 DEF Wipe, Register!Next, Register!Lose
<1>17. CASE Damage
  <2>1. UNCHANGED <<mem, up>> /\ current' \in {current, Garbage} /\ ~up
    BY <1>17 DEF Damage, DamagePointer, DamageManifest, DamageBlob, DamageSeen, ManifestsSurvive
  <2>1a. \A v \in Version : dirs'[v].manifest = dirs[v].manifest
    BY <1>2, <1>17 DEF Damage, DamagePointer, DamageManifest, DamageBlob, DamageSeen,
         ManifestsSurvive, TypeOK, Dir
  <2>2. Durable' \in {Durable, None}
    BY <2>1, <2>1a, VersionsArePositive DEF Durable
  <2> QED BY <2>1, <2>2 DEF Register!Next, Register!Lose, Register!avars
<1>18. CASE Calm
  BY <1>3, <1>18 DEF Calm, disk, Durable
<1>19. CASE UNCHANGED vars
  BY <1>3, <1>19 DEF vars, Durable
<1> QED
  BY <1>4, <1>5, <1>6, <1>7, <1>8, <1>9, <1>10, <1>11, <1>12, <1>13, <1>14,
     <1>15, <1>16, <1>17, <1>18, <1>19
  DEF Next, Calls, Outage, PutProgress

\* Updates are atomic: with every interruption a Put may suffer, the store
\* implements the crash-safe register.
THEOREM StoreIsRegister ==
  ASSUME ManifestsSurvive
  PROVE  Spec => ImplementsRegister
<1>1. Init => Register!Init
  BY VersionsArePositive DEF Init, Register!Init, Durable, NoState
<1>2. StoreInv /\ [Next]_vars => [Register!Next]_(Register!avars)
  BY RegisterStep
<1> QED BY StoreInvariant, <1>1, <1>2, PTL DEF Spec, ImplementsRegister, Register!Spec

-----------------------------------------------------------------------------
(* The seen version.                                                       *)

\* The freshness baseline never falls below the version held, also when the
\* seen file is lost or older than the pointer: loading repairs it.
THEOREM SeenAlwaysCoversHeld == Spec => []SeenCoversHeld
<1> DEFINE Inv == TypeInv /\ SeenCoversHeld
<1>1. Init => Inv
  BY StageInit DEF Init, StageInv, SeenCoversHeld, HeldVersion, VersionIn, NoState
<1>2. Inv /\ [Next]_vars => Inv'
  <2> SUFFICES ASSUME Inv, [Next]_vars PROVE SeenCoversHeld'
    BY TypeStep
  <2>1. TypeInv /\ TypeOK /\ TypeOK' /\ SeenCoversHeld
    BY TypeStep DEF TypeInv
  <2>2. CASE UNCHANGED mem
    BY <2>1, <2>2 DEF SeenCoversHeld, HeldVersion
  <2>3. CASE Open
    <3>1. seen \in Nat /\ VersionIn(Durable) \in Nat
      BY <2>1, LoadedType, VersionOfManifest, VersionsArePositive DEF TypeOK, VersionIn
    <3>2. VersionIn(Durable) <= Larger(seen, VersionIn(Durable))
      BY <3>1, LargerIsMax
    <3>3. VersionIn(None) = 0
      BY DEF VersionIn
    <3>4. CASE mem' = NoState
      BY <3>3, <3>4 DEF NoState, SeenCoversHeld, HeldVersion
    <3>5. CASE mem' = [manifest |-> Durable, seen |-> Larger(seen, VersionIn(Durable))]
      <4>1. HeldVersion' = VersionIn(Durable) /\ mem'.seen = Larger(seen, VersionIn(Durable))
        BY <3>5 DEF HeldVersion, VersionIn
      <4> QED BY <3>2, <4>1 DEF SeenCoversHeld
    <3> QED BY <2>3, <3>4, <3>5 DEF Open, Loaded
  <2>4. CASE PutFinish
    <3>1. offer \in Manifest /\ Target \in Nat /\ mem.seen \in Version \cup {0}
      BY <2>1, <2>4, PutInHand DEF PutFinish, TypeOK, MemberState
    <3>1a. mem.seen \in Nat
      BY <3>1, VersionOrNoneIsNat
    <3>2. Target <= Larger(mem.seen, Target)
      BY <3>1, <3>1a, LargerIsMax
    <3>3. VersionIn(offer) = Target
      BY <3>1 DEF Target, VersionIn
    <3>4. HeldVersion' = Target /\ mem'.seen = Larger(mem.seen, Target)
      BY <2>4, <3>3 DEF PutFinish, HeldVersion, VersionIn
    <3> QED BY <3>2, <3>4 DEF SeenCoversHeld
  <2>5. ASSUME NEW v \in Version, NoteSeen(v) PROVE SeenCoversHeld'
    <3>1. mem'.manifest = mem.manifest /\ mem'.seen = v /\ v > mem.seen
      BY <2>1, <2>5 DEF NoteSeen, TypeOK, MemberState
    <3>2a. mem.manifest \in Manifest \cup {None} /\ mem.seen \in Version \cup {0}
      BY <2>1 DEF TypeOK, MemberState
    <3>2b. HeldVersion \in Nat
      BY <3>2a DEF HeldVersion, VersionIn
    <3>2. mem.seen \in Nat /\ v \in Nat /\ HeldVersion \in Nat
      BY <3>2a, <3>2b, VersionOrNoneIsNat
    <3>3. HeldVersion' = HeldVersion
      BY <3>1 DEF HeldVersion
    <3> QED BY <2>1, <3>1, <3>2, <3>3 DEF SeenCoversHeld
  <2>6. CASE Crash
    BY <2>6 DEF Crash, NoState, SeenCoversHeld, HeldVersion, VersionIn
  <2> QED
    BY <2>2, <2>3, <2>4, <2>5, <2>6
    DEF Next, Calls, Outage, PutProgress, vars, PutBegin, PutClearTmp, PutWriteBlob,
        PutWriteManifest, PutClearFinal, PutRename, PutCommit, PutPrune, PutFail,
        Wipe, Damage, Calm
<1> QED BY <1>1, <1>2, PTL DEF Spec

\* On a disk that suffers nothing the seen file is at most what the running
\* store remembers, so that a persisted number is never replaced by a lower.
SeenInv ==
  /\ StoreInv
  /\ up => seen <= mem.seen
  /\ current # Garbage

\* Every step keeps that invariant, and only a wipe lowers the seen file.
LEMMA SeenStep ==
  ASSUME Fault = {}, SeenInv, [Next]_vars
  PROVE  SeenInv' /\ (Wipe \/ seen' >= seen)
<1>1. StoreInv /\ StoreInv' /\ TypeInv /\ TypeOK
  BY StoreStep DEF SeenInv, ManifestsSurvive, StoreInv, StageInv, TypeInv
<1>2. seen \in Nat /\ mem \in MemberState /\ mem.seen \in Nat
  <2>1. mem.seen \in Version \cup {0}
    BY <1>1 DEF TypeOK, MemberState
  <2> QED BY <1>1, <2>1, VersionOrNoneIsNat DEF TypeOK
<1> DEFINE Goal == (up' => seen' <= mem'.seen) /\ current' # Garbage /\ (Wipe \/ seen' >= seen)
<1>3. SUFFICES Goal
  BY <1>1 DEF SeenInv
<1>4. (up => seen <= mem.seen) /\ current # Garbage
  BY DEF SeenInv
<1>5. CASE Open
  <2>1. Durable = None => current = 0
    BY <1>1, <1>4 DEF StoreInv, Led, Durable, TypeOK
  <2>2. mem' = [manifest |-> Durable, seen |-> Larger(seen, VersionIn(Durable))]
    BY <1>5, <2>1 DEF Open, Loaded
  <2>3. Durable \in Manifest \cup {None}
    BY <1>1, LoadedType
  <2>4. VersionIn(Durable) \in Nat
    BY <2>3 DEF VersionIn
  <2>5. mem'.seen = Larger(seen, VersionIn(Durable))
    BY <2>2
  <2>6. seen <= Larger(seen, VersionIn(Durable))
    BY <1>2, <2>4, LargerIsMax
  <2> QED BY <1>2, <1>4, <1>5, <2>5, <2>6 DEF Open, disk
<1>6. CASE PutFinish
  <2>1. Target \in Nat /\ up
    BY <1>1, <1>6, PutInHand DEF PutFinish
  <2>2. mem'.seen = Larger(mem.seen, Target)
    BY <1>6 DEF PutFinish
  <2>3. mem.seen <= mem'.seen /\ Target <= mem'.seen /\ mem'.seen \in Nat
    BY <1>2, <2>1, <2>2, LargerIsMax
  <2>4. seen' = seen \/ (mem.seen < Target /\ seen' = Target)
    BY <1>6 DEF PutFinish, PersistSeen
  <2>5. seen' <= mem'.seen /\ seen' >= seen
    BY <1>2, <1>4, <2>1, <2>3, <2>4
  <2>6. current' = current
    BY <1>6 DEF PutFinish
  <2> QED BY <1>4, <2>5, <2>6
<1>7. ASSUME NEW v \in Version, NoteSeen(v) PROVE Goal
  <2>1. mem'.seen = v /\ v > mem.seen /\ (seen' = v \/ seen' = seen) /\ up /\ current' = current
    BY <1>2, <1>7 DEF NoteSeen, PersistSeen, MemberState
  <2>2. v \in Nat
    BY VersionsArePositive
  <2> QED BY <1>2, <1>4, <2>1, <2>2
<1>8. CASE PutCommit
  <2>1. current' \in Version /\ UNCHANGED <<seen, mem, up>>
    BY <1>1, <1>8, PutInHand DEF PutCommit
  <2> QED BY <1>2, <1>4, <2>1, VersionsArePositive
<1>9. CASE Crash
  BY <1>2, <1>4, <1>9 DEF Crash, disk
<1>10. CASE Wipe
  BY <1>4, <1>10 DEF Wipe
<1>11. CASE Damage
  BY <1>11 DEF Damage, DamagePointer, DamageManifest, DamageBlob, DamageSeen
<1>12. CASE UNCHANGED <<seen, mem, up, current>>
  BY <1>2, <1>4, <1>12
<1> QED
  BY <1>5, <1>6, <1>7, <1>8, <1>9, <1>10, <1>11, <1>12
  DEF Next, Calls, Outage, PutProgress, vars, disk, PutBegin, PutClearTmp, PutWriteBlob,
      PutWriteManifest, PutClearFinal, PutRename, PutPrune, PutFail, Calm

\* The persisted "highest version ever observed" survives every crash, error
\* and restart; only wiping the data directory lowers it.
THEOREM SeenAlwaysSurvives ==
  ASSUME Fault = {}
  PROVE  Spec => SeenSurvives
<1>1. Init => SeenInv
  <2>1. Init => /\ StoreInv
                /\ ~up
                /\ current = 0
    BY StoreInit DEF Init
  <2> QED BY <2>1 DEF SeenInv
<1>2. SeenInv /\ [Next]_vars => SeenInv'
  BY SeenStep
<1>3. SeenInv /\ [Next]_vars => [~Wipe => seen' >= seen]_vars
  BY SeenStep
<1> QED BY <1>1, <1>2, <1>3, PTL DEF Spec, SeenSurvives

-----------------------------------------------------------------------------
(* Visitors.  A visitor reads the store in three steps, with any steps of  *)
(* the store in between (module RelayRead).                                *)

\* Both manifests are the same or the first is of a lower version.
NotAfter(m, n) == m = n \/ VersionIn(m) < VersionIn(n)

\* While the process runs, what is durable and what is served only go up.
LEMMA RunningRises ==
  ASSUME ManifestsSurvive, StoreInv, [Next]_vars, up, up'
  PROVE  /\ NotAfter(Durable, Durable')
         /\ NotAfter(mem.manifest, mem'.manifest)
<1>1. [Register!Next]_(Register!avars)
  BY RegisterStep
<1>2. NotAfter(mem.manifest, Durable)
  <2>1. CASE pc = "prune"
    <3>1. Durable = offer /\ Target > HeldVersion /\ offer \in Manifest
      BY <2>1, PutInHand DEF StoreInv, StageInv, Staged, MemoryIsDisk
    <3> QED BY <3>1, VersionOfManifest DEF NotAfter, Target, HeldVersion
  <2>2. CASE pc # "prune"
    BY <2>2 DEF StoreInv, MemoryIsDisk, NotAfter
  <2> QED BY <2>1, <2>2
<1>3. ASSUME NEW m \in Manifest, Register!Commit(m)
      PROVE  /\ NotAfter(Durable, Durable')
             /\ NotAfter(mem.manifest, mem'.manifest)
  BY <1>3 DEF Register!Commit, Register!VersionIn, NotAfter, VersionIn
<1>4. CASE Register!Adopt
  BY <1>2, <1>4 DEF Register!Adopt, NotAfter
<1>5. CASE UNCHANGED Register!avars
  BY <1>5 DEF Register!avars, NotAfter
<1> QED BY <1>1, <1>3, <1>4, <1>5 DEF Register!Next, Register!Stop, Register!Start, Register!Lose

Request == [step : {"idle", "entry", "path", "served"} \cup Failed,
            manifest : Manifest \cup {None}, blob : Blob \cup {None},
            path : Version \cup {0}]

\* The path names the version that the pointer leads to and that has the
\* blob, or one that has been superseded since.
PathGood ==
  \/ rd.path = VersionIn(Durable) /\ rd.blob \in FilesOf[Durable]
  \/ rd.path < VersionIn(Durable)

\* What a request has learned from a running process is still served, or has
\* been superseded; a path is not older than the manifest it was found by.
ReaderSound ==
  /\ rd \in Request
  /\ rd.step # "idle" =>
       /\ up
       /\ rd.manifest \in Manifest
       /\ rd.blob \in FilesOf[rd.manifest]
       /\ NotAfter(rd.manifest, mem.manifest)
  /\ rd.step = "path" => /\ VersionIn(rd.manifest) <= rd.path
                         /\ PathGood
  /\ rd.step \in Failed => VersionIn(rd.manifest) < VersionIn(Durable)

RInv == StoreInv /\ ReaderSound

\* What stands for the version of a manifest, or of none, is a number.
LEMMA VersionInIsNat ==
  ASSUME NEW m \in Manifest \cup {None}
  PROVE  VersionIn(m) \in Nat
<1>1. CASE m = None
  BY <1>1 DEF VersionIn
<1>2. CASE m \in Manifest
  BY <1>2, VersionOfManifest, VersionsArePositive
<1> QED BY <1>1, <1>2

\* The versions of what is held are numbers.
LEMMA HeldIsNumbered ==
  ASSUME StoreInv
  PROVE  /\ mem.manifest \in Manifest \cup {None}
         /\ Durable \in Manifest \cup {None}
         /\ VersionIn(mem.manifest) \in Nat /\ VersionIn(Durable) \in Nat
         /\ HeldVersion \in Version \cup {0}
<1>1. TypeOK
  BY DEF StoreInv, StageInv, TypeInv
<1>2. mem.manifest \in Manifest \cup {None} /\ Durable \in Manifest \cup {None}
  BY <1>1, LoadedType DEF TypeOK, MemberState
<1> QED BY <1>2, VersionOfManifest, VersionsArePositive DEF VersionIn, HeldVersion

\* The steps of the request itself.
LEMMA ReadingStep ==
  ASSUME ManifestsSurvive, "blob" \notin Fault, RInv, Reading
  PROVE  RInv'
<1>1. StoreInv /\ ReaderSound /\ UNCHANGED vars
  BY DEF RInv, Reading, ReadManifest, ReadPath, ReadOpen, ReadDone
<1>2. /\ StoreInv' /\ Durable' = Durable /\ mem' = mem /\ up' = up
  BY <1>1 DEF vars, disk, StoreInv, StageInv, TypeInv, TypeOK, PutHasOffer, Staged, Filed, Led,
       MemoryIsDisk, Durable, Target, HeldVersion
<1>3. RLocked => Durable = mem.manifest
  BY <1>1 DEF RLocked, StoreInv, MemoryIsDisk
<1>4. SUFFICES ReaderSound'
  BY <1>2 DEF RInv
<1>5. CASE ReadManifest
  <2>1. PICK b \in FilesOf[mem.manifest] :
          rd' = [step |-> "entry", manifest |-> mem.manifest, blob |-> b, path |-> 0]
    BY <1>5 DEF ReadManifest
  <2>2. mem.manifest \in Manifest /\ b \in Blob /\ up
    BY <1>1, <1>5, <2>1, HeldIsNumbered DEF ReadManifest, RLocked
  <2>3. rd' \in Request
    BY <2>1, <2>2 DEF Request
  <2> QED BY <1>2, <2>1, <2>2, <2>3 DEF ReaderSound, NotAfter, Failed
<1>6. CASE ReadPath
  <2>1. /\ rd \in Request /\ rd.step = "entry" /\ up
        /\ rd.manifest \in Manifest /\ rd.blob \in FilesOf[rd.manifest]
        /\ NotAfter(rd.manifest, mem.manifest)
        /\ Durable = mem.manifest
    BY <1>1, <1>3, <1>6 DEF ReadPath, RLocked, ReaderSound
  <2>2. CASE mem.manifest # None /\ rd.blob \in FilesOf[mem.manifest]
    <3>1. rd' = [rd EXCEPT !.step = "path", !.path = HeldVersion]
      BY <1>6, <2>2 DEF ReadPath
    <3>2. /\ rd' \in Request /\ rd'.step = "path" /\ rd'.path = HeldVersion
          /\ rd'.manifest = rd.manifest /\ rd'.blob = rd.blob
      BY <1>1, <2>1, <3>1, HeldIsNumbered DEF Request
    <3>3. VersionIn(rd.manifest) <= HeldVersion
      BY <1>1, <2>1, HeldIsNumbered, VersionOfManifest, VersionsArePositive DEF NotAfter, HeldVersion
    <3>4. PathGood'
      BY <1>2, <2>1, <2>2, <3>2 DEF PathGood, HeldVersion
    <3> QED BY <1>2, <2>1, <3>2, <3>3, <3>4 DEF ReaderSound, Failed, NotAfter
  <2>3. CASE ~(mem.manifest # None /\ rd.blob \in FilesOf[mem.manifest])
    <3>1. rd' = [rd EXCEPT !.step = "missing"]
      BY <1>6, <2>3 DEF ReadPath
    <3>2. /\ rd' \in Request /\ rd'.step = "missing"
          /\ rd'.manifest = rd.manifest /\ rd'.blob = rd.blob
      BY <2>1, <3>1 DEF Request, Failed
    <3>3. VersionIn(rd.manifest) < VersionIn(Durable)
      BY <2>1, <2>3 DEF NotAfter
    <3> QED BY <1>2, <2>1, <3>2, <3>3 DEF ReaderSound, NotAfter
  <2> QED BY <2>2, <2>3
<1>7. CASE ReadOpen
  <2>1. /\ rd \in Request /\ rd.step = "path" /\ up
        /\ rd.manifest \in Manifest /\ rd.blob \in FilesOf[rd.manifest]
        /\ NotAfter(rd.manifest, mem.manifest)
        /\ VersionIn(rd.manifest) <= rd.path /\ PathGood
    BY <1>1, <1>7 DEF ReadOpen, ReaderSound
  <2>2. rd' = [rd EXCEPT !.step = IF rd.blob \in dirs[rd.path].blobs THEN "served" ELSE "unreadable"]
    BY <1>7 DEF ReadOpen
  <2>3. /\ rd' \in Request /\ rd'.manifest = rd.manifest /\ rd'.blob = rd.blob
        /\ rd'.step \in {"served", "unreadable"}
        /\ rd'.step = "unreadable" => rd.blob \notin dirs[rd.path].blobs
    BY <2>1, <2>2 DEF Request, Failed
  <2>4. ASSUME rd.path = VersionIn(Durable), rd.blob \in FilesOf[Durable], Durable # None
        PROVE  rd.blob \in dirs[rd.path].blobs
    <3>1. current \in Version /\ Durable = dirs[current].manifest
      BY <2>4 DEF Durable
    <3>2. VersionIn(Durable) = current
      BY <1>1, <2>4, <3>1 DEF StoreInv, Filed, VersionIn
    <3>3. FilesOf[Durable] \subseteq dirs[current].blobs
      BY <1>1, <3>1 DEF StoreInv, Led, Whole
    <3> QED BY <2>4, <3>2, <3>3
  <2>5. ASSUME rd'.step = "unreadable"
        PROVE  VersionIn(rd.manifest) < VersionIn(Durable)
    <3>1. VersionIn(rd.manifest) \in Nat \ {0} /\ VersionIn(Durable) \in Nat /\ rd.path \in Nat
      <4>1. VersionIn(rd.manifest) \in Nat \ {0}
        BY <2>1, VersionOfManifest, VersionsArePositive
      <4>2. rd.path \in Nat
        BY <2>1, VersionOrNoneIsNat DEF Request
      <4> QED BY <1>1, <4>1, <4>2, HeldIsNumbered
    <3>2. CASE rd.path < VersionIn(Durable)
      BY <2>1, <3>1, <3>2
    <3>3. CASE rd.path = VersionIn(Durable) /\ rd.blob \in FilesOf[Durable]
      <4>1. Durable # None
        BY <2>1, <3>1, <3>3 DEF VersionIn
      <4> QED BY <2>3, <2>4, <2>5, <3>3, <4>1
    <3> QED BY <2>1, <3>2, <3>3 DEF PathGood
  <2> QED BY <1>2, <2>1, <2>3, <2>5 DEF ReaderSound, Failed, NotAfter
<1>8. CASE ReadDone
  <2>1. rd' = NoRequest /\ NoRequest \in Request /\ NoRequest.step = "idle"
    BY <1>8 DEF ReadDone, NoRequest, Request
  <2> QED BY <2>1 DEF ReaderSound, Failed
<1> QED BY <1>5, <1>6, <1>7, <1>8 DEF Reading

\* A step of the store under a request that waits.
LEMMA StoreUnderReader ==
  ASSUME ManifestsSurvive, RInv, [Next]_vars, UNCHANGED rd, up => up'
  PROVE  RInv'
<1>1. StoreInv /\ StoreInv' /\ ReaderSound /\ rd \in Request
  BY StoreStep DEF RInv, ReaderSound
<1>2. CASE rd.step = "idle"
  BY <1>1, <1>2 DEF RInv, ReaderSound, Failed
<1>3. CASE rd.step # "idle"
  <2>1. /\ up /\ up' /\ rd.manifest \in Manifest /\ rd.blob \in FilesOf[rd.manifest]
        /\ NotAfter(rd.manifest, mem.manifest)
    BY <1>1, <1>3 DEF ReaderSound
  <2>2. NotAfter(Durable, Durable') /\ NotAfter(mem.manifest, mem'.manifest)
    BY <1>1, <2>1, RunningRises
  <2>3. /\ VersionIn(mem.manifest) \in Nat /\ VersionIn(Durable) \in Nat
        /\ VersionIn(mem'.manifest) \in Nat /\ VersionIn(Durable') \in Nat
    <3>1. VersionIn(mem.manifest) \in Nat /\ VersionIn(Durable) \in Nat
      BY <1>1, HeldIsNumbered
    <3>2. (VersionIn(mem.manifest) \in Nat /\ VersionIn(Durable) \in Nat)'
      <4>1. TypeOK'
        BY <1>1 DEF StoreInv, StageInv, TypeInv
      <4>2. mem'.manifest \in Manifest \cup {None}
        BY <4>1 DEF TypeOK, MemberState
      <4>3. Durable' \in Manifest \cup {None}
        BY <4>1 DEF TypeOK, Durable, Dir
      <4> QED BY <4>2, <4>3, VersionInIsNat
    <3> QED BY <3>1, <3>2
  <2>4. VersionIn(rd.manifest) \in Nat /\ rd.path \in Nat
    BY <1>1, <2>1, VersionInIsNat, VersionOrNoneIsNat DEF Request
  <2>5. NotAfter(rd.manifest, mem'.manifest)
    BY <2>1, <2>2, <2>3, <2>4 DEF NotAfter
  <2>6. PathGood => PathGood'
    BY <2>2, <2>3, <2>4 DEF PathGood, NotAfter
  <2>7. VersionIn(rd.manifest) < VersionIn(Durable) => VersionIn(rd.manifest) < VersionIn(Durable')
    BY <2>2, <2>3, <2>4 DEF NotAfter
  <2> QED BY <1>1, <2>1, <2>5, <2>6, <2>7 DEF RInv, ReaderSound
<1> QED BY <1>2, <1>3

\* A step of the whole is one of the request, of the store, or a crash of both.
LEMMA ReaderStep ==
  ASSUME ManifestsSurvive, "blob" \notin Fault, RInv, [RNext]_rvars
  PROVE  RInv'
<1>1. CASE Reading
  BY <1>1, ReadingStep
<1>2. CASE Crash /\ rd' = NoRequest
  <2>1. StoreInv'
    BY <1>2, StoreStep DEF RInv, Next
  <2>2. NoRequest \in Request /\ NoRequest.step = "idle"
    BY DEF NoRequest, Request
  <2> QED BY <1>2, <2>1, <2>2 DEF RInv, ReaderSound, Failed
<1>3. CASE ((Calls \/ Outage \/ Calm) /\ UNCHANGED rd) \/ UNCHANGED rvars
  <2>1. [Next]_vars /\ UNCHANGED rd
    BY <1>3 DEF Next, rvars
  <2>2. up => up'
    BY <1>3 DEF rvars, vars, Calls, Outage, Calm, Open, PutBegin, PutProgress, PutClearTmp,
         PutWriteBlob, PutWriteManifest, PutClearFinal, PutRename, PutCommit, PutPrune,
         PutFinish, PutFail, NoteSeen, Wipe, Damage
  <2> QED BY <2>1, <2>2, StoreUnderReader
<1> QED BY <1>1, <1>2, <1>3 DEF RNext

\* An agent fails a visitor only when a newer version has been committed since
\* the visitor's request read the manifest, on a disk that keeps manifests
\* and blobs.
THEOREM VisitorFailsOnlyForNewer ==
  ASSUME ManifestsSurvive, "blob" \notin Fault
  PROVE  RSpec => []VisitorFailsOnlyWhenSuperseded
<1>1. RInit => RInv
  <2>1. NoRequest \in Request /\ NoRequest.step = "idle"
    BY DEF NoRequest, Request
  <2> QED BY <2>1, StoreInit DEF RInit, RInv, ReaderSound, Failed
<1>2. RInv /\ [RNext]_rvars => RInv'
  BY ReaderStep
<1>3. RInv => VisitorFailsOnlyWhenSuperseded
  BY DEF RInv, ReaderSound, VisitorFailsOnlyWhenSuperseded, VersionIn, Failed
<1> QED BY <1>1, <1>2, <1>3, PTL DEF RSpec

\* Visitors do not disturb the store: whatever is proved of it holds with them.
THEOREM VisitorsOnlyRead == RSpec => Spec
<1>1. RInit => Init
  BY DEF RInit
<1>2. [RNext]_rvars => [Next]_vars
  BY DEF RNext, Next, Reading, ReadManifest, ReadPath, ReadOpen, ReadDone, rvars
<1> QED BY <1>1, <1>2, PTL DEF RSpec, Spec

=============================================================================
