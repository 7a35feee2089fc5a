---------------------------- MODULE PublisherProofs ----------------------------
(***************************************************************************)
(* What Publisher guarantees for any manifests, any number of other        *)
(* writers and deaths anywhere: a manifest never precedes its blobs, at    *)
(* the origin or in the work directory, nothing that can be signed lacks   *)
(* blobs, and a push that had the origin to itself made a faithful copy.   *)
(*                                                                         *)
(* The lemmas of BundleDirProofs do the work for each of the two           *)
(* directories; what is added here ties the owner's command to the call    *)
(* of WriteDir that it is making.                                          *)
(***************************************************************************)
EXTENDS Publisher, TLAPS

USE PublisherAssumption

\* The two directories once more, with the lemmas about them.
WorkP == INSTANCE BundleDirProofs WITH Writer <- {Owner}, manifest <- wmanifest,
           tmp <- wtmp, blobs <- wblobs, job <- wjob

SiteP == INSTANCE BundleDirProofs WITH Writer <- Other \cup {Owner},
           manifest <- omanifest, tmp <- otmp, blobs <- oblobs, job <- ojob

LEMMA DirConstantsHold == WorkP!DirConstants /\ SiteP!DirConstants
  BY DEF WorkP!DirConstants, SiteP!DirConstants

-----------------------------------------------------------------------------
(* Both names of an operation of a directory mean the same.                *)

LEMMA SameWork ==
  /\ Work!DTypeOK <=> WorkP!DTypeOK
  /\ Work!DInit <=> WorkP!DInit
  /\ Work!Writing(Owner) <=> WorkP!Writing(Owner)
  /\ Work!Return(Owner) <=> WorkP!Return(Owner)
  /\ \A m \in Manifest \cup {Empty}, files \in SUBSET Blob, bad \in SUBSET Blob :
       Work!WriteDir(Owner, m, files, bad) <=> WorkP!WriteDir(Owner, m, files, bad)
  /\ Work!NoJob = WorkP!NoJob
<1>1. Work!NoJob = WorkP!NoJob
  BY DEF Work!NoJob, WorkP!NoJob
<1>2. Work!DTypeOK <=> WorkP!DTypeOK
  BY DEF Work!DTypeOK, WorkP!DTypeOK, Work!EnvelopeFile, WorkP!EnvelopeFile,
         Work!BlobFile, WorkP!BlobFile, Work!Job, WorkP!Job, Work!WriteStep, WorkP!WriteStep
<1>3. Work!DInit <=> WorkP!DInit
  BY <1>1 DEF Work!DInit, WorkP!DInit
<1>4. Work!Return(Owner) <=> WorkP!Return(Owner)
  BY <1>1 DEF Work!Return, WorkP!Return
<1>5. ASSUME NEW m \in Manifest \cup {Empty}, NEW files \in SUBSET Blob, NEW bad \in SUBSET Blob
      PROVE  Work!WriteDir(Owner, m, files, bad) <=> WorkP!WriteDir(Owner, m, files, bad)
  BY <1>1 DEF Work!WriteDir, WorkP!WriteDir
<1>6. Work!Writing(Owner) <=> WorkP!Writing(Owner)
  <2>1. /\ Work!OpenBlob(Owner) <=> WorkP!OpenBlob(Owner)
        /\ Work!WriteBlob(Owner) <=> WorkP!WriteBlob(Owner)
        /\ Work!OpenTmp(Owner) <=> WorkP!OpenTmp(Owner)
    BY DEF Work!OpenBlob, WorkP!OpenBlob, Work!WriteBlob, WorkP!WriteBlob,
           Work!OpenTmp, WorkP!OpenTmp
  <2>2. Work!WriteTmp(Owner) <=> WorkP!WriteTmp(Owner)
    BY DEF Work!WriteTmp, WorkP!WriteTmp, Work!Written, WorkP!Written
  <2>3. Work!Rename(Owner) <=> WorkP!Rename(Owner)
    BY DEF Work!Rename, WorkP!Rename, Work!Renamed, WorkP!Renamed
  <2> QED BY <2>1, <2>2, <2>3 DEF Work!Writing, WorkP!Writing
<1> QED BY <1>1, <1>2, <1>3, <1>4, <1>5, <1>6

LEMMA SameSite ==
  /\ Site!DTypeOK <=> SiteP!DTypeOK
  /\ Site!DInit <=> SiteP!DInit
  /\ \A w \in Other \cup {Owner} :
       /\ Site!Writing(w) <=> SiteP!Writing(w)
       /\ Site!Return(w) <=> SiteP!Return(w)
       /\ Site!Stop(w) <=> SiteP!Stop(w)
       /\ \A m \in Manifest, files \in SUBSET Blob, bad \in SUBSET Blob :
            Site!WriteDir(w, m, files, bad) <=> SiteP!WriteDir(w, m, files, bad)
  /\ Site!NoJob = SiteP!NoJob
<1>1. Site!NoJob = SiteP!NoJob
  BY DEF Site!NoJob, SiteP!NoJob
<1>2. Site!DTypeOK <=> SiteP!DTypeOK
  BY DEF Site!DTypeOK, SiteP!DTypeOK, Site!EnvelopeFile, SiteP!EnvelopeFile,
         Site!BlobFile, SiteP!BlobFile, Site!Job, SiteP!Job, Site!WriteStep, SiteP!WriteStep
<1>3. Site!DInit <=> SiteP!DInit
  BY <1>1 DEF Site!DInit, SiteP!DInit
<1>4. ASSUME NEW w \in Other \cup {Owner}
      PROVE  /\ Site!Writing(w) <=> SiteP!Writing(w)
             /\ Site!Return(w) <=> SiteP!Return(w)
             /\ Site!Stop(w) <=> SiteP!Stop(w)
             /\ \A m \in Manifest, files \in SUBSET Blob, bad \in SUBSET Blob :
                  Site!WriteDir(w, m, files, bad) <=> SiteP!WriteDir(w, m, files, bad)
  <2>1. /\ Site!Return(w) <=> SiteP!Return(w)
        /\ Site!Stop(w) <=> SiteP!Stop(w)
    BY <1>1 DEF Site!Return, SiteP!Return, Site!Stop, SiteP!Stop
  <2>2. ASSUME NEW m \in Manifest, NEW files \in SUBSET Blob, NEW bad \in SUBSET Blob
        PROVE  Site!WriteDir(w, m, files, bad) <=> SiteP!WriteDir(w, m, files, bad)
    BY <1>1 DEF Site!WriteDir, SiteP!WriteDir
  <2>3. /\ Site!OpenBlob(w) <=> SiteP!OpenBlob(w)
        /\ Site!WriteBlob(w) <=> SiteP!WriteBlob(w)
        /\ Site!OpenTmp(w) <=> SiteP!OpenTmp(w)
    BY DEF Site!OpenBlob, SiteP!OpenBlob, Site!WriteBlob, SiteP!WriteBlob,
           Site!OpenTmp, SiteP!OpenTmp
  <2>4. Site!WriteTmp(w) <=> SiteP!WriteTmp(w)
    BY DEF Site!WriteTmp, SiteP!WriteTmp, Site!Written, SiteP!Written
  <2>5. Site!Rename(w) <=> SiteP!Rename(w)
    BY DEF Site!Rename, SiteP!Rename, Site!Renamed, SiteP!Renamed
  <2>6. Site!Writing(w) <=> SiteP!Writing(w)
    BY <2>3, <2>4, <2>5 DEF Site!Writing, SiteP!Writing
  <2> QED BY <2>1, <2>2, <2>6
<1> QED BY <1>1, <1>2, <1>3, <1>4

-----------------------------------------------------------------------------
(* The invariant.                                                          *)

\* A build: while WriteDir runs it gets on with the manifest's blobs, and
\* when only the payload remains to be saved they are all there.
BuildSound ==
  /\ wjob[Owner].step # "idle" => cmd.kind \in {"build", "buildUnsigned"}
  /\ cmd.kind \in {"build", "buildUnsigned", "dropManifest", "dropUnsigned",
                   "saveUnsigned", "push"} => cmd.manifest \in Manifest
  /\ cmd.kind \in {"build", "buildUnsigned"} =>
       WorkP!Progress(Owner, FilesOf[cmd.manifest])
  /\ cmd.kind \in {"dropManifest", "dropUnsigned", "saveUnsigned"} =>
       WorkP!Present(FilesOf[cmd.manifest])

\* The blobs whose file in the work directory is torn.
Torn(files) == {b \in files : wblobs[b] = "torn"}

\* A push: WriteDir runs with what is in the work directory, and writes
\* just that while nobody else is at work on the origin.
PushSound ==
  /\ ojob[Owner].step # "idle" => cmd.kind = "push"
  /\ cmd.kind = "push" =>
       /\ wmanifest = cmd.manifest
       /\ ojob[Owner].envelope = cmd.manifest
       /\ ojob[Owner].bad = Torn(FilesOf[cmd.manifest])
       /\ cmd.alone => SiteP!Exact(Owner, FilesOf[cmd.manifest])

Inv ==
  /\ unsigned \in Manifest \cup {None, Empty}
  /\ cmd \in Cmd
  /\ WorkP!DInv
  /\ SiteP!DInv
  /\ unsigned \in Manifest => WorkP!Present(FilesOf[unsigned])
  /\ BuildSound
  /\ PushSound

\* The fields of the owner's command.
LEMMA CmdFields ==
  ASSUME cmd \in Cmd
  PROVE  /\ cmd.kind \in {"none", "build", "buildUnsigned", "dropManifest",
                          "dropUnsigned", "saveUnsigned", "sign", "push"}
         /\ cmd.manifest \in Manifest \cup {None}
         /\ cmd.alone \in BOOLEAN
  BY DEF Cmd

\* A command that begins, and none at all.
LEMMA DoingFields ==
  /\ NoCmd \in Cmd /\ NoCmd.kind = "none"
  /\ \A kind \in {"build", "buildUnsigned", "sign"}, m \in Manifest :
       /\ Doing(kind, m) \in Cmd
       /\ Doing(kind, m).kind = kind /\ Doing(kind, m).manifest = m
  BY DEF NoCmd, Doing, Cmd

\* The invariant gives both directories their types.
LEMMA InvTypes == Inv => TypeOK
  BY SameWork, SameSite DEF Inv, TypeOK, WorkP!DInv, SiteP!DInv

\* The blob sets of manifests.
LEMMA FilesAreBlobs == \A m \in Manifest : FilesOf[m] \in SUBSET Blob
  OBVIOUS

-----------------------------------------------------------------------------
(* build.                                                                  *)

\* A build starts WriteDir in the work directory.
LEMMA BuildStarts ==
  ASSUME Inv, NEW m \in Manifest, BuildSigned(m) \/ BuildUnsigned(m)
  PROVE  Inv'
<1>1. PICK kind \in {"build", "buildUnsigned"}, envelope \in {m, Empty} :
        /\ cmd = NoCmd /\ cmd' = Doing(kind, m)
        /\ Work!WriteDir(Owner, envelope, FilesOf[m], {})
        /\ UNCHANGED <<odir, unsigned>>
  BY DEF BuildSigned, BuildUnsigned
<1>2. FilesOf[m] \in SUBSET Blob /\ {} \in SUBSET Blob /\ Empty \notin Manifest
  OBVIOUS
<1>3. WorkP!WriteDir(Owner, envelope, FilesOf[m], {})
  BY <1>1, <1>2, SameWork
<1>4. WorkP!DInv /\ Owner \in {Owner}
  BY DEF Inv
<1>5. WorkP!DInv' /\ WorkP!Progress(Owner, FilesOf[m])'
  BY <1>1, <1>2, <1>3, <1>4, WorkP!WriteDirKeeps
<1>6. /\ cmd' \in Cmd /\ cmd'.kind = kind /\ cmd'.manifest = m /\ cmd.kind = "none"
  BY <1>1, DoingFields
<1>7. UNCHANGED <<wmanifest, wblobs>>
  BY <1>3 DEF WorkP!WriteDir
<1>8. SiteP!DInv'
  BY <1>1, SiteP!NothingChanges DEF Inv, odir, SiteP!dvars
<1>9. BuildSound'
  BY <1>5, <1>6 DEF BuildSound
<1>10. PushSound'
  BY <1>1, <1>6 DEF Inv, PushSound, odir
<1> QED BY <1>1, <1>5, <1>6, <1>7, <1>8, <1>9, <1>10 DEF Inv, WorkP!Present

\* WriteDir gets on in the work directory.
LEMMA WorkIsWritten ==
  ASSUME Inv, WritingWork
  PROVE  Inv'
<1>1. /\ WorkP!Writing(Owner) /\ UNCHANGED <<odir, unsigned, cmd>>
      /\ WorkP!DInv /\ Owner \in {Owner}
  BY SameWork DEF WritingWork, Inv
<1>2. WorkP!DInv' /\ WorkP!NoneVanishes /\ WorkP!GoesOn(Owner)
  BY <1>1, DirConstantsHold, WorkP!WritingKeeps, WorkP!WritingVanishesNone, WorkP!WritingTyped
<1>3. \A files \in SUBSET Blob : WorkP!Progress(Owner, files) => WorkP!Progress(Owner, files)'
  BY <1>1, WorkP!WritingProgresses
<1>4. \A files \in SUBSET Blob : WorkP!Present(files) => WorkP!Present(files)'
  BY <1>2 DEF WorkP!Present, WorkP!NoneVanishes
<1>5. cmd.kind \in {"build", "buildUnsigned"}
  BY <1>1 DEF Inv, BuildSound, WorkP!Writing, WorkP!OpenBlob, WorkP!WriteBlob,
              WorkP!OpenTmp, WorkP!WriteTmp, WorkP!Rename
<1>6. cmd.manifest \in Manifest /\ FilesOf[cmd.manifest] \in SUBSET Blob
  BY <1>5 DEF Inv, BuildSound
<1>7. WorkP!Progress(Owner, FilesOf[cmd.manifest])'
  <2>1. PICK files \in SUBSET Blob : files = FilesOf[cmd.manifest] /\ WorkP!Progress(Owner, files)'
    BY <1>3, <1>5, <1>6 DEF Inv, BuildSound
  <2> QED BY <1>1, <2>1 DEF WorkP!Progress, WorkP!Present
<1>8. unsigned \in Manifest => WorkP!Present(FilesOf[unsigned])'
  <2>1. ASSUME unsigned \in Manifest PROVE WorkP!Present(FilesOf[unsigned])'
    <3>1. PICK files \in SUBSET Blob : files = FilesOf[unsigned] /\ WorkP!Present(files)'
      BY <1>4, <2>1 DEF Inv
    <3> QED BY <1>1, <3>1 DEF WorkP!Present
  <2> QED BY <2>1
<1>9. SiteP!DInv'
  BY <1>1, SiteP!NothingChanges DEF Inv, odir, SiteP!dvars
<1>10. BuildSound'
  BY <1>1, <1>5, <1>6, <1>7 DEF BuildSound
<1>11. PushSound'
  BY <1>1, <1>5 DEF Inv, PushSound, odir
<1> QED BY <1>1, <1>2, <1>8, <1>9, <1>10, <1>11 DEF Inv

\* WriteDir returns to build.
LEMMA BuildGoesOn ==
  ASSUME Inv, BuildReturns
  PROVE  Inv'
<1>1. /\ cmd.kind \in {"build", "buildUnsigned"} /\ WorkP!Return(Owner)
      /\ cmd' = IF cmd.kind = "buildUnsigned" /\ wjob[Owner].step = "done"
                  THEN [cmd EXCEPT !.kind = "dropManifest"] ELSE NoCmd
      /\ UNCHANGED <<odir, unsigned>> /\ WorkP!DInv /\ Owner \in {Owner}
  BY SameWork DEF BuildReturns, Inv
<1>2. WorkP!DInv' /\ UNCHANGED <<wmanifest, wtmp, wblobs>>
  BY <1>1, WorkP!ReturnKeeps DEF WorkP!Return
<1>3. wjob'[Owner].step = "idle"
  BY <1>1, <1>2 DEF WorkP!Return, WorkP!NoJob, WorkP!DInv, WorkP!DTypeOK
<1>4. /\ cmd' \in Cmd /\ cmd'.kind \in {"dropManifest", "none"}
      /\ cmd'.kind = "dropManifest" => wjob[Owner].step = "done" /\ cmd'.manifest = cmd.manifest
  BY <1>1, DoingFields DEF Inv, Cmd
<1>5. /\ cmd.manifest \in Manifest
      /\ wjob[Owner].step = "done" => WorkP!Present(FilesOf[cmd.manifest])
  BY <1>1 DEF Inv, BuildSound, WorkP!Progress
<1>6. BuildSound'
  BY <1>2, <1>3, <1>4, <1>5 DEF BuildSound, WorkP!Present
<1>7. SiteP!DInv'
  BY <1>1, SiteP!NothingChanges DEF Inv, odir, SiteP!dvars
<1>8. PushSound'
  BY <1>1, <1>4 DEF Inv, PushSound, odir
<1> QED BY <1>1, <1>2, <1>4, <1>6, <1>7, <1>8 DEF Inv, WorkP!Present

\* The rest of an unsigned build.
LEMMA BuildEnds ==
  ASSUME Inv, BuildDropManifest \/ BuildTruncateUnsigned \/ BuildSaveUnsigned
  PROVE  Inv'
<1>1. /\ cmd \in Cmd /\ WorkP!DInv /\ BuildSound /\ PushSound /\ SiteP!DInv
      /\ cmd.kind \in {"dropManifest", "dropUnsigned", "saveUnsigned"}
      /\ cmd.manifest \in Manifest /\ WorkP!Present(FilesOf[cmd.manifest])
      /\ UNCHANGED <<wtmp, wblobs, wjob, odir>>
  BY DEF Inv, BuildSound, BuildDropManifest, BuildTruncateUnsigned, BuildSaveUnsigned, wdir
<1>2. SiteP!DInv'
  BY <1>1, SiteP!NothingChanges DEF odir, SiteP!dvars
<1>3. wjob[Owner].step = "idle" /\ ojob[Owner].step = "idle"
  BY <1>1 DEF BuildSound, PushSound
<1>4. CASE BuildDropManifest
  <2>1. /\ wmanifest' = None /\ cmd' = [cmd EXCEPT !.kind = "dropUnsigned"] /\ unsigned' = unsigned
    BY <1>4 DEF BuildDropManifest
  <2>2. cmd' \in Cmd /\ cmd'.kind = "dropUnsigned" /\ cmd'.manifest = cmd.manifest
    BY <1>1, <2>1 DEF Cmd
  <2>3. WorkP!DInv'
    BY <1>1, <2>1, WorkP!ManifestChanges DEF WorkP!EnvelopeFile
  <2> QED BY <1>1, <1>2, <1>3, <2>1, <2>2, <2>3
          DEF Inv, BuildSound, PushSound, WorkP!Present, odir
<1>5. CASE BuildTruncateUnsigned
  <2>1. /\ unsigned' = Empty /\ cmd' = [cmd EXCEPT !.kind = "saveUnsigned"] /\ wmanifest' = wmanifest
    BY <1>5 DEF BuildTruncateUnsigned, wdir
  <2>2. cmd' \in Cmd /\ cmd'.kind = "saveUnsigned" /\ cmd'.manifest = cmd.manifest
    BY <1>1, <2>1 DEF Cmd
  <2>3. WorkP!DInv'
    BY <1>1, <2>1, WorkP!NothingChanges DEF WorkP!dvars
  <2> QED BY <1>1, <1>2, <1>3, <2>1, <2>2, <2>3
          DEF Inv, BuildSound, PushSound, WorkP!Present, odir
<1>6. CASE BuildSaveUnsigned
  <2>1. unsigned' = cmd.manifest /\ cmd' = NoCmd /\ wmanifest' = wmanifest
    BY <1>6 DEF BuildSaveUnsigned, wdir
  <2>2. cmd' \in Cmd /\ cmd'.kind = "none"
    BY <2>1, DoingFields
  <2>3. WorkP!DInv'
    BY <1>1, <2>1, WorkP!NothingChanges DEF WorkP!dvars
  <2> QED BY <1>1, <1>2, <1>3, <2>1, <2>2, <2>3
          DEF Inv, BuildSound, PushSound, WorkP!Present, odir
<1> QED BY <1>4, <1>5, <1>6

-----------------------------------------------------------------------------
(* sign.                                                                   *)

\* What is signed has its blobs, wherever it comes from.
LEMMA SignableIsPresent ==
  ASSUME Inv, ToSign \in Manifest
  PROVE  WorkP!Present(FilesOf[ToSign])
  BY DEF Inv, ToSign, WorkP!DInv, WorkP!Covered

LEMMA SignKeeps ==
  ASSUME Inv, Sign
  PROVE  Inv'
<1>1. CASE SignRename
  <2>1. /\ cmd = NoCmd /\ ToSign \in Manifest /\ wmanifest' = ToSign
        /\ cmd' = Doing("sign", ToSign)
        /\ UNCHANGED <<wtmp, wblobs, wjob, odir, unsigned>>
    BY <1>1 DEF SignRename
  <2>2. cmd' \in Cmd /\ cmd'.kind = "sign" /\ cmd.kind = "none"
    BY <2>1, DoingFields
  <2>3. WorkP!DInv'
    BY <2>1, SignableIsPresent, WorkP!ManifestChanges DEF Inv, WorkP!EnvelopeFile
  <2>4. SiteP!DInv'
    BY <2>1, SiteP!NothingChanges DEF Inv, odir, SiteP!dvars
  <2> QED BY <2>1, <2>2, <2>3, <2>4 DEF Inv, BuildSound, PushSound, WorkP!Present, odir
<1>2. CASE SignDropUnsigned
  <2>1. cmd.kind = "sign" /\ unsigned' = None /\ cmd' = NoCmd /\ UNCHANGED <<wdir, odir>>
    BY <1>2 DEF SignDropUnsigned
  <2>2. cmd' \in Cmd /\ cmd'.kind = "none"
    BY <2>1, DoingFields
  <2>3. WorkP!DInv'
    BY <2>1, WorkP!NothingChanges DEF Inv, wdir, WorkP!dvars
  <2>4. SiteP!DInv'
    BY <2>1, SiteP!NothingChanges DEF Inv, odir, SiteP!dvars
  <2> QED BY <2>1, <2>2, <2>3, <2>4 DEF Inv, BuildSound, PushSound, WorkP!Present, wdir, odir
<1> QED BY <1>1, <1>2 DEF Sign

-----------------------------------------------------------------------------
(* push.                                                                   *)

\* A push starts WriteDir at the origin with what the work directory holds.
LEMMA PushStarts ==
  ASSUME Inv, Push
  PROVE  Inv'
<1> DEFINE m == wmanifest
           files == FilesOf[m]
<1>1. /\ cmd = NoCmd /\ m \in Manifest
      /\ cmd' = [kind |-> "push", manifest |-> m,
                 alone |-> \A w \in Other : ojob[w].step = "idle"]
      /\ Site!WriteDir(Owner, m, files, Torn(files))
      /\ UNCHANGED <<wdir, unsigned>>
  BY DEF Push, Torn
<1>2. files \in SUBSET Blob /\ Torn(files) \in SUBSET Blob
  BY <1>1, FilesAreBlobs DEF Torn
<1>3. SiteP!WriteDir(Owner, m, files, Torn(files)) /\ SiteP!DInv /\ Owner \in Other \cup {Owner}
  BY <1>1, <1>2, SameSite DEF Inv
<1>4. /\ SiteP!DInv' /\ ojob' = [ojob EXCEPT ![Owner] = ojob'[Owner]]
      /\ ojob'[Owner].step = "blobs" /\ ojob'[Owner].envelope = m
      /\ ojob'[Owner].bad = Torn(files) /\ ojob'[Owner].todo = files
  BY <1>1, <1>2, <1>3, SiteP!WriteDirKeeps
<1>5. /\ cmd' \in Cmd /\ cmd'.kind = "push" /\ cmd'.manifest = m /\ cmd.kind = "none"
      /\ cmd'.alone <=> \A w \in Other : ojob[w].step = "idle"
  BY <1>1, DoingFields DEF Cmd
<1>6. WorkP!DInv' /\ wmanifest' = m /\ UNCHANGED <<wblobs, wjob>>
  BY <1>1, WorkP!NothingChanges DEF Inv, wdir, WorkP!dvars
<1>7. cmd'.alone => SiteP!Exact(Owner, files)'
  <2>1. ojob \in [Other \cup {Owner} -> SiteP!Job]
    BY <1>3 DEF SiteP!DInv, SiteP!DTypeOK
  <2>2. \A w \in Other : ojob'[w] = ojob[w]
    BY <1>4, <2>1
  <2> QED BY <1>4, <1>5, <1>6, <2>2 DEF SiteP!Exact, SiteP!Good
<1>8. PushSound'
  BY <1>4, <1>5, <1>6, <1>7 DEF PushSound, Torn, SiteP!Exact, SiteP!Good
<1>9. BuildSound'
  BY <1>1, <1>5, <1>6 DEF Inv, BuildSound
<1> QED BY <1>1, <1>4, <1>5, <1>6, <1>8, <1>9 DEF Inv, WorkP!Present

\* WriteDir returns to push.
LEMMA PushEnds ==
  ASSUME Inv, PushReturns
  PROVE  Inv'
<1>1. /\ cmd.kind = "push" /\ SiteP!Return(Owner) /\ cmd' = NoCmd
      /\ UNCHANGED <<wdir, unsigned>> /\ SiteP!DInv /\ Owner \in Other \cup {Owner}
  BY SameSite DEF PushReturns, Inv
<1>2. SiteP!DInv' /\ ojob' = [ojob EXCEPT ![Owner] = SiteP!NoJob]
  BY <1>1, SiteP!ReturnKeeps
<1>3. ojob'[Owner].step = "idle"
  BY <1>1, <1>2 DEF SiteP!NoJob, SiteP!DInv, SiteP!DTypeOK
<1>4. cmd' \in Cmd /\ cmd'.kind = "none"
  BY <1>1, DoingFields
<1>5. WorkP!DInv'
  BY <1>1, WorkP!NothingChanges DEF Inv, wdir, WorkP!dvars
<1> QED BY <1>1, <1>2, <1>3, <1>4, <1>5
        DEF Inv, BuildSound, PushSound, WorkP!Present, wdir

\* Somebody's WriteDir gets on at the origin.
LEMMA OriginIsWritten ==
  ASSUME Inv, NEW w \in Other \cup {Owner}, WritingOrigin(w)
  PROVE  Inv'
<1>1. /\ SiteP!Writing(w) /\ UNCHANGED <<wdir, unsigned, cmd>> /\ SiteP!DInv
      /\ Owner \in Other \cup {Owner}
  BY SameSite DEF WritingOrigin, Inv
<1>2. SiteP!DInv' /\ SiteP!GoesOn(w)
  BY <1>1, DirConstantsHold, SiteP!WritingKeeps, SiteP!WritingTyped
<1>3. WorkP!DInv'
  BY <1>1, WorkP!NothingChanges DEF Inv, wdir, WorkP!dvars
<1>4. /\ ojob'[Owner].envelope = ojob[Owner].envelope
      /\ ojob'[Owner].bad = ojob[Owner].bad
      /\ ojob'[Owner].step = "idle" <=> ojob[Owner].step = "idle"
  BY <1>1, <1>2 DEF SiteP!GoesOn
<1>5. ASSUME cmd.kind = "push", cmd.alone PROVE SiteP!Exact(Owner, FilesOf[cmd.manifest])'
  <2> DEFINE files == FilesOf[cmd.manifest]
  <2>1. files \in SUBSET Blob /\ SiteP!Exact(Owner, files)
    BY <1>5, FilesAreBlobs DEF Inv, BuildSound, PushSound
  <2>2. \A given \in SUBSET Blob : SiteP!Exact(Owner, given) => SiteP!Exact(Owner, given)'
    BY <1>1, SiteP!WritingIsExact
  <2> HIDE DEF files
  <2>3. PICK given \in SUBSET Blob : given = files /\ SiteP!Exact(Owner, given)'
    BY <2>1, <2>2
  <2>4. FilesOf[cmd'.manifest] = given
    BY <1>1, <2>3 DEF files
  <2> QED BY <2>3, <2>4 DEF SiteP!Exact, SiteP!Good
<1>6. PushSound'
  BY <1>1, <1>4, <1>5 DEF Inv, PushSound, Torn, wdir, SiteP!Exact, SiteP!Good
<1> QED BY <1>1, <1>2, <1>3, <1>6 DEF Inv, BuildSound, WorkP!Present, WorkP!Progress, wdir

-----------------------------------------------------------------------------
(* Others, and deaths.                                                     *)

\* Another writer's call at the origin begins: nobody is alone any more.
LEMMA OtherStarts ==
  ASSUME Inv, NEW w \in Other, NEW m \in Theirs, OtherPublishes(w, m)
  PROVE  Inv'
<1>1. /\ Site!WriteDir(w, m, FilesOf[m], {}) /\ cmd' = [cmd EXCEPT !.alone = FALSE]
      /\ UNCHANGED <<wdir, unsigned>>
  BY DEF OtherPublishes
<1>2. m \in Manifest /\ FilesOf[m] \in SUBSET Blob /\ {} \in SUBSET Blob /\ w # Owner
  BY FilesAreBlobs
<1>3. SiteP!WriteDir(w, m, FilesOf[m], {}) /\ SiteP!DInv /\ w \in Other \cup {Owner}
  BY <1>1, <1>2, SameSite DEF Inv
<1>4. SiteP!DInv' /\ ojob' = [ojob EXCEPT ![w] = ojob'[w]]
  BY <1>2, <1>3, SiteP!WriteDirKeeps
<1>5. ojob'[Owner] = ojob[Owner]
  BY <1>2, <1>3, <1>4 DEF SiteP!DInv, SiteP!DTypeOK
<1>6. /\ cmd' \in Cmd /\ cmd'.kind = cmd.kind /\ cmd'.manifest = cmd.manifest
      /\ cmd'.alone = FALSE
  BY <1>1 DEF Inv, Cmd
<1>7. WorkP!DInv'
  BY <1>1, WorkP!NothingChanges DEF Inv, wdir, WorkP!dvars
<1> QED BY <1>1, <1>4, <1>5, <1>6, <1>7
        DEF Inv, BuildSound, PushSound, Torn, WorkP!Present, WorkP!Progress, wdir

\* Another writer's call ends.
LEMMA OtherEnds ==
  ASSUME Inv, NEW w \in Other, OtherReturns(w) \/ OtherDies(w)
  PROVE  Inv'
<1>1. /\ SiteP!Return(w) \/ SiteP!Stop(w)
      /\ UNCHANGED <<wdir, unsigned, cmd>> /\ SiteP!DInv
      /\ w \in Other \cup {Owner} /\ w # Owner
  BY SameSite DEF OtherReturns, OtherDies, Inv
<1>2. SiteP!DInv' /\ ojob' = [ojob EXCEPT ![w] = SiteP!NoJob]
  BY <1>1, SiteP!ReturnKeeps
<1>3. ojob'[Owner] = ojob[Owner] /\ UNCHANGED <<omanifest, otmp, oblobs>>
  BY <1>1, <1>2 DEF SiteP!DInv, SiteP!DTypeOK, SiteP!Return, SiteP!Stop
<1>4. \A v \in Other : ojob[v].step = "idle" => ojob'[v].step = "idle"
  BY <1>1, <1>2 DEF SiteP!DInv, SiteP!DTypeOK, SiteP!NoJob
<1>5. \A files : SiteP!Exact(Owner, files) => SiteP!Exact(Owner, files)'
  BY <1>3, <1>4 DEF SiteP!Exact, SiteP!Good
<1>6. WorkP!DInv'
  BY <1>1, WorkP!NothingChanges DEF Inv, wdir, WorkP!dvars
<1>7. PushSound'
  BY <1>1, <1>3, <1>5 DEF Inv, PushSound, Torn, wdir, SiteP!Exact, SiteP!Good
<1> QED BY <1>1, <1>2, <1>6, <1>7
        DEF Inv, BuildSound, WorkP!Present, WorkP!Progress, wdir

\* The owner's command dies wherever it is.
LEMMA DeathKeeps ==
  ASSUME Inv, Die
  PROVE  Inv'
<1>1. /\ cmd' = NoCmd
      /\ wjob' = [wjob EXCEPT ![Owner] = WorkP!NoJob]
      /\ ojob' = [ojob EXCEPT ![Owner] = SiteP!NoJob]
      /\ UNCHANGED <<wmanifest, wtmp, wblobs, omanifest, otmp, oblobs, unsigned>>
  BY SameWork, SameSite DEF Die
<1>2. WorkP!DInv /\ SiteP!DInv
  BY DEF Inv
<1>3. /\ wjob \in [{Owner} -> WorkP!Job]
      /\ ojob \in [Other \cup {Owner} -> SiteP!Job]
  BY <1>2 DEF WorkP!DInv, WorkP!DTypeOK, SiteP!DInv, SiteP!DTypeOK
<1>4. /\ wjob' \in [{Owner} -> WorkP!Job]
      /\ \A v \in {Owner} : wjob'[v] \in {wjob[v], WorkP!NoJob}
  BY <1>1, <1>3, WorkP!NoJobIsJob
<1>5. /\ ojob' \in [Other \cup {Owner} -> SiteP!Job]
      /\ \A v \in Other \cup {Owner} : ojob'[v] \in {ojob[v], SiteP!NoJob}
  BY <1>1, <1>3, SiteP!NoJobIsJob
<1>6. WorkP!DInv' /\ SiteP!DInv'
  BY <1>1, <1>2, <1>4, <1>5, WorkP!CallsEnd, SiteP!CallsEnd
<1>7. wjob'[Owner].step = "idle" /\ ojob'[Owner].step = "idle"
  BY <1>1, <1>3 DEF WorkP!NoJob, SiteP!NoJob
<1>8. cmd' \in Cmd /\ cmd'.kind = "none"
  BY <1>1, DoingFields
<1> QED BY <1>1, <1>6, <1>7, <1>8 DEF Inv, BuildSound, PushSound, WorkP!Present

-----------------------------------------------------------------------------
(* The theorems.                                                           *)

LEMMA InitInv == Init => Inv
<1> SUFFICES ASSUME Init PROVE Inv
  OBVIOUS
<1>1. WorkP!DInv /\ SiteP!DInv
  BY DirConstantsHold, SameWork, SameSite, WorkP!DInitKeeps, SiteP!DInitKeeps DEF Init
<1>2. wjob[Owner].step = "idle" /\ ojob[Owner].step = "idle"
  BY DEF Init, Work!DInit, Site!DInit, Work!NoJob, Site!NoJob
<1>3. cmd \in Cmd /\ cmd.kind = "none" /\ unsigned = None
  BY DoingFields DEF Init
<1> QED BY <1>1, <1>2, <1>3 DEF Inv, BuildSound, PushSound

LEMMA StepInv == Inv /\ [Next]_vars => Inv'
<1> SUFFICES ASSUME Inv, [Next]_vars PROVE Inv'
  OBVIOUS
<1>1. CASE Build
  BY <1>1, BuildStarts, BuildGoesOn, BuildEnds DEF Build
<1>2. CASE Sign
  BY <1>2, SignKeeps
<1>3. CASE Push \/ PushReturns
  BY <1>3, PushStarts, PushEnds
<1>4. CASE WritingWork \/ Die
  BY <1>4, WorkIsWritten, DeathKeeps
<1>5. ASSUME NEW w \in Other,
             (\E m \in Theirs : OtherPublishes(w, m)) \/ OtherReturns(w) \/ OtherDies(w)
      PROVE  Inv'
  BY <1>5, OtherStarts, OtherEnds
<1>6. ASSUME NEW w \in Other \cup {Owner}, WritingOrigin(w) PROVE Inv'
  BY <1>6, OriginIsWritten
<1>7. CASE UNCHANGED vars
  <2>1. WorkP!DInv' /\ SiteP!DInv'
    BY <1>7, WorkP!NothingChanges, SiteP!NothingChanges
       DEF Inv, vars, wdir, odir, WorkP!dvars, SiteP!dvars
  <2> QED BY <1>7, <2>1 DEF vars, wdir, odir, Inv, BuildSound, PushSound, Torn,
                            WorkP!Present, WorkP!Progress, SiteP!Exact, SiteP!Good
<1> QED BY <1>1, <1>2, <1>3, <1>4, <1>5, <1>6, <1>7 DEF Next

LEMMA Invariant == Spec => []Inv
  BY InitInv, StepInv, PTL DEF Spec

\* Type correctness of the two directories and the commands.
THEOREM TypeCorrect == Spec => []TypeOK
  BY Invariant, InvTypes, PTL

\* Whoever reads a manifest at the origin finds a file for every blob that
\* it names (WriteDir: blobs first, manifest last), with any writers at work.
THEOREM BlobsAlwaysComeFirst == Spec => []BlobsComeFirst
<1>1. Inv => BlobsComeFirst
  BY DEF Inv, SiteP!DInv, SiteP!Covered, SiteP!Present, BlobsComeFirst
<1> QED BY <1>1, Invariant, PTL

\* What sign would sign has its blobs in the work directory, whichever build
\* left it there.
THEOREM PayloadsAlwaysHaveBlobs == Spec => []PayloadsHaveBlobs
<1>1. Inv => PayloadsHaveBlobs
  BY SignableIsPresent DEF WorkP!Present, PayloadsHaveBlobs
<1> QED BY <1>1, Invariant, PTL

\* A push that had the origin to itself and succeeded out of a directory
\* that verifies leaves an origin that verifies, with that manifest.
THEOREM PushAlwaysCopies == Spec => PushCopies
<1> DEFINE A == PushReturns /\ cmd.alone /\ ojob[Owner].step = "done" /\ Verified
                  => Site!VerifyDir /\ omanifest = cmd.manifest
<1>1. Inv => A
  <2> SUFFICES ASSUME Inv, PushReturns, cmd.alone, ojob[Owner].step = "done", Verified
               PROVE  Site!VerifyDir /\ omanifest = cmd.manifest
    OBVIOUS
  <2>1. cmd.kind = "push"
    BY DEF PushReturns
  <2>2. /\ wmanifest = cmd.manifest /\ ojob[Owner].envelope = cmd.manifest
        /\ ojob[Owner].bad = Torn(FilesOf[cmd.manifest])
        /\ SiteP!Exact(Owner, FilesOf[cmd.manifest])
    BY <2>1 DEF Inv, PushSound
  <2>3. Torn(FilesOf[cmd.manifest]) = {}
    BY <2>2 DEF Verified, Work!VerifyDir, Torn
  <2>4. omanifest = cmd.manifest /\ \A b \in FilesOf[cmd.manifest] : oblobs[b] = "whole"
    BY <2>2, <2>3 DEF SiteP!Exact, SiteP!Good
  <2> QED BY <2>1, <2>4 DEF Site!VerifyDir, Inv, BuildSound
<1> QED BY <1>1, Invariant, PTL DEF PushCopies

=============================================================================
