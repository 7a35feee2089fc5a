--------------------------- MODULE BundleDirProofs ---------------------------
(***************************************************************************)
(* What WriteDir does to one directory, for any number of writers: blob    *)
(* files appear and never vanish, a manifest appears after its blobs, and  *)
(* a writer that is alone leaves exactly what it was given.  The lemmas    *)
(* are about single steps, because the directory is always part of a       *)
(* larger system.                                                          *)
(***************************************************************************)
EXTENDS BundleDir, TLAPS

\* What a user of a directory assumes of its constants.
DirConstants ==
  /\ FilesOf \in [Manifest -> SUBSET Blob]
  /\ {None, Empty, Garbled} \cap Manifest = {}
  /\ None \notin Blob

\* There is a file for each of these blobs.
Present(files) == \A b \in files : blobs[b] # "absent"

\* How far writer w has got with the blobs it was given.
Progress(w, files) ==
  /\ job[w].step = "blobs" => Present(files \ job[w].todo)
  /\ job[w].step = "inBlob" => Present((files \ job[w].todo) \cup {job[w].blob})
  /\ job[w].step \in {"inTmp", "rename", "done"} => Present(files)

\* An envelope to be found in this file has its blobs.
Covered(envelope) == envelope \in Manifest => Present(FilesOf[envelope])

\* The invariant of a directory that is written by WriteDir, where each
\* writer was given the blobs of its envelope.
DInv ==
  /\ DTypeOK
  /\ Covered(manifest)
  /\ Covered(tmp)
  /\ \A w \in Writer :
       /\ job[w].envelope \in Manifest => Progress(w, FilesOf[job[w].envelope])
       /\ job[w].step = "inBlob" => job[w].blob \in Blob

\* A blob file that is there stays there.
NoneVanishes == \A b \in Blob : blobs[b] # "absent" => blobs'[b] # "absent"

-----------------------------------------------------------------------------

\* The fields of a job.
LEMMA JobFields ==
  ASSUME DTypeOK, NEW w \in Writer
  PROVE  /\ job[w] \in Job
         /\ job[w].step \in WriteStep
         /\ job[w].envelope \in Manifest \cup {Empty}
         /\ job[w].bad \subseteq Blob
         /\ job[w].todo \subseteq Blob
         /\ job[w].blob \in Blob \cup {None}
         /\ job[w].fd \in {"none", "tmp", "manifest", "gone"}
  BY DEF DTypeOK, Job

\* A call that is not running is a job.
LEMMA NoJobIsJob == NoJob \in Job
  BY DEF NoJob, Job, WriteStep

\* Files that were there still are when none vanishes.
LEMMA PresentKept ==
  ASSUME NoneVanishes, NEW files \in SUBSET Blob, Present(files)
  PROVE  Present(files)'
  BY DEF NoneVanishes, Present

\* A writer whose job is as it was has got as far as it had.
LEMMA ProgressKept ==
  ASSUME DTypeOK, NoneVanishes, NEW w \in Writer, NEW files \in SUBSET Blob,
         job'[w].step = job[w].step, job'[w].todo = job[w].todo,
         job'[w].blob = job[w].blob, Progress(w, files),
         job[w].step = "inBlob" => job[w].blob \in Blob
  PROVE  Progress(w, files)'
  BY JobFields DEF Progress, Present, NoneVanishes

-----------------------------------------------------------------------------
(* One file operation of WriteDir.                                         *)

\* What every file operation leaves of a call: its arguments, and that it
\* runs or does not; a call that does not make the operation itself stays
\* where it is.
GoesOn(w) ==
  \A v \in Writer :
    /\ job'[v].envelope = job[v].envelope
    /\ job'[v].bad = job[v].bad
    /\ job'[v].step = "idle" <=> job[v].step = "idle"
    /\ v # w => /\ job'[v].step = job[v].step
                /\ job'[v].todo = job[v].todo
                /\ job'[v].blob = job[v].blob

\* An operation that changes nothing but where its own call is.
LEMMA JobUpdate ==
  ASSUME DTypeOK, NEW w \in Writer, NEW t \in Job,
         job' = [job EXCEPT ![w] = t],
         t.envelope = job[w].envelope, t.bad = job[w].bad,
         t.step = "idle" <=> job[w].step = "idle"
  PROVE  job' \in [Writer -> Job] /\ GoesOn(w) /\ job'[w] = t
  BY DEF DTypeOK, GoesOn

\* The directory stays in its type, and a call goes on.
LEMMA WritingTyped ==
  ASSUME DInv, NEW w \in Writer, Writing(w)
  PROVE  DTypeOK' /\ GoesOn(w)
<1>1. /\ DTypeOK /\ job \in [Writer -> Job] /\ blobs \in [Blob -> BlobFile]
      /\ manifest \in EnvelopeFile /\ tmp \in EnvelopeFile
      /\ job[w].step = "inBlob" => job[w].blob \in Blob
  BY DEF DInv, DTypeOK
<1>2. \A v \in Writer : job[v] \in Job
  BY <1>1
<1>3. CASE OpenBlob(w)
  <2>1. PICK b \in job[w].todo :
          /\ blobs' = [blobs EXCEPT ![b] = "torn"]
          /\ job' = [job EXCEPT ![w].step = "inBlob", ![w].blob = b]
    BY <1>3 DEF OpenBlob
  <2>2. b \in Blob
    BY <1>1, JobFields
  <2> DEFINE t == [job[w] EXCEPT !.step = "inBlob", !.blob = b]
  <2>3. t \in Job /\ t.step = "inBlob" /\ t.envelope = job[w].envelope /\ t.bad = job[w].bad
    BY <1>2, <2>2 DEF Job, WriteStep
  <2>6. job' = [job EXCEPT ![w] = t]
    BY <2>1
  <2>7. job[w].step = "blobs"
    BY <1>3 DEF OpenBlob
  <2>4. blobs' \in [Blob -> BlobFile]
    BY <1>1, <2>1 DEF BlobFile
  <2> HIDE DEF t
  <2>5. job' \in [Writer -> Job] /\ GoesOn(w)
    BY <1>1, <2>3, <2>6, <2>7, JobUpdate
  <2> QED BY <1>1, <1>3, <2>4, <2>5 DEF OpenBlob, DTypeOK
<1>4. CASE WriteBlob(w)
  <2> DEFINE t == [job[w] EXCEPT !.step = "blobs", !.blob = None,
                                 !.todo = @ \ {job[w].blob}]
  <2>3. t \in Job /\ t.step = "blobs" /\ t.envelope = job[w].envelope /\ t.bad = job[w].bad
    BY <1>2 DEF Job, WriteStep
  <2>4. job' = [job EXCEPT ![w] = t] /\ job[w].step = "inBlob"
    BY <1>4 DEF WriteBlob
  <2> HIDE DEF t
  <2>1. job' \in [Writer -> Job] /\ GoesOn(w)
    BY <1>1, <2>3, <2>4, JobUpdate
  <2>2. blobs' \in [Blob -> BlobFile]
    BY <1>1, <1>4 DEF WriteBlob, BlobFile
  <2> QED BY <1>1, <1>4, <2>1, <2>2 DEF WriteBlob, DTypeOK
<1>5. CASE OpenTmp(w)
  <2> DEFINE t == [job[w] EXCEPT !.step = "inTmp", !.fd = "tmp"]
  <2>3. t \in Job /\ t.step = "inTmp" /\ t.envelope = job[w].envelope /\ t.bad = job[w].bad
    BY <1>2 DEF Job, WriteStep
  <2>4. job' = [job EXCEPT ![w] = t] /\ job[w].step = "blobs"
    BY <1>5 DEF OpenTmp
  <2> HIDE DEF t
  <2>1. job' \in [Writer -> Job] /\ GoesOn(w)
    BY <1>1, <2>3, <2>4, JobUpdate
  <2> QED BY <1>1, <1>5, <2>1 DEF OpenTmp, DTypeOK, EnvelopeFile
<1>6. CASE WriteTmp(w)
  <2> DEFINE t == [job[w] EXCEPT !.step = "rename", !.fd = "none"]
  <2>3. t \in Job /\ t.step = "rename" /\ t.envelope = job[w].envelope /\ t.bad = job[w].bad
    BY <1>2 DEF Job, WriteStep
  <2>4. job' = [job EXCEPT ![w] = t] /\ job[w].step = "inTmp"
    BY <1>6 DEF WriteTmp
  <2> HIDE DEF t
  <2>1. job' \in [Writer -> Job] /\ GoesOn(w)
    BY <1>1, <2>3, <2>4, JobUpdate
  <2>2. \A file \in EnvelopeFile : Written(file, job[w].envelope) \subseteq EnvelopeFile
    BY <1>1, JobFields DEF Written, EnvelopeFile
  <2>5. manifest' \in EnvelopeFile /\ tmp' \in EnvelopeFile
    BY <1>1, <1>6, <2>2 DEF WriteTmp
  <2> QED BY <1>1, <1>6, <2>1, <2>5 DEF WriteTmp, DTypeOK
<1>7. CASE Rename(w)
  <2>1. CASE tmp = None
    <3>1. job' \in [Writer -> Job] /\ GoesOn(w)
      BY <1>1, <1>2, <1>7, <2>1 DEF Rename, Job, WriteStep, GoesOn
    <3> QED BY <1>1, <1>7, <2>1, <3>1 DEF Rename, DTypeOK
  <2>2. CASE tmp # None
    <3>1. \A v \in Writer : Renamed(job[v].fd) \in {"none", "tmp", "manifest", "gone"}
      BY <1>1, JobFields DEF Renamed
    <3>2. job' = [v \in Writer |-> [job[v] EXCEPT !.step = IF v = w THEN "done" ELSE @,
                                                  !.fd = Renamed(@)]]
      BY <1>7, <2>2 DEF Rename
    <3>3. job' \in [Writer -> Job] /\ GoesOn(w)
      BY <1>2, <1>7, <3>1, <3>2 DEF Rename, Job, WriteStep, GoesOn
    <3> QED BY <1>1, <1>7, <2>2, <3>3 DEF Rename, DTypeOK, EnvelopeFile
  <2> QED BY <2>1, <2>2
<1> QED BY <1>3, <1>4, <1>5, <1>6, <1>7 DEF Writing

\* No file operation of WriteDir removes a blob.
LEMMA WritingVanishesNone ==
  ASSUME DInv, NEW w \in Writer, Writing(w)
  PROVE  NoneVanishes
  BY DEF DInv, DTypeOK, Writing, OpenBlob, WriteBlob, OpenTmp, WriteTmp, Rename, NoneVanishes

\* WriteDir gets on with the blobs it was given, and never loses ground.
LEMMA WritingProgresses ==
  ASSUME DInv, NEW w \in Writer, Writing(w),
         NEW v \in Writer, NEW files \in SUBSET Blob, Progress(v, files)
  PROVE  Progress(v, files)'
<1>1. /\ DTypeOK /\ DTypeOK' /\ GoesOn(w) /\ NoneVanishes
      /\ \A u \in Writer : job[u].step = "inBlob" => job[u].blob \in Blob
  BY WritingTyped, WritingVanishesNone DEF DInv
<1>2. CASE v # w
  BY <1>1, <1>2, ProgressKept DEF GoesOn
<1>3. CASE v = w
  <2>1. /\ job \in [Writer -> Job] /\ blobs \in [Blob -> BlobFile]
        /\ job[w] \in Job /\ job[w].todo \subseteq Blob
    BY <1>1, JobFields DEF DTypeOK
  <2>2. CASE OpenBlob(w)
    <3>1. PICK b \in job[w].todo :
            /\ blobs' = [blobs EXCEPT ![b] = "torn"]
            /\ job' = [job EXCEPT ![w].step = "inBlob", ![w].blob = b]
      BY <2>2 DEF OpenBlob
    <3>2. /\ job'[w].step = "inBlob" /\ job'[w].blob = b /\ job'[w].todo = job[w].todo
      BY <2>1, <3>1 DEF Job
    <3>3. \A f \in files \ job[w].todo : blobs'[f] # "absent"
      BY <1>1, <1>3, <2>2 DEF OpenBlob, Progress, Present, NoneVanishes
    <3> QED BY <1>3, <2>1, <3>1, <3>2, <3>3 DEF Progress, Present
  <2>3. CASE WriteBlob(w)
    <3>1. /\ job'[w].step = "blobs" /\ job'[w].todo = job[w].todo \ {job[w].blob}
      BY <2>1, <2>3 DEF WriteBlob, Job
    <3>2. \A f \in (files \ job[w].todo) \cup {job[w].blob} : blobs'[f] # "absent"
      BY <1>1, <1>3, <2>3 DEF WriteBlob, Progress, Present, NoneVanishes
    <3> QED BY <1>3, <3>1, <3>2 DEF Progress, Present
  <2>4. CASE OpenTmp(w)
    <3>1. job'[w].step = "inTmp"
      BY <2>1, <2>4 DEF OpenTmp, Job
    <3>2. Present(files)
      BY <1>3, <2>4 DEF OpenTmp, Progress, Present
    <3> QED BY <1>1, <1>3, <3>1, <3>2, PresentKept DEF Progress
  <2>5. CASE WriteTmp(w)
    <3>1. job'[w].step = "rename"
      BY <2>1, <2>5 DEF WriteTmp, Job
    <3>2. Present(files)
      BY <1>3, <2>5 DEF WriteTmp, Progress
    <3> QED BY <1>1, <1>3, <3>1, <3>2, PresentKept DEF Progress
  <2>6. CASE Rename(w)
    <3>1. job'[w].step \in {"failed", "done"}
      <4>1. CASE tmp = None
        <5>1. job' = [job EXCEPT ![w].step = "failed"]
          BY <2>6, <4>1 DEF Rename
        <5> QED BY <2>1, <5>1 DEF Job
      <4>2. CASE tmp # None
        <5>1. job' = [u \in Writer |-> [job[u] EXCEPT !.step = IF u = w THEN "done" ELSE @,
                                                      !.fd = Renamed(@)]]
          BY <2>6, <4>2 DEF Rename
        <5>2. job'[w] = [job[w] EXCEPT !.step = "done", !.fd = Renamed(@)]
          BY <5>1
        <5> QED BY <2>1, <5>2 DEF Job
      <4> QED BY <4>1, <4>2
    <3>2. Present(files)
      BY <1>3, <2>6 DEF Rename, Progress
    <3> QED BY <1>1, <1>3, <3>1, <3>2, PresentKept DEF Progress
  <2> QED BY <2>2, <2>3, <2>4, <2>5, <2>6 DEF Writing
<1> QED BY <1>2, <1>3

\* A file operation of WriteDir keeps the directory's invariant.
LEMMA WritingKeeps ==
  ASSUME DirConstants, DInv, NEW w \in Writer, Writing(w)
  PROVE  DInv'
<1>1. /\ DTypeOK /\ DTypeOK' /\ GoesOn(w) /\ NoneVanishes
      /\ \A v \in Writer : job[v].envelope \in Manifest => FilesOf[job[v].envelope] \in SUBSET Blob
      /\ \A m \in Manifest : FilesOf[m] \in SUBSET Blob
  BY WritingTyped, WritingVanishesNone DEF DInv, DirConstants
<1>2. \A v \in Writer : job'[v].envelope \in Manifest => Progress(v, FilesOf[job[v].envelope])'
  <2>1. ASSUME NEW v \in Writer, job'[v].envelope \in Manifest
        PROVE  Progress(v, FilesOf[job[v].envelope])'
    <3> DEFINE files == FilesOf[job[v].envelope]
    <3>1. job'[v].envelope = job[v].envelope
      BY <1>1 DEF GoesOn
    <3>2. files \in SUBSET Blob /\ Progress(v, files)
      BY <1>1, <2>1, <3>1 DEF DInv
    <3>3. FilesOf[job'[v].envelope] = files
      BY <3>1
    <3>4. \A given \in SUBSET Blob : Progress(v, given) => Progress(v, given)'
      BY WritingProgresses
    <3> HIDE DEF files
    <3>5. \E given \in SUBSET Blob : given = files /\ Progress(v, given)'
      BY <3>2, <3>4
    <3>6. PICK given \in SUBSET Blob : given = files /\ Progress(v, given)'
      BY <3>5
    <3>7. FilesOf[job'[v].envelope] = given
      BY <3>3, <3>6
    <3> QED BY <3>6, <3>7 DEF Progress, Present
  <2> QED BY <2>1
<1>3. \A v \in Writer : job'[v].step = "inBlob" => job'[v].blob \in Blob
  <2>1. ASSUME NEW v \in Writer, v # w, job'[v].step = "inBlob" PROVE job'[v].blob \in Blob
    BY <1>1, <2>1 DEF DInv, GoesOn
  <2>2. ASSUME job'[w].step = "inBlob" PROVE job'[w].blob \in Blob
    <3>1. job \in [Writer -> Job] /\ job[w] \in Job /\ job[w].todo \subseteq Blob
      BY <1>1, JobFields DEF DTypeOK
    <3>2. CASE OpenBlob(w)
      <4>1. PICK b \in job[w].todo : job' = [job EXCEPT ![w].step = "inBlob", ![w].blob = b]
        BY <3>2 DEF OpenBlob
      <4>2. job'[w].blob = b
        BY <3>1, <4>1 DEF Job
      <4> QED BY <3>1, <4>1, <4>2
    <3>3. CASE WriteBlob(w) \/ OpenTmp(w) \/ WriteTmp(w) \/ Rename(w)
      <4>1. WriteBlob(w) => job'[w].step = "blobs"
        BY <3>1 DEF WriteBlob, Job
      <4>2. OpenTmp(w) => job'[w].step = "inTmp"
        BY <3>1 DEF OpenTmp, Job
      <4>3. WriteTmp(w) => job'[w].step = "rename"
        BY <3>1 DEF WriteTmp, Job
      <4>4. Rename(w) => job'[w].step \in {"done", "failed"}
        BY <3>1 DEF Rename, Job
      <4> QED BY <2>2, <3>3, <4>1, <4>2, <4>3, <4>4
    <3> QED BY <3>2, <3>3 DEF Writing
  <2> QED BY <2>1, <2>2
<1>4. Covered(manifest)' /\ Covered(tmp)'
  <2>1. /\ Empty \notin Manifest /\ Garbled \notin Manifest /\ None \notin Manifest
        /\ Covered(manifest) /\ Covered(tmp)
    BY DEF DirConstants, DInv
  <2>2. manifest' \in Manifest => manifest' \in {manifest, tmp} \/ (WriteTmp(w) /\ manifest' = job[w].envelope)
    BY <2>1 DEF Writing, OpenBlob, WriteBlob, OpenTmp, WriteTmp, Rename, Written
  <2>3. tmp' \in Manifest => tmp' = tmp \/ (WriteTmp(w) /\ tmp' = job[w].envelope)
    BY <2>1 DEF Writing, OpenBlob, WriteBlob, OpenTmp, WriteTmp, Rename, Written
  <2>4. \A m \in Manifest : Present(FilesOf[m]) => Present(FilesOf[m])'
    BY <1>1, PresentKept
  <2>5. WriteTmp(w) /\ job[w].envelope \in Manifest => Present(FilesOf[job[w].envelope])
    BY DEF WriteTmp, DInv, Progress
  <2>6. \A m \in Manifest :
          m \in {manifest, tmp} \/ (WriteTmp(w) /\ m = job[w].envelope) => Present(FilesOf[m])
    BY <2>1, <2>5 DEF Covered
  <2>7. \A m \in Manifest :
          m \in {manifest, tmp} \/ (WriteTmp(w) /\ m = job[w].envelope) => Present(FilesOf[m])'
    BY <2>4, <2>6
  <2> QED BY <2>2, <2>3, <2>7 DEF Covered, Present
<1> QED BY <1>1, <1>2, <1>3, <1>4 DEF DInv

-----------------------------------------------------------------------------
(* The rest of a call, and what users do to the directory themselves.      *)

\* A call of WriteDir begins with an envelope and its blobs.
LEMMA WriteDirKeeps ==
  ASSUME DInv, NEW w \in Writer, NEW envelope \in Manifest \cup {Empty},
         NEW files \in SUBSET Blob, NEW bad \in SUBSET Blob,
         envelope \in Manifest => files = FilesOf[envelope],
         WriteDir(w, envelope, files, bad)
  PROVE  /\ DInv' /\ Progress(w, files)'
         /\ job' = [job EXCEPT ![w] = job'[w]] /\ job'[w].step = "blobs"
         /\ job'[w].envelope = envelope /\ job'[w].bad = bad /\ job'[w].todo = files
<1> DEFINE t == [NoJob EXCEPT !.step = "blobs", !.envelope = envelope,
                              !.bad = bad, !.todo = files]
<1>1. /\ t \in Job /\ t.step = "blobs" /\ t.envelope = envelope /\ t.bad = bad
      /\ t.todo = files
  BY NoJobIsJob DEF Job, WriteStep
<1>2. job' = [job EXCEPT ![w] = t] /\ UNCHANGED <<manifest, tmp, blobs>>
  BY DEF WriteDir
<1> HIDE DEF t
<1>3. job \in [Writer -> Job]
  BY DEF DInv, DTypeOK
<1>4. job' \in [Writer -> Job] /\ job'[w] = t /\ \A v \in Writer : v # w => job'[v] = job[v]
  BY <1>1, <1>2, <1>3
<1>5. DTypeOK' /\ Covered(manifest)' /\ Covered(tmp)'
  BY <1>2, <1>4 DEF DInv, DTypeOK, Covered, Present
<1>6. ASSUME NEW v \in Writer
      PROVE  /\ job'[v].envelope \in Manifest => Progress(v, FilesOf[job[v].envelope])'
             /\ job'[v].step = "inBlob" => job'[v].blob \in Blob
  <2>1. CASE v = w
    BY <1>1, <1>4, <2>1 DEF Progress, Present
  <2>2. CASE v # w
    BY <1>2, <1>4, <2>2 DEF DInv, Progress, Present
  <2> QED BY <2>1, <2>2
<1>7. Progress(w, files)'
  BY <1>1, <1>4 DEF Progress, Present
<1> QED BY <1>1, <1>2, <1>4, <1>5, <1>6, <1>7 DEF DInv

\* Calls return, die or give up, and nothing else happens.
LEMMA CallsEnd ==
  ASSUME DInv, UNCHANGED <<manifest, tmp, blobs>>,
         job' \in [Writer -> Job],
         \A v \in Writer : job'[v] \in {job[v], NoJob}
  PROVE  DInv'
<1>1. DTypeOK' /\ Covered(manifest)' /\ Covered(tmp)'
  BY DEF DInv, DTypeOK, Covered, Present
<1>2. ASSUME NEW v \in Writer
      PROVE  /\ job'[v].envelope \in Manifest => Progress(v, FilesOf[job[v].envelope])'
             /\ job'[v].step = "inBlob" => job'[v].blob \in Blob
  <2>1. CASE job'[v] = NoJob
    BY <2>1 DEF NoJob, Progress
  <2>2. CASE job'[v] = job[v]
    BY <2>2 DEF DInv, Progress, Present
  <2> QED BY <2>1, <2>2
<1> QED BY <1>1, <1>2 DEF DInv

\* Return and Stop end one call.
LEMMA ReturnKeeps ==
  ASSUME DInv, NEW w \in Writer, Return(w) \/ Stop(w)
  PROVE  DInv' /\ job' = [job EXCEPT ![w] = NoJob]
<1>1. UNCHANGED <<manifest, tmp, blobs>> /\ job' = [job EXCEPT ![w] = NoJob]
  BY DEF Return, Stop
<1>2. job' \in [Writer -> Job] /\ \A v \in Writer : job'[v] \in {job[v], NoJob}
  BY <1>1, NoJobIsJob DEF DInv, DTypeOK
<1> QED BY <1>1, <1>2, CallsEnd

\* Another manifest is put in place whose blobs are there.
LEMMA ManifestChanges ==
  ASSUME DInv, UNCHANGED <<tmp, blobs, job>>, manifest' \in EnvelopeFile,
         manifest' \in Manifest => Present(FilesOf[manifest'])
  PROVE  DInv'
  BY DEF DInv, DTypeOK, Covered, Present, Progress

\* A directory that is not touched.
LEMMA NothingChanges ==
  ASSUME DInv, UNCHANGED dvars
  PROVE  DInv'
  BY DEF DInv, DTypeOK, Covered, Present, Progress, dvars

\* A directory that has not been written to.
LEMMA DInitKeeps ==
  ASSUME DirConstants, DInit
  PROVE  DInv
<1>1. DTypeOK
  BY NoJobIsJob DEF DInit, DTypeOK, EnvelopeFile, BlobFile
<1>2. \A w \in Writer : job[w] = NoJob
  BY DEF DInit
<1> QED BY <1>1, <1>2 DEF DInit, DInv, Covered, DirConstants, NoJob, Progress

-----------------------------------------------------------------------------
(* A writer that is alone.                                                 *)

\* The blobs of this set have the right bytes.
Good(files) == \A b \in files : blobs[b] = "whole"

\* Writer w has been the only one since its call began, and what it has
\* written so far is what it was given.
Exact(w, files) ==
  /\ \A v \in Writer \ {w} : job[v].step = "idle"
  /\ job[w].step \in {"blobs", "inBlob"} =>
       Good((files \ job[w].todo) \ job[w].bad)
  /\ job[w].step \in {"inTmp", "rename", "done"} => Good(files \ job[w].bad)
  /\ job[w].step = "inTmp" => job[w].fd = "tmp" /\ tmp = Empty
  /\ job[w].step = "rename" => tmp = job[w].envelope
  /\ job[w].step = "done" => manifest = job[w].envelope

\* As long as it is alone it goes on like that, whatever the directory held.
LEMMA WritingIsExact ==
  ASSUME DInv, NEW w \in Writer, NEW u \in Writer, Writing(u),
         NEW files \in SUBSET Blob, Exact(w, files)
  PROVE  Exact(w, files)'
<1>1. u = w
  BY DEF Exact, Writing, OpenBlob, WriteBlob, OpenTmp, WriteTmp, Rename
<1>2. /\ DTypeOK /\ DTypeOK' /\ GoesOn(w) /\ job \in [Writer -> Job]
      /\ blobs \in [Blob -> BlobFile] /\ job[w] \in Job /\ job[w].todo \subseteq Blob
  BY <1>1, WritingTyped, JobFields DEF DInv, DTypeOK
<1>3. \A v \in Writer \ {w} : job'[v].step = "idle"
  BY <1>2 DEF Exact, GoesOn
<1>4. job'[w].bad = job[w].bad /\ job'[w].envelope = job[w].envelope
  BY <1>2 DEF GoesOn
<1>5. CASE OpenBlob(w)
  <2>1. PICK b \in job[w].todo :
          /\ blobs' = [blobs EXCEPT ![b] = "torn"]
          /\ job' = [job EXCEPT ![w].step = "inBlob", ![w].blob = b]
    BY <1>5 DEF OpenBlob
  <2>2. job'[w].step = "inBlob" /\ job'[w].todo = job[w].todo
    BY <1>2, <2>1 DEF Job
  <2>3. \A f \in (files \ job[w].todo) \ job[w].bad : blobs'[f] = "whole"
    BY <1>2, <1>5, <2>1 DEF OpenBlob, Exact, Good
  <2> QED BY <1>3, <1>4, <2>2, <2>3 DEF Exact, Good
<1>6. CASE WriteBlob(w)
  <2>1. job'[w].step = "blobs" /\ job'[w].todo = job[w].todo \ {job[w].blob}
    BY <1>2, <1>6 DEF WriteBlob, Job
  <2>2. \A f \in (files \ job[w].todo) \ job[w].bad : blobs[f] = "whole"
    BY <1>6 DEF WriteBlob, Exact, Good
  <2>3. \A f \in (files \ (job[w].todo \ {job[w].blob})) \ job[w].bad : blobs'[f] = "whole"
    <3>1. CASE job[w].blob \in job[w].bad
      BY <1>6, <2>2, <3>1 DEF WriteBlob
    <3>2. CASE job[w].blob \notin job[w].bad
      BY <1>2, <1>6, <2>2, <3>2 DEF WriteBlob
    <3> QED BY <3>1, <3>2
  <2> QED BY <1>3, <1>4, <2>1, <2>3 DEF Exact, Good
<1>7. CASE OpenTmp(w)
  <2>1. job'[w].step = "inTmp" /\ job'[w].fd = "tmp"
    BY <1>2, <1>7 DEF OpenTmp, Job
  <2> QED BY <1>3, <1>4, <1>7, <2>1 DEF OpenTmp, Exact, Good
<1>8. CASE WriteTmp(w)
  <2>1. job'[w].step = "rename"
    BY <1>2, <1>8 DEF WriteTmp, Job
  <2>2. tmp' = job[w].envelope
    BY <1>8 DEF WriteTmp, Exact, Written
  <2> QED BY <1>3, <1>4, <1>8, <2>1, <2>2 DEF WriteTmp, Exact, Good
<1>9. CASE Rename(w)
  <2>1. \/ job'[w].step = "failed"
        \/ job'[w].step = "done" /\ manifest' = tmp
    BY <1>2, <1>9 DEF Rename, Job
  <2> QED BY <1>3, <1>4, <1>9, <2>1 DEF Rename, Exact, Good
<1> QED BY <1>1, <1>5, <1>6, <1>7, <1>8, <1>9 DEF Writing

=============================================================================
