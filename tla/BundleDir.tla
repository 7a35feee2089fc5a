------------------------------ MODULE BundleDir ------------------------------
(***************************************************************************)
(* internal/bundle: one directory in the bundle layout, written in place   *)
(* by WriteDir and read by anybody at any time.                            *)
(*                                                                         *)
(* There is no lock.  WriteDir rewrites each blob file in place (truncate, *)
(* then write), writes the envelope to a file .manifest.json.tmp that all  *)
(* writers share, and renames it.  Two writers of one directory can have   *)
(* the same temporary file open: a rename moves the name, and a writer     *)
(* goes on writing to the file it opened, whatever it is called by then.   *)
(***************************************************************************)

CONSTANTS
  Writer,        \* calls of WriteDir that may run at the same time
  Manifest,      \* signed envelopes, each with its own list of files
  Blob,
  FilesOf,       \* FilesOf[m]: the blobs that m names
  None,          \* no such file
  Empty,         \* a file with nothing in it
  Garbled        \* a file with the bytes of one envelope over another's

VARIABLES
  manifest,      \* the file manifest.json
  tmp,           \* the file .manifest.json.tmp
  blobs,         \* blobs[b]: the file blobs/b
  job            \* job[w]: where writer w's WriteDir is

dvars == <<manifest, tmp, blobs, job>>

EnvelopeFile == Manifest \cup {None, Empty, Garbled}
BlobFile == {"absent", "torn", "whole"}

\* "done" and "failed" are the two ways WriteDir returned to its caller.
WriteStep == {"idle", "blobs", "inBlob", "inTmp", "rename", "done", "failed"}

\* The envelope to write, the blobs of which the caller has wrong bytes, the
\* ones still to write, the blob now open, and the present name of the
\* temporary file that this writer opened ("gone": replaced by a rename).
Job == [step : WriteStep, envelope : Manifest \cup {Empty}, bad : SUBSET Blob,
        todo : SUBSET Blob, blob : Blob \cup {None},
        fd : {"none", "tmp", "manifest", "gone"}]

NoJob == [step |-> "idle", envelope |-> Empty, bad |-> {}, todo |-> {},
          blob |-> None, fd |-> "none"]

\* VerifyDir without its signature check: the envelope parses and every blob
\* it names has its hash.
VerifyDir ==
  /\ manifest \in Manifest
  /\ \A b \in FilesOf[manifest] : blobs[b] = "whole"

DInit ==
  /\ manifest = None
  /\ tmp = None
  /\ blobs = [b \in Blob |-> "absent"]
  /\ job = [w \in Writer |-> NoJob]

-----------------------------------------------------------------------------
(* WriteDir, one action per file operation.                                *)

WriteDir(w, envelope, files, bad) ==
  /\ job[w].step = "idle"
  /\ job' = [job EXCEPT ![w] = [NoJob EXCEPT !.step = "blobs",
                                             !.envelope = envelope,
                                             !.bad = bad,
                                             !.todo = files]]
  /\ UNCHANGED <<manifest, tmp, blobs>>

\* Variant of OpenBlob: a blob file that exists is left as it is.
OpenBlobIfAbsent(w) ==
  /\ job[w].step = "blobs"
  /\ \E b \in job[w].todo :
       IF blobs[b] = "absent"
         THEN /\ blobs' = [blobs EXCEPT ![b] = "torn"]
              /\ job' = [job EXCEPT ![w].step = "inBlob", ![w].blob = b]
         ELSE /\ job' = [job EXCEPT ![w].todo = @ \ {b}]
              /\ UNCHANGED blobs
  /\ UNCHANGED <<manifest, tmp>>

\* os.WriteFile of the next blob, in the map's order (any): O_TRUNC first.
OpenBlob(w) ==
  /\ job[w].step = "blobs"
  /\ \E b \in job[w].todo :
       /\ blobs' = [blobs EXCEPT ![b] = "torn"]
       /\ job' = [job EXCEPT ![w].step = "inBlob", ![w].blob = b]
  /\ UNCHANGED <<manifest, tmp>>

\* Every writer of a blob writes the same bytes to the same place.  Bad bytes
\* are the first part of the good ones (what an earlier death left): written
\* over a whole blob they change nothing, over a torn one they mend nothing.
WriteBlob(w) ==
  /\ job[w].step = "inBlob"
  /\ IF job[w].blob \in job[w].bad
       THEN UNCHANGED blobs
       ELSE blobs' = [blobs EXCEPT ![job[w].blob] = "whole"]
  /\ job' = [job EXCEPT ![w].step = "blobs", ![w].blob = None,
                        ![w].todo = @ \ {job[w].blob}]
  /\ UNCHANGED <<manifest, tmp>>

\* Variant of OpenTmp: the envelope is written before the blobs.
OpenTmpFirst(w) ==
  /\ job[w].step = "blobs"
  /\ tmp' = Empty
  /\ job' = [job EXCEPT ![w].step = "inTmp", ![w].fd = "tmp"]
  /\ UNCHANGED <<manifest, blobs>>

\* The temporary file is made, or truncated whoever made it.
OpenTmp(w) ==
  /\ job[w].step = "blobs" /\ job[w].todo = {}
  /\ tmp' = Empty
  /\ job' = [job EXCEPT ![w].step = "inTmp", ![w].fd = "tmp"]
  /\ UNCHANGED <<manifest, blobs>>

\* Writing an envelope from the start of a file: what another writer put
\* there since the file was truncated is covered, unless it is longer.
Written(file, envelope) ==
  IF file \in {Empty, envelope} THEN {envelope} ELSE {envelope, Garbled}

WriteTmp(w) ==
  /\ job[w].step = "inTmp"
  /\ IF job[w].fd = "tmp" THEN tmp' \in Written(tmp, job[w].envelope)
     ELSE UNCHANGED tmp
  /\ IF job[w].fd = "manifest" THEN manifest' \in Written(manifest, job[w].envelope)
     ELSE UNCHANGED manifest
  /\ job' = [job EXCEPT ![w].step = "rename", ![w].fd = "none"]
  /\ UNCHANGED blobs

\* What the open file is called after a rename of tmp to manifest.
Renamed(fd) ==
  CASE fd = "tmp" -> "manifest"
    [] fd = "manifest" -> "gone"
    [] OTHER -> fd

\* The rename fails when another writer has taken the temporary file away.
Rename(w) ==
  /\ job[w].step = "rename"
  /\ IF tmp = None
       THEN /\ job' = [job EXCEPT ![w].step = "failed"]
            /\ UNCHANGED <<manifest, tmp>>
       ELSE /\ job' = [v \in Writer |->
                         [job[v] EXCEPT !.step = IF v = w THEN "done" ELSE @,
                                        !.fd = Renamed(@)]]
            /\ manifest' = tmp
            /\ tmp' = None
  /\ UNCHANGED blobs

\* The caller takes note of the result.
Return(w) ==
  /\ job[w].step \in {"done", "failed"}
  /\ job' = [job EXCEPT ![w] = NoJob]
  /\ UNCHANGED <<manifest, tmp, blobs>>

\* The process dies, or a file operation fails and WriteDir returns: every
\* file stays as it is.
Stop(w) ==
  /\ job[w].step \notin {"idle", "done", "failed"}
  /\ job' = [job EXCEPT ![w] = NoJob]
  /\ UNCHANGED <<manifest, tmp, blobs>>

Writing(w) ==
  \/ OpenBlob(w)
  \/ WriteBlob(w)
  \/ OpenTmp(w)
  \/ WriteTmp(w)
  \/ Rename(w)

-----------------------------------------------------------------------------

\* The directory stays in its type.
DTypeOK ==
  /\ manifest \in EnvelopeFile
  /\ tmp \in EnvelopeFile
  /\ blobs \in [Blob -> BlobFile]
  /\ job \in [Writer -> Job]

=============================================================================
