------------------------------ MODULE RelayRead ------------------------------
(***************************************************************************)
(* internal/serve reading the store while fetch writes it.                 *)
(*                                                                         *)
(* Serving one file to a visitor (serveBundleFile) takes three looks at    *)
(* the store, and the lock is free between them: the manifest              *)
(* (Store.Manifest), the path of a blob it names (Store.BlobPath), and     *)
(* os.Open of that path, which takes no lock at all.  One reader is        *)
(* enough: readers do not touch each other or the store.                   *)
(***************************************************************************)
EXTENDS BundleStore

VARIABLE rd      \* the request: how far it got and what it has learned

\* The two answers 500; the other steps are "idle", "entry", "path", "served".
Failed == {"missing", "unreadable"}

NoRequest == [step |-> "idle", manifest |-> None, blob |-> None, path |-> 0]

rvars == <<vars, rd>>

RInit == Init /\ rd = NoRequest

\* RLock is granted: the process runs and no Put holds the mutex.
RLocked == up /\ pc = "idle"

\* Store.Manifest, and the file of it that the visitor asked for.
ReadManifest ==
  /\ RLocked /\ rd.step = "idle"
  /\ mem.manifest # None
  /\ \E b \in FilesOf[mem.manifest] :
       rd' = [step |-> "entry", manifest |-> mem.manifest, blob |-> b, path |-> 0]
  /\ UNCHANGED vars

\* Store.BlobPath looks the hash up in the manifest held NOW, not in the one
\* the request read; a miss is answered with 500 "blob missing".
ReadPath ==
  /\ RLocked /\ rd.step = "entry"
  /\ IF mem.manifest # None /\ rd.blob \in FilesOf[mem.manifest]
       THEN rd' = [rd EXCEPT !.step = "path", !.path = HeldVersion]
       ELSE rd' = [rd EXCEPT !.step = "missing"]
  /\ UNCHANGED vars

\* os.Open; an open file survives its unlink, a failure is answered with 500
\* "blob unreadable".
ReadOpen ==
  /\ up /\ rd.step = "path"
  /\ rd' = [rd EXCEPT !.step = IF rd.blob \in dirs[rd.path].blobs
                                 THEN "served" ELSE "unreadable"]
  /\ UNCHANGED vars

\* The answer is out; the next request starts from nothing.
ReadDone ==
  /\ rd.step \in {"served"} \cup Failed
  /\ rd' = NoRequest
  /\ UNCHANGED vars

Reading ==
  \/ ReadManifest
  \/ ReadPath
  \/ ReadOpen
  \/ ReadDone

\* A request dies with the process.
RNext ==
  \/ Reading
  \/ Crash /\ rd' = NoRequest
  \/ (Calls \/ Outage \/ Calm) /\ UNCHANGED rd

RSpec == RInit /\ [][RNext]_rvars

\* Visitors keep coming and their requests run to the end.
RFairSpec == RSpec /\ Fairness /\ WF_rvars(Reading)

-----------------------------------------------------------------------------

\* An agent that holds a bundle fails a visitor (500) only when a newer
\* version has been committed since the request read the manifest: no
\* failed, half-done or repeated Put takes a file away from a reader.
VisitorFailsOnlyWhenSuperseded ==
  rd.step \in Failed => VersionOf[rd.manifest] < VersionIn(Durable)

\* Once the disturbances end and versions stop coming, visitors are served
\* for ever and the two 500 answers never come back.
EventuallyServed ==
  /\ []<>(rd.step = "served")
  /\ <>[](rd.step \notin Failed)

=============================================================================
