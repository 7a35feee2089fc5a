------------------------------ MODULE Publisher ------------------------------
(***************************************************************************)
(* A member's publishing side: cmd/wreath-publish building, signing and    *)
(* pushing out of a work directory, and the origin directory it pushes to, *)
(* which fetchers read at any time.                                        *)
(*                                                                         *)
(* The owner runs one command at a time on the work directory; each may    *)
(* die, or stop at an I/O error, between any two file operations, and the  *)
(* next command finds what it left.  Others (the demo's publish handler)   *)
(* may write the origin directory at the same time.  Both directories are  *)
(* instances of module BundleDir.                                          *)
(***************************************************************************)
CONSTANTS
  Owner,         \* the owner's command line
  Other,         \* other writers of the origin directory
  Theirs,        \* what they publish there
  Manifest, Blob, FilesOf, None, Empty, Garbled

ASSUME PublisherAssumption ==
  /\ Owner \notin Other
  /\ Theirs \subseteq Manifest
  /\ FilesOf \in [Manifest -> SUBSET Blob]
  /\ {None, Empty, Garbled} \cap Manifest = {}
  /\ None \notin Blob

VARIABLES
  wmanifest, wtmp, wblobs, wjob,    \* the work directory
  omanifest, otmp, oblobs, ojob,    \* the origin directory
  unsigned,      \* manifest.unsigned.json in the work directory
  cmd            \* the owner's command

Work == INSTANCE BundleDir WITH Writer <- {Owner}, manifest <- wmanifest,
          tmp <- wtmp, blobs <- wblobs, job <- wjob

Site == INSTANCE BundleDir WITH Writer <- Other \cup {Owner}, manifest <- omanifest,
          tmp <- otmp, blobs <- oblobs, job <- ojob

wdir == <<wmanifest, wtmp, wblobs, wjob>>
odir == <<omanifest, otmp, oblobs, ojob>>
vars == <<wdir, odir, unsigned, cmd>>

\* What the owner's command is doing, and with which manifest; alone: nobody
\* else has been writing the origin directory since this push began.
Cmd == [kind : {"none", "build", "buildUnsigned", "dropManifest", "dropUnsigned",
                "saveUnsigned", "sign", "push"},
        manifest : Manifest \cup {None}, alone : BOOLEAN]
NoCmd == [kind |-> "none", manifest |-> None, alone |-> FALSE]
Doing(kind, m) == [NoCmd EXCEPT !.kind = kind, !.manifest = m]

Init ==
  /\ Work!DInit
  /\ Site!DInit
  /\ unsigned = None
  /\ cmd = NoCmd

-----------------------------------------------------------------------------
(* wreath-publish build.                                                   *)

\* The site has been read into a manifest and its blobs.
BuildSigned(m) ==
  /\ cmd = NoCmd
  /\ cmd' = Doing("build", m)
  /\ Work!WriteDir(Owner, m, FilesOf[m], {})
  /\ UNCHANGED <<odir, unsigned>>

\* Variant of BuildUnsigned: only the payload is saved, the blobs are not.
BuildUnsignedBare(m) ==
  /\ cmd = NoCmd
  /\ cmd' = Doing("dropUnsigned", m)
  /\ UNCHANGED <<wdir, odir, unsigned>>

\* Without a key WriteDir is given no envelope at all.
BuildUnsigned(m) ==
  /\ cmd = NoCmd
  /\ cmd' = Doing("buildUnsigned", m)
  /\ Work!WriteDir(Owner, Empty, FilesOf[m], {})
  /\ UNCHANGED <<odir, unsigned>>

BuildReturns ==
  /\ cmd.kind \in {"build", "buildUnsigned"}
  /\ Work!Return(Owner)
  /\ cmd' = IF cmd.kind = "buildUnsigned" /\ wjob[Owner].step = "done"
              THEN [cmd EXCEPT !.kind = "dropManifest"] ELSE NoCmd
  /\ UNCHANGED <<odir, unsigned>>

\* The empty manifest.json that WriteDir made is removed.
BuildDropManifest ==
  /\ cmd.kind = "dropManifest"
  /\ wmanifest' = None
  /\ cmd' = [cmd EXCEPT !.kind = "dropUnsigned"]
  /\ UNCHANGED <<wtmp, wblobs, wjob, odir, unsigned>>

\* The unsigned payload is written in place.
BuildTruncateUnsigned ==
  /\ cmd.kind = "dropUnsigned"
  /\ unsigned' = Empty
  /\ cmd' = [cmd EXCEPT !.kind = "saveUnsigned"]
  /\ UNCHANGED <<wdir, odir>>

BuildSaveUnsigned ==
  /\ cmd.kind = "saveUnsigned"
  /\ unsigned' = cmd.manifest
  /\ cmd' = NoCmd
  /\ UNCHANGED <<wdir, odir>>

-----------------------------------------------------------------------------
(* wreath-publish sign.                                                    *)

\* The payload to sign: the unsigned file if there is one, else the payload
\* of the manifest that is there.  An unreadable one is an error.
ToSign == IF unsigned # None THEN unsigned ELSE wmanifest

\* Variant of SignRename: what was read is signed as it is.
SignAnything ==
  /\ cmd = NoCmd
  /\ ToSign # None
  /\ wmanifest' = ToSign
  /\ cmd' = Doing("sign", ToSign)
  /\ UNCHANGED <<wtmp, wblobs, wjob, odir, unsigned>>

\* Sign prepares a temporary file of its own and renames it; nobody else
\* opens it, so only the rename shows.
SignRename ==
  /\ cmd = NoCmd
  /\ ToSign \in Manifest
  /\ wmanifest' = ToSign
  /\ cmd' = Doing("sign", ToSign)
  /\ UNCHANGED <<wtmp, wblobs, wjob, odir, unsigned>>

SignDropUnsigned ==
  /\ cmd.kind = "sign"
  /\ unsigned' = None
  /\ cmd' = NoCmd
  /\ UNCHANGED <<wdir, odir>>

-----------------------------------------------------------------------------
(* wreath-publish push.                                                    *)

\* Push copies the work directory as it finds it; it needs every blob file
\* to be there, and hashes none of them.
Push ==
  /\ cmd = NoCmd
  /\ LET m == wmanifest IN
       /\ m \in Manifest
       /\ \A b \in FilesOf[m] : wblobs[b] # "absent"
       /\ cmd' = [kind |-> "push", manifest |-> m,
                 alone |-> \A w \in Other : ojob[w].step = "idle"]
       /\ Site!WriteDir(Owner, m, FilesOf[m], {b \in FilesOf[m] : wblobs[b] = "torn"})
  /\ UNCHANGED <<wdir, unsigned>>

PushReturns ==
  /\ cmd.kind = "push"
  /\ Site!Return(Owner)
  /\ cmd' = NoCmd
  /\ UNCHANGED <<wdir, unsigned>>

\* What wreath-publish verify says of the work directory; it writes nothing.
Verified == Work!VerifyDir

\* The demo publishes straight to the origin directory, without a lock.
OtherPublishes(w, m) ==
  /\ w \in Other
  /\ Site!WriteDir(w, m, FilesOf[m], {})
  /\ cmd' = [cmd EXCEPT !.alone = FALSE]
  /\ UNCHANGED <<wdir, unsigned>>

OtherReturns(w) ==
  /\ w \in Other
  /\ Site!Return(w)
  /\ UNCHANGED <<wdir, unsigned, cmd>>

-----------------------------------------------------------------------------

\* A call of WriteDir does its next file operation.
WritingWork == Work!Writing(Owner) /\ UNCHANGED <<odir, unsigned, cmd>>

WritingOrigin(w) == Site!Writing(w) /\ UNCHANGED <<wdir, unsigned, cmd>>

\* The owner's command dies, or gives up at an error.
Die ==
  /\ cmd # NoCmd
  /\ cmd' = NoCmd
  /\ wjob' = [wjob EXCEPT ![Owner] = Work!NoJob]
  /\ ojob' = [ojob EXCEPT ![Owner] = Site!NoJob]
  /\ UNCHANGED <<wmanifest, wtmp, wblobs, omanifest, otmp, oblobs, unsigned>>

OtherDies(w) ==
  /\ w \in Other
  /\ Site!Stop(w)
  /\ UNCHANGED <<wdir, unsigned, cmd>>

-----------------------------------------------------------------------------

Build ==
  \/ \E m \in Manifest : BuildSigned(m) \/ BuildUnsigned(m)
  \/ BuildReturns
  \/ BuildDropManifest
  \/ BuildTruncateUnsigned
  \/ BuildSaveUnsigned

Sign == SignRename \/ SignDropUnsigned

Next ==
  \/ Build
  \/ Sign
  \/ Push
  \/ PushReturns
  \/ WritingWork
  \/ Die
  \/ \E w \in Other : \/ \E m \in Theirs : OtherPublishes(w, m)
                      \/ OtherReturns(w)
                      \/ OtherDies(w)
  \/ \E w \in Other \cup {Owner} : WritingOrigin(w)

Spec == Init /\ [][Next]_vars

-----------------------------------------------------------------------------
(* Properties.                                                             *)

\* Both directories and the command stay in their types.
TypeOK ==
  /\ Work!DTypeOK
  /\ Site!DTypeOK
  /\ unsigned \in Manifest \cup {None, Empty}
  /\ cmd \in Cmd

\* Blobs come before the manifest: whoever reads a manifest at the origin
\* finds a file for every blob it names, also when pushes die halfway, run
\* side by side, or bring back an older version.
BlobsComeFirst ==
  omanifest \in Manifest => \A b \in FilesOf[omanifest] : oblobs[b] # "absent"

\* Whatever sign would sign next, the work directory has files for all its
\* blobs: a leftover of an older or a dead build can be signed and pushed.
PayloadsHaveBlobs ==
  ToSign \in Manifest => \A b \in FilesOf[ToSign] : wblobs[b] # "absent"

\* A push that returns success, with nobody else at work on the origin, has
\* made the origin verify if the work directory does, over whatever
\* torn blobs and temporary files earlier pushes left.
PushCopies ==
  [][PushReturns /\ cmd.alone /\ ojob[Owner].step = "done" /\ Verified
       => Site!VerifyDir /\ omanifest = cmd.manifest]_vars

\* "a reader that sees a manifest can fetch every blob it names" (bundle.go):
\* with the bytes that match its hash.
ReaderIsServed == omanifest \in Manifest => Site!VerifyDir

=============================================================================
