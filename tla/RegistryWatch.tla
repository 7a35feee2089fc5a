---------------------------- MODULE RegistryWatch ----------------------------
(***************************************************************************)
(* internal/registry in an agent: the signed registry file, rewritten by   *)
(* its root in place (wreath-publish registry-sign) or replaced by a       *)
(* synchronisation tool, the Watcher that polls its modification time, and *)
(* the fetcher, which verifies one member's bundle with the key that the   *)
(* registry in force lists.                                                *)
(*                                                                         *)
(* A registry is a model value: what counts is its version and the key it  *)
(* lists for the member.  Modification times come from a clock of MaxTime  *)
(* granules; a tool that preserves times may stamp any earlier granule.    *)
(***************************************************************************)
EXTENDS Naturals

CONSTANTS
  Registry,      \* registries that the root has signed
  VersionOf,     \* VersionOf[r]: the version field
  KeyOf,         \* KeyOf[r]: the member's key, None when it is not listed
  ListsSelf,     \* registries that list the agent itself
  Key,           \* keys the member has had
  Bundle,        \* manifests the owner may sign: a version and a key
  MaxTime,       \* bound: the number of clock granules
  None,          \* no registry, no file, no key
  Torn           \* a file that does not parse or verify

ASSUME RegistryAssumption ==
  /\ VersionOf \in [Registry -> Nat \ {0}]
  /\ KeyOf \in [Registry -> Key \cup {None}]
  /\ ListsSelf \subseteq Registry
  /\ Bundle \subseteq [version : Nat \ {0}, key : Key]
  /\ MaxTime \in Nat
  /\ {None, Torn} \cap Registry = {}
  /\ None \notin Key

VARIABLES
  clock,         \* the granule in which a file written now is stamped
  file,          \* the registry file: content and modification time
  used,          \* times that the file had before it got its present one
  signing,       \* the registry that registry-sign is writing, or None
  watch,         \* the Watcher, and how far Open or Reload got
  offered,       \* bundles published so far: any source may still have them
  held,          \* the bundle in the agent's store
  sync,          \* the key of the SyncMember call in progress, or None
  settled        \* nothing is written, published or restarted any more

disk == <<clock, file, used, signing>>
bundles == <<offered, held, sync>>
vars == <<disk, watch, bundles, settled>>

Time == 0 .. MaxTime
File == [content : Registry \cup {None, Torn}, mtime : Time]

\* reg, mtime: what is in force; stat, got: locals of Open and Reload.
Watcher == [step : {"down", "opening", "idle", "load", "install"},
            reg : Registry \cup {None}, mtime : Time, stat : Time,
            got : Registry \cup {None}]
Down == [step |-> "down", reg |-> None, mtime |-> 0, stat |-> 0, got |-> None]

NoBundle == [version |-> 0, key |-> None]

Running == watch.step \in {"idle", "load", "install"}

Init ==
  /\ clock = 0
  /\ file = [content |-> None, mtime |-> 0]
  /\ used = {}
  /\ signing = None
  /\ watch = Down
  /\ offered = {}
  /\ held = NoBundle
  /\ sync = None
  /\ settled = FALSE

-----------------------------------------------------------------------------
(* The file.                                                               *)

Tick ==
  /\ ~settled /\ clock < MaxTime
  /\ clock' = clock + 1
  /\ UNCHANGED <<file, used, signing, watch, bundles, settled>>

\* The file becomes this; the time it had is now a used one.
Stamped(content, mtime) ==
  /\ file' = [content |-> content, mtime |-> mtime]
  /\ used' = used \cup {file.mtime}

\* registry-sign: os.WriteFile truncates the served file, then writes it.
SignTruncate(r) ==
  /\ ~settled /\ signing = None
  /\ signing' = r
  /\ Stamped(Torn, clock)
  /\ UNCHANGED <<clock, watch, bundles, settled>>

SignWrite ==
  /\ signing # None
  /\ file' = [content |-> signing, mtime |-> clock]
  /\ used' = IF clock = file.mtime THEN used ELSE used \cup {file.mtime}
  /\ signing' = None
  /\ UNCHANGED <<clock, watch, bundles, settled>>

\* git or rsync puts another file in place; a running registry-sign goes on
\* with the file that is no longer there.
Replace(r, mtime) ==
  /\ ~settled
  /\ mtime <= clock
  /\ Stamped(r, mtime)
  /\ signing' = None
  /\ UNCHANGED <<clock, watch, bundles, settled>>

Unlink ==
  /\ ~settled /\ file.content # None
  /\ Stamped(None, file.mtime)
  /\ signing' = None
  /\ UNCHANGED <<clock, watch, bundles, settled>>

-----------------------------------------------------------------------------
(* The Watcher.                                                            *)

\* New ends at once when the registry does not list the agent; a reload does
\* not ask.
Startable(content) == content \in ListsSelf

\* Open: stat, then load; any failure ends the start of the agent.
OpenStat ==
  /\ watch.step = "down"
  /\ file.content # None
  /\ watch' = [Down EXCEPT !.step = "opening", !.stat = file.mtime]
  /\ UNCHANGED <<disk, bundles, settled>>

\* Variant of OpenLoad: what was read is not verified.
OpenLoadAny ==
  /\ watch.step = "opening"
  /\ watch' = [Down EXCEPT !.step = "idle", !.reg = file.content, !.mtime = watch.stat]
  /\ UNCHANGED <<disk, bundles, settled>>

OpenLoad ==
  /\ watch.step = "opening"
  /\ watch' = IF Startable(file.content)
                THEN [Down EXCEPT !.step = "idle", !.reg = file.content,
                                  !.mtime = watch.stat]
                ELSE Down
  /\ UNCHANGED <<disk, bundles, settled>>

\* Variant of ReloadStat: only a later time counts as a change.
ReloadStatNewer ==
  /\ watch.step = "idle"
  /\ file.content # None /\ file.mtime > watch.mtime
  /\ watch' = [watch EXCEPT !.step = "load", !.stat = file.mtime]
  /\ UNCHANGED <<disk, bundles, settled>>

\* Reload, on the poll ticker: nothing to do unless the time has changed.
ReloadStat ==
  /\ watch.step = "idle"
  /\ file.content # None /\ file.mtime # watch.mtime
  /\ watch' = [watch EXCEPT !.step = "load", !.stat = file.mtime]
  /\ UNCHANGED <<disk, bundles, settled>>

\* A file that cannot be read or verified changes nothing.
ReloadLoad ==
  /\ watch.step = "load"
  /\ watch' = IF file.content \in Registry
                THEN [watch EXCEPT !.step = "install", !.got = file.content]
                ELSE [watch EXCEPT !.step = "idle"]
  /\ UNCHANGED <<disk, bundles, settled>>

\* Variant of ReloadInstall: the version is not compared.
ReloadInstallAny ==
  /\ watch.step = "install"
  /\ watch' = [watch EXCEPT !.step = "idle", !.got = None,
                            !.reg = watch.got, !.mtime = watch.stat]
  /\ UNCHANGED <<disk, bundles, settled>>

\* Variant of ReloadInstall: the time is taken after the load, not before.
ReloadInstallLate ==
  /\ watch.step = "install"
  /\ watch' = IF VersionOf[watch.got] < VersionOf[watch.reg]
                THEN [watch EXCEPT !.step = "idle", !.got = None]
                ELSE [watch EXCEPT !.step = "idle", !.got = None,
                                   !.reg = watch.got, !.mtime = file.mtime]
  /\ UNCHANGED <<disk, bundles, settled>>

\* A lower version is rejected, and the time of its file is not taken over.
ReloadInstall ==
  /\ watch.step = "install"
  /\ watch' = IF VersionOf[watch.got] < VersionOf[watch.reg]
                THEN [watch EXCEPT !.step = "idle", !.got = None]
                ELSE [watch EXCEPT !.step = "idle", !.got = None,
                                   !.reg = watch.got, !.mtime = watch.stat]
  /\ UNCHANGED <<disk, bundles, settled>>

\* The agent stops or dies: the registry in force is forgotten.
Stop ==
  /\ ~settled /\ watch.step # "down"
  /\ watch' = Down
  /\ sync' = None
  /\ UNCHANGED <<disk, offered, held, settled>>

-----------------------------------------------------------------------------
(* The member's bundle.                                                    *)

\* The owner publishes a version, or signs one again with another key.
Publish(bundle) ==
  /\ ~settled
  /\ offered' = offered \cup {bundle}
  /\ UNCHANGED <<disk, watch, held, sync, settled>>

\* Variant of SyncStart: the key of the bundle held is good enough.
SyncStartCached ==
  /\ Running /\ sync = None
  /\ KeyOf[watch.reg] # None
  /\ sync' = IF held = NoBundle THEN KeyOf[watch.reg] ELSE held.key
  /\ UNCHANGED <<disk, watch, offered, held, settled>>

\* SyncMember takes the key from the registry once, when it starts.
SyncStart ==
  /\ Running /\ sync = None
  /\ KeyOf[watch.reg] # None
  /\ sync' = KeyOf[watch.reg]
  /\ UNCHANGED <<disk, watch, offered, held, settled>>

\* The newest bundle that verifies is stored, unless it is not newer.  While
\* the world is unsettled some sources may not answer.
SyncEnd ==
  /\ sync # None
  /\ LET valid == {bundle \in offered : bundle.key = sync /\ bundle.version > held.version}
     IN \/ held' \in IF settled THEN {bundle \in valid : \A other \in valid :
                                         other.version <= bundle.version}
                     ELSE valid
        \/ (~settled \/ valid = {}) /\ UNCHANGED held
  /\ sync' = None
  /\ UNCHANGED <<disk, watch, offered, settled>>

-----------------------------------------------------------------------------

\* The last file is whole and has a time of its own.
Settle ==
  /\ ~settled
  /\ file.content \in Registry /\ file.mtime \notin used /\ signing = None
  /\ settled' = TRUE
  /\ UNCHANGED <<disk, watch, bundles>>

Watching ==
  \/ OpenStat
  \/ OpenLoad
  \/ ReloadStat
  \/ ReloadLoad
  \/ ReloadInstall

Fetching == SyncStart \/ SyncEnd

Operators ==
  \/ Tick
  \/ \E r \in Registry : SignTruncate(r)
  \/ SignWrite
  \/ \E r \in Registry, t \in Time : Replace(r, t)
  \/ Unlink
  \/ \E bundle \in Bundle : Publish(bundle)
  \/ Stop
  \/ Settle

Next == Watching \/ Fetching \/ Operators

Spec == Init /\ [][Next]_vars

\* A supervisor restarts the agent, the tickers tick, and the operators'
\* work ends.
Fairness ==
  /\ WF_vars(Watching)
  /\ WF_vars(Fetching)

FairSpec == Spec /\ Fairness

-----------------------------------------------------------------------------
(* Properties.                                                             *)

\* Every variable stays in its type.
TypeOK ==
  /\ clock \in Time
  /\ file \in File
  /\ used \subseteq Time
  /\ signing \in Registry \cup {None}
  /\ watch \in Watcher
  /\ offered \subseteq Bundle
  /\ held \in Bundle \cup {NoBundle}
  /\ sync \in Key \cup {None}
  /\ settled \in BOOLEAN

\* No update of the file is missed: when the times agree and the file has a
\* time of its own, what is in force is what the file says, however the
\* stat, the load and the writing of the file fell together.
NoUpdateMissed ==
  watch.step = "idle" /\ file.mtime = watch.mtime /\ file.mtime \notin used
    /\ file.content \in Registry
      => watch.reg = file.content

\* A running agent never falls back to an earlier registry (package
\* comment: a reload that presents a lower version is rejected).
RegistryMovesUp ==
  [][Running /\ Running' => VersionOf[watch'.reg] >= VersionOf[watch.reg]]_vars

\* Once the operators are done the agent runs with the registry in the file,
\* unless that one is older than what it had accepted.  With a registry that
\* does not list the agent only one that runs already goes on (agent.New).
FollowsFile ==
  <>[](settled =>
         /\ Startable(file.content) => Running
         /\ Running => \/ watch.reg = file.content
                       \/ VersionOf[file.content] < VersionOf[watch.reg])

\* What the registry's key signed, and what other keys signed.
SignedWith(k) == {bundle \in offered : bundle.key = k}
Newest(k) == {bundle \in SignedWith(k) : \A other \in offered : other.version <= bundle.version}

\* After a key rotation the holders move to a bundle signed with the new key,
\* once the owner has published a version above all that the old key signed
\* (the same version signed again is not enough: Put takes only higher ones).
RotationCompletes ==
  <>[](\A k \in Key :
         settled /\ Running /\ KeyOf[watch.reg] = k /\ Newest(k) # {}
           /\ (\A old \in offered : old.key # k => \A new \in Newest(k) : old.version < new.version)
             => held \in Newest(k))

=============================================================================
