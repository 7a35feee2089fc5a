# A verification project for the resiliency wreath

The resiliency wreath keeps small web sites readable while their servers are
down. Each member signs a *bundle* of its site (a manifest that names blobs by
their SHA-256) and serves it from its *origin*. Each *agent* fetches the bundles
of all members of a signed *registry*, from their origins and from other
agents, keeps them on disk, serves them, and reports how fresh everyone's
copies are.

This directory holds TLA+ modules for the parts of that program whose
correctness depends on order, interruption and interleaving; TLC runs that
check them on small instances; and proofs, checked by TLAPS, that the most
important properties hold for every instance. Paths below are relative to
`src/`.

## 1. Inventory of the system

| Part | State it keeps | Operations | Talks to |
|---|---|---|---|
| `internal/wire` | none | canonical JSON, sign, verify, validate, paths, limits | everyone |
| `internal/bundle` | a bundle directory: `manifest.json`, its temporary, `blobs/` | `Build`, `WriteDir`, `ReadManifestBytes`, `VerifyDir` | publishers; any reader of the directory |
| `cmd/wreath-publish` | the work directory with `manifest.unsigned.json`; the origin directory; the registry file | `init`, `build`, `sign`, `verify`, `push`, `registry-sign`, `registry-verify` | `bundle`, `wire` |
| `internal/store` | per member: version directories, staging directories, pointer file `current`, `seen` file; the same in memory under a mutex | `Open`, `Put`, `NoteSeen`, `Manifest`, `Version`, `BlobPath` | `fetch` and `probe` write, `serve` reads |
| `internal/fetch` | the locals of a sync; a ticker; a queue of 64 hints | `Run`, `SyncAll`, `Kick`, `SyncMember`, `getBlob` | origins and agents over HTTP, `store` |
| `internal/serve` | none | relay of manifests and blobs, visitor's files, health, notifications | `store`, `probe`, `fetch` |
| `internal/probe` | the matrix holder x member; `firstKnown`, the time each version was first heard of | `Run`, `Sweep`, `observeRemote`, `observeSelf`, `record` | agents over HTTP, `store` |
| `internal/registry` | the registry in force and the file's modification time | `Open`, `Reload` | the registry file |
| `internal/agent` | the wiring and the goroutines | `New`, `Run`, the reload loop | all of the above |
| `internal/sim` | a wreath in one process: the switch of each origin (`ToggleServer`), the agent of each member, the partitions (`PartitionTable`) | `NewWreath`, `StartAgent`, `StopAgent`, `WipeData`, `SetDown`, `Publish`, `NotifyAll`, `Walk`, `Close` | agents, origins |
| `internal/demo` | the lock `Server.mu`, the chaos switch, the last walk of each member | `chaosLoop`, `setDark`, the toggles, `handleWalk`, `handlePublish` | `sim`, and the members' endpoints as a client |
| `internal/keyfile`, `cmd/wreath-agent`, `cmd/wreath-sim` | none of their own | files and flags | - |

What is hard here, and what makes each part correct:

* **store** - `Put` is eight file operations. The process may die, or an
  operation fail, between any two; the disk may lose files; a reader that has
  left the lock may still be walking a version that `Put` prunes. Correct when a
  restart never serves half a bundle, versions only rise, and the freshness
  baseline (`seen`) survives and covers what is held.
* **fetch** - a sync is a long series of requests, each of which may fail, while
  origins and peers appear, disappear, upgrade, roll back or lie. Correct when
  only what the owner signed is ever stored, copies do not go back, and everyone
  ends up with the newest version available, dead origin or not.
* **the fetch goroutine** - one `select` over a ticker, a queue that anybody may fill
  and a context, around calls that may fail, while the registry changes. Correct when
  one failing member, one flood of hints or one dropped hint costs nobody a version.
* **serve** - three looks at the store per visitor, lock free in between.
  Correct when a visitor fails only because a newer version arrived.
* **probe** - a sweep has one clock value, several slow visits, and a store that
  changes during it. Correct when an up-to-date copy is never called stale, a
  lagging one not fresh after the grace window (a sweep may be late by its own
  length), and the matrix ends as the truth.
* **registry** - a file, changed in place or replaced by others, known by its
  modification time only; it also carries key rotations. Correct when no update
  is missed and the version in force never falls.
* **bundle / wreath-publish** - commands that may die halfway and be resumed on
  their own debris, next to other writers of the origin. Correct when no
  manifest is visible before its blob files, and a push repairs what it finds.
* **demo** - a loop that takes members dark and revives them, people at the same
  switches, a lock that is held while agents shut down, and visitors who walk the
  endpoints meanwhile. Correct when chaos leaves nothing behind, a live endpoint is
  never missed and nobody waits for ever.
* **wire** - the signature covers one reading of the document, the program uses
  another, and the bytes may be rewritten on the way. Correct when what verifies
  says what was signed, and all of it, and what says the same verifies.

`PROJECT.json` lists every part under `components` and every hazard, at its line,
under `hazards`.

## 2. The modules

```
AtomicBundle    <--implements--  BundleStore  <--extends--  RelayRead
SignedRegister  <--implements--  Replication
BundleDir       <--two instances--  Publisher
FetchLoop   Probe   RegistryWatch   Envelope   Demo
XxxProofs  extends Xxx (theorems);   MCXxx  extends Xxx (instances for TLC)
BundleStoreProofs  covers RelayRead too
SignedDocumentProofs  has the theorems about Envelope and RegistryWatch
```

Definitions keep the names of the source where they have one. A definition whose
comment begins "Variant of" is a deliberately wrong form of the one it names; the
specifications never use it. Putting it in place of the right one must break a
named property, which is how we know that the property can fail (`mutants` in
`PROJECT.json`).

**BundleStore** (`internal/store/store.go`). One member, because members have
disjoint directories. `dirs[v]`, `tmp[v]`, `current`, `seen` are the disk, `mem` is
`memberState`, `pc`/`offer` the call of `Put` that holds the mutex. Each file
operation of `Put` is an action: `PutBegin` (checks, `RemoveAll` of the staging
directory begins), `PutClearTmp`, `PutWriteBlob`, `PutWriteManifest`,
`PutClearFinal`, `PutRename`, `PutCommit` (pointer), `PutPrune`, `PutFinish` (seen
file, memory); a `RemoveAll` unlinks its files one at a time, in any order. `PutFail`
is every error return. `Open` loads a member as `loadMember` does, corrupt parts
skipped. `Crash` is the death of the process between any two operations: the kernel
keeps what was written. `Wipe` and the four `Damage*` actions happen while the agent
is stopped; the constant `Fault` says which kinds of damage an instance has.

**RelayRead** (`serve.serveBundleFile`, `Store.Manifest`, `Store.BlobPath`,
`os.Open`). One visitor, three steps, every step of the store in between.

**AtomicBundle**. What the store promises: a register with a durable and a live
value that changes in one step, only upward unless it is lost.

**Replication** (`fetch.SyncMember` over `serve`'s relay answers, `store.Put` as one
step). `sync[n]` are the locals of agent `n`'s call. Each request is an action:
`PollAnswer`/`PollFail`, `BlobAnswer`/`BlobFail`. `Manifests(s)` and `Blobs(s, b)` are
what source `s` may answer now: a rogue peer replays any signed manifest, forges,
offers another member's, and sends junk. `Accepted` is the verdict of
`VerifyManifestBytes`, `HashMatches` that of `getBlob`. The environment publishes
(an older version too: a rolled-back origin), toggles the origin, crashes,
restarts and wipes agents.

**FetchLoop** (`fetch.Run`, `SyncAll`, `Kick`, `SyncMember`; `serve.serveNotify`). The
fetch goroutine of one agent from start to stop, for several members. `phase` is where
`Run` is, `todo` what `SyncAll` has still to visit, `call` the `SyncMember` in progress
(the id, and the version it has verified once it downloads), `kicks` and `tick` the
channels. A sync is `Answered`, `UpToDate`, `NoAnswer`, `StoreFails`, `Stored`: the
outcomes its caller can tell apart; `Replication` has the requests. `TakeTick`,
`TakeKick` and `TakeDone` are the branches of the `select`. Around it members publish
and roll back, sources go and come, the registry is replaced, anyone notifies, the
context is cancelled, the process dies. The ghost `owed[m]` is the version that `m`'s
sources had when the sweep began, zero as soon as they falter, the store fails or `m` is
unlisted; it is what the sweep must have brought in when it ends.

**SignedRegister**. What replication promises: copies are signed versions and only
move up, or are wiped.

**Probe** (`internal/probe/probe.go`). One member. `age[v]` is the true time since
version `v` was first heard of, `elapsed[v]` what the sweep under way takes it to be (its
clock is read once, at its start), and `since` how long the sweep has lasted; all in
ticks that run on to `Horizon`, which is above the tolerance.
A visit is two actions, the request (`ObserveRemote`, `ObserveSelf`) and the verdict
(`Record`); the fetcher (`FetchNotes`, `FetchStores`), the clock, holders and a
restart come in between.

**RegistryWatch** (`internal/registry`, `agent.registryReloadLoop`,
`wreath-publish registry-sign`). `Reload` is `ReloadStat`, `ReloadLoad`,
`ReloadInstall`; `os.WriteFile` is `SignTruncate` and `SignWrite`; a synchronisation
tool may `Replace` the file with any signed registry and any earlier time. A member's
bundle and key show what a rotation does: `SyncStart` picks the key, `SyncEnd`
verifies and stores. `agent.New` starts only with a registry that lists the agent
(`Startable`); a reload does not ask.

**BundleDir** (`bundle.WriteDir`, `VerifyDir`). A directory that several calls of
`WriteDir` may write at once: each blob is truncated and then written, the temporary
manifest is truncated, written and renamed. An open file is followed through the
rename, as the operating system does.

**Publisher** (`cmd/wreath-publish/main.go`, `demo.handlePublish`). The work directory
and the origin as two instances of `BundleDir`, the owner's commands over them, and
a death anywhere (`Die`).

**Demo** (`internal/demo/demo.go`, the switches of `internal/sim/wreath.go`). `down` and
`agent` are the simulator's switches; an agent is `"stopping"` from the moment
`StopAgent` closes its listener until its `Run` has returned, and `mu` says who holds
`Server.mu` all that while. `chaosLoop` is `ChaosPick` (the gap is over), `ChaosStrike`
(`setDark(true)`), `ChaosRestore` (`setDark(false)`); `ToggleOrigin`, `ToggleAgent`,
`ToggleChaos` are the buttons. `StartAgent` may fail, since another socket may have the
port by then. A visitor's walk asks one endpoint per step (`WalkAsk`), without the lock,
and needs the lock to record its result (`recordWalk`) before the page is sent. Two
ghosts: `touched`, the members a hand or a failed start interfered with, and `steady`,
the endpoints that have answered ever since the walk began.

**Envelope** (`internal/wire/jcs.go`, `manifest.go`, `registry.go`). A payload is signed
over its canonical form, the document is rewritten member by member (`Insert`, `Drop`,
`Swap`, `Relabel`), and the verifying side reads it three ways: generically, for the
signature (`Parsed`, `Canonical`), where of a repeated name the last counts alone; into a
struct, for the caller (`WellTyped`, `Decoded`, `Contents`); and `Valid`. The struct's
reading is that of `encoding/json`: it ignores the case of names, takes a null for a
field as nothing, and *merges* what is named again. Of a string or number the last
stays; a map (`metadata`) keeps the entries of the earlier one, and a slice of structs
(`members`) the elements' fields that the later one leaves out, which is why `Contents`
is built from all the setters that are `Live`, entry by entry (`Slot`). Names and strings are
sequences of code points because the escapes and the UTF-16 order are what is checked.
Values nest as deep as the payloads do: scalars, an object of scalars, an array of
objects of scalars. `Sorted` says what `sort.Slice` returns by rank (the name with
`i - 1` names below it comes `i`-th), and `Decimal` is
`strconv.FormatInt`, digit by digit. Its `Init`, `Next` and `Spec` are called `EInit`,
`ENext` and `ESpec`.

## 3. Runs

| Run | Instance | Question |
|---|---|---|
| `store_damage` | 3 manifests, two of one version; all four kinds of damage | Does a successful `Put` repair everything? Does the baseline cover what is held? |
| `store_and_readers` | 2 manifests sharing a blob, lost pointers and seen files, one visitor | Is the store an atomic register? Can a visitor fail for no reason? Do both recover? |
| `store_seen_dropped` | lost pointers | *violation*: the seen number does not survive an unreadable pointer |
| `replication_rogue` | 2 agents, 1 rogue peer, 2 versions | Genuine, monotone copies? The newest version for everyone in the end? |
| `fetch_loop` | 2 members and a stranger, a queue of 2, 1 version | Does a sweep bring in what it owes? Is everyone polled, is every hint served? |
| `demo_chaos` | 3 members, the second one visited | Does chaos clean up? Are walks honest and answered? Does everyone come back? |
| `probe_sweep` | 1 remote holder and self, 2 versions, 3 ticks | False alarms, missed lag, the truth in the end? |
| `probe_early_stale` | as above | *violation*: a holder flips to stale without grace |
| `publish_race` | 2 manifests sharing a blob, the owner and another writer | Blobs before manifest, in every interleaving? Does a push repair? |
| `publish_torn_blob` | as above | *violation*: a reader sees a torn blob |
| `registry_rotation` | 3 registries, one without the agent, 2 keys, 3 clock granules | Updates missed? Version falling? Rotation completed? |
| `envelope_rewritten` | 2 kinds, maps and slices with up to 2 entries, 3 unknown names, 2 rewritings | Does verifying mean what it should? |

Properties, by run:

* `store_damage`: `PutRepairs`, `SeenCoversHeld`.
* `store_and_readers`: `CurrentIsWhole` (the pointer leads to a complete bundle at every
  moment), `MemoryIsDisk` (memory is what a restart would load, except past the commit
  point), `ImplementsRegister`, `VisitorFailsOnlyWhenSuperseded`
  and, after the last disturbance, `Reconverges` and `EventuallyServed`.
* `replication_rogue`: `OnlyGenuine`, `NeverRollsBack`, `ImplementsRegister`, and, once
  the world settles, `Converges`.
* `fetch_loop`: `SweepSuffices` (one sweep makes up for every dropped hint, whatever
  failed for others), `PolledForever` (what `Replication` assumes of the loop),
  `HintIsHonoured` (an accepted hint leads to a sync of its own).
* `demo_chaos`: `ChaosCleansUp`, `WalkIsHonest`, `VisitorIsAnswered`, and, when chaos stays
  on and nobody touches a switch any more, `TakesTurns` (everyone has a turn in the
  dark) and `ComesBack` (everyone is wholly alive again and again, also those an
  aborted outage left without an agent).
* `probe_sweep`: `AnchorsWereSeen`, `StaleIsBehind`, `FreshIsCurrent` (a lagging holder is
  called fresh only while the true age of the highest version, at the verdict, is within
  the tolerance and the length of the sweep so far: the sweep's own clock stands still),
  `TruthInTheEnd`.
* `publish_race`: `BlobsComeFirst`, `PayloadsHaveBlobs`, `PushCopies` (of a work directory
  that verifies, by a lone writer; of another directory, or with two writers, a push
  promises only `BlobsComeFirst`).
* `registry_rotation`: `NoUpdateMissed`, `RegistryMovesUp`, `FollowsFile`,
  `RotationCompletes` (for a new key with a new version; the same version signed again
  is refused by `Put`, as documented).
* `envelope_rewritten`: `VerifiedIsSigned` (kind, generic reading, identifier and version
  as signed; in the map or slice everything that was signed, in as many elements, and
  nothing else when the name comes once), `EveryEncodingVerifies`, `NamesInOrder`.

Bounds, and why they are enough:

* *Two versions* make newer, older, same and rolled back; in `store_damage` version 1
  exists twice with different blobs, so that a directory is refilled with other
  content. Two manifests that share one blob give a file that is both kept and
  rewritten, and one that is pruned.
* *Two agents and one rogue* give every role in a sync: oneself, an honest peer that
  may be ahead, behind or empty, a liar, the origin. Agents never share state but
  through answers.
  In the end the rogue falls silent: a peer that goes on offering a signed manifest
  without its blobs can hold a member back for ever (section 5).
* *Two members, one version, two hints* in `fetch_loop`: one member fails, is unlisted or
  hinted at while the other waits; a queue of two is full with the other's hints,
  with one's own behind another's, and with a stranger's. With one version an origin is
  empty, or ahead of the store, or level with it; an origin behind the store appears
  only in the proof of `SweepSuffices`, which is for every number of versions.
* *Three members* in `demo_chaos` put an endpoint before and one behind every other in
  the walk, and let one be in outage, one be dark by hand and one be alive.
* *One remote holder* in `probe_sweep`: visits do not depend on each other except through
  the anchors and the clock, which the holder, the agent itself and the fetcher
  already set in every order. `Tolerance = 1` gives inside, at the end of, and after
  the window, and `Horizon = 3` lets the true age run two ticks past it during a sweep.
* *Three clock granules* let a file get a new time, the same time and an earlier one.
  When the clock has run out no file is written in a new granule: `MaxTime` bounds the
  number of distinct times. The registry that does not list the agent has the version of
  another, so that it comes into force by reloads and meets restarts.
* *Two rewritings* turn one value into another (drop, insert), repeat a name before or
  after the signed one, or exchange a name by one that differs in case. The stray maps
  and slices add an entry, change one, leave out an optional field that was signed, add
  one that was not, or begin anew (null, an empty array). `MaxSafeInteger`
  is 2 so that the numbers -1, 1, 2, 3 stand for negative, in range and out of range.

Deadlock is checked in every run but those of the store, where a stopped disturbance
and a finished `Put` may leave nothing to do, and of the envelope, where a document
rests once its rewritings (a bound) are used.

### Fairness

* *Store*: `Open` (a supervisor restarts the agent), the steps of a running `Put`
  (system calls return), `PutBegin` of a newest manifest (the fetch loop offers it
  at every tick), `Calm` (disturbances end; without it nothing can be promised). A
  visitor's request, once accepted, proceeds, and visitors come back.
* *Replication*: `SyncMember(n)` of every agent, and `Settle`. That the loop calls
  `SyncMember` again and again is `PolledForever` of `FetchLoop`; every request is bounded
  by the HTTP client's timeout. Restarting a stopped
  agent is not assumed: `Converges` speaks of those that run.
* *FetchLoop*: weak fairness of the steps of a sync (timeouts), of `SyncAll`, and of the
  ticker; strong fairness of `TakeTick` and of `TakeKick`, because Go's `select` picks
  uniformly among the branches that are ready, so one that is ready time and again is
  taken with probability one. Weak fairness would not do: during a sync no branch is
  enabled. The start of an agent is not assumed.
* *Demo*: weak fairness of `chaosLoop` (its timers fire) and of `AgentStopped` (an agent
  shuts down within five seconds); strong fairness of a walk's steps, because the lock
  it needs is free only now and then, and `sync.Mutex` passes it on to whoever has
  waited for a millisecond. Nothing is assumed of hands, visitors and fetchers.
* *Probe*: the sweep loop, each visit (timeouts), time, `Settle`.
* *Registry*: the watcher's steps (ticker, supervisor) and the fetcher's; the end of the
  operators' work is a condition of the properties (`settled`) and not assumed.
* `Publisher` and `Envelope` have no liveness properties: people run the commands.

### Findings

Three runs end in a counterexample, each against a sentence of the repository, quoted
in `PROJECT.json`: a pointer file that does not parse takes the intact seen number with
it; a version noted by the fetcher during a sweep gets no grace; `WriteDir` rewrites in
place blobs that the published manifest names.

Three things to know that are not violations. `SyncMember` compares an offer with the
version held, as `WIRE-NOTES.md:80` has it, and not with the highest seen
(`KICKOFF.md:34`): an agent that has seen a version whose blobs it could not get takes a
lower one in the meantime if that is above its copy, and `NeverRollsBack` speaks of
copies. A manual revival in the middle of an outage makes `setDark(false)`
return early (`demo.go:221`), so the agent it stopped stays down; `ChaosCleansUp`
counts such members as interfered with, and `ComesBack` says that the member's next
outage restores the agent. And a document that names `metadata` or `members` twice can
verify and yet be decoded into more than was signed: the signature covers the last of
the two, and `encoding/json` merges it into what the first has left (`manifest.go:210`,
`registry.go:174`); `VerifiedIsSigned` says what holds all the same.

## 4. Proofs

All theorems hold for every value of the constants that satisfies the module's
assumption (`StoreAssumption`, `ReplicationAssumption`, `FetchLoopAssumption`,
`ProbeAssumption`, `RegistryAssumption`, `PublisherAssumption`, `DemoAssumption`,
`EnvelopeAssumption`), which only says what kind of thing each constant is. TLC evaluates each assumption in the runs above.

**BundleStoreProofs**: `TypeCorrect`, `PutAlwaysRepairs`, `CurrentAlwaysWhole`,
`MemoryAlwaysDisk`, `StoreIsRegister`, `SeenAlwaysCoversHeld`, `SeenAlwaysSurvives`. None of
the invariants is inductive: that the pointer leads to a whole bundle depends on what
the staging directory held at the rename, and that on where `Put` was. The invariant
adds, for each value of `pc`, what is in the staging directory (`Staged`), what is in
the version directory after the rename (`Filed`), and that the version being written is
above the one held, so that neither clearing nor pruning can touch the directory the
pointer names (`Led`). The theorems state on which disks they hold:
`CurrentAlwaysWhole` needs a disk that keeps manifests and blobs, `MemoryAlwaysDisk` and
`StoreIsRegister` one that keeps manifests, `SeenAlwaysSurvives` an undamaged one; the
other three need nothing. That the conditions are needed is section 3's violation for
the seen file and, for manifests, the hazard at `store.go:202`.

The same module proves what a visitor may count on: `VisitorFailsOnlyForNewer`, on disks
that keep manifests and blobs, and `VisitorsOnlyRead` (a store with visitors behaves as
one without, so that all of the above holds in `RelayRead` too). A visitor's request
is three looks, the lock free in between, so its invariant (`ReaderSound`) says what
each look is still worth: the manifest is the one in memory or an older one; the path
is not older than the manifest, and leads to the version that the pointer names, which
has the blob, or to one superseded since. The step that matters is `PutPrune`, which
removes a directory under a visitor who has its path.

**ReplicationProofs**: `TypeCorrect`, `AlwaysGenuine`, `NoRollback`, `SeenAlwaysCoversHeld`,
`ReplicationIsRegister`, for any set of agents, rogues, versions and blobs. The
invariant says of every call in progress (`SyncSound`) that its best version is signed,
that it has received nothing while it polls, and that while it downloads it has
received exactly those files of the best version that are no longer missing.

**ProbeProofs**: `TypeCorrect`, `AnchorsAreSeen`, `StaleIsAlwaysBehind`,
`FreshIsAlwaysCurrent`, and `StaleIsAlwaysLate`, the part of the promised grace that
does hold: nobody is called stale within the window of the version *then highest*
(the violated `GraceIsGiven` wants it for every version). `Highest` is taken from two
sources, the anchors and the store, and the verdict uses a sweep's frozen clock, while
`FreshIsCurrent` is about the true age at the verdict; the
invariant says that nothing is anchored that the store has not seen (`AnchorsWereSeen`),
that the sweep's clock knows the same anchors and is behind the true ages by no more than
the sweep has lasted (`ClocksAgree`), and that
what a visit found, and what is held, was noted before (`FoundWasSeen`). Then the
highest is `seen`, whatever the fetcher does between a visit and its verdict.

**SignedDocumentProofs**, on `RegistryWatch`: `TypeCorrect`, `NoUpdateIsMissed`,
`RegistryOnlyMovesUp`. The invariant (`Loaded`, `TimesNoted`, `ReadIsCurrent`,
`SigningIsTorn`) relates the locals of a reload to the history of the file: what was
read is current unless the file has taken a time other than the one noted before the
reading. That is why the code's order, stat before load, matters.

**SignedDocumentProofs**, on `Envelope`: `CanonicalOnce` (the canonical form is one to
one), `VerifiedDocuments`, `RewrittenDocumentsVerify`, `NamesAreOrdered`, for any
extension fields, strings, maps, slices, stray members and number of rewritings. The
argument:

* *Reading back.* `UniqueDecoding`: when the first element of a list can be told from
  whatever follows its code, and from the stop, the whole list can (`Readable`). It is
  used twice. In a string, `EscapeDecodes`: the three forms of an escaped character, and
  the closing quote, exclude each other (here an unescaped backslash would fail). In a
  list, `ListTold`: texts that can be told from each other, whatever follows the list
  (`Told`), make lists that can be told, since after an element comes a comma or the
  bracket that closes. A scalar can be told: a string ends at its quote
  (`QuotedDecodes`), a number where its digits end (`DigitsEnd`, `DecimalDecodes`), and
  the first character says which it is (`AtomsTold`). A name with its value can be told
  (`ItemTold`), hence an object of what can be told (`ObjectsTold`), hence an array of
  objects, hence any value (`ValuesTold`), hence a payload.
* *Order.* `lessUTF16` is a strict linear order and the one of RFC 8785 (`NameOrder`):
  the units of a name are its characters' units one after the other, so the first
  differing character decides (`LighterFirst`), and a surrogate pair lies between U+D7FF
  and U+E000. Hence `Sorted` lists each name once (`SortedNames`), and the members in
  order determine the object (`PairsOnce`).
* *Documents.* The invariant `EInv` says that what was signed is `Genuine`: an object in
  canonical form with valid known fields and no other spelling of a known name. A
  document whose generic reading has the signed bytes has the signed reading
  (`CanonicalOnce`), so none of its names folds to a known one without being it
  (`OneSpelling`), and identifier and version come out as signed (`SameScalars`). For the
  map or slice, what the last setter sets nobody overrides (`SameSetting`), so `Contents`
  has all of it, and equals it when there is one setter (`SameContents`).

Induction over the length of a list is done with sets (`SetInduction`: a set of naturals
that has 0 and is closed under successor is all of them), since the library's schema
takes an operator. `FlattenSeq` and `Decimal` are recursive functions; `PartialExists`,
`FlattenIsPartial` and `DecimalsExist`, `DecimalDefined` show that they satisfy the
equations they are defined by.

**BundleDirProofs** has lemmas about one directory, for any number of writers, which
**PublisherProofs** uses for both instances: `TypeCorrect`, `BlobsAlwaysComeFirst`,
`PayloadsAlwaysHaveBlobs`, `PushAlwaysCopies`. The invariant (`DInv`) says that not only
the visible manifest but also whatever the shared temporary file holds has its blob
files (`Covered`), and that each running call has created the files of the blobs it
is past (`Progress`): only then can a rename by one call of what another wrote do no
harm. For a push that is alone it says which blobs are already right (`Exact`).

**FetchLoopProofs**: `TypeCorrect`, `OneSweepSuffices`, for any members, versions and
capacity of the queue. `SweepSuffices` speaks of the end of a sweep only; the invariant
says for every moment of it that whatever is owed is held already, still in `todo`, or
in the hands of the call in progress, which if it has verified a version has one at
least as high (`StillToCome`), and that a version is owed only while nothing has
interfered with the member (`Owing`).

**DemoProofs**: `TypeCorrect`, `ChaosAlwaysCleansUp`, `WalkIsAlwaysHonest`, for any sequence
of members. The invariant relates the lock to the agent that is shutting down: chaos
holds it for its victim only, a hand for a member it has touched, and no two shut down
at once (`LockSound`); that the victim of an outage is dark unless touched
(`OutageIsDark`); and that each endpoint behind the walk has failed since it began
(`PassedHasFailed`).

What stays with TLC: all liveness properties (`Reconverges`, `EventuallyServed`, `Converges`,
`PolledForever`, `HintIsHonoured`, `VisitorIsAnswered`, `TakesTurns`, `ComesBack`,
`TruthInTheEnd`, `FollowsFile`, `RotationCompletes`), since liveness under fairness is
out of the prover's reach. Every invariant and every action property that a passing
run checks is also a theorem.

## 5. Not modelled

* Power loss: the code never calls `fsync`; the models let processes die, not machines.
* Several members at once: stores, matrices and syncs of different members share no
  state but the goroutine that runs them, so they delay each other only.
* A relay that answers 404 for a blob while it upgrades is a failed request in
  `Replication` and the visitor's failure in `RelayRead`; the two are not composed.
* With a damaged disk, a `Put` over a version directory that the pointer already names
  is not atomic (`store.go:202`). `PutRepairs` covers the successful end of it, and the
  atomicity properties are stated for disks that keep manifests.
* Rogue peers after the world has settled: a manifest whose blobs nobody has can win
  every poll (`fetch.go:195`), so `Converges` lets the rogue do anything until then and
  nothing afterwards.
* Registry changes in `Probe`; health and index pages.
* The overlap of two stores in one process (`agent.go:158`): only the simulator restarts
  an agent within one process. Its partitions and its `Close`.
* Of the demo: the numbering of publishes (`demo.go:476`), the state page, and the race of
  its shutdown with `chaosLoop` (`demo.go:122`), after which nothing is asked of anyone. A
  request that reaches a live endpoint is assumed to be answered.
* In `Envelope`, the rules for files, paths, members and sizes; values nested deeper than
  the payloads are; booleans; elements of an array that are not objects. Of a manifest's
  fields it has the identifier, the version and the metadata: files are a slice as a
  registry's members are, but of structs whose fields are all written, so that a repeated
  `files` leaves nothing behind. Unknown fields are assumed not to be known ones in
  another case.
* That a lock-holding stop in the demo ends although the stopped agent may be waiting for
  a walk's answer and the walk for the lock (`demo.go:293`): the time limits that see to
  it are assumed as fairness of `AgentStopped`.
* `StartAgent` leaves its listener open when `agent.New` fails (`sim/wreath.go:275`), and
  the port stays taken; the simulator's registry and directories give `New` no cause to
  fail. `Demo` has the failing start, not its consequence.
* The errors of `os.Remove` that `build` and `sign` ignore: the file they were to remove
  is taken to be gone unless the command dies before.
* `Build`'s walk of the site, key files, TLS, flags, the simulator's scripts and the
  dashboard: no state that a later step depends on.

## 6. Plan

In this order:

1. **Agent** - the life cycle: fetcher and prober that outlive `Run` (`agent.go:158`) and
   the second store that a restart opens on the same directory: two instances of
   `BundleStore` over one disk.
2. **Serving while upgrading** - `Replication` with an agent's relay as in `RelayRead`.
3. **Validate and paths** - files, members, `ValidBundlePath` and the limits, with `Build`
   as their producer, and the manifest's files in `Envelope`.
4. **Registry changes in the probe** - members that come and go (`probe.go:97`).
5. **Proofs** - that a request of `Replication` against an honest agent is answered as
   `RelayRead` answers a visitor, and that a sync of `FetchLoop` is one of `Replication`:
   then what is proved of the parts holds of the agent.
