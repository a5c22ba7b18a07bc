# argobot in TLA+

argobot is the ConfigHub bot in this repository: it turns a published Release
into a sync of the GitOps controller that deploys it, and it writes what the
controller reports back to the Release's `LiveStatus`. These modules specify the
parts of it that are hard to test: what happens between two calls, when a call
fails or its answer is lost, when the process dies, and when two actors move at
once. TLC checks them on small instances, and TLAPS proves for every instance every
safety property that the passing runs check: that none of the three reporters and of
the event handler loses what it was told, that the Argo CD and the Sveltos reporter
implement what reporting promises, that what the one leaves out need not be written
and the other writes nothing twice without a reason, that Flux's plans come to rest
and keep failures; and what a cut does to a message.

## The system

| Part | Source | State it keeps | Operations |
| --- | --- | --- | --- |
| Channel listener and event handler | `main.go`, `events.go` | none of its own; the Channel in ConfigHub keeps the bookmark and the lease | take the lease, deliver an event, resolve its sync targets, sync each, move the bookmark |
| Sync backends | `syncer.go`, `kube/`, `flux/`, `sveltos/` | none; one annotation per target, in the cluster | `Sync`, `RepoURLs` |
| Argo CD reporter | `reporter.go` | informer store, work queue, `lastSig` | `enqueue`, `processNext`, `report` |
| Lookup and writer | `reporter.go` | none | `getSpaceID`, `getReleaseID`, `patchRelease`, `mergePatchObject` |
| Projection and text | `reporter.go` | none | `projectStatus`, `deploymentSpaceSlug`, `truncate` |
| Flux reporter | `reporter_flux.go`, `livestatus_flux.go` | two informer stores, work queue | `report`, `planFluxWrites`, `writeIfChanged` |
| Sveltos reporter | `reporter_sveltos.go`, `livestatus_sveltos.go` | two informer stores, work queue, `lastSig`, `releaseMatches`, `bundleRevisions` | `report`, `reportSpace`, `findRelease` |
| Cluster facts | `facts.go` | none | once at startup |
| Configuration, docgen, manifests | `config.go`, `docgen.go`, `manifests/` | none | read once |

The parts run in one process: `main` starts the listener, the facts and one
reporter in an `errgroup`. They share only the ConfigHub client. The reporter's
informers call its handlers from their own goroutines, and a single worker takes
keys from the work queue; everything else the parts exchange goes through the
Kubernetes API and ConfigHub.

What is hard, and what would make each part correct:

- *Event handler.* An event is handled on the way to the bookmark, never after
  it, and nothing retries it. A crash, a lost lease, a failing list or a failing
  patch must not make a target of the event go untried. A target that was
  annotated must come to fetch what was published.
- *Argo CD reporter.* A report reads the store, asks ConfigHub twice and then
  writes, while the cluster, the informer, the queue and ConfigHub move. No
  update may be lost on the way, no report may land on a Release the Application
  does not run, no older state may replace a newer one, and the signature that
  suppresses writes must not suppress a needed one.
- *Flux reporter.* The plan joins one OCIRepository, its Kustomizations and all
  Releases of a Space, and has to stay consistent over failed writes and its own
  earlier output, which it reads back.
- *Sveltos reporter.* A cache of matches, a cache of bundles and a signature per
  Space, each of which may go stale.
- *Text.* The byte limit of a message, and what JSON does to it.

`PROJECT.json` lists every hazard with its line and the properties that cover it.

## Modules

| Module | What it is |
| --- | --- |
| `WorkQueue` | client-go's work queue as operators on a record (external) |
| `ConfigHub` | the Spaces, Releases and LiveStatuses the reporter sees (external) |
| `ArgoProjection` | an Application's Space and its LiveStatus |
| `ArgoReporter` | the Argo CD reporter, on the three above |
| `LiveStatusFeed` | what reporting promises: the abstract specification |
| `ArgoReporter_proofs` | its theorems |
| `WorkQueue_proofs` | what the queue's operators keep, for the proofs about the reporters |
| `MCArgoReporter` | its instances for TLC |
| `LiveStatusText`, `LiveStatusText_proofs` | `truncate`, byte by byte, and its theorems |
| `FluxPlan` | what the Flux reporter makes of the objects and the Releases: a function |
| `FluxPlan_proofs` | what a plan writes, as lemmas about the operators of `FluxPlan` |
| `FluxReporter`, `MCFluxReporter` | the Flux reporter, on `FluxPlan` and `WorkQueue`, and its instances |
| `FluxReporter_proofs` | its theorems |
| `SveltosStatus` | what the Sveltos reporter makes of the objects it watches: functions |
| `SveltosReporter`, `MCSveltosReporter` | the Sveltos reporter, on `SveltosStatus` and `WorkQueue`, and its instances |
| `SveltosFeed` | what its reporting promises: the abstract specification |
| `SveltosReporter_proofs` | its theorems |
| `SveltosFeed_proofs` | that it implements `SveltosFeed`, and when it writes again what a Release says |
| `EventSync`, `MCEventSync` | from an event of the Channel to the controller's fetch |
| `EventSync_proofs` | its theorems |

### ArgoReporter

`past[a]` is every state Application `a` has had, and `cache[a]` says how many of
them the informer's store has seen, so that staleness is a number. `Change` is
the cluster, `Watch` an informer event, `Resync` the ten-minute resync, which
hands the stored object to `UpdateFunc` again (client-go does not list again, as
the comment on `liveStatusResync` has it; the model follows client-go).

`report` is split where it waits: `processNext` reads the store (`snap`),
`SpaceKnown`/`NotOurs` is `getSpaceID` and the test of the revision,
`ReleaseKnown`/`ReleaseUnknown` is `getReleaseID`, `Suppress`/`Send` is the
signature test, `patchRelease` the write and the new signature. Between any two
of them everything else may move. `CallFails` is a call that fails and changes
nothing, `patchAnswerLost` one that ConfigHub carried out, `Refused` one
ConfigHub answers with an error because the Space or Release has gone. The
deferred `Done`, and `Forget` or `AddRateLimited`, are part of the step that
returns (`ReturnNil`, `ReturnError`). `Restart` forgets everything the process
keeps in memory.

The delays of the queue are abstract: a waiting key may become ready at any
later time. `ObservedAt` and `Reporter` are left out of a status: no comparison
reads the first, the second is constant. `live[r].by` and `.ver` are history.

### LiveStatusFeed

A `Report` puts the projection of one state of one Application on a Release that
state names, and never an older state over a newer one of the same Application.
`ArgoReporter` implements it with its own `past` and its own ConfigHub.

### EventSync

The Channel has a log, a bookmark and a lease; two processes compete for the
lease. The handler is a few steps: `Deliver`, `resolveAppNames` (or `ListFails`,
its fallback), `Sync`, `SyncNotFound` or `SyncFails` for each target, `AllTried`,
`MoveBookmark`. A process that lost its lease goes on with the event it has; its
bookmark no longer counts. `KeepsAnnotation` selects the controller: Argo CD
removes the annotation after the refresh and gets a constant value, Sveltos and
Flux keep it and get a new value each time. The names of an event are tried in
any order, not in name order, which only adds behaviours.

### FluxPlan

`planFluxWrites` and everything under it, as operators: what one Kustomization
says of the Release it runs and of the one it attempts (`Observation`), what a
failing repository says (`SourceFailure`), several statements combined into one
status (`projectFluxStatus`), and the Releases that were replaced
(`Replacements`). A plan is a set of writes. A message is the sequence of its
parts, so that a mark put in front of a failure can be told from one put in front
of another mark. A DataSource is a sequence of names; `NamesFit` of them fit in
its 253 bytes and the next one is cut. A name in `CutShort` is then cut inside its
namespace and keeps a single "/" (`CutNamespace`): `fluxDataSource` takes it for the
earlier form, puts the kind before it once more and cuts again (`Garbled`). Cut
anywhere else it has none or two (`CutName`) and is left alone.

Messages are cut at `liveStatusMaxMessage`. Those in `LongTexts` fit before a mark is
put in front of them and not behind it (`Shortened`). Those in `BrokenTexts` are cut in
the middle of a rune: the JSON of a patch has a replacement rune there, written as an
escape, while what ConfigHub gives back is written as the rune itself, so that the
comparison in `writeIfChanged` finds the two different. `Received` is what ConfigHub
holds of a status it was sent. That the cut depends on names and not on their bytes,
and is in the same place of a name wherever it stands, are simplifications.

### FluxReporter

One OCIRepository and one Space. As in `ArgoReporter`, `past` and `cache` number
the states of each object. The repository is read at `processNext`, the Releases
at `listReleases`, the Kustomizations at `Plan`, and each write that would change
what was listed is a step (`writeIfChanged`, `writeAnswerLost`, `writeFails`,
`writeRefused`); the others are made when one fails, and `AllWritten` returns the
error. There is no handler for deletion, and a Kustomization that turns to
another repository queues the key of that one: both are a change to `Absent`,
which queues nothing. `sources` and `done` are history. A PATCH replaces every
field of the LiveStatus, as `ArgoReporter` shows of `mergePatchObject`.

### SveltosStatus

`observeSpaces`, `deployStatus`, `projectSveltosStatus` and what they call, as
operators. A report is the sequence of its collected objects; of an object the
Space and Unit revision of its origin, its health and its message are kept. A
ClusterSummary is the Spaces it deploys and its feature statuses. The store lists
ClusterSummaries from a Go map, so of feature statuses of one rank any may come
first: `deployStatus` and `StatusesFor` are the sets of what may come out. The
instances have no such ties, which would let the signature change with nothing
changed; the theorems allow them, and no property is about which status comes first.
Units whose name is empty, the Space slug, timestamps and the words of a message are
left out.

### SveltosReporter

One informer each for HealthCheckReports and ClusterSummaries; `past`, `cache` and
the queue are as in `ArgoReporter`. The handler of a report only queues its key.
That of a ClusterSummary lists the reports of its cluster from the other store,
some time after the event: `notified` holds the clusters it has yet to do this for
(`enqueueClusterReports`). The worker takes a key once both caches have synced
(`processNext`, `reportDeleted`, `reportNothing`) and goes Space by Space through
`reportSpace`: `listReleases` or, when the match made last still stands,
`FindCached`; the bundles one by one, newest Release first (`LooksAt`,
`FindCovering`, `TryNext`, `NoneCovers`), each read once and then kept in
`bundleRevisions`; the status from the report read at the start and the
ClusterSummaries of this moment (`Suppress`, `Send`); and the patch. A Space that
fails does not stop the others (`Over`), and the report is then retried. `Withdraw`
makes a Release unpublished, `DeleteRelease` removes it. Nothing is ever evicted from
the three maps but by `reportDeleted` and `Restart`, as in the code.

`ClusterOf` gives a report the cluster that its ClusterSummaries name too, or
`NoCluster` for the agent's own copy of a report, which is ignored. `ver` in a
LiveStatus and `done` are history.

### SveltosFeed

A `Report` puts on a Release what one report and the ClusterSummaries of its
cluster said, in states they were in, of the Release's Space, while the Release's
bundle holds every revision the report shows; and of no object an older state over
a newer one. `SveltosReporter` implements it with its Releases without their
publication state, and its own `past` and `live`.

### LiveStatusText

A message is a sequence of bytes, each known by the width of its rune and its
place in it; nothing else about a byte matters to `truncate` or to JSON. The
module has no state: its two theorems say it all, and `TextsFit` in
`MCArgoReporter` lets TLC evaluate their statements on all texts up to 12 bytes
with limits up to 8, beside the runs of that module.

## Runs

| Run | Question | Instance |
| --- | --- | --- |
| `argo_reporter` | Is an update lost, or a report made that `LiveStatusFeed` does not allow? | 1 Application, 1 Space, 2 Releases, 2 states, lost answers, 1 failure, 1 restart |
| `argo_converges` | Does the LiveStatus become right once things settle, and is what is suppressed current? | 1 Application, 1 Space, 2 Releases, 2 of 4 states, 1 failure, no lost answer, no restart |
| `argo_lost_answer` | ... and if ConfigHub's answer may be lost? It does not | 1 Release, 3 states, 1 lost answer |
| `flux_reporter` | Is an update lost, a plan unstable, a failure forgotten? | 2 Kustomizations that run, check and fail to build, of whose names the second is cut inside its namespace, a repository that fails to pull with a message that is cut, 3 changes, 2 Releases, a status of an earlier version, 1 failure or lost answer, 1 restart |
| `flux_settles` | Do the statuses come to rest, and none stay Synced that was replaced? | 1 Kustomization, 3 changes, 2 Releases, 1 withdrawn or deleted, the Space out of sight at times, 1 failure or lost answer |
| `flux_cut_name` | ... and if the names do not all fit in a DataSource? One does stay | 2 Kustomizations, 1 name fits, 5 changes, nothing fails |
| `sveltos_reporter` | Is an update lost, a cached match outdated? | 2 reports and a ClusterSummary of one cluster, 1 Space, 2 Releases of which the second bundles more, 1 change, 1 lost answer or Space out of sight |
| `sveltos_converges` | Does the LiveStatus become right, is each report one that `SveltosFeed` allows, is a write made that says nothing new? | 1 report of 1 or 2 Spaces, 1 ClusterSummary, 2 Releases, 1 change, 1 withdrawn, 1 failure or restart |
| `sveltos_wrong_match` | Is the Release reported on the one that runs? Not always | 2 reports (one the agent's own copy), 2 Releases, 1 change, nothing fails |
| `events_delivered` | Is an event consumed before every target of it was tried? | Argo CD, 2 processes, 2 targets, 2 events, 1 failure, 1 crash or lost lease, 1 target created or deleted |
| `events_converge` | Does every target come to run the newest Release? | Sveltos and Flux, same, no target changes |
| `events_lost_trigger` | ... and with Argo CD's annotation? It does not | Argo CD, 1 process, nothing fails |

The bounds are small and enough. Two states of an Application give one that is
being reported and one that overtakes it; a third is needed only for the return
to an earlier state that `argo_lost_answer` needs. Three changes of Flux's
objects give a repository, a Kustomization and one state that overtakes a report;
`flux_cut_name` needs five, for two Kustomizations that run a Release, one that
goes and one that moves. `flux_reporter` has room for one name of two, so that
every DataSource of both ends in a cut; in `flux_settles`, which has one Kustomization,
no name is cut. It has no restart either, with which it takes too long: the Flux
reporter keeps nothing between two reports but its stores and its queue, and a restart
in the middle of a plan is in `flux_reporter`. Two Releases give a rollback (one digest twice) and a
republish. Two Space ids with one slug give a Space that is deleted and created
again. One failure at any call, with one restart at any point, already meets
every step of a report; a restarted Argo CD reporter keeps nothing and is where it
began, so that only `argo_reporter` restarts it. Two Applications that share a Release are not run: the
theorems about `ArgoReporter` hold of any number of Applications.

The Sveltos instances start where Sveltos already deploys, so that the one change
is a new state and not the first one: a report that grows, a summary that moves
from one status to another, or one of them deleted. Two reports of one cluster give
two keys behind one event, and two that match one Space in turn; `SYMMETRY` lets
them change places, in a run without temporal properties. Two Releases, the second
bundling more, give a match that is right until the second is published. In
`sveltos_converges` a lost answer is not among the faults: with one change a
cluster cannot return to what it showed before the lost write, and the property
would hold by the bound alone (see `argo_lost_answer`, whose code is the same).

All runs set `CHECK_DEADLOCK FALSE`: the bounds on changes, Releases and failures
let every model come to rest.

## Fairness

`ArgoReporter`: the cache syncs, the worker goes on, each informer event arrives,
the resync recurs, a delay passes (weak fairness); a key that is ready again and
again is taken (strong fairness, because the queue is first in first out).
Nothing is assumed of the cluster, of ConfigHub or of crashes.
`LiveStatusConverges` also supposes that the visible Spaces settle; the other
environment moves are bounded.

`FluxReporter`: the same. That a report ends is written `[]<>(pc = "idle")`; it is
what weak fairness of `Report` says, since `Report` is enabled until then, and
spares TLC the evaluation of a plan in `ENABLED`.

`SveltosReporter`: the same, and the handler of a ClusterSummary event runs at
last. Spaces that go out of sight are left out of `SveltosConverges`: a bundle that
cannot be read for a moment is taken for one that covers nothing, and an older match
made then is kept until the Releases change.

`EventSync`: a free lease is taken by some process, its holder polls, a handler
goes on, a controller that was asked answers. The controller's own periodic
reconciliation is left out, since `PublishedIsSynced` is about doing without it.

## Proofs

All proofs are checked by `tlapm`. Each assumes only the `ASSUME`s of the modules,
which TLC evaluates in the runs: that the bounds are numbers, that the model values
for what is absent are no states, Releases, statuses or signatures, that what is left of
a cut name is no name, that no `NoRelease` looks like a Release to `SveltosFeed`, and that the states and Releases a run starts from have
their types. `FluxWordsAssumption`, that two words are strings, is true of any
strings and is there because the provers do not know it.

- `TypeCorrect`. `TypeOK` is inductive. It is in four parts, one lemma each, and
  says of the worker what each step of a report has found.
- `UpdatesAreKept`. `NoLostUpdate` is not inductive: when the worker leaves an
  older state it was reporting, one has to know that the key was queued again.
  `StaleReportIsFollowed` says so; the three together are inductive.
- `SuppressionIsSafe`, under `LoseAnswers = FALSE`. It follows from
  `SignatureHonest`: wherever an Application was the last to write, ConfigHub
  holds what its signature says. A lost answer breaks exactly this, and
  `argo_lost_answer` shows what follows.
- `ReporterImplementsFeed`. Two invariants carry it: `TargetIsOfObject`, that the
  Release found belongs to the state read (or is gone), and `NothingNewer`, that
  nothing in ConfigHub is newer than what the store or the worker has. Lost
  answers and restarts are included.
- `TruncationFits`. `truncate` never exceeds its limit, for every text and every
  limit, those shorter than the ellipsis included.
- `SentOverrunsBySix`. What JSON makes of a cut text is at most six bytes longer
  than the limit: a cut breaks at most one rune, of which at most three bytes are
  left, and each of these is sent as U+FFFD, in three bytes.

- `SveltosTypeCorrect`. `TypeOK` is inductive, in six parts.
- `SveltosUpdatesAreKept`. As for Argo CD, `NoLostSveltosUpdate` needs
  `StaleReportIsFollowed`: while an older state than the stores' is being reported,
  the key is queued or a handler that will queue it has yet to run. A report may be
  older than its own store, or than that of a ClusterSummary of its cluster.
- `SveltosMatchIsNewest`, as long as no Space has gone out of sight. Three invariants
  carry it: `BundlesAreKnown`, that the bundle remembered for a Release is its bundle,
  `MatchesAreNewest`, that a match remembered would be made again of the same
  Releases, and `TriedCoverNot`, that those passed over do not cover what is seen.
  Releases published, withdrawn and deleted meanwhile are included.
- `SveltosReporterImplementsFeed`. `FoundIsOfSpace` says that the Releases listed are
  those of the Space under way and that the bundle of the one found, or remembered as a
  match, was read and holds what is seen. `SaidByObjects`: what is to be written, and
  what a Release says, is what the objects said in the states its history names.
  `NothingNewer`: nothing written is of later states than those the stores hold, or,
  while the same report is under way, than the one it was read with. The last is where
  the order of reads matters, since a report is older than the ClusterSummaries that
  its status joins. A restart forgets the stores, not what was written; what they hold
  once they have synced again is the newest.
- `UnchangedSveltosReportIsNotWritten`. What a Release says already from a report is
  written there again only when the Space was reported on another Release in between or
  the report was deleted in between, as long as no answer was lost and the process
  lives. It follows from `SignaturesKept`: the signature kept for the report and Space
  that a Release was last written for is of what the Release says, or is of another
  Release, or the report was absent at some moment since. Failed calls, in this Space
  or another of the report, leave it alone. A lost answer leaves an older signature and
  a restart none, and in both cases the code does write the same again. The deletion of
  a report is told from the states the store has seen of it, and the write after it is
  of a state it was in later (`NothingNewer`).
- `FluxUpdatesAreKept`. The same argument as for Argo CD with one key, whose
  Kustomizations are read after the repository. It rests on the types of the objects,
  the queue and the worker alone, so it holds whatever the plan is.
- `FluxTypeCorrect`. The types of the objects and the worker give the states a plan is
  made of; `PlanIs` of `FluxPlan_proofs`, that what a plan makes of any states and
  Releases is a status for a Release that is there. The least advanced observation, the
  newest Release and the first message exist because a set of numbers has a least
  element (`LeastNat`), which is had from the well-founded order of finite sets, not
  from induction over an operator.
- `FluxPlanIsStable`. What the objects say depends on the Releases' contents alone
  (`SaidSame`), so carrying out a plan leaves it as it is. A mark is recognised as one
  (`ReplacedIs`). A DataSource read back is brought to the form of this version and cut
  to its room (`TruncateIs`, `DataSourceIs`): one that ends inside a namespace is not in
  that form, and may have been written by the plan itself, for a Release that nothing
  was reported on; what is made of it is, for good (`CarriedTwice`). So the next plan
  rewrites at most such marks and the one after it nothing, except what is never taken
  for equal, a message cut in the middle of a rune. Neither needs the statuses found to
  be argobot's own.
- `FluxFailureIsKept`. By `PlanIs` a mark keeps the failure that was *listed*, with
  what fits of its message (`HasBehind`). That it
  is the one it covers takes three invariants: `ListIsCurrent`, that a listed Release
  which is still there has its listed status until the plan is made, `WritesAreApart`,
  that a report writes a Release at most once, and `MarksKeepFailures`, that a mark yet
  to be written keeps what the Release says now. All three need that only this worker
  writes statuses and that a number is never given to a second Release.
- `EventSyncTypeCorrect`, `EventsAreHeard`. A process that lost its lease and has it
  back may still move the bookmark to where it was, even backwards, so that
  `ConsumedMeansTried` is not inductive. `EarlierAreHeard` says that whoever is at
  work on an event has all those before it heard, and `HandledIsHeard` that what the
  event is due to is tried or still to do. What an event is due to only shrinks: a
  target created later is not meant, and where the list failed only the convention is.

Only model-checked: every liveness property (`LiveStatusConverges`, `FluxSettles`,
`StaleIsReplaced`, `SveltosConverges`, `PublishedIsSynced`), which need fairness and
`ENABLED`, and which the prover does not handle.
`MatchIsWhatRuns` is false of the code (below).

## What the checks found

- `argo_lost_answer`: a patch that is applied but whose answer is lost leaves
  `lastSig` at the write before it. If the Application then returns to that
  earlier state, `report` finds its signature and writes nothing, at this report
  and at every resync, although the LiveStatus shows the other state.
- `flux_cut_name`: a status belongs to the repository if one of the whole names in
  its DataSource does. A Kustomization whose name was cut off does not own what it
  reported; when those named before it are deleted and it moves on, the Release
  stays `Synced`. With room for both names the same instance has no such state.
- `sveltos_wrong_match`: the Release reported on is the newest one whose bundle
  holds every revision the cluster shows. A Release that only adds Units, once it is
  published, holds all that is seen of the one before. Until it is applied it gets the
  status of that one, Synced if that one is, while the comment on `sveltosReporter`
  speaks of Releases that bundle the same content.
- `events_lost_trigger`: the refresh annotation has one value, so a Sync during
  the processing of the previous refresh is lost with it. The Release waits for
  Argo CD's own reconciliation.

Three remarks beside these, which no run of its own shows:

- A cut in the middle of a rune makes the sent message longer than the limit that
  ConfigHub checks in bytes. With a limit of 8, two ASCII bytes and three of a four-byte
  rune are left before the ellipsis, and 14 bytes are sent.
- Of the Flux reporter the repository's `README.md:66` says that "an unchanged state, or
  a restart, writes nothing", and its line 64 that a Release already marked is left as is apart from an
  earlier version's DataSource. When a Kustomization's name is cut inside its namespace,
  the mark of an older Release that takes over the DataSource of the one that runs
  (`reporter_flux.go:314`) is rewritten by the next report with a garbled name
  (`reporter_flux.go:328`, `380`), and then left. `PlanIsStable` makes this exception
  (`Garbles`), and the instance of `flux_reporter` has states that need it.
- A Release whose message was cut in the middle of a rune is written at every resync,
  with the same status (`reporter_flux.go:413-426`). `PlanIsStable` makes this exception
  too (`SameAgain`), and the instance has states that need it.

## Plan

1. Two reporters over one ConfigHub during a rolling update: the old process's
   last write against the new one's signature (Argo CD), or against its list
   (Flux).
2. An abstract specification of the Flux reporter: each Release's LiveStatus is
   what some states of the objects, none older than those before, say of it.
3. Proofs: what item 2 states, by the invariants of `SveltosReporterImplementsFeed`;
   and what is true whenever a reporter is at rest, the safety part of the liveness
   properties.

## Not modelled

Cluster facts (one call, whose logic is in the SDK), docgen, the parsing of
Kubernetes objects and URLs, authentication and session renewal, the manifests
and scripts. The durations of delays and back-off are abstract. ConfigHub, the
Channel, the work queue, the informers and the controllers are libraries or
services outside this repository and are modelled from how it uses them.
