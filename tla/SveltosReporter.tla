-------------------------- MODULE SveltosReporter --------------------------
(***************************************************************************)
(* The Sveltos live-status reporter (reporter_sveltos.go): informers over  *)
(* HealthCheckReports and ClusterSummaries, a work queue of report keys,   *)
(* and a single worker.                                                    *)
(*                                                                         *)
(*   "idle"  --processNext-->                                              *)
(*   "list"  --listReleases-->  "match"  --tryRelease-->  "compare"        *)
(*           --> "patch" --> "list" of the next Space, or "idle"           *)
(*                                                                         *)
(* The report is read once; then, Space by Space, the Releases are listed, *)
(* the bundles that are not cached are read, and the ClusterSummaries are  *)
(* taken from their store when the status is put together.  A Space that   *)
(* fails makes the report fail, after the other Spaces.                    *)
(*                                                                         *)
(* Three maps outlive a report: the signature of the last write of each    *)
(* report and Space, the Release a Space was matched to and by what, and   *)
(* the bundles read.                                                       *)
(***************************************************************************)
EXTENDS SveltosStatus, WorkQueue

CONSTANTS
    Reports,        \* keys of HealthCheckReports
    ClusterOf,      \* the cluster of each report and ClusterSummary
    NoCluster,      \* the cluster of a report that names none
    InitialPast,    \* the objects there are when argobot is first started
    InitialReleases,\* the Releases there are then, all published
    ReportStates,   \* the states a report may be in
    SummaryStates,  \* the states a ClusterSummary may be in
    Bundles,        \* what a Release may bundle: sets of Unit revisions
    MaxReleases,    \* bound: Releases ever published
    MaxChanges,     \* bound: changes of reports and ClusterSummaries
    MaxWithdrawn,   \* bound: Releases withdrawn
    Faults,         \* what else may happen: some of FaultKinds
    MaxFaults,      \* bound: how often, all together
    None,           \* no key, nothing to write
    NoRelease,      \* a Release not published, or deleted
    NoStatus,       \* the LiveStatus of a Release nothing was written to
    NoSig,          \* the lastSig of a report and Space nothing was written for
    NoMatch,        \* a Space that was matched to no Release yet
    NotRead         \* a bundle that was not downloaded yet

Objects == Reports \cup Summaries

ASSUME ReportsAssumption == Reports \cap Summaries = {} /\ None \notin Reports
ASSUME ClustersAssumption == NoCluster \notin {ClusterOf[s] : s \in Summaries}
\* The states an object may be in while it exists.
States(o) == IF o \in Reports THEN ReportStates ELSE SummaryStates

ASSUME PastAssumption ==
    /\ DOMAIN InitialPast = Objects
    /\ \A o \in Objects : InitialPast[o] \in Seq(States(o) \cup {Absent})
ASSUME StatesAssumption ==
    /\ Absent \notin ReportStates /\ Absent \notin SummaryStates
    /\ \A report \in ReportStates : \A i \in DOMAIN report :
          report[i].space \in Spaces \cup {NoSpace}
ASSUME BoundsAssumption == {MaxReleases, MaxChanges, MaxWithdrawn, MaxFaults} \subseteq Nat

\* A Space goes out of sight; a call to ConfigHub fails; a patch is applied and
\* its answer is lost; the process dies.
FaultKinds == {"hide", "failure", "lost", "restart"}

ASSUME FaultsAssumption == Faults \subseteq FaultKinds

\* Release numbers; a ReleaseID stands in the order of its ReleaseNum.
ReleaseIds == 1..MaxReleases

Releases ==
    [space : Spaces, published : BOOLEAN,
     bundle : Bundles \cup {InitialReleases[r].bundle : r \in DOMAIN InitialReleases}]

ASSUME ReleasesAssumption ==
    /\ InitialReleases \in Seq(Releases) /\ Len(InitialReleases) <= MaxReleases
    /\ \A r \in Releases : NotRead # r.bundle
    /\ NoRelease \notin Releases
    /\ \A r \in Releases : NoRelease # [space |-> r.space, bundle |-> r.bundle]

\* The report of a key and the ClusterSummaries of its cluster.
About(k) == {k} \cup {s \in Summaries : ClusterOf[s] = ClusterOf[k]}

\* All that may be written for a report in one of its states.
Statuses ==
    UNION {UNION {StatusesFor(observeSpaces(report)[sp], summaries, sp, k) :
                     sp \in DOMAIN observeSpaces(report),
                     summaries \in [About(k) \ {k} -> SummaryStates \cup {Absent}]} :
              k \in Reports, report \in ReportStates}

ASSUME SignaturesAssumption == NoSig \notin [release : ReleaseIds, status : Statuses]

VARIABLES
    past,       \* every state each object has had in the cluster
    visible,    \* the Spaces argobot can read
    published,  \* the number of the newest Release
    release,    \* Release number -> its Space, bundle, and whether published
    live,       \* Release number -> its LiveStatus
    synced,     \* the informers whose cache has synced
    cache,      \* the stores: how many states of each object were seen
    notified,   \* clusters whose ClusterSummary event has not been handled yet
    queue,      \* the work queue
    pc,         \* where the worker is in report
    key,        \* the report it works on
    snap,       \* the states of it and its cluster that were stored when it began
    todo,       \* the Spaces still to be reported
    space,      \* the one of them under way
    listed,     \* the published Releases of that Space, as they were listed
    tries,      \* those whose bundles are still to be looked at
    target,     \* the Release found; 0 is none
    write,      \* the status to write, and the states it is from
    failed,     \* a Space of this report has failed
    lastSig,    \* report, Space -> what was last written for it
    releaseMatches,   \* Space -> the Release last matched and what it was matched by
    bundleRevisions,  \* Release number -> its bundle, once downloaded
    done,       \* history: the snap of the last report of each key that returned nil
    counts      \* how often each bounded thing has happened

hubVars   == <<visible, published, release, live>>
storeVars == <<synced, cache, notified>>
stepVars  == <<listed, tries, target, write>>
workVars  == <<pc, key, snap, todo, space, failed, stepVars>>
memoVars  == <<lastSig, releaseMatches, bundleRevisions>>
vars == <<past, hubVars, storeVars, queue, workVars, memoVars, done, counts>>

\* The state numbered v of object o; 0 is an object never seen.
ObjectAt(o, v) == IF v = 0 THEN Absent ELSE past[o][v]

Newest == [o \in Objects |-> Len(past[o])]

NothingSeen == [o \in Objects |-> 0]

FaultCount ==
    counts["hide"] + counts["failure"] + counts["lost"] + counts["restart"]

Count(what) == counts' = [counts EXCEPT ![what] = @ + 1]

Fault(kind) == kind \in Faults /\ FaultCount < MaxFaults /\ Count(kind)

Init ==
    /\ past = InitialPast
    /\ visible = Spaces
    /\ published = Len(InitialReleases)
    /\ release = [r \in ReleaseIds |->
                    IF r <= published THEN InitialReleases[r] ELSE NoRelease]
    /\ live = [r \in ReleaseIds |-> NoStatus]
    /\ synced = {} /\ cache = NothingSeen /\ notified = {}
    /\ queue = EmptyQueue
    /\ pc = "idle" /\ key = None /\ snap = NothingSeen /\ failed = FALSE
    /\ todo = {} /\ space = NoSpace
    /\ listed = {} /\ tries = {} /\ target = 0 /\ write = None
    /\ lastSig = [k \in Reports |-> [sp \in Spaces |-> NoSig]]
    /\ releaseMatches = [sp \in Spaces |-> NoMatch]
    /\ bundleRevisions = [r \in ReleaseIds |-> NotRead]
    /\ done = [k \in Reports |-> NothingSeen]
    /\ counts = [what \in {"change", "withdraw"} \cup FaultKinds |-> 0]

-----------------------------------------------------------------------------
(* Sveltos and its users; ConfigHub.                                       *)

\* A report or a ClusterSummary is created, rewritten or deleted.
Change(o) ==
    /\ counts["change"] < MaxChanges /\ Count("change")
    /\ \E s \in States(o) \cup {Absent} :
          /\ s # ObjectAt(o, Newest[o])
          /\ past' = [past EXCEPT ![o] = Append(@, s)]
    /\ UNCHANGED <<hubVars, storeVars, queue, workVars, memoVars, done>>

ShowSpace(sp) ==
    /\ sp \notin visible
    /\ visible' = visible \cup {sp}
    /\ UNCHANGED <<published, release, live, counts>>

HideSpace(sp) ==
    /\ sp \in visible
    /\ Fault("hide")
    /\ visible' = visible \ {sp}
    /\ UNCHANGED <<published, release, live>>

Publish(sp, bundle) ==
    /\ published < MaxReleases
    /\ published' = published + 1
    /\ release' = [release EXCEPT ![published + 1] =
                      [space |-> sp, bundle |-> bundle, published |-> TRUE]]
    /\ UNCHANGED <<visible, live, counts>>

Withdraw(r) ==
    /\ release[r] # NoRelease /\ release[r].published
    /\ counts["withdraw"] < MaxWithdrawn /\ Count("withdraw")
    /\ release' = [release EXCEPT ![r].published = FALSE]
    /\ UNCHANGED <<visible, published, live>>

DeleteRelease(r) ==
    /\ release[r] # NoRelease /\ ~release[r].published
    /\ release' = [release EXCEPT ![r] = NoRelease]
    /\ live' = [live EXCEPT ![r] = NoStatus]
    /\ UNCHANGED <<visible, published, counts>>

HubMoves ==
    /\ \/ \E sp \in Spaces : ShowSpace(sp) \/ HideSpace(sp)
       \/ \E sp \in Spaces, bundle \in Bundles : Publish(sp, bundle)
       \/ \E r \in ReleaseIds : Withdraw(r) \/ DeleteRelease(r)
    /\ UNCHANGED <<past, storeVars, queue, workVars, memoVars, done>>

-----------------------------------------------------------------------------
(* The informers.  A report's handler only starts the delay of its key and *)
(* is one step with the store's update; that of a ClusterSummary lists the *)
(* reports' store and runs some time after the update it is about.         *)

Informers == {Reports, Summaries}

Present(o, v) == ObjectAt(o, v) # Absent

Enqueued(keys) == [queue EXCEPT !.waiting = @ \cup keys]

\* What AddFunc and UpdateFunc start for an object.  There is no DeleteFunc.
Handle(o, v) ==
    IF ~Present(o, v) THEN UNCHANGED <<queue, notified>>
    ELSE IF o \in Reports THEN queue' = Enqueued({o}) /\ UNCHANGED notified
    ELSE notified' = notified \cup {ClusterOf[o]} /\ UNCHANGED queue

\* The first list of an informer fills its store, each object in it an Add.
CacheSync(informer) ==
    LET there == {o \in informer : Present(o, Newest[o])} IN
    /\ informer \notin synced
    /\ synced' = synced \cup {informer}
    /\ cache' = [o \in Objects |-> IF o \in informer THEN Newest[o] ELSE cache[o]]
    /\ queue' = Enqueued(there \cap Reports)
    /\ notified' = notified \cup {ClusterOf[o] : o \in there \cap Summaries}
    /\ UNCHANGED <<past, hubVars, workVars, memoVars, done, counts>>

\* The next watch event of an object arrives.
Watch(o) ==
    /\ \E informer \in synced : o \in informer
    /\ cache[o] < Newest[o]
    /\ cache' = [cache EXCEPT ![o] = @ + 1]
    /\ Handle(o, cache[o] + 1)
    /\ UNCHANGED <<past, hubVars, synced, workVars, memoVars, done, counts>>

\* Mutant: there is no resync period.
NoResync(o) == FALSE

\* The resync period ends: what is stored is handed to UpdateFunc again.
Resync(o) ==
    /\ \E informer \in synced : o \in informer
    /\ Present(o, cache[o])
    /\ Handle(o, cache[o])
    /\ UNCHANGED <<past, hubVars, synced, cache, workVars, memoVars, done, counts>>

\* Mutant: the handler stops at the first report of the cluster.
enqueueClusterReport(cluster) ==
    /\ cluster \in notified
    /\ notified' = notified \ {cluster}
    /\ \E k \in Reports :
          /\ ClusterOf[k] = cluster /\ Present(k, cache[k])
          /\ queue' = Enqueued({k})
    /\ UNCHANGED <<past, hubVars, synced, cache, workVars, memoVars, done, counts>>

\* The handler of a ClusterSummary: every report of its cluster that the store
\* holds by now.
enqueueClusterReports(cluster) ==
    /\ cluster \in notified
    /\ notified' = notified \ {cluster}
    /\ queue' = Enqueued({k \in Reports : ClusterOf[k] = cluster /\ Present(k, cache[k])})
    /\ UNCHANGED <<past, hubVars, synced, cache, workVars, memoVars, done, counts>>

DelayOver(k) ==
    /\ k \in queue.waiting
    /\ queue' = Expire(queue, k)
    /\ UNCHANGED <<past, hubVars, storeVars, workVars, memoVars, done, counts>>

-----------------------------------------------------------------------------
(* The worker: processNext, report and reportSpace.                        *)

\* What the report shows of the Space under way.
Observed == observeSpaces(ObjectAt(key, snap[key]))[space]

IsFirst(sp, spaces) == sp \in spaces /\ \A other \in spaces : sp <= other

NoStep == listed' = {} /\ tries' = {} /\ target' = 0 /\ write' = None

Leave ==
    /\ pc' = "idle" /\ key' = None /\ snap' = NothingSeen
    /\ todo' = {} /\ space' = NoSpace /\ failed' = FALSE /\ NoStep

\* report returns nil: Forget, and the deferred Done.
ReturnNil ==
    /\ Leave
    /\ queue' = Done(queue, key)
    /\ done' = [done EXCEPT ![key] = snap]

\* report returns an error: AddRateLimited, and the deferred Done.
ReturnError ==
    /\ Leave
    /\ queue' = Done(AddAfter(queue, key), key)
    /\ UNCHANGED done

\* A Space is over, and the next one's turn comes; after the last of them report
\* returns what has failed.
Over(fails) ==
    \/ /\ todo' = todo \ {space}
       /\ \E next \in todo' : IsFirst(next, todo') /\ space' = next
       /\ failed' = (failed \/ fails) /\ pc' = "list"
       /\ NoStep
       /\ UNCHANGED <<key, snap, queue, done>>
    \/ /\ todo = {space}
       /\ IF failed \/ fails THEN ReturnError ELSE ReturnNil

Stored(k) == [o \in Objects |-> IF o \in About(k) THEN cache[o] ELSE 0]

\* Mutant: the worker does not wait for both caches.
TakenUnsynced(k) == pc = "idle" /\ k \in Ready(queue)

Taken(k) ==
    /\ pc = "idle" /\ synced = Informers
    /\ k \in Ready(queue)

\* The worker takes a key whose report the store no longer has.
reportDeleted(k) ==
    /\ Taken(k)
    /\ ~Present(k, cache[k])
    /\ lastSig' = [lastSig EXCEPT ![k] = [sp \in Spaces |-> NoSig]]
    /\ queue' = Done(Get(queue, k), k)
    /\ UNCHANGED <<past, hubVars, storeVars, workVars, releaseMatches, bundleRevisions,
                   done, counts>>

\* The agent's own copy of a report, or a report that shows no Space: nothing
\* to do.
reportNothing(k) ==
    /\ Taken(k)
    /\ Present(k, cache[k])
    /\ ClusterOf[k] = NoCluster \/ DOMAIN observeSpaces(ObjectAt(k, cache[k])) = {}
    /\ queue' = Done(Get(queue, k), k)
    /\ done' = [done EXCEPT ![k] = Stored(k)]
    /\ UNCHANGED <<past, hubVars, storeVars, workVars, memoVars, counts>>

\* The worker takes a key and reads the report from the store.
processNext(k) ==
    /\ Taken(k)
    /\ Present(k, cache[k]) /\ ClusterOf[k] # NoCluster
    /\ DOMAIN observeSpaces(ObjectAt(k, cache[k])) # {}
    /\ queue' = Get(queue, k)
    /\ pc' = "list" /\ key' = k /\ snap' = Stored(k)
    /\ todo' = DOMAIN observeSpaces(ObjectAt(k, cache[k]))
    /\ \E first \in todo' : IsFirst(first, todo') /\ space' = first
    /\ UNCHANGED <<past, hubVars, storeVars, failed, stepVars, memoVars, done, counts>>

Stay == UNCHANGED <<past, hubVars, storeVars, key, snap, todo, space, failed, done>>

\* Mutant: the Releases published are left out.
releaseMatchKeySeen(revisions, releases) == [revisions |-> revisions, published |-> {}]

\* What identifies the inputs of a match: the revisions seen and the Releases
\* published.
releaseMatchKey(revisions, releases) == [revisions |-> revisions, published |-> releases]

\* The published Releases of the Space under way.
PublishedNow ==
    {r \in ReleaseIds : /\ release[r] # NoRelease
                        /\ release[r].space = space /\ release[r].published}

MatchKey(releases) == releaseMatchKey(Observed.Revisions, releases)

Matched(releases) ==
    /\ releaseMatches[space] # NoMatch
    /\ releaseMatches[space].key = MatchKey(releases)

\* The Releases are listed, and the match made last still stands.
FindCached ==
    /\ pc = "list" /\ space \in visible
    /\ Matched(PublishedNow)
    /\ listed' = PublishedNow
    /\ target' = releaseMatches[space].release
    /\ pc' = "compare"
    /\ UNCHANGED <<queue, tries, write, memoVars, counts>>
    /\ Stay

\* The Releases are listed, and their bundles are to be looked at.
listReleases ==
    /\ pc = "list" /\ space \in visible
    /\ ~Matched(PublishedNow)
    /\ listed' = PublishedNow /\ tries' = PublishedNow
    /\ pc' = "match"
    /\ UNCHANGED <<queue, target, write, memoVars, counts>>
    /\ Stay

Untouched == UNCHANGED <<past, hubVars, storeVars>>

\* A Space argobot cannot see: not ours.
NotKnown ==
    /\ pc = "list" /\ space \notin visible
    /\ Over(FALSE)
    /\ Untouched /\ UNCHANGED <<memoVars, counts>>

\* Release r is the newest whose bundle was not looked at yet.
LooksAt(r) ==
    /\ pc = "match"
    /\ r \in tries /\ \A other \in tries : other <= r

\* ConfigHub has the bundle and argobot may read it.
Readable(r) == space \in visible /\ release[r] # NoRelease

\* The revisions in a bundle: cached, or read now.  One that cannot be read
\* holds nothing, and is not cached.
releaseBundleRevisions(r) ==
    CASE bundleRevisions[r] # NotRead -> bundleRevisions[r]
      [] bundleRevisions[r] = NotRead /\ Readable(r) -> release[r].bundle
      [] OTHER -> {}

Remember(r) ==
    bundleRevisions' =
        IF Readable(r) THEN [bundleRevisions EXCEPT ![r] = releaseBundleRevisions(r)]
        ELSE bundleRevisions

\* Mutant: the Units are compared and not their revisions.
CoversUnits(r) ==
    {unit[1] : unit \in Observed.Revisions} \subseteq
        {unit[1] : unit \in releaseBundleRevisions(r)}

Covers(r) == Observed.Revisions \subseteq releaseBundleRevisions(r)

\* The bundle of the newest Release left holds all that was seen: the match.
FindCovering(r) ==
    /\ LooksAt(r)
    /\ Covers(r)
    /\ Remember(r)
    /\ target' = r
    /\ releaseMatches' = [releaseMatches EXCEPT ![space] =
                             [key |-> MatchKey(listed), release |-> r]]
    /\ tries' = {}
    /\ pc' = "compare"
    /\ UNCHANGED <<queue, listed, write, lastSig, counts>>
    /\ Stay

\* It does not: the next one is looked at.
TryNext(r) ==
    /\ LooksAt(r)
    /\ ~Covers(r)
    /\ Remember(r)
    /\ tries' = tries \ {r}
    /\ UNCHANGED <<pc, queue, listed, target, write, lastSig, releaseMatches, counts>>
    /\ Stay

\* No published Release covers what was seen: nothing to record it on.
NoneCovers ==
    /\ pc = "match" /\ tries = {}
    /\ Over(FALSE)
    /\ Untouched /\ UNCHANGED <<memoVars, counts>>

\* The ClusterSummaries of the report's cluster, as numbered by v.
SummariesAt(k, v) == [s \in About(k) \ {k} |-> ObjectAt(s, v[s])]

\* The states a status put together now is from.
FromNow == [Stored(key) EXCEPT ![key] = snap[key]]

StatusesNow == StatusesFor(Observed, SummariesAt(key, cache), space, key)

\* The status is the one written last for this report and Space.
Suppress ==
    /\ pc = "compare"
    /\ \E st \in StatusesNow : lastSig[key][space] = [release |-> target, status |-> st]
    /\ Over(FALSE)
    /\ Untouched /\ UNCHANGED <<memoVars, counts>>

Send ==
    /\ pc = "compare"
    /\ \E st \in StatusesNow :
          /\ lastSig[key][space] # [release |-> target, status |-> st]
          /\ write' = [ver |-> FromNow, status |-> st]
    /\ pc' = "patch"
    /\ UNCHANGED <<queue, listed, tries, target, memoVars, counts>>
    /\ Stay

\* ConfigHub replaces every field of the LiveStatus.  by and ver are history.
ApplyPatch ==
    /\ Readable(target)
    /\ live' = [live EXCEPT ![target] =
                   [by |-> key, ver |-> write.ver, status |-> write.status]]
    /\ UNCHANGED <<visible, published, release>>

patchRelease ==
    /\ pc = "patch"
    /\ ApplyPatch
    /\ lastSig' = [lastSig EXCEPT ![key][space] =
                      [release |-> target, status |-> write.status]]
    /\ Over(FALSE)
    /\ UNCHANGED <<past, storeVars, releaseMatches, bundleRevisions, counts>>

\* The patch is applied and the answer is lost on the way.
patchAnswerLost ==
    /\ pc = "patch"
    /\ Fault("lost")
    /\ ApplyPatch
    /\ Over(TRUE)
    /\ UNCHANGED <<past, storeVars, memoVars>>

\* The Space is out of sight, or the Release is gone, since it was found.
Refused ==
    /\ pc = "patch" /\ ~Readable(target)
    /\ Over(TRUE)
    /\ Untouched /\ UNCHANGED <<memoVars, counts>>

\* Mutant: with the Space that fails what was written for the others is forgotten.
CallFailsForgetting ==
    /\ \/ pc \in {"list", "patch"}
       \/ \E r \in tries : LooksAt(r) /\ bundleRevisions[r] = NotRead
    /\ Fault("failure")
    /\ Over(TRUE)
    /\ lastSig' = [lastSig EXCEPT ![key] = [sp \in Spaces |-> NoSig]]
    /\ Untouched /\ UNCHANGED <<releaseMatches, bundleRevisions>>

\* A list, a download or a patch fails and changes nothing in ConfigHub.
CallFails ==
    /\ \/ pc \in {"list", "patch"}
       \/ \E r \in tries : LooksAt(r) /\ bundleRevisions[r] = NotRead
    /\ Fault("failure")
    /\ Over(TRUE)
    /\ Untouched /\ UNCHANGED memoVars

\* The process ends, whatever it was doing, and is started again.
Restart ==
    /\ Fault("restart")
    /\ synced' = {} /\ cache' = NothingSeen /\ notified' = {}
    /\ queue' = EmptyQueue
    /\ Leave
    /\ lastSig' = [k \in Reports |-> [sp \in Spaces |-> NoSig]]
    /\ releaseMatches' = [sp \in Spaces |-> NoMatch]
    /\ bundleRevisions' = [r \in ReleaseIds |-> NotRead]
    /\ done' = [k \in Reports |-> NothingSeen]
    /\ UNCHANGED <<past, hubVars>>

-----------------------------------------------------------------------------
Report ==
    \/ FindCached \/ listReleases \/ NotKnown
    \/ \E r \in tries : FindCovering(r) \/ TryNext(r)
    \/ NoneCovers
    \/ Suppress \/ Send
    \/ patchRelease \/ patchAnswerLost \/ Refused \/ CallFails

Next ==
    \/ \E o \in Objects : Change(o) \/ Watch(o) \/ Resync(o)
    \/ HubMoves
    \/ \E informer \in Informers : CacheSync(informer)
    \/ \E s \in Summaries : enqueueClusterReports(ClusterOf[s])
    \/ \E k \in Reports :
          DelayOver(k) \/ reportDeleted(k) \/ reportNothing(k) \/ processNext(k)
    \/ Report
    \/ Restart

Spec == Init /\ [][Next]_vars

\* As for the other reporters: what the process does by itself it keeps doing,
\* and a key that is ready again and again is taken, first in first out.  That a
\* report comes to an end is weak fairness of Report, which is enabled until it
\* has.  Nothing is assumed of the cluster, of ConfigHub or of crashes.
Fairness ==
    /\ \A informer \in Informers : WF_vars(CacheSync(informer))
    /\ \A o \in Objects : WF_vars(Watch(o)) /\ WF_vars(Resync(o))
    /\ \A s \in Summaries : WF_vars(enqueueClusterReports(ClusterOf[s]))
    /\ \A k \in Reports :
          /\ WF_vars(DelayOver(k))
          /\ SF_vars(reportDeleted(k) \/ reportNothing(k) \/ processNext(k))
    /\ []<>(pc = "idle")

FairSpec == Spec /\ Fairness

-----------------------------------------------------------------------------
(* Properties.                                                             *)

\* Every variable has its type, the worker has what the steps before found, and a
\* snapshot is never ahead of the store, nor the store ahead of the cluster.
ClusterTypeOK ==
    /\ DOMAIN past = Objects
    /\ \A o \in Objects : past[o] \in Seq(States(o) \cup {Absent})

HubTypeOK ==
    /\ visible \subseteq Spaces /\ published \in 0..MaxReleases
    /\ release \in [ReleaseIds -> Releases \cup {NoRelease}]
    /\ DOMAIN live = ReleaseIds
    /\ \A r \in ReleaseIds :
          /\ release[r] # NoRelease => r <= published
          /\ live[r] # NoStatus =>
                /\ release[r] # NoRelease
                /\ live[r].by \in Reports
                /\ live[r].ver \in [Objects -> Nat]

StoreTypeOK ==
    /\ synced \subseteq Informers
    /\ cache \in [Objects -> Nat]
    /\ \A o \in Objects : cache[o] <= Newest[o]
    /\ \A informer \in Informers \ synced : \A o \in informer : cache[o] = 0
    /\ notified \subseteq {ClusterOf[s] : s \in Summaries}
    /\ queue \in QueueOver(Reports)

WorkerTypeOK ==
    /\ pc \in {"idle", "list", "match", "compare", "patch"}
    /\ snap \in [Objects -> Nat] /\ \A o \in Objects : snap[o] <= cache[o]
    /\ pc = "idle" => key = None
    /\ pc # "idle" =>
          /\ key \in Reports /\ synced = Informers
          /\ ClusterOf[key] # NoCluster
          /\ Present(key, snap[key])
          /\ todo \subseteq DOMAIN observeSpaces(ObjectAt(key, snap[key]))
          /\ space \in todo
    /\ listed \subseteq 1..published /\ tries \subseteq listed
    /\ tries # {} => pc = "match"
    /\ pc \in {"compare", "patch"} => target \in listed
    /\ pc = "patch" =>
          /\ write.ver \in [Objects -> Nat]
          /\ \A o \in Objects : write.ver[o] <= cache[o]
    /\ failed \in BOOLEAN

MemoTypeOK ==
    /\ lastSig = [k \in Reports |-> [sp \in Spaces |-> lastSig[k][sp]]]
    /\ DOMAIN releaseMatches = Spaces
    /\ \A sp \in Spaces : releaseMatches[sp] # NoMatch =>
          /\ releaseMatches[sp].release \in releaseMatches[sp].key.published
          /\ releaseMatches[sp].key.published \subseteq 1..published
    /\ DOMAIN bundleRevisions = ReleaseIds
    /\ done \in [Reports -> [Objects -> Nat]]

CountsOK ==
    /\ counts \in [{"change", "withdraw"} \cup FaultKinds -> Nat]
    /\ counts["change"] <= MaxChanges /\ counts["withdraw"] <= MaxWithdrawn
    /\ FaultCount <= MaxFaults

TypeOK ==
    ClusterTypeOK /\ HubTypeOK /\ StoreTypeOK /\ WorkerTypeOK /\ MemoTypeOK /\ CountsOK

\* The key of report k is queued, or a handler that will queue it is to run.
Waiting(k) == Pending(queue, k) \/ ClusterOf[k] \in notified

\* No update is lost between two informers, the queue and ConfigHub (enqueue,
\* enqueueClusterReports, processNext): while the stores hold a state of a report,
\* or of a ClusterSummary of its cluster, that no successful report has seen, the
\* report's key is queued, a handler that will queue it has yet to run, or the
\* report under way has seen it.  A ClusterSummary that comes before its reports
\* or in the middle of one, and a Space that fails among others that do not, are
\* the ways to lose it.
NoLostSveltosUpdate ==
    \A k \in Reports : \A o \in About(k) :
        Present(k, cache[k]) /\ Present(o, cache[o]) /\ done[k][o] # cache[o]
        => Waiting(k) \/ (key = k /\ snap[o] = cache[o])

\* Why NoLostSveltosUpdate holds: while older states than the stores' are being
\* reported, the report's key is in the queue again or will be.
StaleReportIsFollowed ==
    pc # "idle" => \A o \in About(key) :
        Present(key, cache[key]) /\ Present(o, cache[o]) /\ snap[o] # cache[o]
        => Waiting(key)

\* Of those releases that are there still, none after r bundles the revisions.
NoneNewer(revisions, releases, r) ==
    \A other \in releases : other > r /\ release[other] # NoRelease =>
        ~(revisions \subseteq release[other].bundle)

\* The cached match is what a match made now would find (findRelease,
\* releaseMatches): the Release found covers what this report shows, and of the
\* Releases just listed none that is newer and still there does, whatever other
\* report of the Space was matched last and whatever was published or withdrawn
\* since.  Of a Space that was out of sight for a while it is not true: a bundle
\* that could not be read is remembered as one that does not cover.
MatchIsNewest ==
    pc = "compare" /\ counts["hide"] = 0 =>
        /\ Observed.Revisions \subseteq bundleRevisions[target]
        /\ NoneNewer(Observed.Revisions, listed, target)

\* Why MatchIsNewest holds.  What is remembered of a bundle is what is in it, of a
\* match that it would be made again of the same Releases, and of those already
\* looked at that they do not cover what is seen.
BundlesAreKnown ==
    \A r \in ReleaseIds :
        /\ release[r] # NoRelease => bundleRevisions[r] \in {NotRead, release[r].bundle}
        /\ r > published => bundleRevisions[r] = NotRead

MatchStands(match) ==
    /\ bundleRevisions[match.release] # NotRead
    /\ match.key.revisions \subseteq bundleRevisions[match.release]
    /\ NoneNewer(match.key.revisions, match.key.published, match.release)

MatchesAreNewest ==
    counts["hide"] = 0 =>
        /\ visible = Spaces
        /\ \A sp \in Spaces :
              releaseMatches[sp] # NoMatch => MatchStands(releaseMatches[sp])

TriedCoverNot ==
    pc = "match" /\ counts["hide"] = 0 => \A r \in listed \ tries :
        release[r] # NoRelease => ~(Observed.Revisions \subseteq release[r].bundle)

\* There was a moment without report k between two of its states.
WasAbsent(k, from, to) == \E n \in from..to : ObjectAt(k, n) = Absent

\* "so an unchanged report produces no write" (reportSpace), as far as it goes: what
\* a Release says already, written by the same report, is written there again only
\* when the Space was reported on another Release since, or when the report was
\* deleted in between; and after a lost answer or a restart, of which nothing is
\* said.  A Space, or a call, that fails after another Space was written is no
\* reason to write that one again.
UnchangedIsNotWritten ==
    /\ pc = "patch" /\ counts["lost"] = 0 /\ counts["restart"] = 0
    /\ live[target] # NoStatus /\ live[target].by = key
    /\ live[target].status = write.status
    => \/ lastSig[key][space] # NoSig /\ lastSig[key][space].release # target
       \/ WasAbsent(key, live[target].ver[key], snap[key])

\* Why UnchangedIsNotWritten holds: the signature kept for the report and Space a
\* Release was written for is of what it says, unless one of the two things that
\* were named has happened.
Seen(k) == IF key = k THEN snap[k] ELSE cache[k]

SignaturesKept ==
    counts["lost"] = 0 /\ counts["restart"] = 0 =>
        \A r \in ReleaseIds : live[r] # NoStatus =>
            LET k   == live[r].by
                sig == lastSig[k][release[r].space]
            IN  \/ sig = [release |-> r, status |-> live[r].status]
                \/ sig # NoSig /\ sig.release # r
                \/ WasAbsent(k, live[r].ver[k], Seen(k))

\* "they bundle the same content" (the comment on sveltosReporter): when one of
\* the Releases listed bundles exactly the Unit revisions the cluster shows, the
\* Release reported on does too, so that a Release that was published but not
\* applied yet is not taken for the one that runs.
MatchIsWhatRuns ==
    pc = "patch" /\ (\E r \in listed : /\ release[r] # NoRelease
                                       /\ release[r].bundle = Observed.Revisions)
        => bundleRevisions[target] = Observed.Revisions

\* Reporting is a SveltosFeed: what reaches a Release is always what a report and
\* the ClusterSummaries of its cluster said of its Space, the revisions shown are
\* in its bundle, and no state is written over a later one, across the two caches,
\* failed calls, lost answers and restarts.
Feed == INSTANCE SveltosFeed WITH
    contents <- [r \in ReleaseIds |->
                    IF release[r] = NoRelease THEN NoRelease
                    ELSE [space |-> release[r].space, bundle |-> release[r].bundle]]
ImplementsSveltosFeed == Feed!Spec

\* The published Releases of a Space whose bundles hold what report k shows of it.
Covering(k, sp) ==
    {r \in ReleaseIds : /\ release[r] # NoRelease
                        /\ release[r].space = sp /\ release[r].published
                        /\ observeSpaces(ObjectAt(k, Newest[k]))[sp].Revisions
                              \subseteq release[r].bundle}

Reported(k, sp, r) ==
    /\ live[r] # NoStatus
    /\ live[r].status \in
          StatusesFor(observeSpaces(ObjectAt(k, Newest[k]))[sp], SummariesAt(k, Newest), sp, k)

\* The newest of the Releases a report is of says what the report says.
Current(k) ==
    \A sp \in (IF Present(k, Newest[k]) THEN DOMAIN observeSpaces(ObjectAt(k, Newest[k]))
               ELSE {}) \cap visible :
        \A r \in Covering(k, sp) :
            (\A other \in Covering(k, sp) : other <= r) => Reported(k, sp, r)

\* "A dropped or delayed report costs only freshness" (the comment on reporter) for
\* Sveltos: once the cluster and ConfigHub have settled, the newest Release that
\* covers what a cluster shows comes to say what its report and ClusterSummaries
\* say, whatever failed or was missed, deleted ClusterSummaries included, which no
\* handler is called for.
SveltosConverges ==
    \A k \in Reports : ClusterOf[k] # NoCluster => <>[](Current(k) \/ counts["hide"] > 0)
=============================================================================
