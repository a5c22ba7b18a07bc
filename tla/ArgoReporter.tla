--------------------------- MODULE ArgoReporter ----------------------------
(***************************************************************************)
(* The Argo CD live-status reporter (reporter.go): an informer over the    *)
(* Applications of one namespace, a work queue, and a single worker that   *)
(* projects an Application's cached state and writes it to the Release the *)
(* Application is running.                                                 *)
(*                                                                         *)
(* One call of report is several steps here, because it asks ConfigHub     *)
(* twice and then writes to it, and the cluster, the informer, the queue   *)
(* and ConfigHub all move in between:                                      *)
(*                                                                         *)
(*   "idle"  --processNext-->  "space"  --getSpaceID-->  "release"         *)
(*           --getReleaseID-->  "compare"  -->  "patch"  -->  "idle"       *)
(*                                                                         *)
(* with an early return to "idle" from each of them.  The process may die  *)
(* and start again at any point; it keeps nothing.                         *)
(***************************************************************************)
EXTENDS ConfigHub, ArgoProjection, WorkQueue, Sequences

CONSTANTS
    LoseAnswers,   \* whether a patch ConfigHub applied may be answered by an error
    MaxChanges,    \* bound: states an Application goes through
    MaxFailures,   \* bound: calls to ConfigHub that fail
    MaxRestarts,   \* bound: times the process dies and starts again
    None,          \* no key, no Space
    NoSig          \* the lastSig of a key with nothing written

ASSUME LoseAnswersAssumption == LoseAnswers \in BOOLEAN
ASSUME BoundsAssumption ==
    /\ MaxChanges \in Nat
    /\ MaxFailures \in Nat
    /\ MaxRestarts \in Nat
ASSUME NoneAssumption == None \notin Apps \cup Spaces
ASSUME NullAssumption == Null \notin Words
ASSUME DigestsAssumption == Digests \subseteq Words
ASSUME NoReleaseAssumption == NoRelease \notin [space : Spaces, digest : Words]
ASSUME NoSigAssumption ==
    NoSig \notin [release : ReleaseIds, status : [Fields -> Words]]

VARIABLES
    past,       \* every state each Application has had in the cluster
    synced,     \* the informer's cache has synced and the worker runs
    cache,      \* the informer's store: how many states of each it has seen
    queue,      \* the work queue
    pc,         \* where the worker is in report
    key,        \* the key it works on
    snap,       \* the state it read from the store, by its number
    space,      \* the Space id it resolved
    target,     \* the Release it resolved; 0 is none
    lastSig,    \* the signature of the last projection written, by key
    done,       \* history: the last state of each a report returned nil for
    failures,   \* calls to ConfigHub that have failed
    restarts    \* times the process has started again

clusterVars == <<past>>
workVars    == <<pc, key, snap, space, target>>
countVars   == <<failures, restarts>>
vars == <<past, hubVars, synced, cache, queue, workVars, lastSig, done, countVars>>

\* The state numbered v of Application a; 0 is an Application never seen.
ObjectAt(a, v) == IF v = 0 THEN Absent ELSE past[a][v]

\* The newest state of Application a.
Newest(a) == Len(past[a])

Init ==
    /\ past = [a \in Apps |-> <<>>]
    /\ HubInit
    /\ synced = FALSE
    /\ cache = [a \in Apps |-> 0]
    /\ queue = EmptyQueue
    /\ pc = "idle" /\ key = None /\ snap = 0
    /\ space = None /\ target = 0
    /\ lastSig = [a \in Apps |-> NoSig]
    /\ done = [a \in Apps |-> 0]
    /\ failures = 0 /\ restarts = 0

-----------------------------------------------------------------------------
(* The cluster: Argo CD and its users change the Applications.             *)

Change(a) ==
    /\ Newest(a) < MaxChanges
    /\ \E o \in Objects \cup {Absent} :
          /\ o # ObjectAt(a, Newest(a))
          /\ past' = [past EXCEPT ![a] = Append(@, o)]
    /\ UNCHANGED <<hubVars, synced, cache, queue, workVars, lastSig, done, countVars>>

(* ConfigHub: Spaces come and go, Releases are published and deleted.      *)
HubMoves ==
    /\ \/ \E sp \in Spaces : ShowSpace(sp) \/ HideSpace(sp)
       \/ \E sp \in Spaces, d \in Digests : Publish(sp, d)
       \/ \E r \in ReleaseIds : DeleteRelease(r)
    /\ UNCHANGED <<past, synced, cache, queue, workVars, lastSig, done, countVars>>

-----------------------------------------------------------------------------
(* The informer.  The store is updated before the handler is called; the   *)
(* handler only starts a delay, so the two are one step here.              *)

\* The cache syncs: the first list fills the store, each Application in it is
\* an Add, and the worker starts.
CacheSync ==
    /\ ~synced
    /\ synced' = TRUE
    /\ cache' = [a \in Apps |-> Newest(a)]
    /\ queue' = [queue EXCEPT !.waiting =
                    {a \in Apps : ObjectAt(a, Newest(a)) # Absent}]
    /\ UNCHANGED <<past, hubVars, workVars, lastSig, done, countVars>>

\* AddFunc and UpdateFunc enqueue the key after the debounce; there is no
\* DeleteFunc.
enqueue(a, o) == IF o = Absent THEN queue ELSE AddAfter(queue, a)

\* The next watch event of an Application arrives.
Watch(a) ==
    /\ synced
    /\ cache[a] < Newest(a)
    /\ cache' = [cache EXCEPT ![a] = @ + 1]
    /\ queue' = enqueue(a, ObjectAt(a, cache[a] + 1))
    /\ UNCHANGED <<past, hubVars, synced, workVars, lastSig, done, countVars>>

\* Mutant: the informer is built without a resync period.
NoResync(a) == FALSE

\* The resync period ends: what is in the store is handed to UpdateFunc again.
Resync(a) ==
    /\ synced
    /\ ObjectAt(a, cache[a]) # Absent
    /\ queue' = enqueue(a, ObjectAt(a, cache[a]))
    /\ UNCHANGED <<past, hubVars, synced, cache, workVars, lastSig, done, countVars>>

\* The debounce or the back-off of a key is over.
DelayOver(a) ==
    /\ a \in queue.waiting
    /\ queue' = Expire(queue, a)
    /\ UNCHANGED <<past, hubVars, synced, cache, workVars, lastSig, done, countVars>>

-----------------------------------------------------------------------------
(* The worker: processNext and report.                                     *)

\* The state being reported, and its projection.
Object == ObjectAt(key, snap)

Sig == [release |-> target, status |-> projectStatus(key, Object)]

Leave ==
    /\ pc' = "idle" /\ key' = None /\ snap' = 0
    /\ space' = None /\ target' = 0

\* report returns nil: Forget, and the deferred Done.
ReturnNil ==
    /\ Leave
    /\ queue' = Done(queue, key)
    /\ done' = [done EXCEPT ![key] = snap]

\* Mutant: an error is logged and the key is not added again.
ReturnErrorForgets ==
    /\ Leave
    /\ queue' = Done(queue, key)
    /\ UNCHANGED <<lastSig, done>>

\* report returns an error: AddRateLimited, and the deferred Done.
ReturnError ==
    /\ Leave
    /\ queue' = Done(AddAfter(queue, key), key)
    /\ UNCHANGED <<lastSig, done>>

\* The worker takes a key whose Application the store no longer has.
reportDeleted(a) ==
    /\ pc = "idle" /\ synced
    /\ a \in Ready(queue)
    /\ ObjectAt(a, cache[a]) = Absent
    /\ lastSig' = [lastSig EXCEPT ![a] = NoSig]
    /\ queue' = Done(Get(queue, a), a)
    /\ UNCHANGED <<past, hubVars, synced, cache, workVars, done, countVars>>

\* The worker takes a key and reads the Application from the store.
processNext(a) ==
    /\ pc = "idle" /\ synced
    /\ a \in Ready(queue)
    /\ ObjectAt(a, cache[a]) # Absent
    /\ queue' = Get(queue, a)
    /\ pc' = "space" /\ key' = a /\ snap' = cache[a]
    /\ UNCHANGED <<past, hubVars, synced, cache, space, target, lastSig, done, countVars>>

\* The Space the Application's source names, asked of ConfigHub by slug.
getSpaceID ==
    {sp \in visible : SlugOf[sp] = deploymentSpaceSlug(key, Object)}

\* The Space is known, and Argo CD has resolved a revision.
SpaceKnown ==
    /\ pc = "space"
    /\ Object.revision # ""
    /\ \E sp \in getSpaceID : space' = sp
    /\ pc' = "release"
    /\ UNCHANGED <<past, hubVars, synced, cache, queue, key, snap, target,
                   lastSig, done, countVars>>

\* The Space is none argobot can see, or there is no revision: not ours.
NotOurs ==
    /\ pc = "space"
    /\ getSpaceID = {} \/ Object.revision = ""
    /\ ReturnNil
    /\ UNCHANGED <<past, hubVars, synced, cache, lastSig, countVars>>

\* The newest Release of the Space with the digest Argo CD synced.
getReleaseID ==
    {r \in ReleasesWith(space, Object.revision) :
        \A other \in ReleasesWith(space, Object.revision) : other <= r}

\* Mutant: a Release that is not known goes on as one that is.
ReleaseUnchecked ==
    /\ pc = "release"
    /\ space \in visible
    /\ target' = IF getReleaseID = {} THEN 0 ELSE CHOOSE r \in getReleaseID : TRUE
    /\ pc' = "compare"
    /\ UNCHANGED <<past, hubVars, synced, cache, queue, key, snap, space,
                   lastSig, done, countVars>>

ReleaseKnown ==
    /\ pc = "release"
    /\ space \in visible
    /\ \E r \in getReleaseID : target' = r
    /\ pc' = "compare"
    /\ UNCHANGED <<past, hubVars, synced, cache, queue, key, snap, space,
                   lastSig, done, countVars>>

\* The digest is no Release of the Space, or none any more.
ReleaseUnknown ==
    /\ pc = "release"
    /\ space \in visible
    /\ getReleaseID = {}
    /\ ReturnNil
    /\ UNCHANGED <<past, hubVars, synced, cache, lastSig, countVars>>

\* The projection is the one written last: nothing is written.
Suppress ==
    /\ pc = "compare"
    /\ lastSig[key] = Sig
    /\ ReturnNil
    /\ UNCHANGED <<past, hubVars, synced, cache, lastSig, countVars>>

\* Mutant: the signature is kept before the write has succeeded.
SendKeepsSig ==
    /\ pc = "compare"
    /\ lastSig[key] # Sig
    /\ pc' = "patch"
    /\ lastSig' = [lastSig EXCEPT ![key] = Sig]
    /\ UNCHANGED <<past, hubVars, synced, cache, queue, key, snap, space, target,
                   done, countVars>>

Send ==
    /\ pc = "compare"
    /\ lastSig[key] # Sig
    /\ pc' = "patch"
    /\ UNCHANGED <<past, hubVars, synced, cache, queue, key, snap, space, target,
                   lastSig, done, countVars>>

\* Mutant: an empty field is left out of the patch, as omitempty does.
mergePatchOmitsEmpty(status) ==
    [f \in {g \in Fields : status[g] # ""} |-> status[f]]

\* Every field is sent, an empty one as null, which removes it.
mergePatchObject(status) ==
    [f \in Fields |-> IF status[f] = "" THEN Null ELSE status[f]]

\* ConfigHub merges the patch into the LiveStatus of the target.  by and ver
\* are history: whose state was written, and which.
ApplyPatch ==
    LET old == IF live[target] = NoStatus THEN EmptyStatus ELSE live[target].status
    IN  /\ release[target] # NoRelease
        /\ space \in visible
        /\ live' = [live EXCEPT ![target] =
              [by |-> key, ver |-> snap,
               status |-> MergePatch(old, mergePatchObject(Sig.status))]]
        /\ UNCHANGED <<visible, published, release>>

\* The patch is applied and the answer arrives.
patchRelease ==
    /\ pc = "patch"
    /\ ApplyPatch
    /\ lastSig' = [lastSig EXCEPT ![key] = Sig]
    /\ ReturnNil
    /\ UNCHANGED <<past, synced, cache, countVars>>

\* The patch is applied and the answer is lost on the way.
patchAnswerLost ==
    /\ pc = "patch"
    /\ LoseAnswers
    /\ failures < MaxFailures
    /\ failures' = failures + 1
    /\ ApplyPatch
    /\ ReturnError
    /\ UNCHANGED <<past, synced, cache, restarts>>

\* A call to ConfigHub fails and changes nothing there.
CallFails ==
    /\ pc \in {"space", "release", "patch"}
    /\ failures < MaxFailures
    /\ failures' = failures + 1
    /\ ReturnError
    /\ UNCHANGED <<past, hubVars, synced, cache, restarts>>

\* The Space is gone or out of sight since it was resolved, or the Release is
\* gone: ConfigHub refuses the call.
Refused ==
    /\ pc \in {"release", "patch"}
    /\ space \notin visible \/ (pc = "patch" /\ release[target] = NoRelease)
    /\ ReturnError
    /\ UNCHANGED <<past, hubVars, synced, cache, countVars>>

\* The process ends, whatever it was doing, and is started again.
Restart ==
    /\ restarts < MaxRestarts
    /\ restarts' = restarts + 1
    /\ synced' = FALSE
    /\ cache' = [a \in Apps |-> 0]
    /\ queue' = EmptyQueue
    /\ Leave
    /\ lastSig' = [a \in Apps |-> NoSig]
    /\ done' = [a \in Apps |-> 0]
    /\ UNCHANGED <<past, hubVars, failures>>

-----------------------------------------------------------------------------
Informer(a) == Watch(a) \/ Resync(a) \/ DelayOver(a)

Report ==
    \/ SpaceKnown \/ NotOurs
    \/ ReleaseKnown \/ ReleaseUnknown
    \/ Suppress \/ Send
    \/ patchRelease \/ patchAnswerLost
    \/ CallFails \/ Refused

Next ==
    \/ \E a \in Apps : Change(a)
    \/ HubMoves
    \/ CacheSync
    \/ \E a \in Apps : Informer(a)
    \/ \E a \in Apps : processNext(a) \/ reportDeleted(a)
    \/ Report
    \/ Restart

Spec == Init /\ [][Next]_vars

\* What the process does by itself it keeps doing: the informer delivers, the
\* delays pass, and the worker goes on.  A key is taken in FIFO order, so one
\* that is ready again and again is taken: strong fairness.  Nothing is
\* assumed of the cluster, of ConfigHub or of crashes.
Fairness ==
    /\ WF_vars(CacheSync)
    /\ WF_vars(Report)
    /\ \A a \in Apps :
          /\ WF_vars(Watch(a))
          /\ WF_vars(Resync(a))
          /\ WF_vars(DelayOver(a))
          /\ SF_vars(processNext(a) \/ reportDeleted(a))

FairSpec == Spec /\ Fairness

-----------------------------------------------------------------------------
(* Properties.                                                             *)

Signatures == [release : ReleaseIds, status : [Fields -> Words]]

LiveStatuses == [by : Apps, ver : 1..MaxChanges, status : [Fields -> Words]]

ClusterTypeOK ==
    /\ past \in [Apps -> Seq(Objects \cup {Absent})]
    /\ \A a \in Apps : Newest(a) <= MaxChanges

HubTypeOK ==
    /\ visible \subseteq Spaces
    /\ published \in 0..MaxReleases
    /\ release \in [ReleaseIds -> Releases \cup {NoRelease}]
    /\ live \in [ReleaseIds -> LiveStatuses \cup {NoStatus}]

ProcessTypeOK ==
    /\ synced \in BOOLEAN
    /\ cache \in [Apps -> Nat]
    /\ \A a \in Apps : cache[a] <= Newest(a)
    /\ queue \in QueueOver(Apps)
    /\ lastSig \in [Apps -> Signatures \cup {NoSig}]
    /\ done \in [Apps -> Nat]
    /\ failures \in 0..MaxFailures
    /\ restarts \in 0..MaxRestarts

WorkerTypeOK ==
    /\ pc \in {"idle", "space", "release", "compare", "patch"}
    /\ pc = "idle" => key = None
    /\ pc # "idle" => /\ synced
                      /\ key \in Apps
                      /\ snap \in 1..cache[key]
                      /\ Object \in Objects
    /\ pc \in {"release", "compare", "patch"} => space \in Spaces
    /\ pc \in {"compare", "patch"} => target \in ReleaseIds

\* Every variable has its type, and what a report has found so far is there
\* once the worker has passed the step of report that finds it.
TypeOK == ClusterTypeOK /\ HubTypeOK /\ ProcessTypeOK /\ WorkerTypeOK

\* No update is lost between the informer and ConfigHub (enqueue, processNext):
\* while the state the store holds of an Application is not one report has
\* finished with, the queue still holds its key or the worker is reporting that
\* very state.  A key added during a report, a report of an older state, a
\* failed call and a restart are the ways to lose it.
NoLostUpdate ==
    \A a \in Apps :
        synced /\ ObjectAt(a, cache[a]) # Absent /\ done[a] # cache[a] =>
            Pending(queue, a) \/ (key = a /\ snap = cache[a])

\* A suppressed write would have changed nothing (report, the lastSig test):
\* when the worker finds its projection equal to the signature it kept, and the
\* last to write to that Release was this Application, the Release's LiveStatus
\* in ConfigHub is that projection already.
SuppressedIsCurrent ==
    pc = "compare" /\ lastSig[key] = Sig
                   /\ live[target] # NoStatus
                   /\ live[target].by = key =>
        live[target].status = Sig.status

\* Why NoLostUpdate holds: while a state older than the store's is being
\* reported, the key is in the queue again.
StaleReportIsFollowed ==
    key # None /\ ObjectAt(key, cache[key]) # Absent /\ snap # cache[key] =>
        Pending(queue, key)

\* Why SuppressedIsCurrent holds: the signature kept for an Application is what
\* ConfigHub holds wherever the Application was the last to write.
SignatureHonest ==
    \A a \in Apps : lastSig[a] # NoSig =>
        LET r == lastSig[a].release IN
        live[r] # NoStatus /\ live[r].by = a => live[r].status = lastSig[a].status

\* Why a report lands on the right Release: what the lookups found belongs to
\* the state that was read before them, or is gone by now.
TargetIsOfObject ==
    /\ \A r \in ReleaseIds : r > published => release[r] = NoRelease
    /\ pc \in {"release", "compare", "patch"} =>
          SlugOf[space] = deploymentSpaceSlug(key, Object)
    /\ pc \in {"compare", "patch"} =>
          /\ target <= published
          /\ release[target] \in {NoRelease, [space |-> space, digest |-> Object.revision]}

\* Why no state is written over a later one: nothing in ConfigHub is newer than
\* what the store holds, nor than what the worker read.
NothingNewer ==
    \A r \in ReleaseIds : live[r] # NoStatus =>
        LET a == live[r].by IN
        /\ live[r].ver <= Newest(a)
        /\ synced => live[r].ver <= cache[a]
        /\ key = a => live[r].ver <= snap

\* Reporting is a LiveStatusFeed: what reaches a Release is always the exact
\* projection, every empty field cleared, of a state of an Application that
\* named this Release by its Space and digest, and no state is written over a
\* later one of the same Application, across failed calls and restarts too.
Feed == INSTANCE LiveStatusFeed
ImplementsFeed == Feed!Spec

\* The Releases an Application's newest state says it runs.
Running(a) ==
    LET o == ObjectAt(a, Newest(a)) IN
    IF o = Absent THEN {}
    ELSE UNION {ReleasesWith(sp, o.revision) :
                  sp \in {s \in visible : SlugOf[s] = deploymentSpaceSlug(a, o)}}

\* The newest Release the Application runs says what the Application says now.
Current(a) ==
    LET o == ObjectAt(a, Newest(a)) IN
    \A r \in Running(a) :
        (o.revision # "" /\ \A other \in Running(a) : other <= r) =>
            /\ live[r] # NoStatus
            /\ live[r].status = projectStatus(a, o)

\* "a dropped or delayed report costs only freshness" (the comment on reporter):
\* once the cluster and ConfigHub have settled, the newest Release each
\* Application runs comes to say what the Application says and goes on saying
\* it, whatever failed or was missed before.  Changes and Releases are bounded,
\* so only the Spaces need to be said to settle.
LiveStatusConverges ==
    <>[][visible' = visible]_vars => <>[](\A a \in Apps : Current(a))
=============================================================================
