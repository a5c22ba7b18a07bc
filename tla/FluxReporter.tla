---------------------------- MODULE FluxReporter ----------------------------
(***************************************************************************)
(* The Flux live-status reporter (reporter_flux.go) of one OCIRepository:  *)
(* informers over the repository and the Kustomizations that apply it, a   *)
(* work queue that holds the repository's key, and a single worker.        *)
(*                                                                         *)
(*   "idle"  --processNext-->  "space"  --getSpaceID-->                    *)
(*   "list"  --listReleases-->  "plan"  --planFluxWrites-->                *)
(*   "write" --writeIfChanged, once for each write-->  "idle"              *)
(*                                                                         *)
(* The repository is read before the two calls to ConfigHub, the           *)
(* Kustomizations after them, and the statuses a plan is compared with are *)
(* those of the list.  The reporter remembers nothing between reports: it  *)
(* reads its own earlier writes back from ConfigHub.                       *)
(***************************************************************************)
EXTENDS FluxPlan, WorkQueue

CONSTANTS
    KustStates,       \* the states a Kustomization may be in
    SourceStates,     \* the states the OCIRepository may be in
    InitialReleases,  \* what the Space may hold when argobot is first started
    MaxChanges,       \* bound: states all the objects together go through
    MaxFailures,      \* bound: calls to ConfigHub that fail
    CanHide,          \* whether argobot may lose sight of the Space
    MaxWithdrawn,     \* bound: Releases that are withdrawn
    MaxRestarts       \* bound: times the process dies and starts again

ASSUME FluxReporterBounds == {MaxChanges, MaxFailures, MaxWithdrawn, MaxRestarts} \subseteq Nat
ASSUME FluxInitialReleases == InitialReleases \subseteq [ReleaseIds -> Releases \cup {NoRelease}]
ASSUME FluxStatesAssumption ==
    /\ \A k \in KustStates : {k.readyReason, k.healthyReason, k.message} \subseteq STRING
    /\ \A source \in SourceStates : {source.reason, source.message} \subseteq STRING

Objects == Kusts \cup {Source}

\* The queue's key: the repository's namespace and name.
Key == Source

VARIABLES
    past,       \* every state each object has had in the cluster
    visible,    \* argobot can read the Space
    published,  \* the number of the newest Release
    release,    \* Release number -> its digest, whether published, LiveStatus
    synced,     \* both caches have synced and the worker runs
    cache,      \* the informers' stores: how many states of each were seen
    queue,      \* the work queue
    pc,         \* where the worker is in report
    snap,       \* the state of each object that was read, by its number
    listed,     \* the Releases as they were listed
    todo,       \* the writes still to be made
    failed,     \* one of the writes of this report has failed
    sources,    \* history: the Kustomizations the LiveStatus of each Release is from
    done,       \* history: what the last report that returned nil had read
    failures,   \* calls to ConfigHub that have failed
    restarts    \* times the process has started again

hubVars   == <<visible, published, release>>
workVars  == <<pc, snap, listed, todo, failed>>
histVars  == <<sources, done>>
countVars == <<failures, restarts>>
vars == <<past, hubVars, synced, cache, queue, workVars, histVars, countVars>>

\* The state numbered v of object o; 0 is an object never seen.
ObjectAt(o, v) == IF v = 0 THEN Absent ELSE past[o][v]

\* The state of every object, given the number of each.
StatesAt(v) == [o \in Objects |-> ObjectAt(o, v[o])]

Newest == [o \in Objects |-> Len(past[o])]

NothingSeen == [o \in Objects |-> 0]

NoReleases == [r \in ReleaseIds |-> NoRelease]

\* The Kustomizations named in the LiveStatus a Release has.
NamedIn(rel) ==
    {n \in Kusts : /\ rel # NoRelease /\ rel.live # NoStatus
                   /\ \E i \in DOMAIN rel.live.DataSource : rel.live.DataSource[i].name = n}

Init ==
    /\ past = [o \in Objects |-> <<>>]
    /\ visible = TRUE
    /\ release \in InitialReleases
    /\ published = Greatest({r \in ReleaseIds : release[r] # NoRelease})
    /\ synced = FALSE
    /\ cache = NothingSeen
    /\ queue = EmptyQueue
    /\ pc = "idle" /\ snap = NothingSeen /\ listed = NoReleases
    /\ todo = {} /\ failed = FALSE
    /\ sources = [r \in ReleaseIds |-> NamedIn(release[r])]
    /\ done = NothingSeen
    /\ failures = 0 /\ restarts = 0

-----------------------------------------------------------------------------
(* Flux and its users; ConfigHub.                                          *)

States(o) == IF o = Source THEN SourceStates ELSE KustStates

\* States the objects have gone through, all together.
ChangesMade == LET N[S \in SUBSET Objects] ==
                     IF S = {} THEN 0
                     ELSE LET o == CHOOSE x \in S : TRUE IN Len(past[o]) + N[S \ {o}]
               IN  N[Objects]

\* An object is created, changes, or is gone: deleted, or a Kustomization that
\* applies another source from now on.
Change(o) ==
    /\ ChangesMade < MaxChanges
    /\ \E s \in States(o) \cup {Absent} :
          /\ s # ObjectAt(o, Newest[o])
          /\ past' = [past EXCEPT ![o] = Append(@, s)]
    /\ UNCHANGED <<hubVars, synced, cache, queue, workVars, histVars, countVars>>

ShowOrHide == CanHide /\ visible' = ~visible /\ UNCHANGED <<published, release>>

\* A new Release, or the content of an earlier one published again.
Publish ==
    /\ published < MaxReleases
    /\ published' = published + 1
    /\ \E d \in Digests :
          release' = [release EXCEPT ![published + 1] =
                        [digest |-> d, published |-> TRUE, live |-> NoStatus]]
    /\ UNCHANGED visible

Withdrawn == {r \in 1..published : release[r] = NoRelease \/ ~release[r].published}

Withdraw(r) ==
    /\ Cardinality(Withdrawn) < MaxWithdrawn
    /\ release[r] # NoRelease /\ release[r].published
    /\ release' = [release EXCEPT ![r].published = FALSE]
    /\ UNCHANGED <<visible, published>>

DeleteRelease(r) ==
    /\ release[r] # NoRelease /\ ~release[r].published
    /\ release' = [release EXCEPT ![r] = NoRelease]
    /\ UNCHANGED <<visible, published>>

HubMoves ==
    /\ ShowOrHide \/ Publish \/ \E r \in ReleaseIds : Withdraw(r) \/ DeleteRelease(r)
    /\ UNCHANGED <<past, synced, cache, queue, workVars, histVars, countVars>>

-----------------------------------------------------------------------------
(* The informers.                                                          *)

\* Mutant: a Kustomization adds a key of its own, which is no repository's.
enqueueOwnKey(o, v) ==
    IF o # Source \/ ObjectAt(o, v) = Absent THEN queue ELSE AddAfter(queue, Key)

\* AddFunc and UpdateFunc add the repository's key after the debounce, a
\* Kustomization that of the repository it applies.  There is no DeleteFunc, and
\* a Kustomization that applies another source now adds the key of that one.
enqueue(o, v) == IF ObjectAt(o, v) = Absent THEN queue ELSE AddAfter(queue, Key)

\* Both caches sync: every object listed is an Add, and the worker starts.
CacheSync ==
    /\ ~synced
    /\ synced' = TRUE
    /\ cache' = Newest
    /\ queue' = IF \E o \in Objects : ObjectAt(o, Newest[o]) # Absent
                THEN AddAfter(queue, Key) ELSE queue
    /\ UNCHANGED <<past, hubVars, workVars, histVars, countVars>>

\* The next watch event of an object arrives.
Watch(o) ==
    /\ synced
    /\ cache[o] < Newest[o]
    /\ cache' = [cache EXCEPT ![o] = @ + 1]
    /\ queue' = enqueue(o, cache[o] + 1)
    /\ UNCHANGED <<past, hubVars, synced, workVars, histVars, countVars>>

\* Mutant: the informers are built without a resync period.
NoResync == FALSE

\* The resync period ends: what is in the stores is handed to UpdateFunc again.
Resync ==
    /\ synced
    /\ \E o \in Objects : ObjectAt(o, cache[o]) # Absent
    /\ queue' = AddAfter(queue, Key)
    /\ UNCHANGED <<past, hubVars, synced, cache, workVars, histVars, countVars>>

\* The debounce or the back-off is over.
DelayOver ==
    /\ Key \in queue.waiting
    /\ queue' = Expire(queue, Key)
    /\ UNCHANGED <<past, hubVars, synced, cache, workVars, histVars, countVars>>

-----------------------------------------------------------------------------
(* The worker: processNext and report.                                     *)

Leave ==
    /\ pc' = "idle" /\ snap' = NothingSeen /\ listed' = NoReleases
    /\ todo' = {} /\ failed' = FALSE

\* report returns nil, having dealt with these states: Forget, and the deferred
\* Done.
ReturnNil(states) ==
    /\ Leave
    /\ queue' = Done(queue, Key)
    /\ done' = states
    /\ UNCHANGED sources

\* report returns an error: AddRateLimited, and the deferred Done.
ReturnError ==
    /\ Leave
    /\ queue' = Done(AddAfter(queue, Key), Key)
    /\ UNCHANGED histVars

\* The worker takes the key of a repository the store no longer has.
reportDeleted ==
    /\ pc = "idle" /\ synced
    /\ Key \in Ready(queue)
    /\ ObjectAt(Source, cache[Source]) = Absent
    /\ queue' = Done(Get(queue, Key), Key)
    /\ UNCHANGED <<past, hubVars, synced, cache, workVars, histVars, countVars>>

\* Mutant: the repository is not looked for before it is used.
processNextUnchecked ==
    /\ pc = "idle" /\ synced
    /\ Key \in Ready(queue)
    /\ queue' = Get(queue, Key)
    /\ pc' = "space" /\ snap' = [NothingSeen EXCEPT ![Source] = cache[Source]]
    /\ UNCHANGED <<past, hubVars, synced, cache, listed, todo, failed, histVars, countVars>>

\* The worker takes the key and reads the repository from the store.
processNext ==
    /\ pc = "idle" /\ synced
    /\ Key \in Ready(queue)
    /\ ObjectAt(Source, cache[Source]) # Absent
    /\ queue' = Get(queue, Key)
    /\ pc' = "space" /\ snap' = [NothingSeen EXCEPT ![Source] = cache[Source]]
    /\ UNCHANGED <<past, hubVars, synced, cache, listed, todo, failed, histVars, countVars>>

\* What a report that reads the Kustomizations now has read.
ReadNow == [cache EXCEPT ![Source] = snap[Source]]

\* The plan for the states with these numbers and these Releases.
PlanFor(v, rs) ==
    UNION {planFluxWrites(now[Source], now, rs) : now \in {StatesAt(v)}}

\* The Space is looked up, and it is one argobot can see.
getSpaceID ==
    /\ pc = "space" /\ visible
    /\ pc' = "list"
    /\ UNCHANGED <<past, hubVars, synced, cache, queue, snap, listed, todo, failed,
                   histVars, countVars>>

listReleases ==
    /\ pc = "list" /\ visible
    /\ listed' = release
    /\ pc' = "plan"
    /\ UNCHANGED <<past, hubVars, synced, cache, queue, snap, todo, failed, histVars,
                   countVars>>

\* Argobot cannot see the Space, at either call: not ours.
NotKnown ==
    /\ pc \in {"space", "list"} /\ ~visible
    /\ ReturnNil(ReadNow)
    /\ UNCHANGED <<past, hubVars, synced, cache, countVars>>

\* The Kustomizations are read from the store, and the writes that would change
\* what was listed are what remains to be done.
Plan ==
    /\ pc = "plan"
    /\ snap' = ReadNow
    /\ todo' = Changes(PlanFor(ReadNow, listed), listed)
    /\ listed' = NoReleases
    /\ pc' = "write"
    /\ UNCHANGED <<past, hubVars, synced, cache, queue, failed, histVars, countVars>>

\* The write that comes next, in ReleaseNum order.
NextWrite == CHOOSE w \in todo : \A other \in todo : w.Release <= other.Release

\* One write is over; the others are made whether or not it failed.
Over(fails) ==
    /\ todo' = todo \ {NextWrite}
    /\ failed' = (failed \/ fails)
    /\ UNCHANGED <<past, visible, published, synced, cache, queue, pc, snap, listed,
                   done, restarts>>

\* ConfigHub replaces every field of the LiveStatus.
ApplyPatch ==
    /\ visible /\ release[NextWrite.Release] # NoRelease
    /\ release' = [release EXCEPT ![NextWrite.Release].live = Received(NextWrite.Status)]
    /\ sources' = [sources EXCEPT ![NextWrite.Release] =
                      {n \in Kusts : Speaks(ObjectAt(n, snap[n]),
                                            release[NextWrite.Release].digest)}]

writeIfChanged ==
    /\ pc = "write" /\ todo # {}
    /\ ApplyPatch
    /\ Over(FALSE)
    /\ UNCHANGED failures

\* The patch is applied and the answer is lost on the way.
writeAnswerLost ==
    /\ pc = "write" /\ todo # {}
    /\ failures < MaxFailures /\ failures' = failures + 1
    /\ ApplyPatch
    /\ Over(TRUE)

writeFails ==
    /\ pc = "write" /\ todo # {}
    /\ failures < MaxFailures /\ failures' = failures + 1
    /\ Over(TRUE)
    /\ UNCHANGED <<release, sources>>

\* The Space or the Release has gone since the list.
writeRefused ==
    /\ pc = "write" /\ todo # {}
    /\ ~visible \/ release[NextWrite.Release] = NoRelease
    /\ Over(TRUE)
    /\ UNCHANGED <<release, sources, failures>>

\* All writes were tried: one that failed makes the whole report fail.
AllWritten ==
    /\ pc = "write" /\ todo = {}
    /\ IF failed THEN ReturnError ELSE ReturnNil(snap)
    /\ UNCHANGED <<past, hubVars, synced, cache, countVars>>

\* A lookup or the list fails.
LookupFails ==
    /\ pc \in {"space", "list"}
    /\ failures < MaxFailures /\ failures' = failures + 1
    /\ ReturnError
    /\ UNCHANGED <<past, hubVars, synced, cache, restarts>>

\* The process ends, whatever it was doing, and is started again.
Restart ==
    /\ restarts < MaxRestarts
    /\ restarts' = restarts + 1
    /\ synced' = FALSE
    /\ cache' = NothingSeen
    /\ queue' = EmptyQueue
    /\ Leave
    /\ done' = NothingSeen
    /\ UNCHANGED <<past, hubVars, sources, failures>>

-----------------------------------------------------------------------------
Report ==
    \/ getSpaceID \/ listReleases \/ NotKnown \/ Plan
    \/ writeIfChanged \/ writeAnswerLost \/ writeFails \/ writeRefused
    \/ AllWritten \/ LookupFails

Next ==
    \/ \E o \in Objects : Change(o) \/ Watch(o)
    \/ HubMoves
    \/ CacheSync \/ Resync \/ DelayOver
    \/ processNext \/ reportDeleted
    \/ Report
    \/ Restart

Spec == Init /\ [][Next]_vars

\* As for the Argo CD reporter: what the process does by itself it keeps doing.
\* The queue holds one key, which is ready until it is taken.  That a report
\* comes to an end is weak fairness of Report, which is enabled until it has, put
\* without the plan.
Fairness ==
    /\ WF_vars(CacheSync) /\ WF_vars(Resync) /\ WF_vars(DelayOver)
    /\ \A o \in Objects : WF_vars(Watch(o))
    /\ WF_vars(processNext \/ reportDeleted)
    /\ []<>(pc = "idle")

FairSpec == Spec /\ Fairness

-----------------------------------------------------------------------------
(* Properties.                                                             *)

ObjectsTypeOK ==
    /\ DOMAIN past = Objects
    /\ \A o \in Objects : past[o] \in Seq(States(o) \cup {Absent})
    /\ cache \in [Objects -> Nat] /\ snap \in [Objects -> Nat] /\ done \in [Objects -> Nat]
    /\ \A o \in Objects :
          snap[o] <= cache[o] /\ done[o] <= cache[o] /\ cache[o] <= Newest[o]

WorkerTypeOK ==
    /\ synced \in BOOLEAN /\ failed \in BOOLEAN
    /\ queue \in QueueOver({Key})
    /\ pc \in {"idle", "space", "list", "plan", "write"}
    /\ pc # "idle" => synced /\ ObjectAt(Source, snap[Source]) # Absent
    /\ failures \in 0..MaxFailures /\ restarts \in 0..MaxRestarts

StatusesOK ==
    /\ visible \in BOOLEAN /\ published \in 0..MaxReleases
    /\ {release, listed} \subseteq [ReleaseIds -> Releases \cup {NoRelease}]
    /\ \A r \in ReleaseIds : release[r] # NoRelease => r <= published
    /\ todo \subseteq [Release : ReleaseIds, Status : Statuses]

\* Every variable has its type; a snapshot is never ahead of the store, nor the
\* store ahead of the cluster; a status names whom it is from.
TypeOK == ObjectsTypeOK /\ WorkerTypeOK /\ StatusesOK

\* The report under way deals with the newest state the store has of o: the
\* Kustomizations are read late, the repository was read first.
WillRead(o) ==
    /\ pc # "idle"
    /\ o = Source \/ pc = "write" => snap[o] = cache[o]

\* No update is lost between two informers and ConfigHub (enqueue, processNext,
\* report): while the store holds a state of the repository or of a Kustomization
\* that no successful report has dealt with, the key is queued or the report under
\* way deals with it, whichever object changed in the middle of which call.
NoLostFluxUpdate ==
    \A o \in Objects :
        /\ synced
        /\ ObjectAt(Source, cache[Source]) # Absent /\ ObjectAt(o, cache[o]) # Absent
        /\ done[o] # cache[o]
        => Pending(queue, Key) \/ WillRead(o)

\* Why NoLostFluxUpdate holds: while a report goes on with an older state than the
\* store's, its key is in the queue again.
StaleReportIsFollowed ==
    pc # "idle" => \A o \in Objects :
        /\ ObjectAt(Source, cache[Source]) # Absent /\ ObjectAt(o, cache[o]) # Absent
        /\ ~WillRead(o)
        => Pending(queue, Key)

\* The Releases once these writes were made.
Carried(writes, rs) ==
    [r \in ReleaseIds |->
        IF \E w \in writes : w.Release = r
        THEN [rs[r] EXCEPT !.live = Received((CHOOSE w \in writes : w.Release = r).Status)]
        ELSE rs[r]]

\* What the worker would write to these Releases now, and the Releases then.
ToWrite(rs) == Changes(PlanFor(ReadNow, rs), rs)

After(rs) == Carried(ToWrite(rs), rs)

\* The Release holds what the write says, as JSON gave it back: a message cut in the
\* middle of a rune never equals the one that was read.
SameAgain(w, rs) ==
    rs[w.Release] # NoRelease /\ rs[w.Release].live = Received(w.Status)

\* A mark whose DataSource ends inside a namespace, and nothing but its DataSource,
\* is rewritten.
Garbles(w, rs) ==
    LET old == rs[w.Release].live
    IN  /\ old # NoStatus /\ fluxMarkedReplaced(old)
        /\ \E i \in DOMAIN old.DataSource : old.DataSource[i] = CutNamespace
        /\ w.Status = [old EXCEPT !.DataSource = w.Status.DataSource]

\* "Each write is compared with the status the Release already has in ConfigHub, so
\* an unchanged state, or a restart, writes nothing" (README, Flux, on
\* planFluxWrites and writeIfChanged), and what the code makes of it: whatever
\* statuses earlier reports and their failed writes have left on the Releases that
\* were listed, once the plan the worker is about to make was carried out, the next
\* one rewrites at most the DataSources of marks that end inside a namespace, and
\* the one after it nothing.  Only a message cut in the middle of a rune is written
\* again each time.
PlanIsStable ==
    pc = "plan" =>
        LET once == After(listed)  twice == After(once)
        IN  /\ \A w \in ToWrite(once) : SameAgain(w, once) \/ Garbles(w, once)
            /\ \A w \in ToWrite(twice) : SameAgain(w, twice)

\* A failure is the only record there is of it (fluxReplacedStatus): the step that
\* marks a failed Release replaced keeps its operation and reason, and behind the
\* mark what fits of its message, though the status it writes comes from a list made
\* earlier.
FailureIsKept ==
    [][\A r \in ReleaseIds :
         /\ release[r] # NoRelease /\ release'[r] # NoRelease
         /\ release[r].live # NoStatus /\ release[r].live.Part.Operation = "Failed"
         /\ ~fluxMarkedReplaced(release[r].live) /\ fluxMarkedReplaced(release'[r].live)
         => LET old == release[r].live  new == release'[r].live
            IN  /\ new.Part.Operation = "Failed"
                /\ new.Part.ReporterOperation = old.Part.ReporterOperation
                /\ HasBehind(new.Message, old.Message)]_vars

\* Nothing else is left to write than what is there, and the last report that returned nil had read the
\* newest state of every object, those that are gone included.
Settled ==
    /\ \A w \in todo : SameAgain(w, release)
    /\ ObjectAt(Source, Newest[Source]) # Absent => done = Newest

\* Once the Space stays in sight, the statuses come to rest (report, the resync):
\* the newest states are reported, after lost answers, failed writes and
\* Kustomizations that went without an event to report, and from then on the
\* plans that the resync keeps asking for have nothing to write.
FluxSettles == []visible ~> []Settled

\* A Release is still Synced though every Kustomization runs another Release of
\* the Space, one among them that the status is from.
Lingers ==
    \E r \in ReleaseIds, d \in Digests :
        /\ release[r] # NoRelease /\ release[r].live # NoStatus
        /\ release[r].live.Part.Sync = "Synced"
        /\ ByDigest(release, d) \notin {0, r}
        /\ \A n \in Kusts :
              LET k == ObjectAt(n, Newest[n])
              IN  k = Absent \/ (fluxApplied(k) /\ RunningDigest(k) = d)
        /\ \E n \in sources[r] : ObjectAt(n, Newest[n]) # Absent

\* "A Release argobot reported on for this repository that is neither run nor
\* attempted any more is marked replaced, so a stale status does not linger"
\* (the comment on fluxReporter): once the Space and the repository stay, none
\* stays Synced whose Kustomization has moved on.
StaleIsReplaced ==
    [](visible /\ ObjectAt(Source, Newest[Source]) # Absent) ~> []~Lingers
=============================================================================
