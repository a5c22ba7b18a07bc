----------------------- MODULE SveltosReporter_proofs -----------------------
(***************************************************************************)
(* Proofs about SveltosReporter, for every value of its constants: its     *)
(* type invariant, that no update of a report or a ClusterSummary is lost, *)
(* and that the cached match is the one that would be made now.            *)
(***************************************************************************)
EXTENDS SveltosReporter, WorkQueue_proofs, TLAPS

-----------------------------------------------------------------------------
(* Facts about single steps.                                               *)

\* A change appends a state and leaves the earlier ones alone.
LEMMA ChangeKeeps ==
    ASSUME ClusterTypeOK, NEW o \in Objects, Change(o), NEW b \in Objects
    PROVE  /\ DOMAIN past' = Objects
           /\ past'[b] \in Seq(States(b) \cup {Absent})
           /\ Newest[b] \in Nat /\ Newest'[b] \in Nat
           /\ Newest[b] <= Newest'[b]
           /\ \A v \in 1..Newest[b] : past'[b][v] = past[b][v]
<1>1. PICK s \in States(o) \cup {Absent} : past' = [past EXCEPT ![o] = Append(@, s)]
  BY DEF Change
<1>2. DOMAIN past = Objects /\ past[b] \in Seq(States(b) \cup {Absent})
  BY DEF ClusterTypeOK
<1>3. Newest[b] = Len(past[b]) /\ Newest'[b] = Len(past'[b])
  BY DEF Newest
<1>4. CASE b = o
  <2>1. past'[b] = Append(past[b], s)
    BY <1>1, <1>2, <1>4
  <2> QED
    BY <1>1, <1>2, <1>3, <1>4, <2>1
<1>5. CASE b # o
  <2>1. past'[b] = past[b]
    BY <1>1, <1>2, <1>5
  <2> QED
    BY <1>1, <1>2, <1>3, <2>1
<1> QED
  BY <1>4, <1>5

\* A step of a report leaves the cluster and the stores alone, and either ends
\* the report or keeps its key, what it has read and the queue.
LEMMA ReportFrame ==
    ASSUME Report
    PROVE  /\ pc # "idle"
           /\ UNCHANGED <<past, storeVars>>
           /\ ReturnNil \/ ReturnError \/ UNCHANGED <<key, snap, queue, done>>
<1>1. CASE FindCached \/ listReleases \/ Send
  BY <1>1 DEF FindCached, listReleases, Send, Stay
<1>2. ASSUME NEW r \in tries, FindCovering(r) \/ TryNext(r)
      PROVE  /\ pc # "idle"
             /\ UNCHANGED <<past, storeVars, key, snap, queue, done>>
  BY <1>2 DEF FindCovering, TryNext, LooksAt, Stay
<1>3. \A fails \in BOOLEAN : Over(fails) =>
          ReturnNil \/ ReturnError \/ UNCHANGED <<key, snap, queue, done>>
  BY DEF Over
<1>4. CASE NotKnown \/ NoneCovers \/ Suppress \/ patchRelease \/ patchAnswerLost \/ Refused
  BY <1>3, <1>4 DEF NotKnown, NoneCovers, Suppress, patchRelease, patchAnswerLost,
                    Refused, Untouched
<1>5. CASE CallFails
  BY <1>3, <1>5 DEF CallFails, Untouched, LooksAt
<1> QED
  BY <1>1, <1>2, <1>4, <1>5 DEF Report

-----------------------------------------------------------------------------
(* The type invariant.                                                     *)

\* TypeOK holds initially.
LEMMA TypeInit == Init => TypeOK
<1> SUFFICES ASSUME Init PROVE TypeOK
  OBVIOUS
<1>1. ClusterTypeOK
  BY PastAssumption DEF Init, ClusterTypeOK
<1>2. HubTypeOK
  <2>1. published \in 0..MaxReleases /\ visible \subseteq Spaces
    BY ReleasesAssumption, BoundsAssumption DEF Init
  <2>2. \A r \in ReleaseIds : release[r] \in Releases \cup {NoRelease}
    BY ReleasesAssumption, BoundsAssumption DEF Init, ReleaseIds
  <2>3. \A r \in ReleaseIds : release[r] # NoRelease => r <= published
    BY DEF Init
  <2>4. release = [r \in ReleaseIds |-> release[r]]
    BY DEF Init
  <2>5. DOMAIN live = ReleaseIds /\ \A r \in ReleaseIds : live[r] = NoStatus
    BY DEF Init
  <2> QED
    BY <2>1, <2>2, <2>3, <2>4, <2>5 DEF HubTypeOK
<1>3. StoreTypeOK
  <2>1. queue \in QueueOver(Reports)
    BY DEF Init, EmptyQueue, QueueOver
  <2>2. \A o \in Objects : cache[o] <= Newest[o]
    BY PastAssumption DEF Init, NothingSeen, Newest
  <2> QED
    BY <2>1, <2>2 DEF Init, NothingSeen, StoreTypeOK, Informers, Objects
<1>4. WorkerTypeOK
  <2>1. pc = "idle" /\ key = None /\ failed = FALSE /\ listed = {} /\ tries = {}
    BY DEF Init
  <2>2. snap \in [Objects -> Nat] /\ \A o \in Objects : snap[o] <= cache[o]
    BY DEF Init, NothingSeen
  <2> QED
    BY <2>1, <2>2 DEF WorkerTypeOK
<1>5. MemoTypeOK
  BY DEF Init, NothingSeen, MemoTypeOK
<1>6. CountsOK
  BY BoundsAssumption DEF Init, CountsOK, FaultCount, FaultKinds
<1> QED
  BY <1>1, <1>2, <1>3, <1>4, <1>5, <1>6 DEF TypeOK

\* What the operations that are no step of a report leave alone.
LEMMA Frames ==
    /\ \A o \in Objects : Change(o) => UNCHANGED <<hubVars, storeVars, queue, workVars, memoVars, done>>
    /\ \A o \in Objects : Watch(o) \/ Resync(o) =>
          UNCHANGED <<past, hubVars, synced, workVars, memoVars, done, counts>>
    /\ HubMoves => UNCHANGED <<past, storeVars, queue, workVars, memoVars, done>>
    /\ \A informer \in Informers : CacheSync(informer) =>
          UNCHANGED <<past, hubVars, workVars, memoVars, done, counts>>
    /\ \A s \in Summaries : enqueueClusterReports(ClusterOf[s]) =>
          UNCHANGED <<past, hubVars, synced, cache, workVars, memoVars, done, counts>>
    /\ \A k \in Reports : DelayOver(k) =>
          UNCHANGED <<past, hubVars, storeVars, workVars, memoVars, done, counts>>
    /\ \A k \in Reports : reportDeleted(k) =>
          UNCHANGED <<past, hubVars, storeVars, workVars, releaseMatches, bundleRevisions,
                      done, counts>>
    /\ \A k \in Reports : reportNothing(k) =>
          UNCHANGED <<past, hubVars, storeVars, workVars, memoVars, counts>>
    /\ \A k \in Reports : processNext(k) =>
          UNCHANGED <<past, hubVars, storeVars, failed, stepVars, memoVars, done, counts>>
    /\ Report => UNCHANGED <<past, storeVars>>
    /\ Restart => UNCHANGED <<past, hubVars>>
BY ReportFrame
DEF Change, Watch, Resync, HubMoves, CacheSync, enqueueClusterReports, DelayOver,
    reportDeleted, reportNothing, processNext, Restart

\* Only a change of an object changes what the objects have been.
LEMMA ClusterTypeStep == TypeOK /\ [Next]_vars => ClusterTypeOK'
<1> SUFFICES ASSUME TypeOK, [Next]_vars PROVE ClusterTypeOK'
  OBVIOUS
<1>1. ASSUME NEW o \in Objects, Change(o) PROVE ClusterTypeOK'
  BY <1>1, ChangeKeeps DEF TypeOK, ClusterTypeOK, States
<1>2. CASE UNCHANGED past
  BY <1>2 DEF TypeOK, ClusterTypeOK, States
<1> QED
  BY <1>1, <1>2, Frames DEF Next, vars

\* States stay where they are, and none but a change adds one.
LEMMA PastGrows ==
    ASSUME TypeOK, [Next]_vars, NEW o \in Objects
    PROVE  /\ Newest[o] \in Nat /\ Newest'[o] \in Nat /\ Newest[o] <= Newest'[o]
           /\ \A v \in 1..Newest[o] : past'[o][v] = past[o][v]
<1>1. Newest[o] = Len(past[o]) /\ past[o] \in Seq(States(o) \cup {Absent})
  BY DEF TypeOK, ClusterTypeOK, Newest
<1>2. ASSUME NEW c \in Objects, Change(c)
      PROVE  /\ Newest'[o] \in Nat /\ Newest[o] <= Newest'[o]
             /\ \A v \in 1..Newest[o] : past'[o][v] = past[o][v]
  BY <1>2, ChangeKeeps DEF TypeOK
<1>3. CASE UNCHANGED past
  BY <1>1, <1>3 DEF Newest
<1> QED
  BY <1>1, <1>2, <1>3, Frames DEF Next, vars

\* ConfigHub's own moves keep its types, and a patch writes on a Release it has.
LEMMA HubTypeStep == TypeOK /\ [Next]_vars => HubTypeOK'
<1> SUFFICES ASSUME TypeOK, [Next]_vars PROVE HubTypeOK'
  OBVIOUS
<1>0. HubTypeOK
  BY DEF TypeOK
<1>1. CASE UNCHANGED hubVars
  BY <1>0, <1>1 DEF hubVars, HubTypeOK
<1>2. ASSUME NEW sp \in Spaces, ShowSpace(sp) \/ HideSpace(sp) PROVE HubTypeOK'
  BY <1>0, <1>2 DEF ShowSpace, HideSpace, HubTypeOK
<1>3. ASSUME NEW sp \in Spaces, NEW bundle \in Bundles, Publish(sp, bundle) PROVE HubTypeOK'
  <2>1. [space |-> sp, bundle |-> bundle, published |-> TRUE] \in Releases
    BY DEF Releases
  <2>2. /\ UNCHANGED <<visible, live>>
        /\ published \in Nat /\ published' = published + 1 /\ published' <= MaxReleases
        /\ release' = [release EXCEPT ![published + 1] =
                         [space |-> sp, bundle |-> bundle, published |-> TRUE]]
    BY <1>0, <1>3, BoundsAssumption DEF Publish, HubTypeOK
  <2>3. release' \in [ReleaseIds -> Releases \cup {NoRelease}]
    BY <1>0, <2>1, <2>2 DEF HubTypeOK
  <2>4. \A r \in ReleaseIds :
          /\ release'[r] # NoRelease => r <= published'
          /\ release[r] # NoRelease => release'[r] # NoRelease
    BY <1>0, <2>1, <2>2, ReleasesAssumption DEF HubTypeOK, ReleaseIds
  <2>5. published' \in 0..MaxReleases /\ visible' \subseteq Spaces
    BY <1>0, <2>2, BoundsAssumption DEF HubTypeOK
  <2>6. DOMAIN live' = ReleaseIds
    BY <1>0, <2>2 DEF HubTypeOK
  <2>7. \A r \in ReleaseIds : live'[r] # NoStatus =>
          /\ release'[r] # NoRelease
          /\ live'[r].by \in Reports
          /\ live'[r].ver \in [Objects -> Nat]
    BY <1>0, <2>2, <2>4 DEF HubTypeOK
  <2> QED
    <3>1. \A r \in ReleaseIds :
            /\ release'[r] # NoRelease => r <= published'
            /\ live'[r] # NoStatus =>
                  /\ release'[r] # NoRelease
                  /\ live'[r].by \in Reports
                  /\ live'[r].ver \in [Objects -> Nat]
      BY <2>4, <2>7
    <3> QED
      BY <2>3, <2>5, <2>6, <3>1 DEF HubTypeOK
<1>4. ASSUME NEW r \in ReleaseIds, Withdraw(r) PROVE HubTypeOK'
  <2>1. release[r] \in Releases /\ [release[r] EXCEPT !.published = FALSE] \in Releases
    BY <1>0, <1>4 DEF Withdraw, HubTypeOK, Releases
  <2>2. release' = [release EXCEPT ![r] = [release[r] EXCEPT !.published = FALSE]]
    BY <1>0, <1>4 DEF Withdraw, HubTypeOK
  <2>3. release' \in [ReleaseIds -> Releases \cup {NoRelease}]
    BY <1>0, <2>1, <2>2 DEF HubTypeOK
  <2>4. \A q \in ReleaseIds : release[q] # NoRelease <=> release'[q] # NoRelease
    BY <1>0, <2>1, <2>2, ReleasesAssumption DEF HubTypeOK
  <2> QED
    BY <1>0, <1>4, <2>3, <2>4 DEF Withdraw, HubTypeOK
<1>5. ASSUME NEW r \in ReleaseIds, DeleteRelease(r) PROVE HubTypeOK'
  BY <1>0, <1>5 DEF DeleteRelease, HubTypeOK
<1>6. CASE pc = "patch" /\ ApplyPatch
  <2>1. target \in ReleaseIds /\ key \in Reports /\ write.ver \in [Objects -> Nat]
    <3>1. target \in listed /\ listed \subseteq 1..published /\ key \in Reports
      BY <1>6 DEF TypeOK, WorkerTypeOK
    <3>2. published \in 0..MaxReleases /\ MaxReleases \in Nat
      BY <1>0, BoundsAssumption DEF HubTypeOK
    <3>3. target \in ReleaseIds
      BY <3>1, <3>2 DEF ReleaseIds
    <3>4. write.ver \in [Objects -> Nat]
      BY <1>6 DEF TypeOK, WorkerTypeOK
    <3> QED
      BY <3>1, <3>3, <3>4
  <2> QED
    BY <1>0, <1>6, <2>1 DEF ApplyPatch, Readable, HubTypeOK
<1>7. CASE Report
  <2>1. CASE FindCached \/ listReleases \/ Send
    BY <1>1, <2>1 DEF FindCached, listReleases, Send, Stay
  <2>2. ASSUME NEW r \in tries, FindCovering(r) \/ TryNext(r) PROVE UNCHANGED hubVars
    BY <2>2 DEF FindCovering, TryNext, Stay
  <2>3. CASE NotKnown \/ NoneCovers \/ Suppress \/ Refused \/ CallFails
    BY <1>1, <2>3 DEF NotKnown, NoneCovers, Suppress, Refused, CallFails, Untouched
  <2>4. CASE patchRelease \/ patchAnswerLost
    BY <1>6, <2>4 DEF patchRelease, patchAnswerLost
  <2> QED
    BY <1>1, <1>7, <2>1, <2>2, <2>3, <2>4 DEF Report
<1>8. CASE HubMoves
  BY <1>2, <1>3, <1>4, <1>5, <1>8 DEF HubMoves
<1> QED
  BY <1>1, <1>7, <1>8, Frames DEF Next, vars

\* What a handler does to the queue and to the clusters notified.
LEMMA HandleKeeps ==
    ASSUME TypeOK, NEW o \in Objects, NEW v, Handle(o, v)
    PROVE  /\ queue' \in QueueOver(Reports)
           /\ notified' \subseteq {ClusterOf[s] : s \in Summaries}
           /\ notified \subseteq notified'
           /\ \A k \in Reports : Pending(queue, k) => Pending(queue', k)
           /\ Present(o, v) /\ o \in Reports => Pending(queue', o)
           /\ Present(o, v) /\ o \in Summaries => ClusterOf[o] \in notified'
<1>1. queue \in QueueOver(Reports) /\ notified \subseteq {ClusterOf[s] : s \in Summaries}
  BY DEF TypeOK, StoreTypeOK
<1>2. CASE UNCHANGED <<queue, notified>> /\ ~Present(o, v)
  BY <1>1, <1>2
<1>3. CASE o \in Reports /\ queue' = Enqueued({o}) /\ UNCHANGED notified
  <2>1. o \notin Summaries
    BY <1>3, ReportsAssumption
  <2> QED
    BY <1>1, <1>3, <2>1 DEF Enqueued, QueueOver, Pending
<1>4. CASE /\ o \in Summaries /\ o \notin Reports
           /\ notified' = notified \cup {ClusterOf[o]} /\ UNCHANGED queue
  BY <1>1, <1>4
<1> QED
  BY <1>2, <1>3, <1>4 DEF Handle, Objects

\* A step of a report that ends it gives its key back to the queue.
LEMMA ReportQueue ==
    ASSUME TypeOK, Report
    PROVE  /\ key \in Reports
           /\ queue' \in QueueOver(Reports)
           /\ \A k \in Reports : Pending(queue, k) => Pending(queue', k)
           /\ ReturnError => Pending(queue', key)
<1>1. key \in Reports /\ queue \in QueueOver(Reports)
  BY ReportFrame DEF TypeOK, WorkerTypeOK, StoreTypeOK
<1>2. CASE queue' = Done(AddAfter(queue, key), key)
  <2>1. AddAfter(queue, key) \in QueueOver(Reports)
    BY <1>1, QueueOperations
  <2>2. queue' \in QueueOver(Reports)
    BY <1>1, <1>2, <2>1, QueueOperations
  <2>3. \A k \in Reports : Pending(queue', k) <=> Pending(AddAfter(queue, key), k)
    BY <1>1, <1>2, <2>1, PendingOperations
  <2>4. \A k \in Reports : Pending(AddAfter(queue, key), k) <=> k = key \/ Pending(queue, k)
    BY <1>1, PendingOperations
  <2> QED
    BY <1>1, <2>2, <2>3, <2>4
<1>3. CASE queue' = Done(queue, key) /\ ~ReturnError
  <2>1. queue' \in QueueOver(Reports)
    BY <1>1, <1>3, QueueOperations
  <2>2. \A k \in Reports : Pending(queue', k) <=> Pending(queue, k)
    BY <1>1, <1>3, PendingOperations
  <2> QED
    BY <1>1, <1>3, <2>1, <2>2
<1>4. CASE UNCHANGED queue /\ ~ReturnError
  BY <1>1, <1>4
<1> QED
  BY <1>2, <1>3, <1>4, ReportFrame DEF ReturnNil, ReturnError

\* The stores never run ahead of the cluster, and an informer that has not synced
\* has an empty one.
LEMMA StoreTypeStep == TypeOK /\ [Next]_vars => StoreTypeOK'
<1> SUFFICES ASSUME TypeOK, [Next]_vars PROVE StoreTypeOK'
  OBVIOUS
<1>0. StoreTypeOK
  BY DEF TypeOK
<1>a. \A o \in Objects : /\ Newest[o] \in Nat /\ Newest'[o] \in Nat
                         /\ cache[o] <= Newest'[o] /\ cache[o] \in Nat
  BY <1>0, PastGrows DEF StoreTypeOK
<1>1. CASE UNCHANGED storeVars /\ queue' \in QueueOver(Reports)
  BY <1>0, <1>1, <1>a DEF StoreTypeOK, storeVars
<1>2. ASSUME NEW o \in Objects, Change(o) PROVE StoreTypeOK'
  BY <1>0, <1>1, <1>2, Frames DEF StoreTypeOK
<1>3. ASSUME NEW o \in Objects, Watch(o) PROVE StoreTypeOK'
  <2>1. /\ UNCHANGED <<past, synced>>
        /\ cache[o] < Newest[o] /\ cache' = [cache EXCEPT ![o] = @ + 1]
        /\ Handle(o, cache[o] + 1)
        /\ \E informer \in synced : o \in informer
    BY <1>3 DEF Watch
  <2>2. cache' \in [Objects -> Nat] /\ \A b \in Objects : cache'[b] <= Newest'[b]
    <3>1. cache \in [Objects -> Nat]
      BY <1>0 DEF StoreTypeOK
    <3>2. Newest' = Newest
      BY <2>1 DEF Newest
    <3> QED
      BY <1>a, <2>1, <3>1, <3>2
  <2>3. \A informer \in Informers \ synced : o \notin informer
    BY <1>0, <2>1, ReportsAssumption DEF Informers, StoreTypeOK
  <2>4. \A informer \in Informers \ synced' : \A b \in informer : cache'[b] = 0
    BY <1>0, <2>1, <2>3 DEF StoreTypeOK
  <2>5. queue' \in QueueOver(Reports) /\ notified' \subseteq {ClusterOf[s] : s \in Summaries}
    BY <2>1, HandleKeeps
  <2> QED
    BY <1>0, <2>1, <2>2, <2>4, <2>5 DEF StoreTypeOK
<1>4. ASSUME NEW o \in Objects, Resync(o) PROVE StoreTypeOK'
  <2>1. UNCHANGED <<past, synced, cache>> /\ Handle(o, cache[o])
    BY <1>4 DEF Resync
  <2>2. queue' \in QueueOver(Reports) /\ notified' \subseteq {ClusterOf[s] : s \in Summaries}
    BY <2>1, HandleKeeps
  <2> QED
    BY <1>0, <1>a, <2>1, <2>2 DEF StoreTypeOK
<1>5. ASSUME NEW informer \in Informers, CacheSync(informer) PROVE StoreTypeOK'
  <2>1. /\ UNCHANGED past /\ Newest' = Newest
        /\ synced' = synced \cup {informer}
        /\ cache' = [o \in Objects |-> IF o \in informer THEN Newest[o] ELSE cache[o]]
    BY <1>5 DEF CacheSync, Newest
  <2>2. \E there \in SUBSET Objects :
           /\ queue' = Enqueued(there \cap Reports)
           /\ notified' = notified \cup {ClusterOf[o] : o \in there \cap Summaries}
    <3>1. informer \subseteq Objects
      BY DEF Informers, Objects
    <3> QED
      BY <1>5, <3>1 DEF CacheSync
  <2>3. queue' \in QueueOver(Reports) /\ notified' \subseteq {ClusterOf[s] : s \in Summaries}
    BY <1>0, <2>2 DEF StoreTypeOK, Enqueued, QueueOver
  <2>4. /\ cache' \in [Objects -> Nat]
        /\ \A o \in Objects : cache'[o] <= Newest'[o]
        /\ \A other \in Informers \ synced' : \A o \in other : cache'[o] = 0
    BY <1>0, <1>a, <2>1, ReportsAssumption DEF StoreTypeOK, Informers, Objects
  <2> QED
    BY <1>0, <2>1, <2>3, <2>4 DEF StoreTypeOK
<1>6. ASSUME NEW s \in Summaries, enqueueClusterReports(ClusterOf[s]) PROVE StoreTypeOK'
  <2>1. queue' \in QueueOver(Reports)
    BY <1>0, <1>6 DEF enqueueClusterReports, Enqueued, QueueOver, StoreTypeOK
  <2> QED
    BY <1>0, <1>6, <1>a, <2>1 DEF enqueueClusterReports, StoreTypeOK
<1>7. ASSUME NEW k \in Reports,
             DelayOver(k) \/ reportDeleted(k) \/ reportNothing(k) \/ processNext(k)
      PROVE  StoreTypeOK'
  <2>1. queue' \in {Expire(queue, k), Done(Get(queue, k), k), Get(queue, k)}
    BY <1>7 DEF DelayOver, reportDeleted, reportNothing, processNext
  <2>2. Get(queue, k) \in QueueOver(Reports)
    BY <1>0, QueueOperations DEF StoreTypeOK
  <2>3. queue' \in QueueOver(Reports)
    BY <1>0, <2>1, <2>2, QueueOperations DEF StoreTypeOK
  <2> QED
    BY <1>1, <1>7, <2>3, Frames
<1>8. CASE Restart
  <2>1. queue' \in QueueOver(Reports)
    BY <1>8 DEF Restart, EmptyQueue, QueueOver
  <2>2. synced' = {} /\ cache' = [o \in Objects |-> 0] /\ notified' = {}
    BY <1>8 DEF Restart, NothingSeen
  <2>3. \A o \in Objects : cache'[o] <= Newest'[o]
    BY <1>a, <2>2
  <2> QED
    BY <2>1, <2>2, <2>3 DEF StoreTypeOK, Informers, Objects
<1>9. CASE HubMoves \/ UNCHANGED vars
  BY <1>0, <1>1, <1>9, Frames DEF vars, StoreTypeOK
<1>10. CASE Report
  BY <1>1, <1>10, ReportQueue, Frames
<1> QED
  BY <1>2, <1>3, <1>4, <1>5, <1>6, <1>7, <1>8, <1>9, <1>10 DEF Next

\* The store only moves on, but for a restart, and the Releases are counted up.
LEMMA StoreGrows ==
    ASSUME TypeOK, [Next]_vars, ~Restart
    PROVE  /\ \A o \in Objects : cache[o] \in Nat /\ cache'[o] \in Nat /\ cache[o] <= cache'[o]
           /\ synced \subseteq synced' /\ synced' \subseteq Informers
           /\ published \in Nat /\ published' \in Nat /\ published <= published'
<1>0. cache \in [Objects -> Nat] /\ published \in Nat /\ synced \subseteq Informers
  BY BoundsAssumption DEF TypeOK, StoreTypeOK, HubTypeOK
<1>1. \A o \in Objects : Watch(o) => cache' = [cache EXCEPT ![o] = @ + 1]
  BY DEF Watch
<1>2. ASSUME NEW informer \in Informers, CacheSync(informer)
      PROVE  /\ \A o \in Objects : cache'[o] \in Nat /\ cache[o] <= cache'[o]
             /\ synced' = synced \cup {informer}
  <2>1. \A o \in Objects : cache[o] <= Newest[o] /\ Newest[o] \in Nat
    BY PastGrows DEF TypeOK, StoreTypeOK
  <2> QED
    BY <1>0, <1>2, <2>1 DEF CacheSync
<1>3. HubMoves => published' \in {published, published + 1}
  BY DEF HubMoves, ShowSpace, HideSpace, Publish, Withdraw, DeleteRelease
<1>4. Report => UNCHANGED published
  BY DEF Report, FindCached, listReleases, NotKnown, FindCovering, TryNext, NoneCovers,
         Suppress, Send, patchRelease, patchAnswerLost, Refused, CallFails, Stay,
         Untouched, hubVars, ApplyPatch
<1>5. \/ \E o \in Objects : Watch(o) /\ UNCHANGED <<synced, published>>
      \/ \E informer \in Informers : CacheSync(informer) /\ UNCHANGED published
      \/ UNCHANGED <<synced, cache>> /\ published' \in {published, published + 1}
  BY <1>3, <1>4, Frames DEF Next, vars, hubVars, storeVars, Resync
<1> QED
  BY <1>0, <1>1, <1>2, <1>5

\* The state a report was read in stays what it was.
LEMMA ReadStays ==
    ASSUME TypeOK, [Next]_vars, pc # "idle"
    PROVE  /\ key \in Reports
           /\ past'[key][snap[key]] = past[key][snap[key]]
           /\ snap[key] # 0
           /\ ObjectAt(key, snap[key]) = past[key][snap[key]]
<1>1. key \in Objects /\ key \in Reports /\ Present(key, snap[key])
  BY DEF TypeOK, WorkerTypeOK, Objects
<1>2. snap[key] \in Nat /\ snap[key] <= cache[key] /\ cache[key] <= Newest[key]
      /\ cache[key] \in Nat
  BY <1>1 DEF TypeOK, WorkerTypeOK, StoreTypeOK
<1>3. snap[key] # 0
  BY <1>1 DEF Present, ObjectAt
<1>4. snap[key] \in 1..Newest[key]
  BY <1>1, <1>2, <1>3, PastGrows
<1> QED
  BY <1>1, <1>3, <1>4, PastGrows DEF ObjectAt

\* What the worker has found stays found while others move.
LEMMA WorkerStays ==
    ASSUME TypeOK, [Next]_vars, ~Restart, UNCHANGED workVars
    PROVE  WorkerTypeOK'
<1>0. WorkerTypeOK
  BY DEF TypeOK
<1>1. \A o \in Objects : snap[o] <= cache'[o]
  BY <1>0, StoreGrows DEF WorkerTypeOK
<1>2. pc = "patch" => \A o \in Objects : write.ver[o] <= cache'[o]
  BY <1>0, StoreGrows DEF WorkerTypeOK
<1>3. pc # "idle" => synced' = Informers
  BY <1>0, StoreGrows DEF WorkerTypeOK
<1>4. pc # "idle" => ObjectAt(key, snap[key])' = ObjectAt(key, snap[key])
  BY ReadStays DEF ObjectAt, workVars
<1>5. listed \subseteq 1..published'
  BY <1>0, StoreGrows DEF WorkerTypeOK
<1> QED
  BY <1>0, <1>1, <1>2, <1>3, <1>4, <1>5 DEF WorkerTypeOK, workVars, stepVars, Present

\* The worker that has nothing under way is well-typed whatever the others do.
LEMMA LeaveTyped == TypeOK /\ Leave /\ cache' \in [Objects -> Nat] => WorkerTypeOK'
<1> SUFFICES ASSUME TypeOK, Leave, cache' \in [Objects -> Nat] PROVE WorkerTypeOK'
  OBVIOUS
<1>1. /\ pc' = "idle" /\ key' = None /\ failed' = FALSE
      /\ listed' = {} /\ tries' = {} /\ snap' = [o \in Objects |-> 0]
  BY DEF Leave, NoStep, NothingSeen
<1>2. snap' \in [Objects -> Nat] /\ \A o \in Objects : snap'[o] <= cache'[o]
  BY <1>1
<1> QED
  BY <1>1, <1>2 DEF WorkerTypeOK

\* After a Space is over, the worker has left or goes on to one that is shown.
LEMMA OverTyped ==
    ASSUME TypeOK, pc # "idle", UNCHANGED <<past, storeVars>>,
           NEW fails \in BOOLEAN, Over(fails)
    PROVE  WorkerTypeOK'
<1>0. WorkerTypeOK /\ cache \in [Objects -> Nat]
  BY DEF TypeOK, StoreTypeOK
<1>1. CASE ReturnNil \/ ReturnError
  BY <1>0, <1>1, LeaveTyped DEF ReturnNil, ReturnError, storeVars
<1>2. CASE /\ todo' = todo \ {space} /\ space' \in todo'
           /\ failed' = (failed \/ fails) /\ pc' = "list"
           /\ NoStep /\ UNCHANGED <<key, snap>>
  <2>1. ObjectAt(key, snap[key])' = ObjectAt(key, snap[key])
    BY <1>2 DEF ObjectAt
  <2>2. listed' = {} /\ tries' = {} /\ pc' = "list"
    BY <1>2 DEF NoStep
  <2>3. /\ key' \in Reports /\ synced' = Informers /\ ClusterOf[key'] # NoCluster
        /\ Present(key, snap[key])'
        /\ todo' \subseteq DOMAIN observeSpaces(ObjectAt(key, snap[key])')
        /\ space' \in todo'
    BY <1>0, <1>2, <2>1 DEF WorkerTypeOK, storeVars, Present
  <2>4. /\ snap' \in [Objects -> Nat] /\ \A o \in Objects : snap'[o] <= cache'[o]
        /\ failed' \in BOOLEAN
    BY <1>0, <1>2 DEF WorkerTypeOK, storeVars
  <2> QED
    BY <2>2, <2>3, <2>4 DEF WorkerTypeOK
<1> QED
  BY <1>1, <1>2 DEF Over, IsFirst

\* Each step of a report finds what the next step relies on.
LEMMA WorkerTypeStep == TypeOK /\ [Next]_vars => WorkerTypeOK'
<1> SUFFICES ASSUME TypeOK, [Next]_vars PROVE WorkerTypeOK'
  OBVIOUS
<1>0. WorkerTypeOK /\ cache \in [Objects -> Nat]
  BY DEF TypeOK, StoreTypeOK
<1>1. CASE UNCHANGED workVars /\ ~Restart
  BY <1>1, WorkerStays
<1>2. CASE Restart
  BY <1>2, LeaveTyped DEF Restart, NothingSeen
<1>3. ASSUME NEW k \in Reports, processNext(k) PROVE WorkerTypeOK'
  <2>1. /\ pc = "idle" /\ synced = Informers
        /\ Present(k, cache[k]) /\ ClusterOf[k] # NoCluster
        /\ pc' = "list" /\ key' = k /\ snap' = Stored(k)
        /\ todo' = DOMAIN observeSpaces(ObjectAt(k, cache[k])) /\ space' \in todo'
        /\ UNCHANGED <<past, hubVars, storeVars, failed, stepVars>>
    BY <1>3 DEF processNext, Taken, IsFirst
  <2>2. k \in Objects /\ k \in About(k)
    BY DEF Objects, About
  <2>3. /\ snap' \in [Objects -> Nat] /\ snap'[k] = cache[k]
        /\ \A o \in Objects : snap'[o] <= cache'[o]
    BY <1>0, <2>1, <2>2 DEF Stored, storeVars
  <2>4. ObjectAt(key, snap[key])' = ObjectAt(k, cache[k])
    BY <2>1, <2>3 DEF ObjectAt
  <2>5. listed' \subseteq 1..published' /\ tries' \subseteq listed' /\ tries' = {}
    BY <1>0, <2>1 DEF WorkerTypeOK, stepVars, hubVars
  <2> QED
    BY <1>0, <2>1, <2>3, <2>4, <2>5 DEF WorkerTypeOK, storeVars, Present
<1>4. CASE Report
  <2>0. /\ pc # "idle" /\ UNCHANGED <<past, storeVars>>
    BY <1>4, ReportFrame
  <2>1. ASSUME /\ UNCHANGED <<past, storeVars, key, snap, todo, space, failed, published>>
               /\ listed' \subseteq 1..published /\ tries' \subseteq listed'
               /\ tries' # {} => pc' = "match"
               /\ pc' \in {"match", "compare", "patch"}
               /\ pc' \in {"compare", "patch"} => target' \in listed'
               /\ pc' = "patch" => /\ write'.ver \in [Objects -> Nat]
                                   /\ \A o \in Objects : write'.ver[o] <= cache[o]
        PROVE WorkerTypeOK'
    <3>1. ObjectAt(key, snap[key])' = ObjectAt(key, snap[key])
      BY <2>1 DEF ObjectAt
    <3> QED
      BY <1>0, <2>0, <2>1, <3>1 DEF WorkerTypeOK, storeVars, Present
  <2>2. PublishedNow \subseteq 1..published
    <3>1. \A r \in ReleaseIds : release[r] # NoRelease => r \in 1..published
      BY BoundsAssumption DEF TypeOK, HubTypeOK, ReleaseIds
    <3> QED
      BY <3>1 DEF PublishedNow
  <2>3. CASE FindCached
    <3>1. space \in Spaces
      BY <1>0, <2>3 DEF FindCached, TypeOK, HubTypeOK
    <3>2. releaseMatches[space].release \in releaseMatches[space].key.published
      BY <2>3, <3>1 DEF FindCached, Matched, TypeOK, MemoTypeOK
    <3>3. releaseMatches[space].key.published = PublishedNow
      BY <2>3 DEF FindCached, Matched, MatchKey, releaseMatchKey
    <3> QED
      BY <1>0, <2>1, <2>2, <2>3, <3>2, <3>3 DEF FindCached, Stay, hubVars, WorkerTypeOK
  <2>4. CASE listReleases
    BY <2>1, <2>2, <2>4 DEF listReleases, Stay, hubVars
  <2>5. ASSUME NEW r \in tries, FindCovering(r) \/ TryNext(r) PROVE WorkerTypeOK'
    BY <1>0, <2>1, <2>5 DEF FindCovering, TryNext, LooksAt, Stay, hubVars, WorkerTypeOK
  <2>6. CASE Send
    <3>1. write'.ver = FromNow
      BY <2>6 DEF Send
    <3>2. FromNow \in [Objects -> Nat] /\ \A o \in Objects : FromNow[o] <= cache[o]
      <4>1. Stored(key) \in [Objects -> Nat] /\ \A o \in Objects : Stored(key)[o] <= cache[o]
        BY <1>0 DEF Stored
      <4>2. snap[key] \in Nat /\ snap[key] <= cache[key] /\ key \in Objects
        BY <1>0, <2>0 DEF WorkerTypeOK, Objects
      <4> QED
        BY <4>1, <4>2 DEF FromNow
    <3> QED
      BY <1>0, <2>1, <2>6, <3>1, <3>2 DEF Send, Stay, hubVars, WorkerTypeOK
  <2>7. CASE \E fails \in BOOLEAN : Over(fails)
    BY <2>0, <2>7, OverTyped
  <2>8. CASE NotKnown \/ NoneCovers \/ Suppress \/ patchRelease \/ patchAnswerLost
               \/ Refused \/ CallFails
    BY <2>7, <2>8 DEF NotKnown, NoneCovers, Suppress, patchRelease, patchAnswerLost,
                      Refused, CallFails
  <2> QED
    BY <1>4, <2>3, <2>4, <2>5, <2>6, <2>8 DEF Report
<1> QED
  BY <1>1, <1>2, <1>3, <1>4, Frames DEF Next, vars

\* A match is one of the Releases it was made from, all of them published before.
LEMMA MemoTypeStep == TypeOK /\ [Next]_vars => MemoTypeOK'
<1> SUFFICES ASSUME TypeOK, [Next]_vars PROVE MemoTypeOK'
  OBVIOUS
<1> DEFINE Sigs    == lastSig' = [k \in Reports |-> [sp \in Spaces |-> lastSig'[k][sp]]]
           Matches ==
             /\ DOMAIN releaseMatches' = Spaces
             /\ \A sp \in Spaces : releaseMatches'[sp] # NoMatch =>
                   /\ releaseMatches'[sp].release \in releaseMatches'[sp].key.published
                   /\ releaseMatches'[sp].key.published \subseteq 1..published'
           Dones   == done' \in [Reports -> [Objects -> Nat]]
<1>0. MemoTypeOK /\ cache \in [Objects -> Nat] /\ snap \in [Objects -> Nat]
  BY DEF TypeOK, StoreTypeOK, WorkerTypeOK
<1>1. Sigs
  <2>1. CASE UNCHANGED lastSig
    BY <1>0, <2>1 DEF MemoTypeOK
  <2>2. ASSUME NEW k \in Reports, reportDeleted(k) PROVE Sigs
    BY <1>0, <2>2 DEF MemoTypeOK, reportDeleted
  <2>3. CASE patchRelease
    <3>1. key \in Reports
      BY <2>3 DEF patchRelease, TypeOK, WorkerTypeOK
    <3>2. lastSig' = [lastSig EXCEPT ![key][space] =
                        [release |-> target, status |-> write.status]]
      BY <2>3 DEF patchRelease
    <3> QED
      BY <1>0, <3>1, <3>2 DEF MemoTypeOK
  <2>4. CASE Restart
    BY <2>4 DEF Restart
  <2>5. Report => patchRelease \/ UNCHANGED lastSig
    BY DEF Report, FindCached, listReleases, NotKnown, FindCovering, TryNext, NoneCovers,
           Suppress, Send, patchAnswerLost, Refused, CallFails, memoVars
  <2> QED
    BY <2>1, <2>2, <2>3, <2>4, <2>5, Frames DEF Next, vars, memoVars
<1>2. Matches /\ DOMAIN bundleRevisions' = ReleaseIds
  <2>1. CASE UNCHANGED <<releaseMatches, bundleRevisions>> /\ ~Restart
    BY <1>0, <2>1, StoreGrows DEF MemoTypeOK
  <2>2. ASSUME NEW r \in tries, FindCovering(r) \/ TryNext(r)
        PROVE  Matches /\ DOMAIN bundleRevisions' = ReleaseIds
    <3>1. /\ r \in listed /\ listed \subseteq 1..published /\ published' = published
          /\ listed' = listed
      BY <2>2 DEF FindCovering, TryNext, Stay, hubVars, TypeOK, WorkerTypeOK
    <3>2. DOMAIN bundleRevisions' = ReleaseIds
      BY <1>0, <2>2 DEF FindCovering, TryNext, Remember, MemoTypeOK
    <3>3. \/ UNCHANGED releaseMatches
          \/ releaseMatches' = [releaseMatches EXCEPT ![space] =
                                  [key |-> MatchKey(listed), release |-> r]]
      BY <2>2 DEF FindCovering, TryNext
    <3>4. MatchKey(listed).published = listed
      BY DEF MatchKey, releaseMatchKey
    <3> QED
      BY <1>0, <3>1, <3>2, <3>3, <3>4 DEF MemoTypeOK
  <2>3. CASE Restart
    BY <2>3 DEF Restart
  <2>4. Report => \/ \E r \in tries : FindCovering(r) \/ TryNext(r)
                  \/ UNCHANGED <<releaseMatches, bundleRevisions>>
    BY DEF Report, FindCached, listReleases, NotKnown, NoneCovers, Suppress, Send,
           patchRelease, patchAnswerLost, Refused, CallFails, memoVars
  <2> QED
    BY <2>1, <2>2, <2>3, <2>4, Frames DEF Next, vars, memoVars
<1>3. Dones
  <2>1. CASE UNCHANGED done
    BY <1>0, <2>1 DEF MemoTypeOK
  <2>2. ASSUME NEW k \in Reports, reportNothing(k) PROVE Dones
    BY <1>0, <2>2 DEF MemoTypeOK, reportNothing, Stored
  <2>3. CASE ReturnNil
    BY <1>0, <2>3 DEF MemoTypeOK, ReturnNil
  <2>4. CASE Restart
    BY <2>4 DEF Restart, NothingSeen
  <2>5. Report => ReturnNil \/ UNCHANGED done
    BY ReportFrame DEF ReturnError
  <2> QED
    BY <2>1, <2>2, <2>3, <2>4, <2>5, Frames DEF Next, vars
<1> HIDE DEF Sigs, Matches, Dones
<1>4. Sigs /\ Matches /\ DOMAIN bundleRevisions' = ReleaseIds /\ Dones
  BY <1>1, <1>2, <1>3
<1> QED
  BY <1>4 DEF MemoTypeOK, Sigs, Matches, Dones

\* What is bounded stays within its bounds.
LEMMA CountsStep == TypeOK /\ [Next]_vars => CountsOK'
<1> SUFFICES ASSUME TypeOK, [Next]_vars PROVE CountsOK'
  OBVIOUS
<1>0. CountsOK /\ {MaxChanges, MaxWithdrawn, MaxFaults} \subseteq Nat
  BY BoundsAssumption DEF TypeOK
<1>1. CASE UNCHANGED counts
  BY <1>0, <1>1 DEF CountsOK, FaultCount
<1>2. CASE counts["change"] < MaxChanges /\ Count("change")
  BY <1>0, <1>2 DEF Count, CountsOK, FaultCount, FaultKinds
<1>3. CASE counts["withdraw"] < MaxWithdrawn /\ Count("withdraw")
  BY <1>0, <1>3 DEF Count, CountsOK, FaultCount, FaultKinds
<1>4. ASSUME NEW kind \in FaultKinds, Fault(kind) PROVE CountsOK'
  BY <1>0, <1>4 DEF Fault, Count, CountsOK, FaultCount, FaultKinds
<1>5. HubMoves => \/ UNCHANGED counts \/ Fault("hide")
                  \/ counts["withdraw"] < MaxWithdrawn /\ Count("withdraw")
  BY DEF HubMoves, ShowSpace, HideSpace, Publish, Withdraw, DeleteRelease
<1>6. Report => UNCHANGED counts \/ Fault("failure") \/ Fault("lost")
  BY DEF Report, FindCached, listReleases, NotKnown, FindCovering, TryNext, NoneCovers,
         Suppress, Send, patchRelease, patchAnswerLost, Refused, CallFails
<1>7. \A o \in Objects : Change(o) => counts["change"] < MaxChanges /\ Count("change")
  BY DEF Change
<1>8. Restart => Fault("restart")
  BY DEF Restart
<1>9. {"hide", "failure", "lost", "restart"} = FaultKinds
  BY DEF FaultKinds
<1> QED
  BY <1>1, <1>2, <1>3, <1>4, <1>5, <1>6, <1>7, <1>8, <1>9, Frames DEF Next, vars

\* Every variable of the Sveltos reporter keeps its type: the store is never ahead
\* of the cluster, a snapshot never ahead of the store, and each step of a report
\* has what the steps before it found (processNext, reportSpace, findRelease).
THEOREM SveltosTypeCorrect == Spec => []TypeOK
<1>1. TypeOK /\ [Next]_vars => TypeOK'
  BY ClusterTypeStep, HubTypeStep, StoreTypeStep, WorkerTypeStep, MemoTypeStep, CountsStep
  DEF TypeOK
<1> QED
  BY TypeInit, <1>1, PTL DEF Spec

-----------------------------------------------------------------------------
(* No update is lost.                                                      *)

\* What is stored of an object does not change with the cluster.
LEMMA PresentStays ==
    ASSUME TypeOK, [Next]_vars, NEW o \in Objects, cache'[o] = cache[o]
    PROVE  Present(o, cache[o])' <=> Present(o, cache[o])
<1>1. cache[o] \in Nat /\ cache[o] <= Newest[o]
  BY DEF TypeOK, StoreTypeOK
<1>2. cache[o] # 0 => past'[o][cache[o]] = past[o][cache[o]]
  BY <1>1, PastGrows
<1> QED
  BY <1>2 DEF Present, ObjectAt

\* A report that is waiting keeps waiting until the worker takes it.
LEMMA WaitingStays ==
    ASSUME TypeOK, [Next]_vars, ~Restart, NEW k \in Reports,
           Present(k, cache[k]), Waiting(k)
    PROVE  Waiting(k)' \/ processNext(k) \/ reportNothing(k)
<1>0. /\ queue \in QueueOver(Reports)
      /\ \A b \in Reports : Get(queue, b) \in QueueOver(Reports)
  BY QueueOperations DEF TypeOK, StoreTypeOK
<1>1. ASSUME notified \subseteq notified',
             Pending(queue, k) => Pending(queue', k)
      PROVE  Waiting(k)'
  BY <1>1 DEF Waiting
<1>2. ASSUME NEW o \in Objects, Watch(o) \/ Resync(o) PROVE Waiting(k)'
  <2>1. Handle(o, cache[o] + 1) \/ Handle(o, cache[o])
    BY <1>2 DEF Watch, Resync
  <2> QED
    BY <1>1, <2>1, HandleKeeps
<1>3. ASSUME NEW informer \in Informers, CacheSync(informer) PROVE Waiting(k)'
  <2>1. notified \subseteq notified' /\ \E keys : queue' = Enqueued(keys)
    BY <1>3 DEF CacheSync
  <2>2. Pending(queue, k) => Pending(queue', k)
    BY <1>0, <2>1 DEF Enqueued, QueueOver, Pending
  <2> QED
    BY <1>1, <2>1, <2>2
<1>4. ASSUME NEW s \in Summaries, enqueueClusterReports(ClusterOf[s]) PROVE Waiting(k)'
  <2>1. /\ notified' = notified \ {ClusterOf[s]}
        /\ queue' = Enqueued({b \in Reports : /\ ClusterOf[b] = ClusterOf[s]
                                              /\ Present(b, cache[b])})
    BY <1>4 DEF enqueueClusterReports
  <2>2. CASE ClusterOf[k] = ClusterOf[s] \/ Pending(queue, k)
    BY <1>0, <2>1, <2>2 DEF Enqueued, QueueOver, Pending, Waiting
  <2>3. CASE ClusterOf[k] # ClusterOf[s] /\ ClusterOf[k] \in notified
    BY <2>1, <2>3 DEF Waiting
  <2> QED
    BY <2>2, <2>3 DEF Waiting
<1>5. ASSUME NEW b \in Reports, DelayOver(b) PROVE Waiting(k)'
  <2>1. queue' = Expire(queue, b) /\ notified' = notified
    BY <1>5 DEF DelayOver, storeVars
  <2> QED
    BY <1>0, <1>1, <2>1, PendingOperations
<1>6. ASSUME NEW b \in Reports, b # k, reportDeleted(b) \/ reportNothing(b) \/ processNext(b)
      PROVE  Waiting(k)'
  <2>1. queue' \in {Done(Get(queue, b), b), Get(queue, b)} /\ notified' = notified
    BY <1>6 DEF reportDeleted, reportNothing, processNext, storeVars
  <2>2. Pending(queue, k) => Pending(Get(queue, b), k)
    BY <1>0, <1>6, PendingOperations
  <2>3. Pending(Done(Get(queue, b), b), k) <=> Pending(Get(queue, b), k)
    BY <1>0, PendingOperations
  <2> QED
    BY <1>1, <2>1, <2>2, <2>3
<1>7. ~reportDeleted(k)
  BY DEF reportDeleted
<1>8. CASE Report
  BY <1>1, <1>8, ReportQueue, ReportFrame DEF storeVars
<1>9. \A o \in Objects : Change(o) => UNCHANGED <<queue, notified>>
  BY DEF Change, storeVars
<1>10. HubMoves \/ UNCHANGED vars => UNCHANGED <<queue, notified>>
  BY DEF HubMoves, storeVars, vars
<1> QED
  BY <1>1, <1>2, <1>3, <1>4, <1>5, <1>6, <1>7, <1>8, <1>9, <1>10 DEF Next

\* A state that reaches a store makes every report it is about wait.
LEMMA StoredIsWaiting ==
    ASSUME TypeOK, [Next]_vars, ~Restart, NEW k \in Reports, NEW o \in About(k),
           Present(k, cache[k])', Present(o, cache[o])',
           cache'[k] # cache[k] \/ cache'[o] # cache[o]
    PROVE  Waiting(k)'
<1>0. /\ cache \in [Objects -> Nat] /\ queue \in QueueOver(Reports)
      /\ k \in Objects /\ o \in Objects
      /\ o # k => o \in Summaries /\ o \notin Reports /\ ClusterOf[o] = ClusterOf[k]
  BY ReportsAssumption DEF TypeOK, StoreTypeOK, Objects, About
<1>1. ASSUME NEW c \in Objects, Watch(c) PROVE Waiting(k)'
  <2>1. /\ cache' = [cache EXCEPT ![c] = @ + 1] /\ Handle(c, cache[c] + 1)
        /\ UNCHANGED past
    BY <1>1 DEF Watch
  <2>2. c \in {k, o} /\ cache'[c] = cache[c] + 1
    BY <1>0, <2>1
  <2>3. Present(c, cache[c] + 1)
    BY <2>1, <2>2 DEF Present, ObjectAt
  <2> QED
    BY <1>0, <2>1, <2>2, <2>3, HandleKeeps DEF Waiting
<1>2. ASSUME NEW informer \in Informers, CacheSync(informer) PROVE Waiting(k)'
  <2>1. /\ cache' = [c \in Objects |-> IF c \in informer THEN Newest[c] ELSE cache[c]]
        /\ UNCHANGED past
    BY <1>2 DEF CacheSync
  <2>2. PICK c \in {k, o} : c \in informer /\ cache'[c] = Newest[c]
    BY <1>0, <2>1
  <2>3. Present(c, Newest[c])
    BY <2>1, <2>2 DEF Present, ObjectAt
  <2>4. CASE c = k
    <3>1. k \in {d \in informer : Present(d, Newest[d])} \cap Reports
      BY <2>2, <2>3, <2>4
    <3>2. k \in queue'.waiting
      BY <1>0, <1>2, <3>1 DEF CacheSync, Enqueued, QueueOver
    <3> QED
      BY <3>2 DEF Waiting, Pending
  <2>5. CASE c = o /\ o # k
    <3>1. o \in {d \in informer : Present(d, Newest[d])} \cap Summaries
      BY <1>0, <2>2, <2>3, <2>5
    <3>2. ClusterOf[o] \in notified'
      BY <1>2, <3>1 DEF CacheSync
    <3> QED
      BY <1>0, <2>5, <3>2 DEF Waiting
  <2> QED
    BY <2>2, <2>4, <2>5
<1>3. (\E c \in Objects : Watch(c)) \/ (\E informer \in Informers : CacheSync(informer))
  BY Frames DEF Next, vars, storeVars, Resync
<1> QED
  BY <1>1, <1>2, <1>3

\* A worker that goes on with a report keeps its key and what it has read.
LEMMA SameReport ==
    ASSUME TypeOK, [Next]_vars, pc' # "idle"
    PROVE  \/ \E k \in Reports : processNext(k)
           \/ pc # "idle" /\ key' = key /\ snap' = snap
<1>1. Report => pc # "idle" /\ (pc' = "idle" \/ UNCHANGED <<key, snap>>)
  BY ReportFrame DEF ReturnNil, ReturnError, Leave
<1>2. ~Restart
  BY DEF Restart, Leave
<1>3. CASE UNCHANGED workVars
  BY <1>3 DEF workVars
<1> QED
  BY <1>1, <1>2, <1>3, Frames DEF Next, vars

\* What the worker takes it reads as it is stored.
LEMMA TakenIsStored ==
    ASSUME TypeOK, NEW k \in Reports, processNext(k), NEW o \in About(k)
    PROVE  key' = k /\ snap'[o] = cache[o] /\ cache' = cache
<1>1. o \in Objects
  BY DEF About, Objects
<1> QED
  BY <1>1 DEF processNext, Stored, storeVars

\* No step leaves older states being reported without the report waiting.
LEMMA StaleReportStep ==
    TypeOK /\ StaleReportIsFollowed /\ [Next]_vars => StaleReportIsFollowed'
<1> SUFFICES ASSUME TypeOK, StaleReportIsFollowed, [Next]_vars, pc' # "idle",
                    NEW o \in About(key'), Present(key, cache[key])', Present(o, cache[o])',
                    snap'[o] # cache'[o]
             PROVE  Waiting(key)'
  BY DEF StaleReportIsFollowed, About
<1>1. ASSUME NEW k \in Reports, processNext(k) PROVE FALSE
  <2>1. key' = k
    BY <1>1 DEF processNext
  <2>2. o \in About(k)
    BY <2>1
  <2> QED
    BY <1>1, <2>2, TakenIsStored
<1>2. pc # "idle" /\ key' = key /\ snap' = snap
  BY <1>1, SameReport
<1>3. key \in Reports /\ o \in About(key) /\ key \in Objects /\ o \in Objects
  BY <1>2 DEF TypeOK, WorkerTypeOK, Objects, About
<1>4. ~Restart
  BY DEF Restart, Leave
<1>5. CASE cache'[key] # cache[key] \/ cache'[o] # cache[o]
  BY <1>2, <1>3, <1>4, <1>5, StoredIsWaiting DEF Waiting, Present, ObjectAt
<1>6. CASE cache'[key] = cache[key] /\ cache'[o] = cache[o]
  <2>1. Present(key, cache[key]) /\ Present(o, cache[o])
    BY <1>2, <1>3, <1>6, PresentStays DEF Present, ObjectAt
  <2>2. Waiting(key)
    BY <1>2, <1>3, <1>6, <2>1 DEF StaleReportIsFollowed
  <2>3. ~processNext(key) /\ ~reportNothing(key)
    BY <1>2 DEF processNext, reportNothing, Taken
  <2> QED
    BY <1>2, <1>3, <1>4, <2>1, <2>2, <2>3, WaitingStays DEF Waiting
<1> QED
  BY <1>5, <1>6

\* No step loses an update: a key leaves the queue only to be reported as stored.
LEMMA NoLostUpdateStep ==
    TypeOK /\ StaleReportIsFollowed /\ NoLostSveltosUpdate /\ [Next]_vars
        => NoLostSveltosUpdate'
<1> SUFFICES ASSUME TypeOK, StaleReportIsFollowed, NoLostSveltosUpdate, [Next]_vars,
                    NEW k \in Reports, NEW o \in About(k),
                    Present(k, cache[k])', Present(o, cache[o])', done'[k][o] # cache'[o]
             PROVE  Waiting(k)' \/ (key' = k /\ snap'[o] = cache'[o])
  BY DEF NoLostSveltosUpdate, About
<1>0. k \in Objects /\ o \in Objects /\ (pc = "idle" => key # k)
  BY ReportsAssumption DEF Objects, About, TypeOK, WorkerTypeOK
<1>1. ~Restart
  BY DEF Restart, Present, ObjectAt, NothingSeen
<1>2. CASE cache'[k] # cache[k] \/ cache'[o] # cache[o]
  BY <1>1, <1>2, StoredIsWaiting
<1>3. ASSUME cache'[k] = cache[k], cache'[o] = cache[o]
      PROVE  Waiting(k)' \/ (key' = k /\ snap'[o] = cache'[o])
  <2>1. Present(k, cache[k]) /\ Present(o, cache[o])
    BY <1>0, <1>3, PresentStays
  <2>2. ~reportNothing(k)
    BY <1>0, <1>3 DEF reportNothing, MemoTypeOK, TypeOK, Stored
  <2>3. CASE Waiting(k)
    BY <1>1, <1>3, <2>1, <2>2, <2>3, WaitingStays, TakenIsStored
  <2>4. CASE key = k /\ snap[o] = cache[o]
    <3>1. CASE Report
      <4>1. CASE ReturnNil
        BY <1>3, <2>4, <4>1 DEF ReturnNil, TypeOK, MemoTypeOK
      <4>2. CASE ReturnError
        BY <2>4, <3>1, <4>2, ReportQueue DEF Waiting
      <4> QED
        BY <1>3, <2>4, <3>1, <4>1, <4>2, ReportFrame
    <3>2. CASE UNCHANGED workVars
      BY <1>3, <2>4, <3>2 DEF workVars
    <3>3. \A b \in Reports : ~processNext(b)
      BY <1>0, <2>4 DEF processNext, Taken
    <3> QED
      BY <1>1, <3>1, <3>2, <3>3, Frames DEF Next, vars
  <2>5. CASE done'[k] = done[k]
    BY <1>3, <2>1, <2>3, <2>4, <2>5 DEF NoLostSveltosUpdate
  <2>6. CASE Report /\ ReturnNil /\ key = k
    <3>1. CASE snap[o] = cache[o]
      BY <2>4, <2>6, <3>1
    <3>2. CASE snap[o] # cache[o]
      BY <2>1, <2>3, <2>6, <3>2, ReportFrame DEF StaleReportIsFollowed
    <3> QED
      BY <3>1, <3>2
  <2>7. done'[k] = done[k] \/ (Report /\ ReturnNil /\ key = k)
    <3>1. CASE Report
      <4>1. key # k /\ ReturnNil => done'[k] = done[k]
        BY DEF ReturnNil
      <4> QED
        BY <3>1, <4>1, ReportFrame DEF ReturnError
    <3>2. ASSUME NEW b \in Reports, b # k, reportNothing(b) PROVE done'[k] = done[k]
      BY <3>2 DEF reportNothing
    <3> QED
      BY <1>1, <2>2, <3>1, <3>2, Frames DEF Next, vars
  <2> QED
    BY <2>5, <2>6, <2>7
<1> QED
  BY <1>2, <1>3

\* An update that reached a store is reported, or is still to be reported: the
\* delay of a key, the order of two informers, a report under way, a Space that
\* fails and a restart lose none (enqueue, enqueueClusterReports, processNext).
THEOREM SveltosUpdatesAreKept == Spec => []NoLostSveltosUpdate
<1> DEFINE Inv == TypeOK /\ NoLostSveltosUpdate /\ StaleReportIsFollowed
<1>1. Init => Inv
  <2>1. Init => NoLostSveltosUpdate
    BY DEF Init, NoLostSveltosUpdate, Present, ObjectAt, NothingSeen, Objects
  <2>2. Init => StaleReportIsFollowed
    BY DEF Init, StaleReportIsFollowed
  <2> QED
    BY <2>1, <2>2, TypeInit
<1>2. TypeOK /\ [Next]_vars => TypeOK'
  BY ClusterTypeStep, HubTypeStep, StoreTypeStep, WorkerTypeStep, MemoTypeStep, CountsStep
  DEF TypeOK
<1>3. Inv /\ [Next]_vars => Inv'
  BY <1>2, NoLostUpdateStep, StaleReportStep
<1> QED
  BY <1>1, <1>3, PTL DEF Spec

-----------------------------------------------------------------------------
(* The match is the newest.                                                *)

\* A Space is shown by the revisions it is shown at, and is a Space.
LEMMA ShownHasRevisions ==
    ASSUME NEW report, NEW sp \in DOMAIN observeSpaces(report)
    PROVE  /\ observeSpaces(report)[sp].Revisions # {}
           /\ \E i \in DOMAIN report : report[i].space = sp /\ sp # NoSpace
<1>1. DOMAIN observeSpaces(report) = {report[i].space : i \in DOMAIN report} \ {NoSpace}
  BY DEF observeSpaces
<1>2. PICK i \in DOMAIN report : report[i].space = sp /\ sp # NoSpace
  BY <1>1
<1>3. observeSpaces(report)[sp].Revisions =
        {report[n].revision : n \in {j \in DOMAIN report : report[j].space = sp}}
  BY <1>1 DEF observeSpaces
<1>4. report[i].revision \in
        {report[n].revision : n \in {j \in DOMAIN report : report[j].space = sp}}
  BY <1>2
<1> QED
  BY <1>2, <1>3, <1>4

\* The Space under way is one, and something is seen of it.
LEMMA UnderWay ==
    ASSUME TypeOK, pc # "idle"
    PROVE  space \in Spaces /\ Observed.Revisions # {}
<1> DEFINE report == ObjectAt(key, snap[key])
<1>1. /\ key \in Reports /\ key \in Objects /\ Present(key, snap[key])
      /\ space \in DOMAIN observeSpaces(report)
  BY DEF TypeOK, WorkerTypeOK, Objects
<1>2. report \in ReportStates
  <2>1. past[key] \in Seq(ReportStates \cup {Absent})
    BY <1>1 DEF TypeOK, ClusterTypeOK, States
  <2>2. snap[key] \in Nat /\ snap[key] <= cache[key] /\ cache[key] <= Len(past[key])
        /\ cache[key] \in Nat
    BY <1>1 DEF TypeOK, WorkerTypeOK, StoreTypeOK, Newest
  <2>3. snap[key] # 0 /\ past[key][snap[key]] # Absent
    BY <1>1 DEF Present, ObjectAt
  <2>4. past[key][snap[key]] \in ReportStates \cup {Absent}
    BY <2>1, <2>2, <2>3
  <2> QED
    BY <2>3, <2>4 DEF ObjectAt
<1> HIDE DEF report
<1>3. PICK i \in DOMAIN report : report[i].space = space /\ space # NoSpace
  BY <1>1, ShownHasRevisions
<1>4. space \in Spaces
  BY <1>2, <1>3, StatesAssumption
<1> QED
  BY <1>1, <1>4, ShownHasRevisions DEF Observed, report

\* What is seen stays what it is while the Space is under way.
LEMMA ObservedStays ==
    ASSUME TypeOK, [Next]_vars, pc # "idle", UNCHANGED <<key, snap, space>>
    PROVE  Observed' = Observed
<1>1. ObjectAt(key, snap[key])' = ObjectAt(key, snap[key])
  BY ReadStays DEF ObjectAt
<1> QED
  BY <1>1 DEF Observed

\* A Release keeps its Space and its bundle, and none comes back.
LEMMA ReleaseStays ==
    ASSUME TypeOK, [Next]_vars, NEW r \in ReleaseIds, release'[r] # NoRelease,
           r <= published
    PROVE  /\ release[r] # NoRelease
           /\ release'[r].bundle = release[r].bundle
           /\ release'[r].space = release[r].space
<1>0. published \in Nat /\ release \in [ReleaseIds -> Releases \cup {NoRelease}]
      /\ r \in Nat
  BY BoundsAssumption DEF TypeOK, HubTypeOK, ReleaseIds
<1>1. CASE UNCHANGED release
  BY <1>1
<1>2. ASSUME NEW sp, NEW bundle, Publish(sp, bundle) PROVE release'[r] = release[r]
  BY <1>0, <1>2 DEF Publish
<1>3. ASSUME NEW q \in ReleaseIds, Withdraw(q)
      PROVE  /\ release[r] # NoRelease
             /\ release'[r].bundle = release[r].bundle
             /\ release'[r].space = release[r].space
  <2>1. release' = [release EXCEPT ![q] = [release[q] EXCEPT !.published = FALSE]]
        /\ release[q] \in Releases
    BY <1>0, <1>3 DEF Withdraw
  <2>2. CASE r = q
    <3>1. release'[r] = [release[r] EXCEPT !.published = FALSE] /\ release[r] \in Releases
      BY <1>0, <2>1, <2>2
    <3> QED
      BY <3>1, ReleasesAssumption DEF Releases
  <2>3. CASE r # q
    BY <1>0, <2>1, <2>3
  <2> QED
    BY <2>2, <2>3
<1>4. ASSUME NEW q \in ReleaseIds, DeleteRelease(q) PROVE release'[r] = release[r]
  BY <1>0, <1>4 DEF DeleteRelease
<1>5. Report => UNCHANGED release
  BY DEF Report, FindCached, listReleases, NotKnown, FindCovering, TryNext, NoneCovers,
         Suppress, Send, patchRelease, patchAnswerLost, Refused, CallFails, Stay,
         Untouched, hubVars, ApplyPatch
<1>6. HubMoves => \/ UNCHANGED release
                  \/ \E sp \in Spaces, bundle \in Bundles : Publish(sp, bundle)
                  \/ \E q \in ReleaseIds : Withdraw(q) \/ DeleteRelease(q)
  BY DEF HubMoves, ShowSpace, HideSpace
<1> QED
  BY <1>1, <1>2, <1>3, <1>4, <1>5, <1>6, Frames DEF Next, vars, hubVars

\* Where the next step of a report comes from.
LEMMA ReportCases ==
    ASSUME [Next]_vars, ~Restart
    PROVE  \/ UNCHANGED <<pc, key, snap, space, listed, tries, target, releaseMatches,
                          bundleRevisions>>
           \/ FindCached \/ listReleases
           \/ \E r \in tries : FindCovering(r) \/ TryNext(r)
           \/ /\ pc' \in {"idle", "list", "patch"}
              /\ UNCHANGED <<releaseMatches, bundleRevisions>>
<1>1. \A fails \in BOOLEAN : Over(fails) => pc' \in {"idle", "list"}
  BY DEF Over, ReturnNil, ReturnError, Leave
<1>2. Report => \/ FindCached \/ listReleases
                \/ \E r \in tries : FindCovering(r) \/ TryNext(r)
                \/ /\ pc' \in {"idle", "list", "patch"}
                   /\ UNCHANGED <<releaseMatches, bundleRevisions>>
  BY <1>1 DEF Report, NotKnown, NoneCovers, Suppress, Send, patchRelease, patchAnswerLost,
              Refused, CallFails, memoVars
<1>3. \A k \in Reports : processNext(k) => pc' = "list"
  BY DEF processNext
<1> QED
  BY <1>2, <1>3, Frames DEF Next, vars, workVars, stepVars, memoVars

\* What is remembered of a bundle is what is in it.
LEMMA BundlesStep == TypeOK /\ BundlesAreKnown /\ [Next]_vars => BundlesAreKnown'
<1> SUFFICES ASSUME TypeOK, BundlesAreKnown, [Next]_vars, NEW q \in ReleaseIds
             PROVE  /\ release'[q] # NoRelease =>
                          bundleRevisions'[q] \in {NotRead, release'[q].bundle}
                    /\ q > published' => bundleRevisions'[q] = NotRead
  BY DEF BundlesAreKnown
<1>0. /\ published \in Nat /\ q \in Nat /\ DOMAIN bundleRevisions = ReleaseIds
      /\ release[q] # NoRelease => bundleRevisions[q] \in {NotRead, release[q].bundle}
      /\ q > published => bundleRevisions[q] = NotRead
  BY BoundsAssumption DEF BundlesAreKnown, TypeOK, HubTypeOK, MemoTypeOK, ReleaseIds
<1>1. CASE Restart
  BY <1>1 DEF Restart
<1>2. CASE UNCHANGED bundleRevisions /\ ~Restart
  <2>1. published' \in Nat /\ published <= published'
    BY <1>2, StoreGrows
  <2>2. CASE q <= published
    BY <1>0, <1>2, <2>1, <2>2, ReleaseStays
  <2>3. CASE q > published
    BY <1>0, <1>2, <2>3
  <2> QED
    BY <1>0, <2>2, <2>3
<1>3. ASSUME NEW r \in tries, FindCovering(r) \/ TryNext(r)
      PROVE  /\ release'[q] # NoRelease =>
                   bundleRevisions'[q] \in {NotRead, release'[q].bundle}
             /\ q > published' => bundleRevisions'[q] = NotRead
  <2>1. Remember(r) /\ UNCHANGED <<release, published>>
    BY <1>3 DEF FindCovering, TryNext, Stay, hubVars
  <2>2. r <= published
    BY <1>0 DEF TypeOK, WorkerTypeOK
  <2>3. CASE q = r /\ Readable(r)
    <3>1. bundleRevisions'[q] = releaseBundleRevisions(r)
      BY <1>0, <2>1, <2>3 DEF Remember
    <3>2. bundleRevisions'[q] = release[r].bundle \/ bundleRevisions'[q] = bundleRevisions[r]
      BY <2>3, <3>1 DEF releaseBundleRevisions
    <3> QED
      BY <1>0, <2>1, <2>2, <2>3, <3>2
  <2>4. CASE q # r \/ ~Readable(r)
    <3>1. bundleRevisions'[q] = bundleRevisions[q]
      BY <1>0, <2>1, <2>4 DEF Remember
    <3> QED
      BY <1>0, <2>1, <3>1
  <2> QED
    BY <2>3, <2>4
<1> QED
  BY <1>1, <1>2, <1>3, ReportCases DEF FindCached, listReleases, memoVars

\* A bundle that is remembered is not forgotten while the process lives.
LEMMA BundlesStay ==
    ASSUME TypeOK, [Next]_vars, ~Restart, NEW q \in ReleaseIds,
           bundleRevisions[q] # NotRead
    PROVE  bundleRevisions'[q] = bundleRevisions[q]
<1>1. ASSUME NEW r \in tries, Remember(r) PROVE bundleRevisions'[q] = bundleRevisions[q]
  <2>1. DOMAIN bundleRevisions = ReleaseIds
    BY DEF TypeOK, MemoTypeOK
  <2> QED
    BY <1>1, <2>1 DEF Remember, releaseBundleRevisions
<1> QED
  BY <1>1, ReportCases DEF FindCovering, TryNext, FindCached, listReleases, memoVars

\* Of the Releases an earlier step found none becomes newer or covers more.
LEMMA NoneNewerStays ==
    ASSUME TypeOK, [Next]_vars, NEW revisions, NEW releases \in SUBSET (1..published), NEW r,
           NoneNewer(revisions, releases, r)
    PROVE  NoneNewer(revisions, releases, r)'
<1>1. \A q \in releases : q \in ReleaseIds /\ q <= published
  BY BoundsAssumption DEF TypeOK, HubTypeOK, ReleaseIds
<1> SUFFICES ASSUME NEW q \in releases, q > r, release'[q] # NoRelease
             PROVE  ~(revisions \subseteq release'[q].bundle)
  BY DEF NoneNewer
<1>2. release[q] # NoRelease /\ release'[q].bundle = release[q].bundle
  BY <1>1, ReleaseStays
<1> QED
  BY <1>2 DEF NoneNewer

\* When a bundle is found to cover what is seen it is remembered, and none of the
\* newer ones looked at before it does.
LEMMA CoveringIsNewest ==
    ASSUME TypeOK, BundlesAreKnown, TriedCoverNot, NEW r \in tries, FindCovering(r)
    PROVE  /\ r \in ReleaseIds
           /\ bundleRevisions'[r] # NotRead
           /\ Observed.Revisions \subseteq bundleRevisions'[r]
           /\ counts["hide"] = 0 => NoneNewer(Observed.Revisions, listed, r)
<1>1. /\ pc = "match" /\ r \in listed /\ listed \subseteq 1..published /\ r \in ReleaseIds
      /\ \A other \in tries : other <= r
      /\ DOMAIN bundleRevisions = ReleaseIds
      /\ release \in [ReleaseIds -> Releases \cup {NoRelease}]
  BY BoundsAssumption DEF FindCovering, LooksAt, TypeOK, WorkerTypeOK, HubTypeOK, MemoTypeOK,
                          ReleaseIds
<1>2. Observed.Revisions \subseteq releaseBundleRevisions(r) /\ Remember(r)
  BY DEF FindCovering, Covers
<1>3. Observed.Revisions # {}
  BY <1>1, UnderWay
<1>4. ASSUME Readable(r)
      PROVE  /\ bundleRevisions'[r] # NotRead
             /\ Observed.Revisions \subseteq bundleRevisions'[r]
  <2>1. bundleRevisions'[r] = releaseBundleRevisions(r)
    BY <1>1, <1>2, <1>4 DEF Remember
  <2>2. releaseBundleRevisions(r) # NotRead
    BY <1>1, <1>4, ReleasesAssumption DEF releaseBundleRevisions, Readable
  <2> QED
    BY <1>2, <2>1, <2>2
<1>5. ASSUME ~Readable(r)
      PROVE  /\ bundleRevisions'[r] # NotRead
             /\ Observed.Revisions \subseteq bundleRevisions'[r]
  <2>1. bundleRevisions' = bundleRevisions
    BY <1>2, <1>5 DEF Remember
  <2>2. bundleRevisions[r] # NotRead
    BY <1>2, <1>3, <1>5 DEF releaseBundleRevisions
  <2> QED
    BY <1>2, <2>1, <2>2 DEF releaseBundleRevisions
<1>6. counts["hide"] = 0 => NoneNewer(Observed.Revisions, listed, r)
  <2> SUFFICES ASSUME counts["hide"] = 0, NEW q \in listed, q > r, release[q] # NoRelease
               PROVE  ~(Observed.Revisions \subseteq release[q].bundle)
    BY DEF NoneNewer
  <2>1. q \notin tries
    <3>1. q \in Nat /\ r \in Nat
      BY <1>1 DEF ReleaseIds
    <3> QED
      BY <1>1, <3>1
  <2> QED
    BY <1>1, <2>1 DEF TriedCoverNot
<1> QED
  BY <1>1, <1>4, <1>5, <1>6

\* A Space goes out of sight once and for all, as far as the count is concerned.
LEMMA HideStays ==
    ASSUME TypeOK, [Next]_vars, counts'["hide"] = 0
    PROVE  /\ counts["hide"] = 0
           /\ visible = Spaces => visible' = Spaces
<1>0. counts \in [{"change", "withdraw"} \cup FaultKinds -> Nat] /\ "hide" \in FaultKinds
  BY DEF TypeOK, CountsOK, FaultKinds
<1>1. \A what : Count(what) => counts["hide"] = 0 /\ what # "hide"
  BY <1>0 DEF Count
<1>2. HubMoves => /\ UNCHANGED counts \/ (\E what : Count(what))
                  /\ visible = Spaces => visible' = Spaces
  BY <1>1 DEF HubMoves, ShowSpace, HideSpace, Publish, Withdraw, DeleteRelease, Fault
<1>3. Report => /\ UNCHANGED counts \/ (\E what : Count(what))
                /\ UNCHANGED visible
  BY DEF Report, FindCached, listReleases, NotKnown, FindCovering, TryNext, NoneCovers,
         Suppress, Send, patchRelease, patchAnswerLost, Refused, CallFails, Stay,
         Untouched, hubVars, ApplyPatch, Fault
<1>4. \A o \in Objects : Change(o) => (\E what : Count(what)) /\ UNCHANGED visible
  BY DEF Change, hubVars
<1>5. Restart => (\E what : Count(what)) /\ UNCHANGED visible
  BY DEF Restart, Fault, hubVars
<1> QED
  BY <1>1, <1>2, <1>3, <1>4, <1>5, Frames DEF Next, vars, hubVars

\* Whatever stands goes on standing, and what was just found stands.
LEMMA StandingStays ==
    ASSUME TypeOK, [Next]_vars, ~Restart, NEW match, MatchStands(match),
           match.release \in ReleaseIds, match.key.published \subseteq 1..published
    PROVE  /\ bundleRevisions'[match.release] # NotRead
           /\ match.key.revisions \subseteq bundleRevisions'[match.release]
           /\ \A q \in match.key.published : q > match.release /\ release'[q] # NoRelease =>
                 ~(match.key.revisions \subseteq release'[q].bundle)
<1>1. bundleRevisions'[match.release] = bundleRevisions[match.release]
  BY BundlesStay DEF MatchStands
<1>2. \A q \in match.key.published : q \in ReleaseIds /\ q <= published
  BY BoundsAssumption DEF TypeOK, HubTypeOK, ReleaseIds
<1>3. ASSUME NEW q \in match.key.published, q > match.release, release'[q] # NoRelease
      PROVE  ~(match.key.revisions \subseteq release'[q].bundle)
  <2>1. release[q] # NoRelease /\ release'[q].bundle = release[q].bundle
    BY <1>2, <1>3, ReleaseStays
  <2> QED
    BY <1>3, <2>1 DEF MatchStands, NoneNewer
<1> QED
  BY <1>1, <1>3 DEF MatchStands

LEMMA FoundStands ==
    ASSUME TypeOK, BundlesAreKnown, TriedCoverNot, counts["hide"] = 0,
           NEW r \in tries, FindCovering(r)
    PROVE  /\ releaseMatches'[space] =
                 [key |-> [revisions |-> Observed.Revisions, published |-> listed],
                  release |-> r]
           /\ bundleRevisions'[r] # NotRead
           /\ Observed.Revisions \subseteq bundleRevisions'[r]
           /\ \A q \in listed : q > r /\ release'[q] # NoRelease =>
                 ~(Observed.Revisions \subseteq release'[q].bundle)
<1>1. space \in Spaces
  BY UnderWay DEF FindCovering, LooksAt
<1>2. releaseMatches'[space] = [key |-> MatchKey(listed), release |-> r]
  BY <1>1 DEF FindCovering, TypeOK, MemoTypeOK
<1>3. UNCHANGED release
  BY DEF FindCovering, Stay, hubVars
<1> QED
  BY <1>2, <1>3, CoveringIsNewest DEF MatchKey, releaseMatchKey, NoneNewer

\* A match that is remembered stays the one that would be made.
LEMMA MatchesStep ==
    TypeOK /\ BundlesAreKnown /\ MatchesAreNewest /\ TriedCoverNot /\ [Next]_vars
        => MatchesAreNewest'
<1> SUFFICES ASSUME TypeOK, BundlesAreKnown, MatchesAreNewest, TriedCoverNot, [Next]_vars,
                    counts'["hide"] = 0
             PROVE  MatchesAreNewest'
  BY DEF MatchesAreNewest
<1>0. counts["hide"] = 0 /\ visible' = Spaces
  BY HideStays DEF MatchesAreNewest
<1>1. ASSUME NEW sp \in Spaces, releaseMatches'[sp] # NoMatch,
             releaseMatches'[sp] = releaseMatches[sp], ~Restart
      PROVE  MatchStands(releaseMatches[sp])'
  <2> DEFINE m == releaseMatches[sp]
  <2>1. /\ m.release \in ReleaseIds /\ m.key.published \subseteq 1..published
        /\ MatchStands(m)
    BY <1>0, <1>1, BoundsAssumption
    DEF TypeOK, MemoTypeOK, HubTypeOK, MatchesAreNewest, ReleaseIds
  <2> HIDE DEF m
  <2>2. /\ bundleRevisions'[m.release] # NotRead
        /\ m.key.revisions \subseteq bundleRevisions'[m.release]
        /\ \A q \in m.key.published : q > m.release /\ release'[q] # NoRelease =>
                 ~(m.key.revisions \subseteq release'[q].bundle)
    BY <1>1, <2>1, StandingStays
  <2>3. releaseMatches'[sp] = m
    BY <1>1 DEF m
  <2> QED
    BY <2>2, <2>3 DEF MatchStands, NoneNewer
<1>2. ASSUME NEW r \in tries, FindCovering(r)
      PROVE  MatchStands(releaseMatches[space])'
  <2>1. space' = space
    BY <1>2 DEF FindCovering, Stay
  <2> DEFINE new == releaseMatches'[space]
             seen == Observed.Revisions
  <2>2. /\ new = [key |-> [revisions |-> seen, published |-> listed], release |-> r]
        /\ bundleRevisions'[r] # NotRead
        /\ seen \subseteq bundleRevisions'[r]
        /\ \A q \in listed : q > r /\ release'[q] # NoRelease =>
              ~(seen \subseteq release'[q].bundle)
    BY <1>0, <1>2, FoundStands
  <2> HIDE DEF new, seen
  <2>3. new.release = r /\ new.key.revisions = seen /\ new.key.published = listed
    BY <2>2
  <2>4. /\ bundleRevisions'[new.release] # NotRead
        /\ new.key.revisions \subseteq bundleRevisions'[new.release]
        /\ \A q \in new.key.published : q > new.release /\ release'[q] # NoRelease =>
              ~(new.key.revisions \subseteq release'[q].bundle)
    BY <2>2, <2>3
  <2>5. releaseMatches[space]' = new
    BY <2>1 DEF new
  <2> QED
    BY <2>4, <2>5 DEF MatchStands, NoneNewer
<1>3. ASSUME NEW sp \in Spaces, releaseMatches'[sp] # NoMatch
      PROVE  ~Restart /\ \/ releaseMatches'[sp] = releaseMatches[sp]
                         \/ sp = space /\ \E r \in tries : FindCovering(r)
  <2>1. ~Restart
    BY <1>3 DEF Restart
  <2> QED
    BY <2>1, ReportCases
    DEF FindCached, listReleases, FindCovering, TryNext, memoVars, TypeOK, MemoTypeOK
<1>4. ASSUME NEW sp \in Spaces, releaseMatches'[sp] # NoMatch
      PROVE  MatchStands(releaseMatches[sp])'
  <2>1. CASE releaseMatches'[sp] = releaseMatches[sp]
    BY <1>1, <1>3, <1>4, <2>1
  <2>2. ASSUME NEW r \in tries, FindCovering(r), sp = space
        PROVE  MatchStands(releaseMatches[sp])'
    <3>1. space' = space
      BY <2>2 DEF FindCovering, Stay
    <3> QED
      BY <1>2, <2>2, <3>1
  <2> QED
    BY <1>3, <1>4, <2>1, <2>2
<1> QED
  BY <1>0, <1>4 DEF MatchesAreNewest

\* A bundle that was looked at and does not cover what is seen is the bundle that
\* was published, while no Space has been out of sight.
LEMMA TriedInVain ==
    ASSUME TypeOK, BundlesAreKnown, MatchesAreNewest, counts["hide"] = 0,
           NEW r \in tries, TryNext(r), release[r] # NoRelease
    PROVE  ~(Observed.Revisions \subseteq release[r].bundle)
<1>1. pc = "match" /\ ~(Observed.Revisions \subseteq releaseBundleRevisions(r))
  BY DEF TryNext, LooksAt, Covers
<1>2. r \in ReleaseIds
  BY BoundsAssumption DEF TypeOK, WorkerTypeOK, HubTypeOK, ReleaseIds
<1>3. Readable(r)
  BY <1>1, UnderWay DEF Readable, MatchesAreNewest
<1>4. bundleRevisions[r] \in {NotRead, release[r].bundle}
  BY <1>2 DEF BundlesAreKnown
<1>5. releaseBundleRevisions(r) = release[r].bundle
  BY <1>3, <1>4 DEF releaseBundleRevisions
<1> QED
  BY <1>1, <1>5

LEMMA TriedStep ==
    TypeOK /\ BundlesAreKnown /\ MatchesAreNewest /\ TriedCoverNot /\ [Next]_vars
        => TriedCoverNot'
<1> SUFFICES ASSUME TypeOK, BundlesAreKnown, MatchesAreNewest, TriedCoverNot, [Next]_vars,
                    pc' = "match", counts'["hide"] = 0,
                    NEW r \in listed' \ tries', release'[r] # NoRelease
             PROVE  ~(Observed.Revisions \subseteq release[r].bundle)'
  BY DEF TriedCoverNot
<1>0. counts["hide"] = 0 /\ ~Restart
  BY HideStays DEF Restart, Leave
<1>1. ASSUME pc = "match", UNCHANGED <<key, snap, space>>, r \in listed,
             release[r] # NoRelease => ~(Observed.Revisions \subseteq release[r].bundle)
      PROVE  ~(Observed.Revisions \subseteq release[r].bundle)'
  <2>1. r \in ReleaseIds /\ r <= published
    BY <1>1, BoundsAssumption DEF TypeOK, WorkerTypeOK, HubTypeOK, ReleaseIds
  <2>2. release[r] # NoRelease /\ release'[r].bundle = release[r].bundle
    BY <2>1, ReleaseStays
  <2>3. Observed' = Observed
    BY <1>1, ObservedStays
  <2> QED
    BY <1>1, <2>2, <2>3
<1>2. CASE UNCHANGED <<pc, key, snap, space, listed, tries, target, releaseMatches,
                       bundleRevisions>>
  BY <1>0, <1>1, <1>2 DEF TriedCoverNot
<1>3. ASSUME NEW q \in tries, TryNext(q)
      PROVE  ~(Observed.Revisions \subseteq release[r].bundle)'
  <2>1. /\ pc = "match" /\ UNCHANGED <<key, snap, space, listed>>
        /\ r \in listed /\ (r = q \/ r \notin tries)
    BY <1>3 DEF TryNext, LooksAt, Stay
  <2>2. release[r] # NoRelease => ~(Observed.Revisions \subseteq release[r].bundle)
    BY <1>0, <1>3, <2>1, TriedInVain DEF TriedCoverNot
  <2> QED
    BY <1>1, <2>1, <2>2
<1>4. ~FindCached /\ ~listReleases /\ \A q \in tries : ~FindCovering(q)
  BY DEF FindCached, listReleases, FindCovering
<1> QED
  BY <1>0, <1>2, <1>3, <1>4, ReportCases

\* The match goes on covering what is seen, and none of the listed ones that is
\* newer comes to do so.
LEMMA MatchIsNewestStep ==
    TypeOK /\ BundlesAreKnown /\ MatchesAreNewest /\ TriedCoverNot /\ MatchIsNewest
        /\ [Next]_vars => MatchIsNewest'
<1> SUFFICES ASSUME TypeOK, BundlesAreKnown, MatchesAreNewest, TriedCoverNot, MatchIsNewest,
                    [Next]_vars, pc' = "compare", counts'["hide"] = 0
             PROVE  /\ Observed'.Revisions \subseteq bundleRevisions'[target']
                    /\ \A q \in listed' : q > target' /\ release'[q] # NoRelease =>
                          ~(Observed'.Revisions \subseteq release'[q].bundle)
  BY DEF MatchIsNewest, NoneNewer
<1>0. counts["hide"] = 0 /\ ~Restart
  BY HideStays DEF Restart, Leave
<1>1. CASE UNCHANGED <<pc, key, snap, space, listed, tries, target, releaseMatches,
                       bundleRevisions>>
  <2>1. pc = "compare" /\ listed \subseteq 1..published /\ target \in listed
    BY <1>1 DEF TypeOK, WorkerTypeOK
  <2>2. Observed' = Observed
    BY <1>1, <2>1, ObservedStays
  <2>3. ASSUME NEW q \in listed, q > target, release'[q] # NoRelease
        PROVE  ~(Observed.Revisions \subseteq release'[q].bundle)
    <3>1. q \in ReleaseIds /\ q <= published
      BY <2>1, BoundsAssumption DEF TypeOK, HubTypeOK, ReleaseIds
    <3>2. release[q] # NoRelease /\ release'[q].bundle = release[q].bundle
      BY <2>3, <3>1, ReleaseStays
    <3> QED
      BY <1>0, <2>1, <2>3, <3>2 DEF MatchIsNewest, NoneNewer
  <2> QED
    BY <1>0, <1>1, <2>1, <2>2, <2>3 DEF MatchIsNewest
<1>2. CASE FindCached
  <2>1. /\ pc = "list" /\ releaseMatches[space] # NoMatch
        /\ releaseMatches[space].key = [revisions |-> Observed.Revisions,
                                        published |-> PublishedNow]
        /\ listed' = PublishedNow /\ target' = releaseMatches[space].release
        /\ UNCHANGED <<key, snap, space, bundleRevisions, release>>
    BY <1>2 DEF FindCached, Matched, MatchKey, releaseMatchKey, Stay, memoVars, hubVars
  <2>2. space \in Spaces /\ Observed' = Observed
    BY <2>1, UnderWay, ObservedStays
  <2>3. MatchStands(releaseMatches[space])
    BY <1>0, <2>1, <2>2 DEF MatchesAreNewest
  <2> QED
    BY <2>1, <2>2, <2>3 DEF MatchStands, NoneNewer
<1>3. ASSUME NEW r \in tries, FindCovering(r)
      PROVE  /\ Observed'.Revisions \subseteq bundleRevisions'[target']
             /\ \A q \in listed' : q > target' /\ release'[q] # NoRelease =>
                   ~(Observed'.Revisions \subseteq release'[q].bundle)
  <2>1. /\ pc = "match" /\ target' = r
        /\ UNCHANGED <<key, snap, space, listed>>
    BY <1>3 DEF FindCovering, LooksAt, Stay
  <2>2. Observed' = Observed
    BY <2>1, ObservedStays
  <2> QED
    BY <1>0, <1>3, <2>1, <2>2, FoundStands
<1>4. ~listReleases /\ \A q \in tries : ~TryNext(q)
  BY DEF listReleases, TryNext, LooksAt
<1> QED
  BY <1>0, <1>1, <1>2, <1>3, <1>4, ReportCases

\* findRelease: the Release a Space is reported on covers what the report shows of
\* it, and none of the Releases listed that is newer and still there does, whether
\* it was looked for or remembered.
THEOREM SveltosMatchIsNewest == Spec => []MatchIsNewest
<1> DEFINE Inv == /\ TypeOK /\ BundlesAreKnown /\ MatchesAreNewest /\ TriedCoverNot
                  /\ MatchIsNewest
<1>1. Init => Inv
  BY TypeInit DEF Init, BundlesAreKnown, MatchesAreNewest, TriedCoverNot, MatchIsNewest
<1>2. TypeOK /\ [Next]_vars => TypeOK'
  BY ClusterTypeStep, HubTypeStep, StoreTypeStep, WorkerTypeStep, MemoTypeStep, CountsStep
  DEF TypeOK
<1>3. Inv /\ [Next]_vars => Inv'
  BY <1>2, BundlesStep, MatchesStep, TriedStep, MatchIsNewestStep
<1> QED
  BY <1>1, <1>3, PTL DEF Spec
=============================================================================
