------------------------ MODULE ArgoReporter_proofs ------------------------
(***************************************************************************)
(* Proofs about ArgoReporter, for every value of its constants: its type   *)
(* invariant, that no update is lost between the informer and ConfigHub,   *)
(* and that the write the signature suppresses would have changed nothing. *)
(***************************************************************************)
EXTENDS ArgoReporter, WorkQueue_proofs, TLAPS

-----------------------------------------------------------------------------
(* Facts about the operators.                                              *)

\* A projection has every field a LiveStatus has, and each is a string.
LEMMA ProjectionType ==
    ASSUME NEW a \in Apps, NEW o \in Objects
    PROVE  projectStatus(a, o) \in [Fields -> Words]
<1> DEFINE word == FromArgoCD(o.sync, o.health, o.phase)
           message == IF o.healthMsg # "" THEN o.healthMsg ELSE o.opMsg
<1>1. /\ o.sync \in Words /\ o.health \in Words /\ o.phase \in Words
      /\ o.healthMsg \in Words /\ o.opMsg \in Words
  BY ObjectsAssumption
<1>2. NameOf[a] \in Words
  BY AppsAssumption
<1>3. message \in Words
  BY <1>1
<1>4. ASSUME NEW f \in Fields, f # "DataSource", f # "Message"
      PROVE  word[f] \in Words
  <2>1. /\ word.Sync \in Words /\ word.ReporterSync \in Words
        /\ word.Health \in Words /\ word.ReporterHealth \in Words
        /\ word.Operation \in Words /\ word.ReporterOperation \in Words
    BY <1>1, WordsAssumption DEF FromArgoCD, OrUnknown
  <2> HIDE DEF word
  <2> QED
    BY <1>4, <2>1 DEF Fields
<1>5. ASSUME NEW f \in Fields
      PROVE  (CASE f = "DataSource" -> NameOf[a]
                [] f = "Message"    -> message
                [] OTHER            -> word[f]) \in Words
  BY <1>2, <1>3, <1>4
<1> QED
  BY <1>5 DEF projectStatus

\* What the merge patch leaves in ConfigHub is the status itself, whatever was
\* there before: an empty field is sent as null and is removed.
LEMMA MergeExact ==
    ASSUME NEW status \in [Fields -> Words], NEW old, DOMAIN old = Fields
    PROVE  MergePatch(old, mergePatchObject(status)) = status
<1>1. DOMAIN mergePatchObject(status) = Fields
  BY DEF mergePatchObject
<1>2. ASSUME NEW f \in Fields
      PROVE  MergePatch(old, mergePatchObject(status))[f] = status[f]
  BY <1>1, NullAssumption DEF MergePatch, mergePatchObject
<1> QED
  BY <1>1, <1>2 DEF MergePatch

\* A change appends a state and leaves the earlier ones alone.
LEMMA ChangeKeeps ==
    ASSUME ClusterTypeOK, NEW a \in Apps, Change(a), NEW b \in Apps
    PROVE  /\ past'[b] \in Seq(Objects \cup {Absent})
           /\ Newest(b)' \in Nat
           /\ Newest(b) <= Newest(b)'
           /\ Newest(b)' <= MaxChanges
           /\ \A v \in 1..Newest(b) : past'[b][v] = past[b][v]
<1>1. PICK o \in Objects \cup {Absent} : past' = [past EXCEPT ![a] = Append(@, o)]
  BY DEF Change
<1>2. past[b] \in Seq(Objects \cup {Absent}) /\ Newest(b) <= MaxChanges
  BY DEF ClusterTypeOK
<1>3. CASE b = a
  <2>1. past'[b] = Append(past[b], o)
    BY <1>1, <1>3 DEF ClusterTypeOK
  <2>2. Newest(a) < MaxChanges
    BY DEF Change
  <2> QED
    BY <1>2, <1>3, <2>1, <2>2, BoundsAssumption DEF Newest
<1>4. CASE b # a
  <2>1. past'[b] = past[b]
    BY <1>1, <1>4 DEF ClusterTypeOK
  <2> QED
    BY <1>2, <2>1 DEF Newest
<1> QED
  BY <1>3, <1>4

-----------------------------------------------------------------------------
(* The type invariant.                                                     *)

\* TypeOK holds initially.
LEMMA TypeInit == Init => TypeOK
<1> SUFFICES ASSUME Init PROVE TypeOK
  OBVIOUS
<1> USE DEF Init, HubInit
<1>1. ClusterTypeOK
  BY BoundsAssumption DEF ClusterTypeOK, Newest
<1>2. HubTypeOK
  BY MaxReleasesAssumption DEF HubTypeOK, ReleaseIds
<1>3. ProcessTypeOK
  <2>1. queue \in QueueOver(Apps)
    BY DEF EmptyQueue, QueueOver
  <2>2. \A a \in Apps : cache[a] <= Newest(a)
    BY DEF Newest
  <2>3. cache \in [Apps -> Nat] /\ done \in [Apps -> Nat]
    OBVIOUS
  <2>4. lastSig \in [Apps -> Signatures \cup {NoSig}]
    OBVIOUS
  <2>5. synced \in BOOLEAN
    OBVIOUS
  <2>6. failures \in 0..MaxFailures /\ restarts \in 0..MaxRestarts
    BY BoundsAssumption
  <2> HIDE DEF Init
  <2> QED
    BY <2>1, <2>2, <2>3, <2>4, <2>5, <2>6 DEF ProcessTypeOK
<1>4. WorkerTypeOK
  BY DEF WorkerTypeOK
<1> QED
  BY <1>1, <1>2, <1>3, <1>4 DEF TypeOK

\* The projection of what the worker is reporting is a status.
LEMMA SigType ==
    ASSUME TypeOK, pc \in {"compare", "patch"}
    PROVE  /\ Sig \in Signatures
           /\ Sig.release = target
           /\ Sig.status = projectStatus(key, Object)
           /\ Sig.status \in [Fields -> Words]
<1>1. key \in Apps /\ Object \in Objects /\ target \in ReleaseIds
  BY DEF TypeOK, WorkerTypeOK
<1> QED
  BY <1>1, ProjectionType DEF Sig, Signatures

\* A patch leaves the projection of the state being reported on the target,
\* and nothing else changes in ConfigHub.
LEMMA PatchWrites ==
    ASSUME TypeOK, pc = "patch", ApplyPatch
    PROVE  /\ live' = [live EXCEPT ![target] =
                          [by |-> key, ver |-> snap, status |-> Sig.status]]
           /\ release[target] # NoRelease
           /\ UNCHANGED <<visible, published, release>>
<1> DEFINE old == IF live[target] = NoStatus THEN EmptyStatus ELSE live[target].status
<1>1. DOMAIN old = Fields
  <2>1. target \in ReleaseIds
    BY DEF TypeOK, WorkerTypeOK
  <2>2. CASE live[target] = NoStatus
    BY <2>2 DEF EmptyStatus
  <2>3. CASE live[target] # NoStatus
    BY <2>1, <2>3 DEF TypeOK, HubTypeOK, LiveStatuses
  <2> QED
    BY <2>2, <2>3
<1>2. Sig.status \in [Fields -> Words]
  BY SigType
<1> HIDE DEF old
<1>3. MergePatch(old, mergePatchObject(Sig.status)) = Sig.status
  BY <1>1, <1>2, MergeExact
<1> QED
  BY <1>3 DEF ApplyPatch, old

\* No step of the reporter or of ConfigHub changes what an Application has been,
\* and a change of an Application is a state it may be in.
LEMMA ClusterTypeStep == TypeOK /\ [Next]_vars => ClusterTypeOK'
<1> SUFFICES ASSUME TypeOK, [Next]_vars PROVE ClusterTypeOK'
  OBVIOUS
<1>1. ASSUME NEW a \in Apps, Change(a) PROVE ClusterTypeOK'
  <2>1. past' \in [Apps -> Seq(Objects \cup {Absent})]
    <3>1. past' = [b \in Apps |-> past'[b]]
      BY <1>1 DEF Change, TypeOK, ClusterTypeOK
    <3> QED
      BY <1>1, <3>1, ChangeKeeps DEF TypeOK
  <2> QED
    BY <1>1, <2>1, ChangeKeeps DEF TypeOK, ClusterTypeOK
<1>2. CASE UNCHANGED past
  BY <1>2 DEF TypeOK, ClusterTypeOK, Newest
<1>3. \A a \in Apps : Informer(a) => UNCHANGED past
  BY DEF Informer, Watch, Resync, DelayOver
<1>4. Report \/ HubMoves \/ CacheSync \/ Restart => UNCHANGED past
  BY DEF Report, SpaceKnown, NotOurs, ReleaseKnown, ReleaseUnknown, Suppress, Send,
         patchRelease, patchAnswerLost, CallFails, Refused, HubMoves, CacheSync, Restart
<1>5. \A a \in Apps : processNext(a) \/ reportDeleted(a) => UNCHANGED past
  BY DEF processNext, reportDeleted
<1>6. UNCHANGED vars => UNCHANGED past
  BY DEF vars
<1> QED
  BY <1>1, <1>2, <1>3, <1>4, <1>5, <1>6 DEF Next

\* A patch writes a well-formed status, and ConfigHub's own moves keep its types.
LEMMA HubTypeStep == TypeOK /\ [Next]_vars => HubTypeOK'
<1> SUFFICES ASSUME TypeOK, [Next]_vars PROVE HubTypeOK'
  OBVIOUS
<1> USE DEF HubTypeOK, hubVars
<1>1. CASE UNCHANGED hubVars
  BY <1>1 DEF TypeOK
<1>2. CASE HubMoves
  <2>1. CASE \E sp \in Spaces : ShowSpace(sp) \/ HideSpace(sp)
    BY <2>1 DEF TypeOK, ShowSpace, HideSpace
  <2>2. ASSUME NEW sp \in Spaces, NEW d \in Digests, Publish(sp, d) PROVE HubTypeOK'
    BY <2>2, MaxReleasesAssumption DEF TypeOK, Publish, ReleaseIds, Releases
  <2>3. ASSUME NEW r \in ReleaseIds, DeleteRelease(r) PROVE HubTypeOK'
    BY <2>3 DEF TypeOK, DeleteRelease
  <2> QED
    BY <1>2, <2>1, <2>2, <2>3 DEF HubMoves
<1>3. CASE patchRelease \/ patchAnswerLost
  <2>1. pc = "patch" /\ ApplyPatch
    BY <1>3 DEF patchRelease, patchAnswerLost
  <2>2. /\ key \in Apps
        /\ snap \in 1..MaxChanges
        /\ target \in ReleaseIds
        /\ Sig.status \in [Fields -> Words]
    <3>1. /\ key \in Apps /\ snap \in 1..cache[key] /\ target \in ReleaseIds
      BY <2>1 DEF TypeOK, WorkerTypeOK
    <3>2. cache[key] \in Nat /\ cache[key] <= Newest(key) /\ Newest(key) <= MaxChanges
      BY <3>1 DEF TypeOK, ProcessTypeOK, ClusterTypeOK
    <3>3. Newest(key) \in Nat
      BY <3>1 DEF TypeOK, ClusterTypeOK, Newest
    <3> QED
      BY <2>1, <3>1, <3>2, <3>3, SigType, BoundsAssumption
  <2>3. /\ live' = [live EXCEPT ![target] =
                       [by |-> key, ver |-> snap, status |-> Sig.status]]
        /\ UNCHANGED <<visible, published, release>>
    BY <2>1, PatchWrites
  <2> QED
    BY <2>2, <2>3 DEF TypeOK, LiveStatuses
<1>4. \A a \in Apps : Change(a) \/ Informer(a) => UNCHANGED hubVars
  BY DEF Change, Informer, Watch, Resync, DelayOver
<1>5. \A a \in Apps : processNext(a) \/ reportDeleted(a) => UNCHANGED hubVars
  BY DEF processNext, reportDeleted
<1>6. Report => UNCHANGED hubVars \/ patchRelease \/ patchAnswerLost
  BY DEF Report, SpaceKnown, NotOurs, ReleaseKnown, ReleaseUnknown, Suppress, Send,
         CallFails, Refused
<1>7. CacheSync \/ Restart \/ UNCHANGED vars => UNCHANGED hubVars
  BY DEF CacheSync, Restart, vars
<1> QED
  BY <1>1, <1>2, <1>3, <1>4, <1>5, <1>6, <1>7 DEF Next

\* The informer, the queue and the signatures keep their types: the store never
\* runs ahead of the cluster, and a signature is one of a Release.
LEMMA ProcessTypeStep == TypeOK /\ [Next]_vars => ProcessTypeOK'
<1> SUFFICES ASSUME TypeOK, [Next]_vars PROVE ProcessTypeOK'
  OBVIOUS
<1> DEFINE Queues == queue' \in QueueOver(Apps)
           Caches == /\ synced' \in BOOLEAN
                     /\ cache' \in [Apps -> Nat]
                     /\ \A a \in Apps : cache'[a] <= Newest(a)'
           Sigs   == /\ lastSig' \in [Apps -> Signatures \cup {NoSig}]
                     /\ done' \in [Apps -> Nat]
           Counts == /\ failures' \in 0..MaxFailures
                     /\ restarts' \in 0..MaxRestarts
<1>0. /\ cache \in [Apps -> Nat]
      /\ queue \in QueueOver(Apps)
      /\ lastSig \in [Apps -> Signatures \cup {NoSig}]
      /\ done \in [Apps -> Nat]
      /\ synced \in BOOLEAN
      /\ failures \in 0..MaxFailures
      /\ restarts \in 0..MaxRestarts
      /\ \A a \in Apps : cache[a] <= Newest(a) /\ Newest(a) \in Nat
  BY DEF TypeOK, ProcessTypeOK, ClusterTypeOK, Newest
<1>1. ASSUME NEW a \in Apps, Change(a) PROVE ProcessTypeOK'
  <2>1. \A b \in Apps : Newest(b) <= Newest(b)' /\ Newest(b)' \in Nat
    BY <1>1, ChangeKeeps DEF TypeOK
  <2>2. UNCHANGED <<synced, cache, queue, lastSig, done, failures, restarts>>
    BY <1>1 DEF Change, countVars
  <2> QED
    BY <1>0, <2>1, <2>2 DEF ProcessTypeOK
<1>2. CASE UNCHANGED <<past, synced, cache, queue, lastSig, done, failures, restarts>>
  BY <1>0, <1>2 DEF ProcessTypeOK, Newest
<1>3. HubMoves \/ SpaceKnown \/ ReleaseKnown \/ Send \/ UNCHANGED vars =>
        UNCHANGED <<past, synced, cache, queue, lastSig, done, failures, restarts>>
  BY DEF HubMoves, SpaceKnown, ReleaseKnown, Send, vars, countVars
<1>4. CASE CacheSync
  <2>1. Queues
    <3> DEFINE listed == {a \in Apps : ObjectAt(a, Newest(a)) # Absent}
    <3>1. queue' = [queue EXCEPT !.waiting = listed] /\ listed \subseteq Apps
      BY <1>4 DEF CacheSync
    <3> HIDE DEF listed
    <3> QED
      BY <1>0, <3>1 DEF QueueOver
  <2>2. Caches
    BY <1>0, <1>4 DEF CacheSync, Newest
  <2> QED
    BY <1>0, <1>4, <2>1, <2>2 DEF CacheSync, ProcessTypeOK, countVars
<1>5. ASSUME NEW a \in Apps, Watch(a) PROVE ProcessTypeOK'
  <2>1. Queues
    BY <1>0, <1>5, QueueOperations DEF Watch, enqueue
  <2>2. Caches
    BY <1>0, <1>5 DEF Watch, Newest
  <2> QED
    BY <1>0, <1>5, <2>1, <2>2 DEF Watch, ProcessTypeOK, countVars
<1>6. ASSUME NEW a \in Apps,
             Resync(a) \/ DelayOver(a) \/ processNext(a) \/ reportDeleted(a)
      PROVE  ProcessTypeOK'
  <2>1. Queues
    BY <1>0, <1>6, QueueOperations
    DEF Resync, DelayOver, processNext, reportDeleted, enqueue
  <2>2. Sigs
    BY <1>0, <1>6 DEF Resync, DelayOver, processNext, reportDeleted
  <2>3. UNCHANGED <<past, synced, cache, failures, restarts>>
    BY <1>6 DEF Resync, DelayOver, processNext, reportDeleted, countVars
  <2> QED
    BY <1>0, <2>1, <2>2, <2>3 DEF ProcessTypeOK, Newest
<1>7. CASE pc # "idle" /\ ReturnNil /\ UNCHANGED <<past, synced, cache, failures, restarts>>
           /\ lastSig' \in [Apps -> Signatures \cup {NoSig}]
  <2>1. snap \in Nat
    BY <1>0, <1>7 DEF TypeOK, WorkerTypeOK
  <2>2. Queues
    BY <1>0, <1>7, QueueOperations DEF ReturnNil, TypeOK, WorkerTypeOK
  <2> QED
    BY <1>0, <1>7, <2>1, <2>2 DEF ReturnNil, ProcessTypeOK, Newest
<1>8. CASE pc # "idle" /\ ReturnError /\ UNCHANGED <<past, synced, cache, restarts>>
           /\ failures' \in 0..MaxFailures
  <2>1. Queues
    BY <1>0, <1>8, QueueOperations DEF ReturnError, TypeOK, WorkerTypeOK
  <2> QED
    BY <1>0, <1>8, <2>1 DEF ReturnError, ProcessTypeOK, Newest
<1>9. CASE NotOurs \/ ReleaseUnknown \/ Suppress
  BY <1>0, <1>7, <1>9 DEF NotOurs, ReleaseUnknown, Suppress, countVars
<1>10. CASE patchRelease
  <2>1. key \in Apps /\ Sig \in Signatures
    BY <1>10, SigType DEF patchRelease, TypeOK, WorkerTypeOK
  <2> QED
    BY <1>0, <1>7, <1>10, <2>1 DEF patchRelease, countVars
<1>11. CASE patchAnswerLost \/ CallFails \/ Refused
  BY <1>0, <1>8, <1>11, BoundsAssumption DEF patchAnswerLost, CallFails, Refused, countVars
<1>12. CASE Restart
  <2>1. Queues
    BY <1>12 DEF Restart, EmptyQueue, QueueOver
  <2>2. Caches
    <3>1. \A a \in Apps : Newest(a)' = Newest(a) /\ cache'[a] = 0
      BY <1>12 DEF Restart, Newest
    <3>2. synced' \in BOOLEAN /\ cache' \in [Apps -> Nat]
      BY <1>12 DEF Restart
    <3> QED
      BY <1>0, <3>1, <3>2
  <2>3. Sigs
    BY <1>12 DEF Restart
  <2>4. Counts
    BY <1>0, <1>12, BoundsAssumption DEF Restart
  <2> QED
    BY <2>1, <2>2, <2>3, <2>4 DEF ProcessTypeOK
<1> QED
  BY <1>1, <1>2, <1>3, <1>4, <1>5, <1>6, <1>9, <1>10, <1>11, <1>12
  DEF Next, Informer, Report

\* Each step of report finds what the next step relies on.
LEMMA WorkerTypeStep == TypeOK /\ [Next]_vars => WorkerTypeOK'
<1> SUFFICES ASSUME TypeOK, [Next]_vars PROVE WorkerTypeOK'
  OBVIOUS
<1>0. WorkerTypeOK
  BY DEF TypeOK
<1>1. ASSUME NEW a \in Apps, Change(a) PROVE WorkerTypeOK'
  <2>1. UNCHANGED <<synced, cache, workVars>>
    BY <1>1 DEF Change
  <2>2. pc # "idle" => Object' = Object
    <3> SUFFICES ASSUME pc # "idle" PROVE Object' = Object
      OBVIOUS
    <3>1. key \in Apps /\ snap \in 1..Newest(key)
      BY <1>0 DEF WorkerTypeOK, TypeOK, ProcessTypeOK, ClusterTypeOK, Newest
    <3>2. past'[key][snap] = past[key][snap]
      BY <1>1, <3>1, ChangeKeeps DEF TypeOK
    <3> QED
      BY <2>1, <3>1, <3>2 DEF Object, ObjectAt, workVars
  <2> QED
    BY <1>0, <2>1, <2>2 DEF WorkerTypeOK, workVars

<1>2. CASE /\ UNCHANGED <<past, synced, workVars>>
           /\ cache' \in [Apps -> Nat]
           /\ \A a \in Apps : cache[a] <= cache'[a]
  <2>1. Object' = Object
    BY <1>2 DEF Object, ObjectAt, workVars
  <2>2. \A a \in Apps : cache[a] \in Nat /\ cache'[a] \in Nat
    BY <1>2 DEF TypeOK, ProcessTypeOK
  <2>3. pc # "idle" => snap \in 1..cache'[key]
    BY <1>0, <1>2, <2>2 DEF WorkerTypeOK
  <2> QED
    BY <1>0, <1>2, <2>1, <2>3 DEF WorkerTypeOK, workVars
<1>3. CASE Leave
  BY <1>3 DEF Leave, WorkerTypeOK
<1>4. HubMoves \/ UNCHANGED vars => UNCHANGED <<past, synced, cache, workVars>>
  BY DEF HubMoves, vars
<1>5. ASSUME NEW a \in Apps, Informer(a) \/ reportDeleted(a) PROVE WorkerTypeOK'
  <2>1. UNCHANGED <<past, synced, workVars>>
    BY <1>5 DEF Informer, Watch, Resync, DelayOver, reportDeleted
  <2>2. \/ UNCHANGED cache
        \/ cache' = [cache EXCEPT ![a] = @ + 1]
    BY <1>5 DEF Informer, Watch, Resync, DelayOver, reportDeleted
  <2>3. cache \in [Apps -> Nat]
    BY DEF TypeOK, ProcessTypeOK
  <2> QED
    BY <1>2, <2>1, <2>2, <2>3
<1>6. CASE CacheSync
  <2>1. pc = "idle"
    BY <1>0, <1>6 DEF CacheSync, WorkerTypeOK
  <2> QED
    BY <1>0, <1>6, <2>1 DEF CacheSync, WorkerTypeOK, workVars
<1>7. ASSUME NEW a \in Apps, processNext(a) PROVE WorkerTypeOK'
  <2>1. cache[a] \in Nat /\ cache[a] <= Newest(a) /\ past[a] \in Seq(Objects \cup {Absent})
    BY DEF TypeOK, ProcessTypeOK, ClusterTypeOK
  <2>2. cache[a] # 0 /\ past[a][cache[a]] # Absent
    BY <1>7 DEF processNext, ObjectAt
  <2>3. cache[a] \in 1..Len(past[a])
    BY <2>1, <2>2 DEF Newest
  <2>4. past[a][cache[a]] \in Objects
    BY <2>1, <2>2, <2>3
  <2>5. /\ pc' = "space" /\ key' = a /\ snap' = cache[a] /\ synced'
        /\ UNCHANGED <<past, cache>>
    BY <1>7 DEF processNext
  <2>6. Object' = past[a][cache[a]]
    BY <2>2, <2>5 DEF Object, ObjectAt
  <2> QED
    BY <2>1, <2>3, <2>4, <2>5, <2>6 DEF WorkerTypeOK
<1>8. CASE SpaceKnown \/ ReleaseKnown \/ Send
  <2>1. UNCHANGED <<past, synced, cache, key, snap>> /\ Object' = Object
    BY <1>8 DEF SpaceKnown, ReleaseKnown, Send, Object, ObjectAt
  <2>2. pc # "idle"
    BY <1>8 DEF SpaceKnown, ReleaseKnown, Send
  <2>3. pc' \in {"release", "compare", "patch"} /\ space' \in Spaces
    BY <1>0, <1>8 DEF SpaceKnown, ReleaseKnown, Send, getSpaceID, WorkerTypeOK, TypeOK,
                      HubTypeOK
  <2>4. pc' # "release" => target' \in ReleaseIds
    BY <1>0, <1>8 DEF SpaceKnown, ReleaseKnown, Send, getReleaseID, ReleasesWith,
                      WorkerTypeOK
  <2> QED
    BY <1>0, <2>1, <2>2, <2>3, <2>4 DEF WorkerTypeOK
<1>9. Report => Leave \/ SpaceKnown \/ ReleaseKnown \/ Send
  BY DEF Report, NotOurs, ReleaseUnknown, Suppress, patchRelease, patchAnswerLost,
         CallFails, Refused, ReturnNil, ReturnError
<1>10. Restart => Leave
  BY DEF Restart
<1>11. UNCHANGED <<past, synced, cache, workVars>> => WorkerTypeOK'
  BY <1>0 DEF WorkerTypeOK, workVars, Object, ObjectAt
<1> QED
  BY <1>1, <1>3, <1>4, <1>5, <1>6, <1>7, <1>8, <1>9, <1>10, <1>11 DEF Next

\* Every variable keeps its type in every behaviour of the reporter.
THEOREM TypeCorrect == Spec => []TypeOK
<1>1. TypeOK /\ [Next]_vars => TypeOK'
  BY ClusterTypeStep, HubTypeStep, ProcessTypeStep, WorkerTypeStep DEF TypeOK
<1> QED
  BY TypeInit, <1>1, PTL DEF Spec

-----------------------------------------------------------------------------
(* No update is lost.                                                      *)

\* No step loses an update: only the worker takes a key out of the queue, and it
\* then reports the state the store holds.
LEMMA NoLostUpdateStep ==
    TypeOK /\ NoLostUpdate /\ StaleReportIsFollowed /\ [Next]_vars => NoLostUpdate'
<1> SUFFICES ASSUME TypeOK, NoLostUpdate, StaleReportIsFollowed, [Next]_vars, NEW b \in Apps,
                    synced', ObjectAt(b, cache[b])' # Absent, done'[b] # cache'[b]
             PROVE  Pending(queue', b) \/ (key' = b /\ snap' = cache'[b])
  BY DEF NoLostUpdate
<1> DEFINE Kept == Pending(queue', b) \/ (key' = b /\ snap' = cache'[b])
<1>0. /\ queue \in QueueOver(Apps)
      /\ cache \in [Apps -> Nat]
      /\ done \in [Apps -> Nat]
      /\ pc = "idle" => key = None
      /\ pc # "idle" => key \in Apps
      /\ None \notin Apps
  BY NoneAssumption DEF TypeOK, ProcessTypeOK, WorkerTypeOK
<1>a. synced /\ ObjectAt(b, cache[b]) # Absent /\ done[b] # cache[b] =>
        Pending(queue, b) \/ (key = b /\ snap = cache[b])
  BY DEF NoLostUpdate
<1>1. ASSUME NEW a \in Apps, Change(a) PROVE Kept
  <2>1. UNCHANGED <<synced, cache, queue, key, snap, done>>
    BY <1>1 DEF Change, workVars
  <2>2. ObjectAt(b, cache[b])' = ObjectAt(b, cache[b])
    <3>1. cache[b] \in 0..Newest(b)
      BY <1>0 DEF TypeOK, ProcessTypeOK, ClusterTypeOK, Newest
    <3>2. cache[b] # 0 => past'[b][cache[b]] = past[b][cache[b]]
      BY <1>1, <3>1, ChangeKeeps DEF TypeOK
    <3> QED
      BY <2>1, <3>2 DEF ObjectAt
  <2> QED
    BY <1>a, <2>1, <2>2
<1>2. CASE UNCHANGED <<past, synced, cache, queue, key, snap, done>>
  BY <1>a, <1>2 DEF ObjectAt
<1>3. HubMoves \/ SpaceKnown \/ ReleaseKnown \/ Send \/ UNCHANGED vars =>
        UNCHANGED <<past, synced, cache, queue, key, snap, done>>
  BY DEF HubMoves, SpaceKnown, ReleaseKnown, Send, vars, workVars
<1>4. CASE CacheSync
  <2>1. ObjectAt(b, Newest(b)) # Absent
    BY <1>4 DEF CacheSync, ObjectAt
  <2>2. b \in queue'.waiting
    BY <1>0, <1>4, <2>1 DEF CacheSync, QueueOver
  <2> QED
    BY <2>2 DEF Pending
<1>5. ASSUME NEW a \in Apps, Watch(a) PROVE Kept
  <2>1. CASE b = a
    <3>1. ObjectAt(b, cache[b])' = ObjectAt(a, cache[a] + 1)
      BY <1>0, <1>5, <2>1 DEF Watch, ObjectAt
    <3>2. queue' = AddAfter(queue, b)
      BY <1>5, <2>1, <3>1 DEF Watch, enqueue
    <3> QED
      BY <1>0, <3>2, PendingOperations
  <2>2. CASE b # a
    <3>1. /\ UNCHANGED <<past, synced, key, snap, done>>
          /\ cache'[b] = cache[b]
          /\ queue' \in {queue, AddAfter(queue, a)}
      BY <1>0, <1>5, <2>2 DEF Watch, enqueue, workVars
    <3> QED
      BY <1>0, <1>a, <3>1, PendingOperations DEF ObjectAt
  <2> QED
    BY <2>1, <2>2
<1>6. ASSUME NEW a \in Apps, Resync(a) \/ DelayOver(a) PROVE Kept
  <2>1. /\ UNCHANGED <<past, synced, cache, key, snap, done>>
        /\ queue' \in {queue, AddAfter(queue, a), Expire(queue, a)}
    BY <1>6 DEF Resync, DelayOver, enqueue, workVars
  <2> QED
    BY <1>0, <1>a, <2>1, PendingOperations DEF ObjectAt
<1>7. ASSUME NEW a \in Apps, processNext(a) PROVE Kept
  <2>1. /\ UNCHANGED <<past, synced, cache, done>>
        /\ pc = "idle" /\ queue' = Get(queue, a)
        /\ key' = a /\ snap' = cache[a]
    BY <1>7 DEF processNext
  <2>2. CASE b = a
    BY <2>1, <2>2
  <2>3. CASE b # a
    BY <1>0, <1>a, <2>1, <2>3, PendingOperations DEF ObjectAt
  <2> QED
    BY <2>2, <2>3
<1>8. ASSUME NEW a \in Apps, reportDeleted(a) PROVE Kept
  <2>1. /\ UNCHANGED <<past, synced, cache, key, snap, done>>
        /\ queue' = Done(Get(queue, a), a)
        /\ ObjectAt(a, cache[a]) = Absent
    BY <1>8 DEF reportDeleted, workVars
  <2>2. b # a
    BY <2>1 DEF ObjectAt
  <2>3. Pending(queue, b) => Pending(queue', b)
    BY <1>0, <2>1, <2>2, PendingOperations, QueueOperations
  <2> QED
    BY <1>a, <2>1, <2>3 DEF ObjectAt
<1>9. CASE pc # "idle" /\ ReturnNil /\ UNCHANGED <<past, synced, cache>>
  <2>1. key \in Apps /\ queue' = Done(queue, key) /\ done' = [done EXCEPT ![key] = snap]
    BY <1>0, <1>9 DEF ReturnNil
  <2>2. Pending(queue', b) <=> Pending(queue, b)
    BY <1>0, <2>1, PendingOperations
  <2>3. ~(key = b /\ snap = cache[b])
    BY <1>0, <1>9, <2>1
  <2>4. CASE key = b
    <3>1. snap # cache[b] /\ ObjectAt(b, cache[b]) # Absent
      BY <1>9, <2>3, <2>4 DEF ObjectAt
    <3> QED
      BY <1>0, <2>1, <2>2, <2>4, <3>1 DEF StaleReportIsFollowed
  <2>5. CASE key # b
    BY <1>0, <1>9, <1>a, <2>1, <2>2, <2>5 DEF ObjectAt
  <2> QED
    BY <2>4, <2>5
<1>10. CASE pc # "idle" /\ ReturnError /\ UNCHANGED <<past, synced, cache>>
  <2>1. key \in Apps /\ queue' = Done(AddAfter(queue, key), key) /\ done' = done
    BY <1>0, <1>10 DEF ReturnError
  <2>2. Pending(queue', b) <=> b = key \/ Pending(queue, b)
    <3>1. AddAfter(queue, key) \in QueueOver(Apps)
      BY <1>0, <2>1, QueueOperations
    <3>2. Pending(queue', b) <=> Pending(AddAfter(queue, key), b)
      BY <2>1, <3>1, PendingOperations
    <3>3. Pending(AddAfter(queue, key), b) <=> b = key \/ Pending(queue, b)
      BY <1>0, <2>1, PendingOperations
    <3> QED
      BY <3>2, <3>3
  <2> QED
    BY <1>10, <1>a, <2>1, <2>2 DEF ObjectAt
<1>11. CASE NotOurs \/ ReleaseUnknown \/ Suppress \/ patchRelease
  BY <1>9, <1>11 DEF NotOurs, ReleaseUnknown, Suppress, patchRelease
<1>12. CASE patchAnswerLost \/ CallFails \/ Refused
  BY <1>10, <1>12 DEF patchAnswerLost, CallFails, Refused
<1>13. ~Restart
  BY DEF Restart
<1> QED
  BY <1>1, <1>2, <1>3, <1>4, <1>5, <1>6, <1>7, <1>8, <1>11, <1>12, <1>13
  DEF Next, Informer, Report

\* No step leaves an older state being reported without its key in the queue.
LEMMA StaleReportStep ==
    TypeOK /\ StaleReportIsFollowed /\ [Next]_vars => StaleReportIsFollowed'
<1> SUFFICES ASSUME TypeOK, StaleReportIsFollowed, [Next]_vars,
                    key' # None, ObjectAt(key, cache[key])' # Absent, snap' # cache'[key']
             PROVE  Pending(queue', key')
  BY DEF StaleReportIsFollowed
<1>0. /\ queue \in QueueOver(Apps)
      /\ cache \in [Apps -> Nat]
      /\ pc = "idle" => key = None
      /\ key # None => key \in Apps
  BY DEF TypeOK, ProcessTypeOK, WorkerTypeOK
<1>1. CASE Leave
  BY <1>1 DEF Leave
<1>2. CASE /\ UNCHANGED <<past, key, snap>>
           /\ cache'[key] = cache[key]
           /\ Pending(queue, key) => Pending(queue', key)
  BY <1>2 DEF StaleReportIsFollowed, ObjectAt
<1>3. ASSUME NEW a \in Apps, Change(a) PROVE Pending(queue', key')
  <2>1. UNCHANGED <<cache, queue, key, snap>>
    BY <1>3 DEF Change, workVars
  <2>2. key \in Apps /\ cache[key] \in 0..Newest(key)
    BY <1>0, <2>1 DEF TypeOK, ProcessTypeOK, ClusterTypeOK, Newest
  <2>3. cache[key] # 0 => past'[key][cache[key]] = past[key][cache[key]]
    BY <1>3, <2>2, ChangeKeeps DEF TypeOK
  <2> QED
    BY <2>1, <2>3 DEF StaleReportIsFollowed, ObjectAt
<1>4. HubMoves \/ SpaceKnown \/ ReleaseKnown \/ Send \/ UNCHANGED vars =>
        UNCHANGED <<past, cache, queue, key, snap>>
  BY DEF HubMoves, SpaceKnown, ReleaseKnown, Send, vars, workVars
<1>5. ASSUME NEW a \in Apps, Watch(a) PROVE Pending(queue', key')
  <2>1. UNCHANGED <<past, key, snap>> /\ key \in Apps
    BY <1>0, <1>5 DEF Watch, workVars
  <2>2. CASE key = a
    <3>1. ObjectAt(key, cache[key])' = ObjectAt(a, cache[a] + 1)
      BY <1>0, <1>5, <2>1, <2>2 DEF Watch, ObjectAt
    <3>2. queue' = AddAfter(queue, a)
      BY <1>5, <3>1 DEF Watch, enqueue
    <3> QED
      BY <1>0, <2>1, <2>2, <3>2, PendingOperations
  <2>3. CASE key # a
    <3>1. cache'[key] = cache[key] /\ queue' \in {queue, AddAfter(queue, a)}
      BY <1>0, <1>5, <2>1, <2>3 DEF Watch, enqueue
    <3> QED
      BY <1>0, <1>2, <2>1, <3>1, PendingOperations
  <2> QED
    BY <2>2, <2>3
<1>6. ASSUME NEW a \in Apps, Resync(a) \/ DelayOver(a) PROVE Pending(queue', key')
  <2>1. /\ UNCHANGED <<past, cache, key, snap>>
        /\ queue' \in {queue, AddAfter(queue, a), Expire(queue, a)}
    BY <1>6 DEF Resync, DelayOver, enqueue, workVars
  <2>2. key \in Apps
    BY <1>0, <2>1
  <2> QED
    BY <1>0, <1>2, <2>1, <2>2, PendingOperations
<1>7. ASSUME NEW a \in Apps, processNext(a) \/ reportDeleted(a) PROVE Pending(queue', key')
  BY <1>0, <1>7 DEF processNext, reportDeleted, workVars
<1>8. CacheSync => key = None /\ key' = key
  BY DEF CacheSync, workVars, TypeOK, WorkerTypeOK
<1>9. Report => Leave \/ SpaceKnown \/ ReleaseKnown \/ Send
  BY DEF Report, NotOurs, ReleaseUnknown, Suppress, patchRelease, patchAnswerLost,
         CallFails, Refused, ReturnNil, ReturnError
<1>10. Restart => Leave
  BY DEF Restart
<1> QED
  BY <1>1, <1>2, <1>3, <1>4, <1>5, <1>6, <1>7, <1>8, <1>9, <1>10 DEF Next, Informer

\* An update the informer delivered is reported, or is still to be reported:
\* the debounce, a report in progress, a failed call and a restart lose none.
THEOREM UpdatesAreKept == Spec => []NoLostUpdate
<1> DEFINE Inv == TypeOK /\ NoLostUpdate /\ StaleReportIsFollowed
<1>1. Init => Inv
  <2>1. Init => NoLostUpdate
    BY DEF Init, NoLostUpdate
  <2>2. Init => StaleReportIsFollowed
    BY DEF Init, StaleReportIsFollowed
  <2> QED
    BY <2>1, <2>2, TypeInit
<1>2. TypeOK /\ Inv /\ [Next]_vars => NoLostUpdate' /\ StaleReportIsFollowed'
  BY NoLostUpdateStep, StaleReportStep
<1>3. TypeOK /\ [Next]_vars => TypeOK'
  BY ClusterTypeStep, HubTypeStep, ProcessTypeStep, WorkerTypeStep DEF TypeOK
<1>4. Inv /\ [Next]_vars => Inv'
  BY <1>2, <1>3
<1> QED
  BY <1>1, <1>4, PTL DEF Spec

-----------------------------------------------------------------------------
(* The signature.                                                          *)

\* No step makes a signature lie, as long as the answer of a patch is not lost.
LEMMA SignatureStep ==
    ASSUME LoseAnswers = FALSE
    PROVE  TypeOK /\ SignatureHonest /\ [Next]_vars => SignatureHonest'
<1> SUFFICES ASSUME TypeOK, SignatureHonest, [Next]_vars,
                    NEW b \in Apps, lastSig'[b] # NoSig,
                    live'[lastSig'[b].release] # NoStatus,
                    live'[lastSig'[b].release].by = b
             PROVE  live'[lastSig'[b].release].status = lastSig'[b].status
  BY DEF SignatureHonest
<1> DEFINE Honest == live'[lastSig'[b].release].status = lastSig'[b].status
<1>0. /\ lastSig \in [Apps -> Signatures \cup {NoSig}]
      /\ live \in [ReleaseIds -> LiveStatuses \cup {NoStatus}]
  BY DEF TypeOK, ProcessTypeOK, HubTypeOK
<1>a. lastSig[b] # NoSig =>
        LET r == lastSig[b].release IN
        live[r] # NoStatus /\ live[r].by = b => live[r].status = lastSig[b].status
  BY DEF SignatureHonest
<1>1. CASE UNCHANGED <<live, lastSig>>
  BY <1>a, <1>1
<1>2. CASE HubMoves
  <2>1. lastSig' = lastSig
    BY <1>2 DEF HubMoves
  <2>2. CASE \E r \in ReleaseIds : DeleteRelease(r)
    <3>1. PICK r \in ReleaseIds : live' = [live EXCEPT ![r] = NoStatus]
      BY <2>2 DEF DeleteRelease
    <3>2. lastSig[b].release \in ReleaseIds
      BY <1>0, <2>1 DEF Signatures
    <3>3. live'[lastSig[b].release] = live[lastSig[b].release]
      BY <1>0, <2>1, <3>1, <3>2
    <3> QED
      BY <1>a, <2>1, <3>3
  <2>3. CASE ~ \E r \in ReleaseIds : DeleteRelease(r)
    <3>1. live' = live
      BY <1>2, <2>3 DEF HubMoves, ShowSpace, HideSpace, Publish
    <3> QED
      BY <1>1, <2>1, <3>1
  <2> QED
    BY <2>2, <2>3
<1>3. ASSUME NEW a \in Apps, reportDeleted(a) PROVE Honest
  <2>1. live' = live /\ lastSig' = [lastSig EXCEPT ![a] = NoSig]
    BY <1>3 DEF reportDeleted, hubVars
  <2>2. lastSig'[b] = lastSig[b]
    BY <1>0, <2>1
  <2> QED
    BY <1>a, <2>1, <2>2
<1>4. CASE patchRelease
  <2>1. /\ live' = [live EXCEPT ![target] =
                      [by |-> key, ver |-> snap, status |-> Sig.status]]
        /\ lastSig' = [lastSig EXCEPT ![key] = Sig]
    BY <1>4, PatchWrites DEF patchRelease
  <2>2. Sig.release = target /\ target \in ReleaseIds /\ key \in Apps
    BY <1>4, SigType DEF patchRelease, TypeOK, WorkerTypeOK
  <2>3. CASE b = key
    <3>1. lastSig'[b] = Sig
      BY <1>0, <2>1, <2>2, <2>3
    <3>2. live'[target].status = Sig.status
      BY <1>0, <2>1, <2>2
    <3> QED
      BY <2>2, <3>1, <3>2
  <2>4. CASE b # key
    <3>1. lastSig'[b] = lastSig[b]
      BY <1>0, <2>1, <2>2, <2>4
    <3>2. lastSig[b].release # target
      BY <1>0, <2>1, <2>2, <2>4, <3>1
    <3>3. lastSig[b].release \in ReleaseIds
      BY <1>0, <3>1 DEF Signatures
    <3>4. live'[lastSig[b].release] = live[lastSig[b].release]
      BY <1>0, <2>1, <3>2, <3>3
    <3> QED
      BY <1>a, <3>1, <3>4
  <2> QED
    BY <2>3, <2>4
<1>5. ~patchAnswerLost
  BY DEF patchAnswerLost
<1>6. Report => UNCHANGED <<live, lastSig>> \/ patchRelease \/ patchAnswerLost
  BY DEF Report, SpaceKnown, NotOurs, ReleaseKnown, ReleaseUnknown, Suppress, Send,
         CallFails, Refused, ReturnError, hubVars
<1>7. \A a \in Apps : Change(a) \/ Informer(a) \/ processNext(a) => UNCHANGED <<live, lastSig>>
  BY DEF Change, Informer, Watch, Resync, DelayOver, processNext, hubVars
<1>8. CacheSync \/ UNCHANGED vars => UNCHANGED <<live, lastSig>>
  BY DEF CacheSync, vars, hubVars
<1>9. ~Restart
  BY DEF Restart
<1> QED
  BY <1>1, <1>2, <1>3, <1>4, <1>5, <1>6, <1>7, <1>8, <1>9 DEF Next

\* As long as no answer to a patch is lost, suppressing a write is safe.
THEOREM SuppressionIsSafe ==
    ASSUME LoseAnswers = FALSE
    PROVE  Spec => []SuppressedIsCurrent
<1>1. Init => SignatureHonest
  BY DEF Init, SignatureHonest
<1>2. TypeOK /\ SignatureHonest /\ [Next]_vars => SignatureHonest'
  BY SignatureStep
<1>3. TypeOK /\ SignatureHonest => SuppressedIsCurrent
  <2> SUFFICES ASSUME TypeOK, SignatureHonest, pc = "compare", lastSig[key] = Sig,
                      live[target] # NoStatus, live[target].by = key
               PROVE  live[target].status = Sig.status
    BY DEF SuppressedIsCurrent
  <2>1. key \in Apps /\ Sig \in Signatures /\ Sig.release = target
    BY SigType DEF TypeOK, WorkerTypeOK
  <2>2. Sig # NoSig
    BY <2>1, NoSigAssumption DEF Signatures
  <2> QED
    BY <2>1, <2>2 DEF SignatureHonest
<1> QED
  BY <1>1, <1>2, <1>3, TypeCorrect, PTL DEF Spec

-----------------------------------------------------------------------------
(* The right Release.                                                      *)

\* No step lets the worker keep a Release of another Space or digest: a Release
\* number is not used again, and a deleted Release stays deleted.
LEMMA TargetStep == TypeOK /\ TargetIsOfObject /\ [Next]_vars => TargetIsOfObject'
<1> SUFFICES ASSUME TypeOK, TargetIsOfObject, [Next]_vars PROVE TargetIsOfObject'
  OBVIOUS
<1> DEFINE Fresh == \A r \in ReleaseIds : r > published => release[r] = NoRelease
<1>0. /\ published \in Nat
      /\ release \in [ReleaseIds -> Releases \cup {NoRelease}]
      /\ pc # "idle" => key \in Apps /\ snap \in 1..Newest(key)
      /\ pc \in {"compare", "patch"} => target \in ReleaseIds
  BY DEF TypeOK, HubTypeOK, WorkerTypeOK, ProcessTypeOK, ClusterTypeOK, Newest
<1>1. CASE UNCHANGED <<past, hubVars, workVars>>
  BY <1>1 DEF TargetIsOfObject, hubVars, workVars, Object, ObjectAt
<1>2. ASSUME NEW a \in Apps, Change(a) PROVE TargetIsOfObject'
  <2>1. UNCHANGED <<hubVars, workVars>>
    BY <1>2 DEF Change
  <2>2. pc # "idle" => past'[key][snap] = past[key][snap]
    BY <1>0, <1>2, ChangeKeeps DEF TypeOK
  <2>3. pc # "idle" => Object' = Object
    BY <1>0, <2>1, <2>2 DEF Object, ObjectAt, workVars
  <2> QED
    BY <2>1, <2>3 DEF TargetIsOfObject, hubVars, workVars
<1>3. CASE HubMoves
  <2>1. UNCHANGED <<past, workVars>> /\ Object' = Object
    BY <1>3 DEF HubMoves, Object, ObjectAt, workVars
  <2>2. CASE UNCHANGED <<published, release>>
    BY <2>1, <2>2 DEF TargetIsOfObject, workVars
  <2>3. ASSUME NEW sp \in Spaces, NEW d \in Digests, Publish(sp, d)
        PROVE  TargetIsOfObject'
    <3>1. /\ published' = published + 1
          /\ release' = [release EXCEPT ![published + 1] = [space |-> sp, digest |-> d]]
      BY <2>3 DEF Publish
    <3>2. Fresh'
      BY <1>0, <3>1 DEF TargetIsOfObject, ReleaseIds
    <3>3. pc \in {"compare", "patch"} =>
            target <= published' /\ release'[target] = release[target]
      BY <1>0, <3>1 DEF TargetIsOfObject, ReleaseIds
    <3> QED
      BY <2>1, <3>2, <3>3 DEF TargetIsOfObject, workVars
  <2>4. ASSUME NEW r \in ReleaseIds, DeleteRelease(r) PROVE TargetIsOfObject'
    <3>1. published' = published /\ release' = [release EXCEPT ![r] = NoRelease]
      BY <2>4 DEF DeleteRelease
    <3>2. Fresh'
      BY <1>0, <3>1 DEF TargetIsOfObject
    <3>3. pc \in {"compare", "patch"} => release'[target] \in {NoRelease, release[target]}
      BY <1>0, <3>1
    <3> QED
      BY <2>1, <3>1, <3>2, <3>3 DEF TargetIsOfObject, workVars
  <2> QED
    BY <1>3, <2>2, <2>3, <2>4 DEF HubMoves, ShowSpace, HideSpace
<1>4. ASSUME UNCHANGED <<published, release>>, pc' = "idle" \/ pc' = "space"
      PROVE  TargetIsOfObject'
  BY <1>4 DEF TargetIsOfObject
<1>5. CASE SpaceKnown
  <2>1. /\ pc' = "release" /\ UNCHANGED <<published, release>> /\ Object' = Object
        /\ key' = key
    BY <1>5 DEF SpaceKnown, hubVars, Object, ObjectAt
  <2>2. SlugOf[space'] = deploymentSpaceSlug(key, Object)
    BY <1>5 DEF SpaceKnown, getSpaceID
  <2> QED
    BY <2>1, <2>2 DEF TargetIsOfObject
<1>6. CASE ReleaseKnown
  <2>1. /\ pc = "release" /\ pc' = "compare"
        /\ UNCHANGED <<published, release, key, space>> /\ Object' = Object
    BY <1>6 DEF ReleaseKnown, hubVars, Object, ObjectAt
  <2>2. target' \in ReleasesWith(space, Object.revision)
    BY <1>6 DEF ReleaseKnown, getReleaseID
  <2>3. target' \in ReleaseIds /\ release[target'] = [space |-> space, digest |-> Object.revision]
    BY <2>2 DEF ReleasesWith
  <2>4. space \in Spaces /\ Object.revision \in Words
    BY <2>1, ObjectsAssumption DEF TypeOK, WorkerTypeOK
  <2>5. release[target'] # NoRelease
    BY <2>3, <2>4, NoReleaseAssumption
  <2>6. target' <= published
    BY <1>0, <2>3, <2>5 DEF TargetIsOfObject, ReleaseIds
  <2> QED
    BY <2>1, <2>3, <2>6 DEF TargetIsOfObject
<1>7. CASE Send
  BY <1>7 DEF Send, TargetIsOfObject, hubVars, Object, ObjectAt
<1>8. Report => SpaceKnown \/ ReleaseKnown \/ Send
               \/ (pc' = "idle" /\ UNCHANGED <<published, release>>)
  BY DEF Report, NotOurs, ReleaseUnknown, Suppress, patchRelease, patchAnswerLost,
         CallFails, Refused, ReturnNil, ReturnError, Leave, ApplyPatch, hubVars
<1>9. \A a \in Apps : Informer(a) => UNCHANGED <<past, hubVars, workVars>>
  BY DEF Informer, Watch, Resync, DelayOver
<1>10. \A a \in Apps : processNext(a) \/ reportDeleted(a) =>
          \/ UNCHANGED <<past, hubVars, workVars>>
          \/ pc' = "space" /\ UNCHANGED <<published, release>>
  BY DEF processNext, reportDeleted, hubVars
<1>11. CacheSync \/ UNCHANGED vars => UNCHANGED <<past, hubVars, workVars>>
  BY DEF CacheSync, vars
<1>12. Restart => pc' = "idle" /\ UNCHANGED <<published, release>>
  BY DEF Restart, Leave, hubVars
<1> QED
  BY <1>1, <1>2, <1>3, <1>4, <1>5, <1>6, <1>7, <1>8, <1>9, <1>10, <1>11, <1>12 DEF Next

-----------------------------------------------------------------------------
(* The feed.                                                               *)

\* No step writes a state that is newer than the worker's or the store's.
LEMMA NothingNewerStep == TypeOK /\ NothingNewer /\ [Next]_vars => NothingNewer'
<1> SUFFICES ASSUME TypeOK, NothingNewer, [Next]_vars,
                    NEW r \in ReleaseIds, live'[r] # NoStatus
             PROVE  /\ live'[r].ver <= Newest(live[r].by)'
                    /\ synced' => live'[r].ver <= cache'[live'[r].by]
                    /\ key' = live'[r].by => live'[r].ver <= snap'
  BY DEF NothingNewer
<1> DEFINE Older == /\ live'[r].ver <= Newest(live[r].by)'
                    /\ synced' => live'[r].ver <= cache'[live'[r].by]
                    /\ key' = live'[r].by => live'[r].ver <= snap'
<1>0. /\ live \in [ReleaseIds -> LiveStatuses \cup {NoStatus}]
      /\ cache \in [Apps -> Nat]
      /\ \A a \in Apps : cache[a] <= Newest(a) /\ Newest(a) \in Nat
      /\ pc = "idle" => key = None
      /\ pc # "idle" => key \in Apps /\ snap \in 1..cache[key] /\ synced
      /\ None \notin Apps
  BY NoneAssumption DEF TypeOK, HubTypeOK, ProcessTypeOK, ClusterTypeOK, WorkerTypeOK, Newest
<1>a. live[r] # NoStatus =>
        /\ live[r].by \in Apps /\ live[r].ver \in Nat
        /\ live[r].ver <= Newest(live[r].by)
        /\ synced => live[r].ver <= cache[live[r].by]
        /\ key = live[r].by => live[r].ver <= snap
  BY <1>0, BoundsAssumption DEF NothingNewer, LiveStatuses
<1>1. CASE UNCHANGED <<past, synced, cache, key, snap>> /\ live'[r] = live[r]
  BY <1>a, <1>1 DEF Newest
<1>2. ASSUME NEW a \in Apps, Change(a) PROVE Older
  <2>1. UNCHANGED <<live, synced, cache, key, snap>>
    BY <1>2 DEF Change, hubVars, workVars
  <2>2. Newest(live[r].by) <= Newest(live[r].by)' /\ Newest(live[r].by)' \in Nat
    BY <1>a, <1>2, <2>1, ChangeKeeps DEF TypeOK
  <2> QED
    BY <1>0, <1>a, <2>1, <2>2
<1>3. CASE HubMoves
  <2>1. UNCHANGED <<past, synced, cache, key, snap>>
    BY <1>3 DEF HubMoves, workVars
  <2>2. live'[r] = live[r]
    BY <1>0, <1>3 DEF HubMoves, ShowSpace, HideSpace, Publish, DeleteRelease
  <2> QED
    BY <1>1, <2>1, <2>2
<1>4. CASE CacheSync
  <2>1. UNCHANGED <<past, live>> /\ cache' = [a \in Apps |-> Newest(a)] /\ key' = None
    BY <1>0, <1>4 DEF CacheSync, hubVars, workVars, TypeOK, WorkerTypeOK
  <2> QED
    BY <1>0, <1>a, <2>1 DEF Newest
<1>5. ASSUME NEW a \in Apps, Watch(a) PROVE Older
  <2>1. UNCHANGED <<past, live, synced, key, snap>> /\ cache' = [cache EXCEPT ![a] = @ + 1]
    BY <1>5 DEF Watch, hubVars, workVars
  <2>2. cache[live[r].by] <= cache'[live[r].by] /\ cache'[live[r].by] \in Nat
    BY <1>0, <1>a, <2>1
  <2> QED
    BY <1>0, <1>a, <2>1, <2>2 DEF Newest
<1>6. ASSUME NEW a \in Apps, processNext(a) PROVE Older
  <2>1. UNCHANGED <<past, live, synced, cache>> /\ synced /\ key' = a /\ snap' = cache[a]
    BY <1>6 DEF processNext, hubVars
  <2> QED
    BY <1>a, <2>1 DEF Newest
<1>7. CASE UNCHANGED <<past, live, synced, cache>> /\ key' = None
  BY <1>0, <1>a, <1>7 DEF Newest
<1>8. CASE patchRelease \/ patchAnswerLost
  <2>1. /\ live' = [live EXCEPT ![target] =
                      [by |-> key, ver |-> snap, status |-> Sig.status]]
        /\ UNCHANGED <<past, synced, cache>>
        /\ key' = None
        /\ pc = "patch"
    BY <1>8, PatchWrites DEF patchRelease, patchAnswerLost, ReturnNil, ReturnError, Leave
  <2>2. target \in ReleaseIds
    BY <2>1 DEF TypeOK, WorkerTypeOK
  <2>3. CASE r = target
    <3>1. live'[r].ver = snap /\ live'[r].by = key
      BY <1>0, <2>1, <2>2, <2>3
    <3>2. /\ key \in Apps /\ snap \in Nat /\ cache[key] \in Nat /\ Newest(key) \in Nat
          /\ snap <= cache[key] /\ cache[key] <= Newest(key)
      BY <1>0, <2>1
    <3> QED
      BY <1>0, <2>1, <3>1, <3>2 DEF Newest
  <2>4. CASE r # target
    <3>1. live'[r] = live[r]
      BY <1>0, <2>1, <2>4
    <3> QED
      BY <1>0, <1>a, <2>1, <3>1 DEF Newest
  <2> QED
    BY <2>3, <2>4
<1>9. Report =>
        \/ UNCHANGED <<past, live, synced, cache, key, snap>>
        \/ UNCHANGED <<past, live, synced, cache>> /\ key' = None
        \/ patchRelease \/ patchAnswerLost
  BY DEF Report, SpaceKnown, NotOurs, ReleaseKnown, ReleaseUnknown, Suppress, Send,
         CallFails, Refused, ReturnNil, ReturnError, Leave, hubVars
<1>10. \A a \in Apps : Resync(a) \/ DelayOver(a) \/ reportDeleted(a) =>
          UNCHANGED <<past, live, synced, cache, key, snap>>
  BY DEF Resync, DelayOver, reportDeleted, hubVars, workVars
<1>11. UNCHANGED vars => UNCHANGED <<past, live, synced, cache, key, snap>>
  BY DEF vars, hubVars, workVars
<1>12. CASE Restart
  <2>1. UNCHANGED <<past, live>> /\ key' = None /\ synced' = FALSE
    BY <1>12 DEF Restart, Leave, hubVars
  <2> QED
    BY <1>0, <1>a, <2>1 DEF Newest
<1> QED
  BY <1>1, <1>2, <1>3, <1>4, <1>5, <1>6, <1>7, <1>8, <1>9, <1>10, <1>11, <1>12
  DEF Next, Informer

\* A patch is a Report of the feed: of the state that was read, on a Release
\* that state names, over nothing newer.
LEMMA PatchReports ==
    ASSUME TypeOK, TargetIsOfObject, NothingNewer, pc = "patch", ApplyPatch, UNCHANGED past
    PROVE  Feed!Next
<1>1. /\ key \in Apps /\ snap \in 1..Len(past[key]) /\ target \in ReleaseIds
      /\ Object \in Objects /\ Object = past[key][snap] /\ space \in Spaces
  BY DEF TypeOK, WorkerTypeOK, ProcessTypeOK, ClusterTypeOK, Newest, Object, ObjectAt
<1>2. /\ live' = [live EXCEPT ![target] =
                    [by |-> key, ver |-> snap, status |-> Sig.status]]
      /\ release[target] # NoRelease
      /\ UNCHANGED <<visible, published, release>>
  BY PatchWrites
<1>3. Sig.status = projectStatus(key, past[key][snap])
  BY <1>1 DEF Sig
<1>4. /\ release[target] = [space |-> space, digest |-> Object.revision]
      /\ SlugOf[space] = deploymentSpaceSlug(key, Object)
  BY <1>2 DEF TargetIsOfObject
<1>5. Feed!Runs(key, snap, target)
  <2>1. past[key][snap] # Absent
    BY <1>1, AbsentAssumption
  <2>2. release[target].digest = past[key][snap].revision /\ release[target].space = space
    BY <1>1, <1>4
  <2>3. SlugOf[space] = Feed!deploymentSpaceSlug(key, past[key][snap])
    BY <1>1, <1>4 DEF deploymentSpaceSlug, Feed!deploymentSpaceSlug
  <2> QED
    BY <1>1, <1>2, <2>1, <2>2, <2>3 DEF Feed!Runs
<1>6. live[target] # NoStatus /\ live[target].by = key => live[target].ver <= snap
  BY <1>1 DEF NothingNewer
<1>7. Feed!Report(key, snap, target)
  <2>1. Feed!projectStatus(key, past[key][snap]) = projectStatus(key, past[key][snap])
    BY DEF projectStatus, Feed!projectStatus, FromArgoCD, Feed!FromArgoCD,
           OrUnknown, Feed!OrUnknown, Fields, Feed!Fields
  <2> QED
    BY <1>2, <1>3, <1>5, <1>6, <2>1 DEF Feed!Report
<1> QED
  BY <1>1, <1>7 DEF Feed!Next, ReleaseIds, Feed!ReleaseIds

\* A step of the reporter is a step of the feed, or changes nothing it can see.
LEMMA FeedStep ==
    TypeOK /\ TargetIsOfObject /\ NothingNewer /\ [Next]_vars => [Feed!Next]_(Feed!vars)
<1> SUFFICES ASSUME TypeOK, TargetIsOfObject, NothingNewer, [Next]_vars
             PROVE  Feed!Next \/ UNCHANGED <<past, hubVars>>
  BY DEF Feed!vars, Feed!hubVars, hubVars
<1>1. ASSUME NEW a \in Apps, Change(a) PROVE Feed!Next
  <2>1. Feed!Change(a)
    BY <1>1 DEF Change, Feed!Change, hubVars, Feed!hubVars
  <2> QED
    BY <2>1 DEF Feed!Next
<1>2. CASE HubMoves
  <2>1. UNCHANGED past
    BY <1>2 DEF HubMoves
  <2> QED
    BY <1>2 DEF HubMoves, Feed!Next, ShowSpace, HideSpace, Publish, DeleteRelease,
                Feed!ShowSpace, Feed!HideSpace, Feed!Publish, Feed!DeleteRelease,
                ReleaseIds, Feed!ReleaseIds
<1>3. CASE patchRelease \/ patchAnswerLost
  BY <1>3, PatchReports DEF patchRelease, patchAnswerLost
<1>4. Report => UNCHANGED <<past, hubVars>> \/ patchRelease \/ patchAnswerLost
  BY DEF Report, SpaceKnown, NotOurs, ReleaseKnown, ReleaseUnknown, Suppress, Send,
         CallFails, Refused
<1>5. \A a \in Apps : Informer(a) \/ processNext(a) \/ reportDeleted(a) =>
          UNCHANGED <<past, hubVars>>
  BY DEF Informer, Watch, Resync, DelayOver, processNext, reportDeleted
<1>6. CacheSync \/ Restart \/ UNCHANGED vars => UNCHANGED <<past, hubVars>>
  BY DEF CacheSync, Restart, vars
<1> QED
  BY <1>1, <1>2, <1>3, <1>4, <1>5, <1>6 DEF Next

\* The reporter implements the feed: with any number of Applications, Spaces,
\* changes, failures, lost answers and restarts.
THEOREM ReporterImplementsFeed == Spec => ImplementsFeed
<1> DEFINE Inv == TypeOK /\ TargetIsOfObject /\ NothingNewer
<1>1. Init => Inv
  <2>1. Init => TargetIsOfObject
    BY DEF Init, HubInit, TargetIsOfObject
  <2>2. Init => NothingNewer
    BY DEF Init, HubInit, NothingNewer
  <2> QED
    BY <2>1, <2>2, TypeInit
<1>2. Inv /\ [Next]_vars => Inv'
  BY ClusterTypeStep, HubTypeStep, ProcessTypeStep, WorkerTypeStep, TargetStep,
     NothingNewerStep DEF TypeOK
<1>3. Init => Feed!Init
  BY DEF Init, HubInit, Feed!Init, Feed!HubInit, ReleaseIds, Feed!ReleaseIds
<1>4. Inv /\ [Next]_vars => [Feed!Next]_(Feed!vars)
  BY FeedStep
<1> QED
  BY <1>1, <1>2, <1>3, <1>4, PTL DEF Spec, ImplementsFeed, Feed!Spec

=============================================================================
