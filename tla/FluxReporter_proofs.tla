------------------------ MODULE FluxReporter_proofs ------------------------
(***************************************************************************)
(* Proofs about FluxReporter, for every value of its constants: the types  *)
(* of every variable; that no update of the repository or of a             *)
(* Kustomization is lost; what the plans after one that was carried out    *)
(* have left to write; and that a mark keeps the failure it covers.  What  *)
(* a plan writes is in FluxPlan_proofs.                                    *)
(***************************************************************************)
EXTENDS FluxReporter, FluxPlan_proofs, WorkQueue_proofs, TLAPS

\* The part of TypeOK that the argument needs.
Typed == ObjectsTypeOK /\ WorkerTypeOK

-----------------------------------------------------------------------------
(* Facts about single steps.                                               *)

LEMMA SourceIsObject == Source \in Objects /\ Key \in {Key}
BY DEF Objects

LEMMA BoundsAreNat == MaxFailures \in Nat /\ MaxRestarts \in Nat
BY FluxReporterBounds

LEMMA EmptyIsQueue == EmptyQueue \in QueueOver({Key})
BY DEF EmptyQueue, QueueOver

\* A change appends a state and leaves the earlier ones alone.
LEMMA ChangeKeeps ==
    ASSUME ObjectsTypeOK, NEW o \in Objects, Change(o), NEW b \in Objects
    PROVE  /\ DOMAIN past' = Objects
           /\ past'[b] \in Seq(States(b) \cup {Absent})
           /\ Newest[b] \in Nat /\ Newest'[b] \in Nat
           /\ Newest[b] <= Newest'[b]
           /\ \A v \in 1..Newest[b] : past'[b][v] = past[b][v]
<1>1. PICK s \in States(o) \cup {Absent} : past' = [past EXCEPT ![o] = Append(@, s)]
  BY DEF Change
<1>2. DOMAIN past = Objects /\ past[b] \in Seq(States(b) \cup {Absent})
  BY DEF ObjectsTypeOK
<1>3. Newest[b] = Len(past[b]) /\ Newest'[b] = Len(past'[b])
  BY DEF Newest
<1>4. CASE b = o
  <2>1. past'[b] = Append(past[b], s)
    BY <1>1, <1>2, <1>4
  <2> QED
    BY <1>1, <1>2, <1>3, <1>4, <2>1
<1>5. CASE b # o
  <2>1. past'[b] = past[b]
    BY <1>1, <1>2, <1>5
  <2> QED
    BY <1>1, <1>2, <1>3, <2>1
<1> QED
  BY <1>4, <1>5

\* The state of an object that the store has is the same before and after a step
\* that does not touch the store.
LEMMA StatesStay ==
    ASSUME Typed, NEW a \in Objects, UNCHANGED past \/ Change(a), NEW o \in Objects,
           NEW v \in 0..cache[o]
    PROVE  ObjectAt(o, v)' = ObjectAt(o, v)
<1>1. cache[o] \in Nat /\ cache[o] <= Newest[o] /\ v \in Nat
  BY DEF Typed, ObjectsTypeOK
<1>2. CASE UNCHANGED past
  BY <1>2 DEF ObjectAt
<1>3. CASE Change(a)
  <2>1. Newest[o] \in Nat /\ \A w \in 1..Newest[o] : past'[o][w] = past[o][w]
    BY <1>3, ChangeKeeps DEF Typed
  <2> QED
    BY <1>1, <2>1 DEF ObjectAt
<1> QED
  BY <1>2, <1>3

\* A step of a report leaves the cluster and the stores alone.  It ends the report,
\* reads the Kustomizations, or keeps what was read and the queue.
LEMMA ReportFrame ==
    ASSUME Report
    PROVE  /\ pc # "idle"
           /\ UNCHANGED <<past, synced, cache>>
           /\ \/ ReturnNil(ReadNow) /\ pc # "write"
              \/ ReturnNil(snap) /\ pc = "write"
              \/ ReturnError
              \/ snap' = ReadNow /\ pc' = "write" /\ pc = "plan" /\ UNCHANGED <<queue, done>>
              \/ /\ UNCHANGED <<snap, queue, done>>
                 /\ pc' = "write" <=> pc = "write"
                 /\ pc' \in {"list", "plan", "write"}
           /\ UNCHANGED restarts /\ failed' \in {failed} \cup BOOLEAN
           /\ UNCHANGED failures \/ (failures < MaxFailures /\ failures' = failures + 1)
<1>1. CASE getSpaceID \/ listReleases \/ Plan
  BY <1>1 DEF getSpaceID, listReleases, Plan, histVars, countVars
<1>2. CASE NotKnown \/ AllWritten \/ LookupFails
  BY <1>2 DEF NotKnown, AllWritten, LookupFails, countVars, ReturnNil, ReturnError, Leave
<1>3. CASE writeIfChanged \/ writeAnswerLost \/ writeFails \/ writeRefused
  BY <1>3 DEF writeIfChanged, writeAnswerLost, writeFails, writeRefused, Over
<1> QED
  BY <1>1, <1>2, <1>3 DEF Report

\* What a step outside a report does.
LEMMA Frames ==
    /\ HubMoves => UNCHANGED <<past, synced, cache, queue, workVars, histVars, countVars>>
    /\ \A o \in Objects : Change(o) =>
          UNCHANGED <<synced, cache, queue, workVars, histVars, countVars>>
    /\ CacheSync \/ Resync \/ DelayOver => UNCHANGED <<past, workVars, histVars, countVars>>
    /\ \A o \in Objects : Watch(o) =>
          UNCHANGED <<past, synced, workVars, histVars, countVars>>
    /\ processNext \/ reportDeleted => UNCHANGED <<past, synced, cache, histVars, countVars>>
BY DEF HubMoves, Change, CacheSync, Resync, DelayOver, Watch, processNext, reportDeleted

-----------------------------------------------------------------------------
(* Types.                                                                  *)

LEMMA TypedInit == Init => Typed
<1> SUFFICES ASSUME Init PROVE Typed
  OBVIOUS
<1>1. ObjectsTypeOK
  <2>1. past = [o \in Objects |-> <<>>] /\ cache = NothingSeen /\ snap = NothingSeen
        /\ done = NothingSeen
    BY DEF Init
  <2> QED
    BY <2>1 DEF ObjectsTypeOK, NothingSeen, Newest
<1>2. WorkerTypeOK
  <2>1. /\ synced = FALSE /\ failed = FALSE /\ queue = EmptyQueue /\ pc = "idle"
        /\ failures = 0 /\ restarts = 0
    BY DEF Init
  <2> QED
    <3>1. failures \in 0..MaxFailures /\ restarts \in 0..MaxRestarts
      BY <2>1, BoundsAreNat
    <3>2. queue \in QueueOver({Key})
      BY <2>1, EmptyIsQueue
    <3> QED
      BY <2>1, <3>1, <3>2 DEF WorkerTypeOK
<1> QED
  BY <1>1, <1>2 DEF Typed

LEMMA ObjectsStep == Typed /\ [Next]_vars => ObjectsTypeOK'
<1> SUFFICES ASSUME Typed, [Next]_vars PROVE ObjectsTypeOK'
  OBVIOUS
<1>a. /\ ObjectsTypeOK /\ Source \in Objects
      /\ cache \in [Objects -> Nat] /\ snap \in [Objects -> Nat] /\ done \in [Objects -> Nat]
  BY SourceIsObject DEF Typed, ObjectsTypeOK
<1>b. Newest \in [Objects -> Nat]
  BY DEF Typed, ObjectsTypeOK, Newest
<1>0. \A o \in Objects : snap[o] <= cache[o] /\ done[o] <= cache[o] /\ cache[o] <= Newest[o]
  BY DEF Typed, ObjectsTypeOK
<1>1. CASE UNCHANGED <<past, cache, snap, done>>
  BY <1>a, <1>0, <1>1 DEF ObjectsTypeOK, Newest
<1>2. ASSUME NEW o \in Objects, Change(o) PROVE ObjectsTypeOK'
  <2>1. UNCHANGED <<cache, snap, done>>
    BY <1>2 DEF Change, workVars, histVars
  <2>2. /\ DOMAIN past' = Objects
        /\ \A b \in Objects : /\ past'[b] \in Seq(States(b) \cup {Absent})
                              /\ Newest[b] <= Newest'[b] /\ Newest'[b] \in Nat
    BY <1>a, <1>b, <1>0, <1>2, ChangeKeeps
  <2>3. ASSUME NEW b \in Objects PROVE cache[b] <= Newest'[b]
    <3>1. /\ cache[b] \in Nat /\ Newest[b] \in Nat /\ Newest'[b] \in Nat
          /\ cache[b] <= Newest[b] /\ Newest[b] <= Newest'[b]
      BY <1>a, <1>b, <1>0, <2>2
    <3> QED
      BY <3>1
  <2> QED
    BY <1>a, <1>b, <1>0, <2>1, <2>2, <2>3 DEF ObjectsTypeOK
<1>3. CASE CacheSync
  <2>1. UNCHANGED <<past, snap, done>> /\ cache' = Newest /\ Newest' = Newest
    BY <1>3 DEF CacheSync, workVars, histVars, Newest
  <2>2. Newest \in [Objects -> Nat]
    BY <1>a, <1>b, <1>0 DEF Newest
  <2>3. \A o \in Objects : /\ snap[o] <= Newest[o] /\ done[o] <= Newest[o]
                           /\ Newest[o] <= Newest[o]
    BY <1>a, <1>b, <1>0
  <2> QED
    BY <1>a, <1>b, <1>0, <2>1, <2>2, <2>3 DEF ObjectsTypeOK
<1>4. ASSUME NEW o \in Objects, Watch(o) PROVE ObjectsTypeOK'
  <2>1. /\ UNCHANGED <<past, snap, done>> /\ cache' = [cache EXCEPT ![o] = @ + 1]
        /\ cache[o] < Newest[o] /\ Newest' = Newest
    BY <1>4 DEF Watch, workVars, histVars, Newest
  <2>2. /\ cache' \in [Objects -> Nat]
        /\ \A b \in Objects : cache[b] <= cache'[b] /\ cache'[b] <= Newest[b]
    BY <1>a, <1>b, <1>0, <2>1 DEF ObjectsTypeOK
  <2>3. \A b \in Objects : snap[b] <= cache'[b] /\ done[b] <= cache'[b]
    BY <1>a, <1>b, <1>0, <2>2
  <2> QED
    BY <1>a, <1>b, <1>0, <2>1, <2>2, <2>3 DEF ObjectsTypeOK
<1>5. NothingSeen \in [Objects -> Nat] /\ \A o \in Objects : NothingSeen[o] = 0
  BY DEF NothingSeen
<1>6. CASE processNext
  <2>1. /\ UNCHANGED <<past, cache, done>> /\ Newest' = Newest
        /\ snap' = [NothingSeen EXCEPT ![Source] = cache[Source]]
    BY <1>6 DEF processNext, histVars, Newest
  <2>2. snap' \in [Objects -> Nat] /\ \A o \in Objects : snap'[o] <= cache[o]
    BY <1>a, <1>b, <1>0, <1>5, <2>1
  <2> QED
    BY <1>a, <1>b, <1>0, <2>1, <2>2 DEF ObjectsTypeOK
<1>7. /\ ReadNow \in [Objects -> Nat]
      /\ \A o \in Objects : ReadNow[o] <= cache[o]
  BY <1>a, <1>b, <1>0 DEF ReadNow, ObjectsTypeOK
<1>8. CASE Report
  <2>1. UNCHANGED <<past, cache>> /\ Newest' = Newest
    BY <1>8, ReportFrame DEF Newest
  <2>2. snap' \in {snap, NothingSeen, ReadNow} /\ done' \in {done, snap, ReadNow}
    BY <1>8, ReportFrame DEF ReturnNil, ReturnError, Leave, histVars
  <2> DEFINE Seen == {f \in [Objects -> Nat] : \A o \in Objects : f[o] <= cache[o]}
  <2>3. {snap, done, ReadNow, NothingSeen} \subseteq Seen
    BY <1>a, <1>0, <1>5, <1>7
  <2> HIDE DEF Seen
  <2>4. snap' \in Seen /\ done' \in Seen
    BY <2>2, <2>3
  <2>5. /\ snap' \in [Objects -> Nat] /\ done' \in [Objects -> Nat]
        /\ \A o \in Objects : snap'[o] <= cache[o] /\ done'[o] <= cache[o]
    BY <2>4 DEF Seen
  <2> QED
    BY <1>a, <1>b, <1>0, <2>1, <2>5 DEF ObjectsTypeOK
<1>9. CASE Restart
  <2>1. /\ UNCHANGED past /\ cache' = NothingSeen /\ snap' = NothingSeen
        /\ done' = NothingSeen /\ Newest' = Newest
    BY <1>9 DEF Restart, Leave, Newest
  <2>2. \A o \in Objects : NothingSeen[o] <= NothingSeen[o] /\ NothingSeen[o] <= Newest[o]
    BY <1>b, <1>5
  <2> QED
    BY <1>a, <1>5, <2>1, <2>2 DEF ObjectsTypeOK
<1> QED
  BY <1>1, <1>2, <1>3, <1>4, <1>6, <1>8, <1>9, Frames
  DEF Next, vars, workVars, histVars, Resync, DelayOver, reportDeleted

LEMMA WorkerStep == Typed /\ [Next]_vars => WorkerTypeOK'
<1> SUFFICES ASSUME Typed, [Next]_vars PROVE WorkerTypeOK'
  OBVIOUS
<1>0. /\ WorkerTypeOK /\ queue \in QueueOver({Key}) /\ Source \in Objects
      /\ failures \in 0..MaxFailures /\ restarts \in 0..MaxRestarts
      /\ snap[Source] \in 0..cache[Source]
  BY SourceIsObject DEF Typed, WorkerTypeOK, ObjectsTypeOK
<1>1. /\ AddAfter(queue, Key) \in QueueOver({Key}) /\ Expire(queue, Key) \in QueueOver({Key})
      /\ Get(queue, Key) \in QueueOver({Key}) /\ Done(queue, Key) \in QueueOver({Key})
      /\ Done(Get(queue, Key), Key) \in QueueOver({Key})
      /\ Done(AddAfter(queue, Key), Key) \in QueueOver({Key})
  BY <1>0, SourceIsObject, QueueOperations
<1>2. ASSUME UNCHANGED <<workVars, synced, countVars>>, queue' \in QueueOver({Key}),
             UNCHANGED past \/ \E a \in Objects : Change(a)
      PROVE  WorkerTypeOK'
  <2>1. ObjectAt(Source, snap[Source])' = ObjectAt(Source, snap[Source])
    BY <1>0, <1>2, StatesStay DEF workVars
  <2> QED
    BY <1>0, <1>2, <2>1 DEF WorkerTypeOK, workVars, countVars
<1>3. CASE UNCHANGED vars \/ HubMoves
  BY <1>0, <1>2, <1>3, Frames DEF vars
<1>4. ASSUME NEW o \in Objects, Change(o) \/ Watch(o) PROVE WorkerTypeOK'
  BY <1>0, <1>1, <1>2, <1>4, Frames DEF Watch, enqueue
<1>5. CASE Resync \/ DelayOver \/ reportDeleted
  BY <1>0, <1>1, <1>2, <1>5 DEF Resync, DelayOver, reportDeleted
<1>6. CASE CacheSync
  <2>1. /\ UNCHANGED <<past, workVars, countVars>> /\ synced' = TRUE
        /\ queue' \in {queue, AddAfter(queue, Key)}
    BY <1>6 DEF CacheSync
  <2> QED
    BY <1>0, <1>1, <2>1 DEF WorkerTypeOK, workVars, countVars, ObjectAt
<1>7. CASE processNext
  <2>1. /\ UNCHANGED <<past, synced, failed, countVars>> /\ synced /\ pc' = "space"
        /\ queue' = Get(queue, Key) /\ snap' = [NothingSeen EXCEPT ![Source] = cache[Source]]
        /\ ObjectAt(Source, cache[Source]) # Absent
    BY <1>7 DEF processNext
  <2>2. snap'[Source] = cache[Source]
    BY <1>0, <2>1 DEF NothingSeen
  <2> QED
    BY <1>0, <1>1, <2>1, <2>2 DEF WorkerTypeOK, countVars, ObjectAt
<1>8. CASE Report
  <2>1. /\ pc # "idle" /\ UNCHANGED <<past, synced, restarts>>
        /\ failures' \in 0..MaxFailures /\ failed' \in BOOLEAN
    <3>1. UNCHANGED failures \/ (failures < MaxFailures /\ failures' = failures + 1)
      BY <1>8, ReportFrame
    <3>2. failures' \in 0..MaxFailures
      BY <1>0, <3>1, BoundsAreNat
    <3>3. failed' \in BOOLEAN
      BY <1>0, <1>8, ReportFrame DEF WorkerTypeOK
    <3> QED
      BY <1>8, <3>2, <3>3, ReportFrame
  <2>2. CASE ReturnNil(ReadNow) \/ ReturnNil(snap) \/ ReturnError
    BY <1>0, <1>1, <2>1, <2>2 DEF WorkerTypeOK, ReturnNil, ReturnError, Leave
  <2>3. CASE UNCHANGED queue /\ snap'[Source] = snap[Source] /\ pc' \in {"list", "plan", "write"}
    BY <1>0, <2>1, <2>3 DEF WorkerTypeOK, ObjectAt
  <2>4. ReadNow[Source] = snap[Source]
    BY <1>0 DEF ReadNow, Typed, ObjectsTypeOK
  <2> QED
    BY <1>8, <2>2, <2>3, <2>4, ReportFrame
<1>9. CASE Restart
  <2>1. /\ synced' = FALSE /\ queue' = EmptyQueue /\ pc' = "idle" /\ failed' = FALSE
        /\ UNCHANGED failures /\ restarts < MaxRestarts /\ restarts' = restarts + 1
    BY <1>9 DEF Restart, Leave
  <2>2. restarts' \in 0..MaxRestarts
    BY <1>0, <2>1, BoundsAreNat
  <2> QED
    BY <1>0, <2>1, <2>2, EmptyIsQueue DEF WorkerTypeOK
<1> QED
  BY <1>3, <1>4, <1>5, <1>6, <1>7, <1>8, <1>9 DEF Next

\* Every reachable state has its objects, its queue and its worker in order.
LEMMA FluxTyped == Spec => []Typed
<1>1. Typed /\ [Next]_vars => Typed'
  BY ObjectsStep, WorkerStep DEF Typed
<1> QED
  BY <1>1, TypedInit, PTL DEF Spec

-----------------------------------------------------------------------------
(* No update is lost.                                                      *)

Here(o) == ObjectAt(o, cache[o]) # Absent

\* While the store is left alone its objects are what they were.
LEMMA HereStays ==
    ASSUME Typed, NEW a \in Objects, UNCHANGED past \/ Change(a), UNCHANGED cache,
           NEW o \in Objects
    PROVE  Here(o)' = Here(o)
<1>1. cache[o] \in 0..cache[o]
  BY DEF Typed, ObjectsTypeOK
<1>2. ObjectAt(o, cache[o])' = ObjectAt(o, cache[o])
  BY <1>1, StatesStay
<1> QED
  BY <1>2 DEF Here

\* What the queue's operations do to its only key.
LEMMA KeyPending ==
    ASSUME Typed
    PROVE  /\ Pending(AddAfter(queue, Key), Key)
           /\ Pending(queue, Key) => Pending(Expire(queue, Key), Key)
           /\ Pending(Done(queue, Key), Key) <=> Pending(queue, Key)
           /\ Pending(Done(AddAfter(queue, Key), Key), Key)
<1>1. queue \in QueueOver({Key}) /\ Key \in {Key}
  BY DEF Typed, WorkerTypeOK
<1>2. AddAfter(queue, Key) \in QueueOver({Key})
  BY <1>1, QueueOperations
<1> QED
  BY <1>1, <1>2, PendingOperations

\* An object that changes while an older state of it is being reported puts the key
\* in the queue again, and nothing but the end of the report takes it out.
LEMMA StaleReportStep ==
    Typed /\ StaleReportIsFollowed /\ [Next]_vars => StaleReportIsFollowed'
<1> SUFFICES ASSUME Typed, StaleReportIsFollowed, [Next]_vars, pc' # "idle",
                    NEW o \in Objects, Here(Source)', Here(o)', ~WillRead(o)'
             PROVE  Pending(queue, Key)'
  BY DEF StaleReportIsFollowed, Here
<1>0. /\ Source \in Objects /\ cache[o] \in Nat /\ DOMAIN cache = Objects
      /\ pc # "idle" => synced
  BY SourceIsObject DEF Typed, ObjectsTypeOK, WorkerTypeOK
<1>1. ASSUME pc # "idle", UNCHANGED cache, NEW a \in Objects, UNCHANGED past \/ Change(a),
             pc' = "write" <=> pc = "write", snap'[o] = snap[o],
             Pending(queue, Key) => Pending(queue, Key)'
      PROVE  Pending(queue, Key)'
  <2>1. Here(Source) /\ Here(o)
    BY <1>0, <1>1, HereStays
  <2>2. ~WillRead(o)
    BY <1>1 DEF WillRead
  <2> QED
    BY <1>1, <2>1, <2>2 DEF StaleReportIsFollowed, Here
<1>2. CASE UNCHANGED vars \/ HubMoves
  BY <1>0, <1>1, <1>2, Frames DEF vars, workVars
<1>3. ASSUME NEW a \in Objects, Change(a) PROVE Pending(queue, Key)'
  BY <1>0, <1>1, <1>3, Frames DEF workVars
<1>4. ASSUME NEW a \in Objects, Watch(a) PROVE Pending(queue, Key)'
  <2>1. /\ UNCHANGED <<past, workVars>> /\ cache' = [cache EXCEPT ![a] = @ + 1]
        /\ queue' = enqueue(a, cache[a] + 1)
    BY <1>4, Frames DEF Watch
  <2>2. CASE ObjectAt(a, cache[a] + 1) = Absent
    <3>1. o # a /\ Source # a
      BY <1>0, <2>1, <2>2 DEF Here, ObjectAt
    <3>2. Here(o) /\ Here(Source) /\ ~WillRead(o) /\ UNCHANGED queue
      BY <1>0, <2>1, <2>2, <3>1 DEF Here, ObjectAt, WillRead, workVars, enqueue
    <3> QED
      BY <2>1, <3>2 DEF StaleReportIsFollowed, Here, workVars
  <2>3. CASE ObjectAt(a, cache[a] + 1) # Absent
    BY <2>1, <2>3, KeyPending DEF enqueue
  <2> QED
    BY <2>2, <2>3
<1>5. CASE CacheSync
  BY <1>0, <1>5 DEF CacheSync, workVars
<1>6. CASE Resync \/ DelayOver
  BY <1>0, <1>1, <1>6, KeyPending DEF Resync, DelayOver, workVars
<1>7. CASE processNext
  <2>1. pc' = "space" /\ snap' = [NothingSeen EXCEPT ![Source] = cache[Source]]
        /\ UNCHANGED cache
    BY <1>7 DEF processNext
  <2> QED
    BY <1>0, <2>1 DEF WillRead, NothingSeen
<1>8. CASE reportDeleted
  BY <1>8 DEF reportDeleted, Here, ObjectAt
<1>9. CASE Report
  <2>1. UNCHANGED <<past, cache>> /\ pc # "idle"
    BY <1>9, ReportFrame
  <2>2. CASE snap' = ReadNow /\ pc' = "write" /\ pc = "plan" /\ UNCHANGED queue
    <3>1. o = Source
      BY <1>0, <2>1, <2>2 DEF WillRead, ReadNow
    <3>2. snap'[Source] = snap[Source]
      BY <1>0, <2>2 DEF ReadNow
    <3>3. ~WillRead(o) /\ Here(o) /\ Here(Source)
      BY <1>0, <2>1, <2>2, <3>1, <3>2, HereStays DEF WillRead
    <3> QED
      BY <2>1, <2>2, <3>3 DEF StaleReportIsFollowed, Here
  <2>3. CASE UNCHANGED <<snap, queue>> /\ (pc' = "write" <=> pc = "write")
    BY <1>0, <1>1, <2>1, <2>3
  <2> QED
    BY <1>9, <2>2, <2>3, ReportFrame DEF ReturnNil, ReturnError, Leave
<1>10. CASE Restart
  BY <1>10 DEF Restart, Leave
<1> QED
  BY <1>2, <1>3, <1>4, <1>5, <1>6, <1>7, <1>8, <1>9, <1>10 DEF Next

LEMMA NoLostUpdateStep ==
    Typed /\ StaleReportIsFollowed /\ NoLostFluxUpdate /\ [Next]_vars => NoLostFluxUpdate'
<1> SUFFICES ASSUME Typed, StaleReportIsFollowed, NoLostFluxUpdate, [Next]_vars,
                    NEW o \in Objects, synced', Here(Source)', Here(o)', done'[o] # cache'[o]
             PROVE  Pending(queue, Key)' \/ WillRead(o)'
  BY DEF NoLostFluxUpdate, Here
<1>0. /\ Source \in Objects /\ cache[o] \in Nat /\ DOMAIN cache = Objects
      /\ pc # "idle" => synced
  BY SourceIsObject DEF Typed, ObjectsTypeOK, WorkerTypeOK
<1>1. ASSUME UNCHANGED <<synced, cache, done>>, NEW a \in Objects, UNCHANGED past \/ Change(a)
      PROVE  Pending(queue, Key) \/ WillRead(o)
  <2>1. Here(Source) /\ Here(o)
    BY <1>0, <1>1, HereStays
  <2> QED
    BY <1>1, <2>1 DEF NoLostFluxUpdate, Here
<1>2. CASE UNCHANGED vars \/ HubMoves
  <2>1. UNCHANGED <<past, synced, cache, done, queue, pc, snap>>
    BY <1>2, Frames DEF vars, workVars, histVars
  <2> QED
    BY <1>0, <1>1, <2>1 DEF WillRead
<1>3. ASSUME NEW a \in Objects, Change(a) PROVE Pending(queue, Key)' \/ WillRead(o)'
  <2>1. UNCHANGED <<synced, cache, done, queue, pc, snap>>
    BY <1>3, Frames DEF workVars, histVars
  <2> QED
    BY <1>0, <1>1, <1>3, <2>1 DEF WillRead
<1>4. ASSUME NEW a \in Objects, Watch(a) PROVE Pending(queue, Key)' \/ WillRead(o)'
  <2>1. /\ UNCHANGED <<past, synced, workVars, histVars>>
        /\ cache' = [cache EXCEPT ![a] = @ + 1]
        /\ queue' = enqueue(a, cache[a] + 1)
    BY <1>4, Frames DEF Watch
  <2>2. CASE ObjectAt(a, cache[a] + 1) = Absent
    <3>1. o # a /\ Source # a
      BY <1>0, <2>1, <2>2 DEF Here, ObjectAt
    <3>2. Here(o) /\ Here(Source) /\ UNCHANGED <<queue, pc, snap, done, synced>>
          /\ cache'[o] = cache[o]
      BY <1>0, <2>1, <2>2, <3>1 DEF Here, ObjectAt, workVars, histVars, enqueue
    <3> QED
      BY <3>2 DEF NoLostFluxUpdate, Here, WillRead
  <2>3. CASE ObjectAt(a, cache[a] + 1) # Absent
    BY <2>1, <2>3, KeyPending DEF enqueue
  <2> QED
    BY <2>2, <2>3
<1>5. CASE CacheSync
  <2>1. cache' = Newest /\ UNCHANGED past
        /\ queue' = IF \E a \in Objects : ObjectAt(a, Newest[a]) # Absent
                    THEN AddAfter(queue, Key) ELSE queue
    BY <1>5 DEF CacheSync
  <2>2. ObjectAt(o, Newest[o]) # Absent
    BY <2>1 DEF Here, ObjectAt
  <2> QED
    BY <2>1, <2>2, KeyPending
<1>6. CASE Resync \/ DelayOver
  <2>1. UNCHANGED <<past, synced, cache, done, pc, snap>>
        /\ queue' \in {AddAfter(queue, Key), Expire(queue, Key)}
    BY <1>6 DEF Resync, DelayOver, workVars, histVars
  <2> QED
    BY <1>0, <1>1, <2>1, KeyPending DEF WillRead
<1>7. CASE processNext
  <2>1. pc' = "space" /\ snap' = [NothingSeen EXCEPT ![Source] = cache[Source]]
        /\ UNCHANGED cache
    BY <1>7 DEF processNext
  <2> QED
    BY <1>0, <2>1 DEF WillRead, NothingSeen
<1>8. CASE reportDeleted
  BY <1>8 DEF reportDeleted, Here, ObjectAt
<1>9. CASE Report
  <2>1. UNCHANGED <<past, synced, cache>> /\ pc # "idle"
    BY <1>9, ReportFrame
  <2>2. Here(o) /\ Here(Source)
    BY <1>0, <2>1, HereStays
  <2>3. CASE ReturnNil(ReadNow) /\ pc # "write"
    <3>1. done' = ReadNow /\ queue' = Done(queue, Key)
      BY <2>3 DEF ReturnNil
    <3>2. o = Source /\ snap[Source] # cache[Source]
      BY <1>0, <2>1, <3>1 DEF ReadNow
    <3> QED
      BY <2>1, <2>2, <3>1, <3>2, KeyPending DEF StaleReportIsFollowed, Here, WillRead
  <2>4. CASE ReturnNil(snap) /\ pc = "write"
    <3>1. done' = snap /\ queue' = Done(queue, Key)
      BY <2>4 DEF ReturnNil
    <3>2. ~WillRead(o)
      BY <2>1, <2>4, <3>1 DEF WillRead
    <3> QED
      BY <2>1, <2>2, <3>1, <3>2, KeyPending DEF StaleReportIsFollowed, Here
  <2>5. CASE ReturnError
    BY <2>5, KeyPending DEF ReturnError
  <2>6. CASE snap' = ReadNow /\ pc' = "write" /\ pc = "plan" /\ UNCHANGED <<queue, done>>
    <3>1. o # Source => WillRead(o)'
      BY <1>0, <2>1, <2>6 DEF WillRead, ReadNow
    <3>2. o = Source => snap'[o] = snap[o]
      BY <1>0, <2>6 DEF ReadNow
    <3> QED
      BY <1>0, <1>1, <2>1, <2>6, <3>1, <3>2 DEF WillRead
  <2>7. CASE /\ UNCHANGED <<snap, queue, done>> /\ (pc' = "write" <=> pc = "write")
             /\ pc' \in {"list", "plan", "write"}
    BY <1>0, <1>1, <2>1, <2>7 DEF WillRead
  <2> QED
    BY <1>9, <2>3, <2>4, <2>5, <2>6, <2>7, ReportFrame
<1>10. CASE Restart
  BY <1>10 DEF Restart
<1> QED
  BY <1>2, <1>3, <1>4, <1>5, <1>6, <1>7, <1>8, <1>9, <1>10 DEF Next

\* enqueue, processNext, report: a state of the repository or of a Kustomization the
\* stores hold is dealt with, being dealt with or queued, for any number of
\* Kustomizations, whatever their states, the Releases, the failures and the restarts.
THEOREM FluxUpdatesAreKept == Spec => []NoLostFluxUpdate
<1> DEFINE Inv == Typed /\ StaleReportIsFollowed /\ NoLostFluxUpdate
<1>1. Init => Inv
  BY TypedInit DEF Init, StaleReportIsFollowed, NoLostFluxUpdate
<1>2. Inv /\ [Next]_vars => Inv'
  BY ObjectsStep, WorkerStep, StaleReportStep, NoLostUpdateStep DEF Typed
<1> QED
  BY <1>1, <1>2, PTL DEF Spec

-----------------------------------------------------------------------------
(* Statuses.                                                               *)

\* The states a plan is made of have their words, whatever the objects went through.
LEMMA WordedNow ==
    ASSUME Typed, pc = "plan"
    PROVE  Worded(StatesAt(ReadNow)[Source], StatesAt(ReadNow))
<1> DEFINE now == StatesAt(ReadNow)
<1>1. /\ Source \in Objects /\ Kusts \subseteq Objects /\ Source \notin Kusts
      /\ DOMAIN past = Objects /\ \A o \in Objects : past[o] \in Seq(States(o) \cup {Absent})
      /\ cache \in [Objects -> Nat] /\ snap \in [Objects -> Nat]
      /\ \A o \in Objects : snap[o] <= cache[o] /\ cache[o] <= Newest[o]
      /\ ObjectAt(Source, snap[Source]) # Absent
  BY FluxNamesAssumption DEF Typed, ObjectsTypeOK, WorkerTypeOK, Objects
<1>2. \A o \in Objects : ReadNow[o] \in Nat /\ ReadNow[o] <= Newest[o]
  BY <1>1 DEF ReadNow, Newest
<1>3. ASSUME NEW o \in Objects PROVE now[o] \in States(o) \cup {Absent}
  <2> DEFINE states == States(o) \cup {Absent}
  <2>1. now[o] = ObjectAt(o, ReadNow[o])
    BY DEF StatesAt
  <2>2. ReadNow[o] \in Nat /\ ReadNow[o] <= Len(past[o])
    BY <1>2 DEF Newest
  <2>3. past[o] \in Seq(states) /\ Absent \in states
    BY <1>1
  <2> HIDE DEF states, now
  <2>4. ReadNow[o] # 0 => past[o][ReadNow[o]] \in states
    BY <2>2, <2>3
  <2>5. now[o] \in states
    BY <2>1, <2>3, <2>4 DEF ObjectAt
  <2> QED
    BY <2>5 DEF states
<1>4. now[Source] # Absent
  BY <1>1 DEF StatesAt, ReadNow
<1> HIDE DEF now
<1>5. now[Source] \in SourceStates /\ \A n \in Kusts : now[n] \in KustStates \cup {Absent}
  BY <1>1, <1>3, <1>4 DEF States
<1>6. Worded(now[Source], now)
  BY <1>5, FluxStatesAssumption DEF Worded
<1> QED
  BY <1>6 DEF now

LEMMA PlanForIs ==
    ASSUME NEW v, NEW rs
    PROVE  PlanFor(v, rs) = planFluxWrites(StatesAt(v)[Source], StatesAt(v), rs)
BY DEF PlanFor

\* The write that comes next is one of those that are left.
LEMMA NextWriteIs ==
    ASSUME todo \subseteq Writes, todo # {}
    PROVE  NextWrite \in todo /\ NextWrite.Release \in ReleaseIds /\ NextWrite.Status \in Statuses
<1> DEFINE ids == {w.Release : w \in todo}
<1>1. ids \in SUBSET Nat /\ ids # {}
  BY DEF Writes, ReleaseIds
<1>2. PICK n \in ids : \A m \in ids : n <= m
  <2> HIDE DEF ids
  <2> QED
    BY <1>1, LeastNat
<1>3. \E w \in todo : \A other \in todo : w.Release <= other.Release
  BY <1>2
<1>4. NextWrite \in todo
  BY <1>3 DEF NextWrite
<1> QED
  BY <1>4 DEF Writes

\* What a step does to the Releases: ConfigHub's own steps, and the patch of the
\* write that comes next.
LEMMA ReleaseCases ==
    ASSUME [Next]_vars
    PROVE  \/ HubMoves
           \/ ApplyPatch /\ todo # {} /\ (writeIfChanged \/ writeAnswerLost)
           \/ UNCHANGED hubVars
<1>1. Report => \/ ApplyPatch /\ todo # {} /\ (writeIfChanged \/ writeAnswerLost)
                \/ UNCHANGED hubVars
  BY DEF Report, getSpaceID, listReleases, NotKnown, Plan, writeIfChanged, writeAnswerLost,
         writeFails, writeRefused, AllWritten, LookupFails, Over, hubVars
<1> QED
  BY <1>1 DEF Next, vars, Change, Watch, CacheSync, Resync, DelayOver, processNext,
              reportDeleted, Restart

\* What it does to the Releases that were listed and the writes that are left.
LEMMA PlanCases ==
    ASSUME [Next]_vars
    PROVE  \/ UNCHANGED <<pc, listed, todo>>
           \/ /\ pc' \in {"idle", "space", "list"}
              /\ listed' \in {listed, NoReleases} /\ todo' \in {todo, {}}
           \/ listReleases
           \/ Plan
           \/ /\ pc = "write" /\ todo # {} /\ UNCHANGED <<pc, listed>>
              /\ todo' = todo \ {NextWrite}
<1>1. CASE Report
  <2>1. CASE NotKnown \/ AllWritten \/ LookupFails
    BY <2>1 DEF NotKnown, AllWritten, LookupFails, ReturnNil, ReturnError, Leave
  <2>2. CASE getSpaceID
    BY <2>2 DEF getSpaceID
  <2>3. CASE writeIfChanged \/ writeAnswerLost \/ writeFails \/ writeRefused
    BY <2>3 DEF writeIfChanged, writeAnswerLost, writeFails, writeRefused, Over
  <2> QED
    BY <1>1, <2>1, <2>2, <2>3 DEF Report
<1>2. CASE processNext \/ Restart
  BY <1>2 DEF processNext, Restart, Leave
<1>3. CASE UNCHANGED vars \/ HubMoves \/ CacheSync \/ Resync \/ DelayOver \/ reportDeleted
  BY <1>3 DEF vars, workVars, HubMoves, CacheSync, Resync, DelayOver, reportDeleted
<1>4. ASSUME NEW o \in Objects, Change(o) \/ Watch(o) PROVE UNCHANGED <<pc, listed, todo>>
  BY <1>4 DEF workVars, Change, Watch
<1> QED
  BY <1>1, <1>2, <1>3, <1>4 DEF Next

\* What ConfigHub's own steps leave of a Release: its number, and its status.
LEMMA HubMovesKeep ==
    ASSUME StatusesOK, HubMoves
    PROVE  /\ visible' \in BOOLEAN /\ published' \in 0..MaxReleases /\ published <= published'
           /\ release' \in Listings
           /\ \A r \in ReleaseIds : release'[r] # NoRelease => r <= published'
           /\ \A r \in ReleaseIds : release'[r] # NoRelease =>
                 \/ release[r] # NoRelease /\ release'[r].live = release[r].live
                 \/ r > published /\ release'[r].live = NoStatus
<1>0. /\ visible \in BOOLEAN /\ published \in Nat /\ published <= MaxReleases
      /\ MaxReleases \in Nat /\ release \in Listings
      /\ \A r \in ReleaseIds : /\ r \in Nat /\ release[r] \in Releases \cup {NoRelease}
                               /\ release[r] # NoRelease => r <= published
  BY FluxBoundsAssumption DEF StatusesOK, Listings, ReleaseIds
<1>1. CASE ShowOrHide
  BY <1>0, <1>1 DEF ShowOrHide
<1>2. CASE Publish
  <2>1. PICK d \in Digests :
           release' = [release EXCEPT ![published + 1] =
                          [digest |-> d, published |-> TRUE, live |-> NoStatus]]
    BY <1>2 DEF Publish
  <2> DEFINE new == [digest |-> d, published |-> TRUE, live |-> NoStatus]
  <2>2. new \in Releases /\ new.live = NoStatus
    BY DEF Releases
  <2> HIDE DEF new
  <2>3. UNCHANGED visible /\ published' = published + 1 /\ published < MaxReleases
    BY <1>2 DEF Publish
  <2>4. published + 1 \in ReleaseIds /\ release' = [release EXCEPT ![published + 1] = new]
    BY <1>0, <2>1, <2>3 DEF ReleaseIds, new
  <2>5. release' \in Listings
    BY <1>0, <2>2, <2>4 DEF Listings
  <2>6. \A r \in ReleaseIds : release'[r] = IF r = published + 1 THEN new ELSE release[r]
    BY <1>0, <2>4 DEF Listings
  <2> QED
    BY <1>0, <2>2, <2>3, <2>5, <2>6
<1>3. ASSUME NEW q \in ReleaseIds, Withdraw(q) \/ DeleteRelease(q)
      PROVE  /\ UNCHANGED <<visible, published>> /\ release' \in Listings
             /\ \A r \in ReleaseIds : release'[r] # NoRelease =>
                   release[r] # NoRelease /\ release'[r].live = release[r].live
  <2>1. /\ UNCHANGED <<visible, published>> /\ release[q] # NoRelease
        /\ \/ release' = [release EXCEPT ![q].published = FALSE]
           \/ release' = [release EXCEPT ![q] = NoRelease]
    BY <1>3 DEF Withdraw, DeleteRelease
  <2>2. release[q] \in Releases
    BY <1>0, <2>1
  <2> DEFINE new == [release[q] EXCEPT !.published = FALSE]
  <2>3. new \in Releases /\ new.live = release[q].live
    BY <2>2 DEF Releases
  <2>4. CASE release' = [release EXCEPT ![q].published = FALSE]
    <3>1. release' = [release EXCEPT ![q] = new]
      BY <2>4
    <3> HIDE DEF new
    <3>2. release' \in Listings
      BY <1>0, <2>3, <3>1 DEF Listings
    <3>3. \A r \in ReleaseIds : release'[r] = IF r = q THEN new ELSE release[r]
      BY <1>0, <3>1 DEF Listings
    <3> QED
      BY <2>1, <2>3, <3>2, <3>3
  <2>5. CASE release' = [release EXCEPT ![q] = NoRelease]
    <3>1. release' \in Listings
      BY <1>0, <2>5 DEF Listings
    <3>2. \A r \in ReleaseIds : release'[r] = IF r = q THEN NoRelease ELSE release[r]
      BY <1>0, <2>5 DEF Listings
    <3> QED
      BY <2>1, <3>1, <3>2
  <2> QED
    BY <2>1, <2>4, <2>5
<1> QED
  BY <1>0, <1>1, <1>2, <1>3 DEF HubMoves

\* A patch gives the Release of the write that comes next its status.
LEMMA PatchGives ==
    ASSUME StatusesOK, ApplyPatch, todo # {}
    PROVE  /\ NextWrite \in todo /\ NextWrite.Release \in ReleaseIds
           /\ release[NextWrite.Release] # NoRelease
           /\ release' \in Listings
           /\ NextWrite.Status \in Statuses
           /\ release'[NextWrite.Release].live = Received(NextWrite.Status)
           /\ \A r \in ReleaseIds : release'[r] # NoRelease <=> release[r] # NoRelease
           /\ \A r \in ReleaseIds \ {NextWrite.Release} : release'[r] = release[r]
<1> DEFINE q   == NextWrite.Release
           new == [release[q] EXCEPT !.live = Received(NextWrite.Status)]
<1>1. /\ NextWrite \in todo /\ q \in ReleaseIds /\ NextWrite.Status \in Statuses
      /\ release \in Listings
  BY NextWriteIs DEF StatusesOK, Writes, Listings
<1>2. release[q] # NoRelease /\ release' = [release EXCEPT ![q] = new]
  BY DEF ApplyPatch
<1>3. release[q] \in Releases
  BY <1>1, <1>2 DEF Listings
<1>4. new \in Releases /\ new # NoRelease /\ new.live = Received(NextWrite.Status)
  <2>1. Received(NextWrite.Status) \in Statuses
    BY <1>1, ReceivedIs
  <2> QED
    BY <1>3, <2>1, ReleasesAre
<1> HIDE DEF q, new
<1>5. /\ release' \in Listings
      /\ \A r \in ReleaseIds : release'[r] = IF r = q THEN new ELSE release[r]
  BY <1>1, <1>2, <1>4 DEF Listings
<1> QED
  BY <1>1, <1>2, <1>4, <1>5 DEF q

LEMMA StatusesInit == Init => StatusesOK
<1> SUFFICES ASSUME Init PROVE StatusesOK
  OBVIOUS
<1> DEFINE there == {r \in ReleaseIds : release[r] # NoRelease}
<1>1. /\ visible = TRUE /\ release \in Listings /\ listed = NoReleases /\ todo = {}
      /\ published = Greatest(there)
  BY FluxInitialReleases DEF Init, Listings
<1>2. /\ MaxReleases \in Nat /\ there \in SUBSET Nat /\ \A m \in there : m <= MaxReleases
  <2>1. MaxReleases \in Nat /\ \A m \in ReleaseIds : m \in Nat /\ m <= MaxReleases
    BY FluxBoundsAssumption DEF ReleaseIds
  <2> QED
    BY <2>1
<1>3. /\ Greatest(there) \in Nat /\ \A m \in there : m <= Greatest(there)
      /\ there # {} => Greatest(there) \in there
  <2> HIDE DEF there
  <2> QED
    BY <1>2, GreatestIs
<1>4. published \in 0..MaxReleases
  <2>1. there = {} => Greatest(there) = 0
    BY DEF Greatest
  <2> HIDE DEF there
  <2> QED
    BY <1>1, <1>2, <1>3, <2>1
<1>5. NoReleases \in Listings
  BY DEF NoReleases, Listings
<1>6. \A r \in ReleaseIds : release[r] # NoRelease => r <= published
  BY <1>1, <1>3
<1> QED
  BY <1>1, <1>4, <1>5, <1>6 DEF StatusesOK, Listings

LEMMA StatusesStep == Typed /\ StatusesOK /\ [Next]_vars => StatusesOK'
<1> SUFFICES ASSUME Typed, StatusesOK, [Next]_vars PROVE StatusesOK'
  OBVIOUS
<1>0. /\ release \in Listings /\ listed \in Listings /\ todo \subseteq Writes
      /\ visible \in BOOLEAN /\ published \in 0..MaxReleases
      /\ \A r \in ReleaseIds : release[r] # NoRelease => r <= published
  BY DEF StatusesOK, Listings, Writes
<1>1. /\ visible' \in BOOLEAN /\ published' \in 0..MaxReleases /\ release' \in Listings
      /\ \A r \in ReleaseIds : release'[r] # NoRelease => r <= published'
  <2>1. CASE HubMoves
    BY <2>1, HubMovesKeep
  <2>2. CASE ApplyPatch /\ todo # {} /\ (writeIfChanged \/ writeAnswerLost)
    <3>1. UNCHANGED <<visible, published>>
      BY <2>2 DEF writeIfChanged, writeAnswerLost, Over
    <3> QED
      BY <1>0, <2>2, <3>1, PatchGives
  <2>3. CASE UNCHANGED hubVars
    BY <1>0, <2>3 DEF hubVars
  <2> QED
    BY <2>1, <2>2, <2>3, ReleaseCases
<1>2. listed' \in Listings /\ todo' \subseteq Writes
  <2>1. CASE listReleases
    BY <1>0, <2>1 DEF listReleases
  <2>2. CASE Plan
    <3> DEFINE now == StatesAt(ReadNow)
    <3>1. /\ pc = "plan" /\ listed' = NoReleases
          /\ todo' = Changes(PlanFor(ReadNow, listed), listed)
      BY <2>2 DEF Plan
    <3>2. Worded(now[Source], now)
      BY <3>1, WordedNow
    <3>3. PlanFor(ReadNow, listed) = planFluxWrites(now[Source], now, listed)
      BY PlanForIs
    <3> HIDE DEF now
    <3>4. \A w \in PlanFor(ReadNow, listed) : w \in Writes
      BY <1>0, <3>2, <3>3, PlanIs
    <3>5. NoReleases \in Listings
      BY DEF NoReleases, Listings
    <3> QED
      BY <3>1, <3>4, <3>5 DEF Changes
  <2>3. NoReleases \in Listings
    BY DEF NoReleases, Listings
  <2> QED
    BY <1>0, <2>1, <2>2, <2>3, PlanCases
<1> QED
  BY <1>1, <1>2 DEF StatusesOK, Listings, Writes

\* What a reader of any Release finds is a status with its source, and what the
\* worker has left to write is: for any Kustomizations, Releases and plans, across
\* failures and restarts.
THEOREM FluxTypeCorrect == Spec => []TypeOK
<1>1. Typed /\ StatusesOK /\ [Next]_vars => (Typed /\ StatusesOK)'
  BY ObjectsStep, WorkerStep, StatusesStep DEF Typed
<1>2. Typed /\ StatusesOK => TypeOK
  BY DEF Typed, TypeOK
<1> QED
  BY <1>1, <1>2, TypedInit, StatusesInit, PTL DEF Spec


\* What the worker would write is from its plan, and the Releases then carry it.
LEMMA AfterIs ==
    ASSUME Typed, StatusesOK, pc = "plan", NEW rs \in Listings
    PROVE  LET now  == StatesAt(ReadNow)
               plan == planFluxWrites(now[Source], now, rs)
           IN  /\ ToWrite(rs) = {w \in plan : rs[w.Release].live # w.Status}
               /\ \A w \in plan : w \in Writes /\ rs[w.Release] \in Releases
               /\ After(rs) \in Listings /\ IsCarried(plan, rs, After(rs))
<1> DEFINE now  == StatesAt(ReadNow)
           plan == planFluxWrites(now[Source], now, rs)
           made == ToWrite(rs)
<1>1. made = {w \in plan : rs[w.Release].live # w.Status}
  BY PlanForIs DEF ToWrite, Changes
<1>2. Worded(now[Source], now)
  BY WordedNow
<1> HIDE DEF now
<1>3. /\ \A w \in plan : w \in Writes /\ rs[w.Release] # NoRelease
      /\ \A w, v \in plan : w.Release = v.Release => w = v
  BY <1>2, PlanIs
<1> HIDE DEF plan
<1>4. ASSUME NEW w \in plan
      PROVE  /\ w.Release \in ReleaseIds /\ rs[w.Release] \in Releases
             /\ Received(w.Status) \in Statuses
             /\ [rs[w.Release] EXCEPT !.live = Received(w.Status)] \in Releases
  <2>1. w.Release \in ReleaseIds /\ w.Status \in Statuses /\ rs[w.Release] \in Releases
    BY <1>3 DEF Writes, Listings
  <2>2. Received(w.Status) \in Statuses
    BY <2>1, ReceivedIs
  <2> QED
    BY <2>1, <2>2, ReleasesAre
<1>5. After(rs) = Carried(made, rs)
  BY DEF After
<1> HIDE DEF made
<1>6. ASSUME NEW r \in ReleaseIds
      PROVE  /\ \A w \in made : w.Release = r =>
                   After(rs)[r] = [rs[r] EXCEPT !.live = Received(w.Status)]
             /\ (\A w \in made : w.Release # r) => After(rs)[r] = rs[r]
  <2>1. \A w \in made : w.Release = r => (CHOOSE v \in made : v.Release = r) = w
    BY <1>1, <1>3
  <2> QED
    BY <1>5, <2>1 DEF Carried
<1>7. After(rs) \in Listings
  <2>1. DOMAIN After(rs) = ReleaseIds /\ After(rs) = [r \in ReleaseIds |-> After(rs)[r]]
    BY <1>5 DEF Carried
  <2>2. ASSUME NEW r \in ReleaseIds PROVE After(rs)[r] \in Releases \cup {NoRelease}
    <3>1. CASE \A w \in made : w.Release # r
      BY <1>6, <3>1 DEF Listings
    <3>2. ASSUME NEW w \in made, w.Release = r PROVE After(rs)[r] \in Releases
      BY <1>1, <1>4, <1>6, <3>2
    <3> QED
      BY <3>1, <3>2
  <2> QED
    BY <2>1, <2>2 DEF Listings
<1>8. IsCarried(plan, rs, After(rs))
  <2>1. ASSUME NEW w \in plan
        PROVE  LET r == w.Release
               IN  \/ After(rs)[r] = rs[r] /\ rs[r].live = w.Status
                   \/ After(rs)[r] = [rs[r] EXCEPT !.live = Received(w.Status)]
    <3>1. CASE w \in made
      BY <1>4, <1>6, <3>1
    <3>2. CASE w \notin made
      <4>1. rs[w.Release].live = w.Status /\ \A v \in made : v.Release # w.Release
        BY <1>1, <1>3, <3>2
      <4> QED
        BY <1>4, <1>6, <4>1
    <3> QED
      BY <3>1, <3>2
  <2>2. \A r \in ReleaseIds : (\A w \in plan : w.Release # r) => After(rs)[r] = rs[r]
    BY <1>1, <1>6
  <2> QED
    BY <2>1, <2>2 DEF IsCarried
<1> QED
  BY <1>1, <1>3, <1>4, <1>7, <1>8 DEF made, plan, now

\* enqueue, report, planFluxWrites, fluxDataSource: whatever the Kustomizations and
\* the repository went through and earlier reports left on the Releases, after the
\* plan the worker is about to make the next rewrites at most marks whose DataSource
\* ends inside a namespace, and the one after it, but for messages cut in a rune,
\* writes nothing.
THEOREM FluxPlanIsStable == Spec => []PlanIsStable
<1>1. Typed /\ StatusesOK => PlanIsStable
  <2> SUFFICES ASSUME Typed, StatusesOK, pc = "plan"
               PROVE  LET once == After(listed)  twice == After(once)
                      IN  /\ \A w \in ToWrite(once) : SameAgain(w, once) \/ Garbles(w, once)
                          /\ \A w \in ToWrite(twice) : SameAgain(w, twice)
    BY DEF PlanIsStable
  <2> DEFINE now   == StatesAt(ReadNow)
             once  == After(listed)
             twice == After(once)
             plan(rs) == planFluxWrites(now[Source], now, rs)
             writes == Said(now[Source], now, listed)
  <2>1. listed \in Listings /\ Worded(now[Source], now)
    BY WordedNow DEF StatusesOK, Listings
  <2>2. once \in Listings /\ IsCarried(plan(listed), listed, once)
    BY <2>1, AfterIs
  <2> HIDE DEF once
  <2>3. twice \in Listings /\ IsCarried(plan(once), once, twice)
    BY <2>2, AfterIs
  <2> HIDE DEF twice
  <2>4. \A w \in ToWrite(once) :
           w \in plan(once) /\ once[w.Release] \in Releases /\ once[w.Release].live # w.Status
    BY <2>2, AfterIs
  <2>5. \A w \in ToWrite(twice) :
           w \in plan(twice) /\ twice[w.Release] \in Releases /\ twice[w.Release].live # w.Status
    BY <2>3, AfterIs
  <2> HIDE DEF now
  <2>6. /\ Said(now[Source], now, once) = writes
        /\ \A w \in writes : once[w.Release].live \in {w.Status, Received(w.Status)}
        /\ \A w \in plan(once) \ writes :
              LET old == once[w.Release].live
              IN  /\ w \in Writes /\ old \in Statuses /\ fluxMarkedReplaced(old)
                  /\ w.Status = [old EXCEPT !.DataSource = fluxDataSource(old.DataSource)]
                  /\ Fits(old.DataSource) /\ ~WholeNamespaces(old.DataSource)
                  /\ \E v \in plan(listed) \ writes :
                        v.Release = w.Release /\ old.DataSource = v.Status.DataSource
    BY <2>1, <2>2, CarriedIs
  <2>7. \A w \in plan(twice) : twice[w.Release].live \in {w.Status, Received(w.Status)}
    BY <2>1, <2>2, <2>3, CarriedTwice
  <2> HIDE DEF plan, writes
  <2>8. ASSUME NEW w \in ToWrite(once) PROVE SameAgain(w, once) \/ Garbles(w, once)
    <3>1. CASE w \in writes
      BY <2>4, <2>6, <3>1, ReleasesAre DEF SameAgain
    <3>2. CASE w \notin writes
      <4> DEFINE old == once[w.Release].live
                 new == fluxDataSource(old.DataSource)
      <4>1. /\ old \in Statuses /\ fluxMarkedReplaced(old)
            /\ w.Status = [old EXCEPT !.DataSource = new] /\ ~WholeNamespaces(old.DataSource)
        BY <2>4, <2>6, <3>2
      <4> HIDE DEF old, new
      <4>2. /\ old # NoStatus /\ w.Status = [old EXCEPT !.DataSource = w.Status.DataSource]
            /\ old.DataSource \in Seq(Names \cup Cuts)
        BY <4>1, StatusesAre
      <4>3. \E i \in DOMAIN old.DataSource : old.DataSource[i] = CutNamespace
        BY <4>1, <4>2 DEF WholeNamespaces
      <4> QED
        BY <4>1, <4>2, <4>3 DEF Garbles, old
    <3> QED
      BY <3>1, <3>2
  <2>9. ASSUME NEW w \in ToWrite(twice) PROVE SameAgain(w, twice)
    BY <2>5, <2>7, ReleasesAre DEF SameAgain
  <2> QED
    BY <2>8, <2>9 DEF once, twice
<1>2. Typed /\ StatusesOK /\ [Next]_vars => (Typed /\ StatusesOK)'
  BY ObjectsStep, WorkerStep, StatusesStep DEF Typed
<1> QED
  BY <1>1, <1>2, TypedInit, StatusesInit, PTL DEF Spec

-----------------------------------------------------------------------------
(* Failures are kept.                                                      *)

\* While a report is between its list and its plan, a listed Release that is still
\* there has the status it was listed with: only the worker writes statuses, and no
\* number is given to a second Release.
ListIsCurrent ==
    pc = "plan" => \A r \in ReleaseIds : listed[r] # NoRelease =>
        /\ r <= published
        /\ release[r] # NoRelease => release[r].live = listed[r].live

\* The worker writes a Release at most once in a report.
WritesAreApart == \A w, v \in todo : w.Release = v.Release => w = v

\* A mark yet to be written keeps the failure it covers, if there is one.
MarksKeepFailures ==
    \A w \in todo :
        /\ release[w.Release] # NoRelease /\ release[w.Release].live # NoStatus
        /\ ~fluxMarkedReplaced(release[w.Release].live)
        /\ release[w.Release].live.Part.Operation = "Failed"
        /\ fluxMarkedReplaced(w.Status)
        => Kept(release[w.Release].live, w.Status)

FailuresInv == ListIsCurrent /\ WritesAreApart /\ MarksKeepFailures

LEMMA ListIsCurrentStep ==
    ASSUME StatusesOK, ListIsCurrent, [Next]_vars
    PROVE  ListIsCurrent'
<1>0. /\ published \in Nat
      /\ \A r \in ReleaseIds : r \in Nat /\ (release[r] # NoRelease => r <= published)
  BY FluxBoundsAssumption DEF StatusesOK, ReleaseIds
<1>1. CASE listReleases
  BY <1>0, <1>1 DEF listReleases, hubVars, ListIsCurrent
<1>2. CASE pc = "plan" /\ UNCHANGED <<pc, listed, todo>>
  <2>1. CASE HubMoves
    <3>1. /\ published' \in 0..MaxReleases /\ published <= published'
          /\ \A r \in ReleaseIds : release'[r] # NoRelease =>
                \/ release[r] # NoRelease /\ release'[r].live = release[r].live
                \/ r > published /\ release'[r].live = NoStatus
      BY <2>1, HubMovesKeep
    <3>2. published' \in Nat
      BY <3>1, FluxBoundsAssumption
    <3> QED
      BY <1>0, <1>2, <3>1, <3>2 DEF ListIsCurrent
  <2>2. CASE writeIfChanged \/ writeAnswerLost
    BY <1>2, <2>2 DEF writeIfChanged, writeAnswerLost
  <2>3. CASE UNCHANGED hubVars
    BY <1>2, <2>3 DEF hubVars, ListIsCurrent
  <2> QED
    BY <2>1, <2>2, <2>3, ReleaseCases
<1>3. CASE pc' # "plan"
  BY <1>3 DEF ListIsCurrent
<1>4. Plan => pc' # "plan"
  BY DEF Plan
<1> QED
  BY <1>1, <1>2, <1>3, <1>4, PlanCases

\* What the worker has left to write after a step: a plan, or what it had.
LEMMA WritesLeft ==
    ASSUME Typed, StatusesOK, [Next]_vars
    PROVE  \/ todo' \subseteq todo
           \/ /\ pc = "plan" /\ UNCHANGED hubVars
              /\ \A w \in todo' : /\ w.Release \in ReleaseIds /\ listed[w.Release] # NoRelease
                                  /\ LET old == listed[w.Release].live
                                     IN  /\ old # NoStatus /\ ~fluxMarkedReplaced(old)
                                         /\ old.Part.Operation = "Failed"
                                         /\ fluxMarkedReplaced(w.Status)
                                         => Kept(old, w.Status)
              /\ \A w, v \in todo' : w.Release = v.Release => w = v
<1>1. CASE Plan
  <2> DEFINE now  == StatesAt(ReadNow)
             plan == planFluxWrites(now[Source], now, listed)
  <2>1. pc = "plan" /\ UNCHANGED hubVars /\ todo' = Changes(PlanFor(ReadNow, listed), listed)
    BY <1>1 DEF Plan
  <2>2. listed \in Listings /\ Worded(now[Source], now)
    BY <2>1, WordedNow DEF StatusesOK, Listings
  <2>3. PlanFor(ReadNow, listed) = plan
    BY PlanForIs
  <2>4. todo' \subseteq plan
    <3> HIDE DEF plan
    <3> QED
      BY <2>1, <2>3 DEF Changes
  <2> HIDE DEF now
  <2>5. /\ \A w \in plan : /\ w \in Writes /\ listed[w.Release] # NoRelease
                           /\ LET old == listed[w.Release].live
                              IN  /\ old # NoStatus /\ ~fluxMarkedReplaced(old)
                                  /\ old.Part.Operation = "Failed"
                                  /\ fluxMarkedReplaced(w.Status)
                                  => Kept(old, w.Status)
        /\ \A w, v \in plan : w.Release = v.Release => w = v
    BY <2>2, PlanIs
  <2> HIDE DEF plan
  <2> QED
    BY <2>1, <2>4, <2>5 DEF Writes
<1>2. CASE listReleases
  BY <1>2 DEF listReleases
<1> QED
  BY <1>1, <1>2, PlanCases

LEMMA FailuresStep ==
    ASSUME Typed, StatusesOK, FailuresInv, [Next]_vars
    PROVE  WritesAreApart' /\ MarksKeepFailures'
<1>0. /\ \A w \in todo : w.Release \in ReleaseIds
      /\ published \in Nat
      /\ \A r \in ReleaseIds : r \in Nat /\ (release[r] # NoRelease => r <= published)
  BY FluxBoundsAssumption DEF StatusesOK, ReleaseIds
<1>1. CASE todo' \subseteq todo
  <2>1. WritesAreApart'
    BY <1>1 DEF FailuresInv, WritesAreApart
  <2>2. CASE HubMoves
    <3>1. \A r \in ReleaseIds : release'[r] # NoRelease =>
             \/ release[r] # NoRelease /\ release'[r].live = release[r].live
             \/ r > published /\ release'[r].live = NoStatus
      BY <2>2, HubMovesKeep
    <3> QED
      BY <1>0, <1>1, <2>1, <3>1 DEF FailuresInv, MarksKeepFailures
  <2>3. CASE ApplyPatch /\ todo # {} /\ (writeIfChanged \/ writeAnswerLost)
    <3>1. /\ NextWrite \in todo
          /\ \A r \in ReleaseIds \ {NextWrite.Release} : release'[r] = release[r]
      BY <2>3, PatchGives
    <3>2. todo' = todo \ {NextWrite}
      BY <2>3 DEF writeIfChanged, writeAnswerLost, Over
    <3>3. \A w \in todo' : w \in todo /\ w.Release \in ReleaseIds \ {NextWrite.Release}
      BY <1>0, <3>1, <3>2 DEF FailuresInv, WritesAreApart
    <3> QED
      BY <2>1, <3>1, <3>3 DEF FailuresInv, MarksKeepFailures
  <2>4. CASE UNCHANGED hubVars
    BY <1>1, <2>1, <2>4 DEF hubVars, FailuresInv, MarksKeepFailures
  <2> QED
    BY <2>2, <2>3, <2>4, ReleaseCases
<1>2. CASE /\ pc = "plan" /\ UNCHANGED hubVars
           /\ \A w \in todo' : /\ w.Release \in ReleaseIds /\ listed[w.Release] # NoRelease
                               /\ LET old == listed[w.Release].live
                                  IN  /\ old # NoStatus /\ ~fluxMarkedReplaced(old)
                                      /\ old.Part.Operation = "Failed"
                                      /\ fluxMarkedReplaced(w.Status)
                                      => Kept(old, w.Status)
           /\ \A w, v \in todo' : w.Release = v.Release => w = v
  <2>1. \A w \in todo' : release[w.Release] # NoRelease =>
           release[w.Release].live = listed[w.Release].live
    BY <1>2 DEF FailuresInv, ListIsCurrent
  <2>2. release' = release
    BY <1>2 DEF hubVars
  <2> QED
    BY <1>2, <2>1, <2>2 DEF WritesAreApart, MarksKeepFailures
<1> QED
  BY <1>1, <1>2, WritesLeft

LEMMA FailuresKeptStep ==
    ASSUME StatusesOK, FailuresInv, [Next]_vars, NEW r \in ReleaseIds,
           release[r] # NoRelease, release'[r] # NoRelease,
           release[r].live # NoStatus, release[r].live.Part.Operation = "Failed",
           ~fluxMarkedReplaced(release[r].live), fluxMarkedReplaced(release'[r].live)
    PROVE  Kept(release[r].live, release'[r].live)
<1>1. CASE HubMoves
  <2>1. \/ release'[r].live = release[r].live
        \/ r > published /\ release'[r].live = NoStatus
    BY <1>1, HubMovesKeep
  <2>2. published \in Nat /\ r \in Nat /\ r <= published
    BY FluxBoundsAssumption DEF StatusesOK, ReleaseIds
  <2> QED
    BY <2>1, <2>2
<1>2. CASE ApplyPatch /\ todo # {} /\ (writeIfChanged \/ writeAnswerLost)
  <2>1. /\ NextWrite \in todo /\ NextWrite.Status \in Statuses
        /\ release'[NextWrite.Release].live = Received(NextWrite.Status)
        /\ \A q \in ReleaseIds \ {NextWrite.Release} : release'[q] = release[q]
    BY <1>2, PatchGives
  <2>2. r = NextWrite.Release
    BY <2>1
  <2>3. fluxMarkedReplaced(NextWrite.Status)
    BY <2>1, <2>2, ReceivedIs
  <2>4. Kept(release[r].live, NextWrite.Status)
    BY <2>1, <2>2, <2>3 DEF FailuresInv, MarksKeepFailures
  <2> QED
    BY <2>1, <2>2, <2>4, ReceivedIs
<1>3. CASE UNCHANGED hubVars
  BY <1>3 DEF hubVars
<1> QED
  BY <1>1, <1>2, <1>3, ReleaseCases

\* fluxReplacedStatus, planFluxWrites, writeIfChanged: no step marks a failed Release
\* replaced without its operation, its reason and what fits of its message, however many Releases, reports
\* and restarts there were, and though the plan was made from an older list.
THEOREM FluxFailureIsKept == Spec => FailureIsKept
<1> DEFINE Inv == Typed /\ StatusesOK /\ FailuresInv
<1>1. Init => Inv
  BY TypedInit, StatusesInit
     DEF Init, FailuresInv, ListIsCurrent, WritesAreApart, MarksKeepFailures
<1>2. Inv /\ [Next]_vars => Inv'
  BY ObjectsStep, WorkerStep, StatusesStep, ListIsCurrentStep, FailuresStep
     DEF Typed, FailuresInv
<1>3. Inv /\ [Next]_vars => [\A r \in ReleaseIds :
         /\ release[r] # NoRelease /\ release'[r] # NoRelease
         /\ release[r].live # NoStatus /\ release[r].live.Part.Operation = "Failed"
         /\ ~fluxMarkedReplaced(release[r].live) /\ fluxMarkedReplaced(release'[r].live)
         => LET old == release[r].live  new == release'[r].live
            IN  /\ new.Part.Operation = "Failed"
                /\ new.Part.ReporterOperation = old.Part.ReporterOperation
                /\ HasBehind(new.Message, old.Message)]_vars
  BY FailuresKeptStep DEF Kept
<1> QED
  BY <1>1, <1>2, <1>3, PTL DEF Spec, FailureIsKept
=============================================================================
