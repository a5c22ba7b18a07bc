-------------------------- MODULE EventSync_proofs --------------------------
(***************************************************************************)
(* Proofs about EventSync, for every value of its constants: its type      *)
(* invariant, and that the bookmark passes no event whose targets were not *)
(* tried.                                                                  *)
(***************************************************************************)
EXTENDS EventSync, FiniteSetTheorems, TLAPS

-----------------------------------------------------------------------------
(* Facts about single steps.                                               *)

\* What there is to fetch is counted by a number.
LEMMA LatestIsNat ==
    ASSUME ChannelTypeOK, NEW t \in Targets
    PROVE  Latest(t) \in Nat
<1> DEFINE due == {i \in 1..Len(log) :
                      log[i].type = "release.published" /\ log[i].slug \in SourceSlugs[t]}
<1>1. Len(log) \in Nat
  BY DEF ChannelTypeOK
<1>2. IsFiniteSet(1..Len(log)) /\ due \subseteq 1..Len(log)
  BY <1>1, FS_Interval
<1>3. IsFiniteSet(due)
  BY <1>2, FS_Subset
<1>4. Cardinality(due) \in Nat
  BY <1>3, FS_CardinalityType
<1> QED
  BY <1>4 DEF Latest

\* Only ConfigHub writes the log, and it only appends.
LEMMA LogGrows ==
    ASSUME ChannelTypeOK, [Next]_vars
    PROVE  /\ log' \in Seq(Events) /\ Len(log') <= MaxEvents
           /\ Len(log) \in Nat /\ Len(log') \in Nat /\ Len(log) <= Len(log')
           /\ \A i \in 1..Len(log) : log'[i] = log[i]
<1>1. UNCHANGED log \/ \E e \in Events : LogEvent(e)
  BY DEF Next, Handler, Controller, LoseLease, AcquireLease, Deliver, Skip,
         resolveAppNames, ListFails, Sync, SyncNotFound, SyncFails, AllTried, MoveBookmark,
         Restart, CreateTarget, DeleteTarget, BeginFetch, EndFetch, vars, channelVars
<1>2. CASE UNCHANGED log
  BY <1>2 DEF ChannelTypeOK
<1>3. ASSUME NEW e \in Events, LogEvent(e)
      PROVE  log' = Append(log, e) /\ Len(log) < MaxEvents
  BY <1>3 DEF LogEvent
<1> QED
  BY <1>1, <1>2, <1>3, BoundsAssumption DEF ChannelTypeOK

\* What a handler does besides its step, todo and history.
LEMMA TriedFrame ==
    ASSUME NEW p \in Procs, NEW t \in Targets,
           Sync(p, t) \/ SyncNotFound(p, t) \/ SyncFails(p, t)
    PROVE  /\ step[p] = "syncing"
           /\ todo' = [todo EXCEPT ![p] = @ \ {t}]
           /\ tried' = tried \cup {<<cursor[p], t>>}
           /\ UNCHANGED <<channelVars, pinned, step, cursor, targetVars, fetchVars, unlisted,
                          losses, changes>>
           /\ \/ UNCHANGED annotation
              \/ annotation' = [annotation EXCEPT ![t] = NewValue(t)]
           /\ UNCHANGED failures \/ (failures < MaxFailures /\ failures' = failures + 1)
BY DEF Sync, SyncNotFound, SyncFails, Tried, countVars

-----------------------------------------------------------------------------
(* Types.                                                                  *)

LEMMA TypeInit == Init => TypeOK
<1> SUFFICES ASSUME Init PROVE TypeOK
  OBVIOUS
<1>1. ChannelTypeOK
  BY BoundsAssumption DEF Init, ChannelTypeOK
<1>2. HandlerTypeOK
  BY DEF Init, HandlerTypeOK
<1>3. TargetTypeOK
  BY DEF Init, TargetTypeOK
<1>4. HistoryTypeOK
  BY BoundsAssumption DEF Init, HistoryTypeOK
<1> QED
  BY <1>1, <1>2, <1>3, <1>4 DEF TypeOK

LEMMA ChannelStep == TypeOK /\ [Next]_vars => ChannelTypeOK'
<1> SUFFICES ASSUME TypeOK, [Next]_vars
             PROVE  /\ bookmark' \in 0..Len(log')
                    /\ lease' \in Procs \cup {NoOne} /\ pinned' \in Pinnable
  BY LogGrows DEF TypeOK, ChannelTypeOK, Pinnable
<1>0. /\ bookmark \in 0..Len(log) /\ lease \in Procs \cup {NoOne} /\ pinned \in Pinnable
      /\ 0..Len(log) \subseteq 0..Len(log')
  BY LogGrows DEF TypeOK, ChannelTypeOK
<1>1. ASSUME NEW p \in Procs, MoveBookmark(p)
      PROVE  bookmark' \in 0..Len(log) /\ UNCHANGED <<lease, pinned>>
  BY <1>0, <1>1 DEF MoveBookmark, TypeOK, HandlerTypeOK
<1>2. UNCHANGED pinned /\ \/ UNCHANGED bookmark
                          \/ \E p \in Procs : MoveBookmark(p)
  BY DEF Next, Handler, Controller, LogEvent, LoseLease, AcquireLease, Deliver, Skip,
         resolveAppNames, ListFails, Sync, SyncNotFound, SyncFails, AllTried, MoveBookmark,
         Restart, CreateTarget, DeleteTarget, BeginFetch, EndFetch, vars, channelVars
<1>3. UNCHANGED lease \/ lease' = NoOne \/ \E p \in Procs : lease' = p
  BY DEF Next, Handler, Controller, LogEvent, LoseLease, AcquireLease, Deliver, Skip,
         resolveAppNames, ListFails, Sync, SyncNotFound, SyncFails, AllTried, MoveBookmark,
         Restart, CreateTarget, DeleteTarget, BeginFetch, EndFetch, vars, channelVars
<1> QED
  BY <1>0, <1>1, <1>2, <1>3

LEMMA HandlerStep == TypeOK /\ [Next]_vars => HandlerTypeOK'
<1> SUFFICES ASSUME TypeOK, [Next]_vars PROVE HandlerTypeOK'
  OBVIOUS
<1> DEFINE Steps == {"polling", "resolving", "syncing", "handled"}
<1>0. /\ HandlerTypeOK /\ deployed \subseteq Targets
      /\ bookmark \in Nat /\ Len(log) \in Nat
      /\ 0..Len(log) \subseteq 0..Len(log')
  BY LogGrows DEF TypeOK, ChannelTypeOK, TargetTypeOK
<1>1. CASE UNCHANGED procVars
  BY <1>0, <1>1 DEF HandlerTypeOK, procVars
<1>2. ASSUME NEW p \in Procs, Deliver(p) PROVE HandlerTypeOK'
  BY <1>0, <1>2 DEF HandlerTypeOK, Deliver, channelVars
<1>3. ASSUME NEW p \in Procs, Skip(p) PROVE HandlerTypeOK'
  BY <1>0, <1>3 DEF HandlerTypeOK, Skip, channelVars
<1>4. ASSUME NEW p \in Procs, resolveAppNames(p) PROVE HandlerTypeOK'
  <2>1. pinned # NoOne => pinned \in Targets
    BY TargetsAssumption DEF TypeOK, ChannelTypeOK, Pinnable
  <2>2. appNamesForSpace(Event(p).slug) \subseteq Targets
    BY <1>0 DEF appNamesForSpace
  <2> QED
    BY <1>0, <1>4, <2>1, <2>2 DEF HandlerTypeOK, resolveAppNames, channelVars
<1>5. ASSUME NEW p \in Procs, ListFails(p) PROVE HandlerTypeOK'
  <2>1. Convention(Event(p).slug) \subseteq Targets
    BY TargetsAssumption DEF Convention
  <2> QED
    BY <1>0, <1>5, <2>1 DEF HandlerTypeOK, ListFails, channelVars
<1>6. ASSUME NEW p \in Procs, NEW t \in Targets,
             Sync(p, t) \/ SyncNotFound(p, t) \/ SyncFails(p, t)
      PROVE  HandlerTypeOK'
  BY <1>0, <1>6, TriedFrame DEF HandlerTypeOK, channelVars
<1>7. ASSUME NEW p \in Procs, AllTried(p) PROVE HandlerTypeOK'
  BY <1>0, <1>7 DEF HandlerTypeOK, AllTried, channelVars
<1>8. ASSUME NEW p \in Procs, MoveBookmark(p) PROVE HandlerTypeOK'
  BY <1>0, <1>8 DEF HandlerTypeOK, MoveBookmark
<1>9. ASSUME NEW p \in Procs, Restart(p) PROVE HandlerTypeOK'
  BY <1>0, <1>9 DEF HandlerTypeOK, Restart
<1>10. \/ UNCHANGED procVars
       \/ \E p \in Procs : \/ Deliver(p) \/ Skip(p) \/ resolveAppNames(p) \/ ListFails(p)
                           \/ \E t \in Targets : \/ Sync(p, t) \/ SyncNotFound(p, t)
                                                 \/ SyncFails(p, t)
                           \/ AllTried(p) \/ MoveBookmark(p) \/ Restart(p)
  BY DEF Next, Handler, Controller, LogEvent, LoseLease, AcquireLease, CreateTarget,
         DeleteTarget, BeginFetch, EndFetch, vars
<1> QED
  BY <1>1, <1>2, <1>3, <1>4, <1>5, <1>6, <1>7, <1>8, <1>9, <1>10

LEMMA TargetStep == TypeOK /\ [Next]_vars => TargetTypeOK'
<1> SUFFICES ASSUME TypeOK, [Next]_vars PROVE TargetTypeOK'
  OBVIOUS
<1>0. /\ TargetTypeOK /\ 0..Len(log) \subseteq 0..Len(log') /\ Len(log) \in 0..Len(log)
      /\ \A t \in Targets : Latest(t) \in Nat
  BY LogGrows, LatestIsNat DEF TypeOK
<1>1. CASE UNCHANGED <<targetVars, annotation, fetchVars>>
  BY <1>0, <1>1 DEF TargetTypeOK, targetVars, fetchVars
<1>2. ASSUME NEW p \in Procs, NEW t \in Targets,
             Sync(p, t) \/ SyncNotFound(p, t) \/ SyncFails(p, t)
      PROVE  TargetTypeOK'
  <2>1. NewValue(t) \in Nat
    BY <1>0 DEF NewValue, TargetTypeOK
  <2>2. UNCHANGED annotation \/ annotation' = [annotation EXCEPT ![t] = NewValue(t)]
    BY <1>2, TriedFrame
  <2>3. annotation' \in [Targets -> Nat]
    BY <1>0, <2>1, <2>2 DEF TargetTypeOK
  <2>4. UNCHANGED <<targetVars, fetchVars>>
    BY <1>2, TriedFrame
  <2> QED
    BY <1>0, <2>3, <2>4 DEF TargetTypeOK, targetVars, fetchVars
<1>3. ASSUME NEW t \in Targets, CreateTarget(t) PROVE TargetTypeOK'
  BY <1>0, <1>3 DEF TargetTypeOK, CreateTarget, channelVars
<1>4. ASSUME NEW t \in Targets, DeleteTarget(t) PROVE TargetTypeOK'
  BY <1>0, <1>4 DEF TargetTypeOK, DeleteTarget, fetchVars
<1>5. ASSUME NEW t \in Targets, BeginFetch(t) PROVE TargetTypeOK'
  BY <1>0, <1>5 DEF TargetTypeOK, BeginFetch, targetVars
<1>6. ASSUME NEW t \in Targets, EndFetch(t) PROVE TargetTypeOK'
  <2>1. /\ fetching' = [fetching EXCEPT ![t] = FALSE]
        /\ running' = [running EXCEPT ![t] = fetched[t]]
        /\ UNCHANGED <<targetVars, token, fetched>>
    BY <1>6 DEF EndFetch
  <2>2. \/ handled' = [handled EXCEPT ![t] = token[t]] /\ UNCHANGED annotation
        \/ annotation' = [annotation EXCEPT ![t] = 0] /\ UNCHANGED handled
    BY <1>6 DEF EndFetch
  <2>3. /\ handled \in [Targets -> Nat] /\ annotation \in [Targets -> Nat]
        /\ token[t] \in Nat
    BY <1>0 DEF TargetTypeOK
  <2>4. handled' \in [Targets -> Nat] /\ annotation' \in [Targets -> Nat]
    BY <2>2, <2>3
  <2> QED
    BY <1>0, <2>1, <2>4 DEF TargetTypeOK, targetVars
<1>7. \/ UNCHANGED <<targetVars, annotation, fetchVars>>
      \/ \E p \in Procs, t \in Targets : Sync(p, t) \/ SyncNotFound(p, t) \/ SyncFails(p, t)
      \/ \E t \in Targets : \/ CreateTarget(t) \/ DeleteTarget(t)
                            \/ BeginFetch(t) \/ EndFetch(t)
  BY DEF Next, Handler, Controller, LogEvent, LoseLease, AcquireLease, Deliver, Skip,
         resolveAppNames, ListFails, AllTried, MoveBookmark, Restart, vars
<1> QED
  BY <1>1, <1>2, <1>3, <1>4, <1>5, <1>6, <1>7

LEMMA HistoryStep == TypeOK /\ [Next]_vars => HistoryTypeOK'
<1> SUFFICES ASSUME TypeOK, [Next]_vars PROVE HistoryTypeOK'
  OBVIOUS
<1> DEFINE Tries == (1..Len(log')) \X Targets
<1>0. /\ failures \in 0..MaxFailures /\ losses \in 0..MaxLosses
      /\ changes \in 0..MaxTargetChanges
      /\ tried \subseteq Tries /\ unlisted \subseteq 1..Len(log')
  BY LogGrows DEF TypeOK, HistoryTypeOK
<1>1. \A p \in Procs : step[p] # "polling" => cursor[p] \in 1..Len(log')
  BY LogGrows DEF TypeOK, HandlerTypeOK
<1> SUFFICES /\ failures' \in 0..MaxFailures /\ losses' \in 0..MaxLosses
             /\ changes' \in 0..MaxTargetChanges
             /\ tried' \subseteq Tries /\ unlisted' \subseteq 1..Len(log')
  BY DEF HistoryTypeOK
<1> USE BoundsAssumption
<1>2. ASSUME NEW p \in Procs, NEW t \in Targets,
             Sync(p, t) \/ SyncNotFound(p, t) \/ SyncFails(p, t)
      PROVE  /\ tried' \subseteq Tries /\ failures' \in 0..MaxFailures
             /\ UNCHANGED <<unlisted, losses, changes>>
  <2>1. <<cursor[p], t>> \in Tries
    BY <1>1, <1>2, TriedFrame
  <2>2. /\ tried' = tried \cup {<<cursor[p], t>>}
        /\ UNCHANGED failures \/ (failures < MaxFailures /\ failures' = failures + 1)
        /\ UNCHANGED <<unlisted, losses, changes>>
    BY <1>2, TriedFrame
  <2> HIDE DEF Tries
  <2> QED
    BY <1>0, <2>1, <2>2
<1> HIDE DEF Tries
<1>3. ASSUME NEW p \in Procs, ListFails(p)
      PROVE  /\ unlisted' \subseteq 1..Len(log') /\ failures' \in 0..MaxFailures
             /\ UNCHANGED <<tried, losses, changes>>
  <2>1. cursor[p] \in 1..Len(log')
    BY <1>1, <1>3 DEF ListFails
  <2>2. /\ unlisted' = unlisted \cup {cursor[p]}
        /\ failures < MaxFailures /\ failures' = failures + 1
        /\ UNCHANGED <<tried, losses, changes>>
    BY <1>3 DEF ListFails
  <2>3. unlisted' \subseteq 1..Len(log')
    <3> DEFINE Logged == 1..Len(log')
    <3>1. cursor[p] \in Logged /\ unlisted \subseteq Logged
      BY <1>0, <2>1
    <3> HIDE DEF Logged
    <3>2. unlisted' \subseteq Logged
      BY <2>2, <3>1
    <3> QED
      BY <3>2 DEF Logged
  <2>4. failures' \in 0..MaxFailures
    BY <1>0, <2>2
  <2> QED
    BY <2>2, <2>3, <2>4
<1>4. LoseLease \/ (\E p \in Procs : Restart(p)) =>
         losses' \in 0..MaxLosses /\ UNCHANGED <<historyVars, failures, changes>>
  BY <1>0 DEF LoseLease, Restart
<1>5. (\E t \in Targets : CreateTarget(t) \/ DeleteTarget(t)) =>
         changes' \in 0..MaxTargetChanges /\ UNCHANGED <<historyVars, failures, losses>>
  BY <1>0 DEF CreateTarget, DeleteTarget
<1>6. \/ UNCHANGED <<historyVars, countVars>>
      \/ \E p \in Procs, t \in Targets : Sync(p, t) \/ SyncNotFound(p, t) \/ SyncFails(p, t)
      \/ \E p \in Procs : ListFails(p)
      \/ LoseLease \/ \E p \in Procs : Restart(p)
      \/ \E t \in Targets : CreateTarget(t) \/ DeleteTarget(t)
  BY DEF Next, Handler, Controller, LogEvent, AcquireLease, Deliver, Skip,
         resolveAppNames, AllTried, MoveBookmark, BeginFetch, EndFetch, vars
<1> QED
  BY <1>0, <1>2, <1>3, <1>4, <1>5, <1>6 DEF historyVars, countVars

\* Every reachable state is well typed, and a handler is at work on an event that was
\* logged (makeEventHandler).
THEOREM EventSyncTypeCorrect == Spec => []TypeOK
<1>1. Init => TypeOK
  BY TypeInit
<1>2. TypeOK /\ [Next]_vars => TypeOK'
  BY ChannelStep, HandlerStep, TargetStep, HistoryStep DEF TypeOK
<1> QED
  BY <1>1, <1>2, PTL DEF Spec

-----------------------------------------------------------------------------
(* No event is consumed unheard.                                           *)

\* An event comes to be due to no further target: one that is created later is not
\* meant, and where the list has failed the event is for fewer.
LEMMA DueShrinks ==
    ASSUME TypeOK, [Next]_vars, NEW i \in 1..Len(log)
    PROVE  Due(i)' \subseteq Due(i)
<1> SUFFICES ASSUME NEW t \in Due(i)' PROVE t \in Due(i)
  OBVIOUS
<1>0. /\ i \in Nat /\ Len(log) \in Nat /\ i <= Len(log) /\ i \in 1..Len(log')
      /\ log'[i] = log[i]
  BY LogGrows DEF TypeOK
<1>1. log'[i] \in Events
  BY <1>0, LogGrows DEF TypeOK
<1>2. pinned' = pinned /\ pinned \in Pinnable
  BY DEF Next, Handler, Controller, LogEvent, LoseLease, AcquireLease, Deliver, Skip,
         resolveAppNames, ListFails, Sync, SyncNotFound, SyncFails, AllTried, MoveBookmark,
         Restart, CreateTarget, DeleteTarget, BeginFetch, EndFetch, vars, TypeOK,
         ChannelTypeOK
<1>3. /\ t \in MeantFor(i)' /\ t \in deployed' /\ ~Ignored(log[i]) /\ since'[t] < i
      /\ t \in Targets
  <2>1. t \in MeantFor(i)' /\ t \in deployed' /\ ~Ignored(log[i])' /\ since'[t] < i
    BY DEF Due
  <2>2. deployed' \subseteq Targets
    BY TargetStep DEF TargetTypeOK
  <2> QED
    BY <1>0, <1>2, <2>1, <2>2 DEF Ignored
<1>4. unlisted \subseteq unlisted'
  BY DEF Next, Handler, Controller, LogEvent, LoseLease, AcquireLease, Deliver, Skip,
         resolveAppNames, ListFails, Sync, SyncNotFound, SyncFails, AllTried, MoveBookmark,
         Restart, CreateTarget, DeleteTarget, BeginFetch, EndFetch, vars, historyVars
<1>5. t \in MeantFor(i)
  BY <1>0, <1>2, <1>3, <1>4 DEF MeantFor, Convention
<1>6. t \in deployed /\ since[t] = since'[t]
  <2>1. ASSUME NEW u \in Targets, CreateTarget(u) PROVE t \in deployed /\ since[t] = since'[t]
    <3>1. /\ deployed' = deployed \cup {u} /\ since' = [since EXCEPT ![u] = Len(log)]
          /\ DOMAIN since = Targets
      BY <2>1 DEF CreateTarget, TypeOK, TargetTypeOK
    <3>2. t # u
      BY <1>0, <1>3, <3>1
    <3> QED
      BY <1>3, <3>1, <3>2
  <2>2. ASSUME NEW u \in Targets, DeleteTarget(u) PROVE t \in deployed /\ since[t] = since'[t]
    BY <1>3, <2>2 DEF DeleteTarget
  <2>3. \/ UNCHANGED targetVars
        \/ \E u \in Targets : CreateTarget(u) \/ DeleteTarget(u)
    BY DEF Next, Handler, Controller, LogEvent, LoseLease, AcquireLease, Deliver, Skip,
           resolveAppNames, ListFails, Sync, SyncNotFound, SyncFails, AllTried,
           MoveBookmark, Restart, BeginFetch, EndFetch, vars
  <2> QED
    BY <1>3, <2>1, <2>2, <2>3 DEF targetVars
<1> QED
  BY <1>3, <1>5, <1>6 DEF Due

\* So an event that was heard stays heard.
LEMMA HeardStays ==
    ASSUME TypeOK, [Next]_vars, NEW i \in 1..Len(log), Heard(i)
    PROVE  Heard(i)'
<1>1. tried \subseteq tried'
  BY DEF Next, Handler, Controller, LogEvent, LoseLease, AcquireLease, Deliver, Skip,
         resolveAppNames, ListFails, Sync, SyncNotFound, SyncFails, Tried, AllTried,
         MoveBookmark, Restart, CreateTarget, DeleteTarget, BeginFetch, EndFetch, vars,
         historyVars
<1> QED
  BY <1>1, DueShrinks DEF Heard

\* What the steps of a handler do to its place.
LEMMA HandlerCases ==
    ASSUME [Next]_vars, HandlerTypeOK, NEW p \in Procs, step'[p] # "polling"
    PROVE  \/ UNCHANGED <<step[p], cursor[p], todo[p]>>
           \/ Deliver(p) /\ step'[p] = "resolving" /\ cursor'[p] = bookmark + 1
           \/ Skip(p) /\ step'[p] = "handled" /\ cursor'[p] = cursor[p]
           \/ resolveAppNames(p) /\ step'[p] = "syncing" /\ cursor'[p] = cursor[p]
           \/ ListFails(p) /\ step'[p] = "syncing" /\ cursor'[p] = cursor[p]
           \/ AllTried(p) /\ step'[p] = "handled" /\ cursor'[p] = cursor[p]
           \/ /\ step[p] = "syncing" /\ step'[p] = "syncing" /\ cursor'[p] = cursor[p]
              /\ \E t \in Targets : /\ todo'[p] = todo[p] \ {t}
                                    /\ tried' = tried \cup {<<cursor[p], t>>}
<1>0. DOMAIN step = Procs /\ DOMAIN cursor = Procs /\ DOMAIN todo = Procs
  BY DEF HandlerTypeOK
<1>1. CASE UNCHANGED procVars
  BY <1>1 DEF procVars
<1>2. ASSUME NEW q \in Procs, q # p,
             \/ Deliver(q) \/ Skip(q) \/ resolveAppNames(q) \/ ListFails(q)
             \/ AllTried(q) \/ MoveBookmark(q) \/ Restart(q)
             \/ \E t \in Targets : Sync(q, t) \/ SyncNotFound(q, t) \/ SyncFails(q, t)
      PROVE  UNCHANGED <<step[p], cursor[p], todo[p]>>
  <2>1. CASE \E t \in Targets : Sync(q, t) \/ SyncNotFound(q, t) \/ SyncFails(q, t)
    BY <1>0, <1>2, <2>1, TriedFrame
  <2> QED
    BY <1>0, <1>2, <2>1 DEF Deliver, Skip, resolveAppNames, ListFails, AllTried, MoveBookmark,
                            Restart
<1>3. ASSUME NEW t \in Targets, Sync(p, t) \/ SyncNotFound(p, t) \/ SyncFails(p, t)
      PROVE  /\ step[p] = "syncing" /\ step'[p] = "syncing" /\ cursor'[p] = cursor[p]
             /\ todo'[p] = todo[p] \ {t}
             /\ tried' = tried \cup {<<cursor[p], t>>}
  BY <1>0, <1>3, TriedFrame
<1>4. /\ Deliver(p) => step'[p] = "resolving" /\ cursor'[p] = bookmark + 1
      /\ Skip(p) => step'[p] = "handled" /\ cursor'[p] = cursor[p]
      /\ resolveAppNames(p) => step'[p] = "syncing" /\ cursor'[p] = cursor[p]
      /\ ListFails(p) => step'[p] = "syncing" /\ cursor'[p] = cursor[p]
      /\ AllTried(p) => step'[p] = "handled" /\ cursor'[p] = cursor[p]
      /\ ~MoveBookmark(p) /\ ~Restart(p)
  BY <1>0 DEF Deliver, Skip, resolveAppNames, ListFails, AllTried, MoveBookmark, Restart
<1>5. \/ UNCHANGED procVars
      \/ \E q \in Procs : \/ Deliver(q) \/ Skip(q) \/ resolveAppNames(q) \/ ListFails(q)
                          \/ AllTried(q) \/ MoveBookmark(q) \/ Restart(q)
                          \/ \E t \in Targets : \/ Sync(q, t) \/ SyncNotFound(q, t)
                                                \/ SyncFails(q, t)
  BY DEF Next, Handler, Controller, LogEvent, LoseLease, AcquireLease, CreateTarget,
         DeleteTarget, BeginFetch, EndFetch, vars
<1> QED
  BY <1>1, <1>2, <1>3, <1>4, <1>5

\* When an event is delivered those before it are heard.
LEMMA EarlierStep ==
    TypeOK /\ ConsumedMeansTried /\ EarlierAreHeard /\ [Next]_vars => EarlierAreHeard'
<1> SUFFICES ASSUME TypeOK, ConsumedMeansTried, EarlierAreHeard, [Next]_vars,
                    NEW p \in Procs, step'[p] # "polling",
                    NEW i \in 1..(cursor'[p] - 1)
             PROVE  Heard(i)'
  BY DEF EarlierAreHeard
<1>0. /\ HandlerTypeOK /\ bookmark \in 0..Len(log) /\ Len(log) \in Nat
      /\ cursor[p] \in 0..Len(log)
  BY DEF TypeOK, HandlerTypeOK, ChannelTypeOK
<1>1. CASE Deliver(p) /\ cursor'[p] = bookmark + 1
  <2>1. i \in 1..bookmark /\ i \in 1..Len(log)
    BY <1>0, <1>1
  <2> QED
    BY <2>1, HeardStays DEF ConsumedMeansTried
<1>2. CASE step[p] # "polling" /\ cursor'[p] = cursor[p]
  <2>1. i \in 1..(cursor[p] - 1) /\ i \in 1..Len(log)
    BY <1>0, <1>2
  <2> QED
    BY <1>2, <2>1, HeardStays DEF EarlierAreHeard
<1> QED
  BY <1>0, <1>1, <1>2, HandlerCases DEF Skip, resolveAppNames, ListFails, AllTried

\* A handler resolves all an event is due to, and leaves none of them untried.
LEMMA HandledStep == TypeOK /\ HandledIsHeard /\ [Next]_vars => HandledIsHeard'
<1> SUFFICES ASSUME TypeOK, HandledIsHeard, [Next]_vars, NEW p \in Procs
             PROVE  /\ step'[p] = "syncing" => \A t \in Due(cursor[p])' :
                          t \in todo'[p] \/ <<cursor'[p], t>> \in tried'
                    /\ step'[p] = "handled" => Heard(cursor[p])'
  BY DEF HandledIsHeard
<1>0. /\ HandlerTypeOK /\ deployed \subseteq Targets
      /\ step[p] # "polling" => cursor[p] \in 1..Len(log)
  BY DEF TypeOK, HandlerTypeOK, ChannelTypeOK, TargetTypeOK
<1>1. tried \subseteq tried'
  BY DEF Next, Handler, Controller, LogEvent, LoseLease, AcquireLease, Deliver, Skip,
         resolveAppNames, ListFails, Sync, SyncNotFound, SyncFails, Tried, AllTried,
         MoveBookmark, Restart, CreateTarget, DeleteTarget, BeginFetch, EndFetch, vars,
         historyVars
<1>2. step[p] # "polling" /\ cursor'[p] = cursor[p] => Due(cursor[p])' \subseteq Due(cursor[p])
  BY <1>0, DueShrinks DEF Due, MeantFor
<1>3. CASE UNCHANGED <<step[p], cursor[p], todo[p]>>
  BY <1>1, <1>2, <1>3 DEF HandledIsHeard, Heard
<1>4. CASE Deliver(p) /\ step'[p] = "resolving"
  BY <1>4
<1>5. CASE Skip(p) /\ step'[p] = "handled" /\ cursor'[p] = cursor[p]
  <2>1. Due(cursor[p]) = {}
    BY <1>5 DEF Skip, Event, Due
  <2> QED
    BY <1>2, <1>5, <2>1 DEF Skip, Heard
<1>6. CASE resolveAppNames(p) /\ step'[p] = "syncing" /\ cursor'[p] = cursor[p]
  <2>1. todo'[p] = IF pinned # NoOne THEN {pinned} ELSE appNamesForSpace(log[cursor[p]].slug)
    BY <1>0, <1>6 DEF resolveAppNames, HandlerTypeOK, Event
  <2>2. Due(cursor[p]) \subseteq todo'[p]
    BY <1>0, <2>1 DEF Due, MeantFor, Convention, appNamesForSpace
  <2> QED
    BY <1>2, <1>6, <2>2 DEF resolveAppNames
<1>7. CASE ListFails(p) /\ step'[p] = "syncing" /\ cursor'[p] = cursor[p]
  <2>1. /\ todo'[p] = Convention(log[cursor[p]].slug) /\ pinned' = NoOne
        /\ cursor[p] \in unlisted' /\ log' = log
    BY <1>0, <1>7 DEF ListFails, HandlerTypeOK, Event, channelVars
  <2>2. Due(cursor[p])' \subseteq todo'[p]
    BY <1>7, <2>1 DEF Due, MeantFor, Convention
  <2> QED
    BY <1>7, <2>2
<1>8. CASE AllTried(p) /\ step'[p] = "handled" /\ cursor'[p] = cursor[p]
  BY <1>1, <1>2, <1>8 DEF AllTried, HandledIsHeard, Heard
<1>9. CASE /\ step[p] = "syncing" /\ step'[p] = "syncing" /\ cursor'[p] = cursor[p]
           /\ \E t \in Targets : /\ todo'[p] = todo[p] \ {t}
                                 /\ tried' = tried \cup {<<cursor[p], t>>}
  BY <1>2, <1>9 DEF HandledIsHeard
<1> QED
  BY <1>0, <1>3, <1>4, <1>5, <1>6, <1>7, <1>8, <1>9, HandlerCases

\* The bookmark moves to an event that is heard, as are those before it.
LEMMA ConsumedStep ==
    TypeOK /\ ConsumedMeansTried /\ EarlierAreHeard /\ HandledIsHeard /\ [Next]_vars
        => ConsumedMeansTried'
<1> SUFFICES ASSUME TypeOK, ConsumedMeansTried, EarlierAreHeard, HandledIsHeard, [Next]_vars,
                    NEW i \in 1..bookmark'
             PROVE  Heard(i)'
  BY DEF ConsumedMeansTried
<1>0. bookmark \in 0..Len(log) /\ Len(log) \in Nat
  BY DEF TypeOK, ChannelTypeOK
<1>1. CASE UNCHANGED bookmark
  <2>1. i \in 1..bookmark /\ i \in 1..Len(log)
    BY <1>0, <1>1
  <2> QED
    BY <2>1, HeardStays DEF ConsumedMeansTried
<1>2. ASSUME NEW p \in Procs, MoveBookmark(p), bookmark' = cursor[p] PROVE Heard(i)'
  <2>1. step[p] = "handled" /\ cursor[p] \in 1..Len(log)
    BY <1>2 DEF MoveBookmark, TypeOK, HandlerTypeOK
  <2>2. i \in 1..Len(log) /\ (i \in 1..(cursor[p] - 1) \/ i = cursor[p])
    BY <1>0, <1>2, <2>1
  <2>3. Heard(i)
    BY <2>1, <2>2 DEF EarlierAreHeard, HandledIsHeard
  <2> QED
    BY <2>2, <2>3, HeardStays
<1>3. UNCHANGED bookmark \/ \E p \in Procs : MoveBookmark(p) /\ bookmark' = cursor[p]
  BY DEF Next, Handler, Controller, LogEvent, LoseLease, AcquireLease, Deliver, Skip,
         resolveAppNames, ListFails, Sync, SyncNotFound, SyncFails, AllTried, MoveBookmark,
         Restart, CreateTarget, DeleteTarget, BeginFetch, EndFetch, vars, channelVars
<1> QED
  BY <1>1, <1>2, <1>3

\* makeEventHandler, resolveAppNames: the bookmark passes no event before Sync was
\* called for all it is for, over any number of processes, leases lost, crashes and
\* failures.
THEOREM EventsAreHeard == Spec => []ConsumedMeansTried
<1> DEFINE Inv == TypeOK /\ ConsumedMeansTried /\ EarlierAreHeard /\ HandledIsHeard
<1>1. Init => Inv
  BY TypeInit DEF Init, ConsumedMeansTried, EarlierAreHeard, HandledIsHeard
<1>2. Inv /\ [Next]_vars => Inv'
  BY ChannelStep, HandlerStep, TargetStep, HistoryStep, ConsumedStep, EarlierStep,
     HandledStep DEF TypeOK
<1> QED
  BY <1>1, <1>2, PTL DEF Spec
=============================================================================
