----------------------------- MODULE EventSync -----------------------------
(***************************************************************************)
(* From a published Release to the controller's fetch of it (main.go,      *)
(* events.go, syncer.go and the three backends): ConfigHub logs an event,  *)
(* the process that holds the Channel's lease is handed it, resolves the   *)
(* sync targets that deploy the event's Space and annotates each, and the  *)
(* controller answers an annotation by fetching what its source names.     *)
(*                                                                         *)
(* Sync targets are Argo CD Applications, Sveltos profiles or Flux         *)
(* OCIRepositories; the handler does not know which.  What differs, and is *)
(* the constant KeepsAnnotation, is what becomes of the annotation: Argo   *)
(* CD removes it once it has processed the refresh, and every Sync writes  *)
(* the same value; Sveltos and Flux leave it, and every Sync writes a new  *)
(* value.                                                                  *)
(*                                                                         *)
(* The Channel (its bookmark and lease) and the controllers are not part   *)
(* of this repository.  They are modelled from how main.go uses the        *)
(* listener, from what README.md says of the Channel and from what the     *)
(* comments on the three Sync methods say of the controllers.              *)
(***************************************************************************)
EXTENDS Naturals, Sequences, FiniteSets

CONSTANTS
    Procs,            \* argobot processes: replicas, or an old and a new pod
    Targets,          \* the sync targets there may be, by key
    NamePart,         \* the name of each, without its namespace
    Bare,             \* the targets Sync reaches by a name without namespace
    Slugs,            \* Space slugs
    SourceSlugs,      \* the slugs the source URLs of each target name
    KeepsAnnotation,  \* whether the controller leaves the annotation in place
    NoOne,            \* no process, no pinned target
    MaxEvents,        \* bound: events logged
    MaxFailures,      \* bound: Kubernetes calls that fail
    MaxLosses,        \* bound: crashes and leases lost
    MaxTargetChanges  \* bound: targets created or deleted

ASSUME TargetsAssumption ==
    /\ NamePart \in [Targets -> Slugs \cup {""}]
    /\ Bare \subseteq Targets
    /\ SourceSlugs \in [Targets -> SUBSET Slugs]
ASSUME ModeAssumption == KeepsAnnotation \in BOOLEAN
ASSUME NoOneAssumption == NoOne \notin Procs \cup Targets
ASSUME BoundsAssumption ==
    {MaxEvents, MaxFailures, MaxLosses, MaxTargetChanges} \subseteq Nat

VARIABLES
    log,        \* ConfigHub's event log, as the Channel subscribes to it
    bookmark,   \* the Channel's: how far it has been read
    lease,      \* the process that holds the Channel's lease
    pinned,     \* the ARGO_APP of the configuration, or NoOne
    step,       \* where each process is in its event handler
    cursor,     \* the event it was handed
    todo,       \* the targets it has still to sync
    deployed,   \* the targets that exist in the cluster
    since,      \* how long the log was when each was created
    annotation, \* the value of each target's annotation; 0 is none
    handled,    \* the value its controller has answered
    fetching,   \* whether its controller is fetching
    token,      \* the annotation it saw when it began
    fetched,    \* how many Releases of its sources that fetch found
    running,    \* how many of them are deployed
    tried,      \* history: the targets Sync was called for, by event
    unlisted,   \* history: the events whose targets could not be listed
    failures, losses, changes   \* what the bounds count

channelVars == <<log, bookmark, lease>>
procVars    == <<step, cursor, todo>>
targetVars  == <<deployed, since>>
fetchVars   == <<handled, fetching, token, fetched, running>>
historyVars == <<tried, unlisted>>
countVars   == <<failures, losses, changes>>
vars == <<channelVars, pinned, procVars, targetVars, annotation, fetchVars,
          historyVars, countVars>>

EventTypes == {"release.published", "unit.applied"}

Events == [type : EventTypes, slug : Slugs \cup {""}]

\* How many Releases there are to fetch from the sources of a target.
Latest(t) ==
    Cardinality({i \in 1..Len(log) :
                    log[i].type = "release.published" /\ log[i].slug \in SourceSlugs[t]})

\* What ARGO_APP may name: it is cleared unless the controller is Argo CD.
Pinnable == {NoOne} \cup (IF KeepsAnnotation THEN {} ELSE Bare)

Init ==
    /\ log = <<>> /\ bookmark = 0 /\ lease = NoOne
    /\ pinned \in Pinnable
    /\ step = [p \in Procs |-> "polling"]
    /\ cursor = [p \in Procs |-> 0]
    /\ todo = [p \in Procs |-> {}]
    /\ deployed \in SUBSET Targets
    /\ since = [t \in Targets |-> 0]
    /\ annotation = [t \in Targets |-> 0]
    /\ handled = [t \in Targets |-> 0]
    /\ fetching = [t \in Targets |-> FALSE]
    /\ token = [t \in Targets |-> 0]
    /\ fetched = [t \in Targets |-> 0]
    /\ running = [t \in Targets |-> 0]
    /\ tried = {} /\ unlisted = {}
    /\ failures = 0 /\ losses = 0 /\ changes = 0

-----------------------------------------------------------------------------
(* ConfigHub's Channel.                                                    *)

\* A Release is published, or something else the Channel subscribes to happens.
LogEvent(e) ==
    /\ Len(log) < MaxEvents
    /\ log' = Append(log, e)
    /\ UNCHANGED <<bookmark, lease, pinned, procVars, targetVars, annotation, fetchVars,
                   historyVars, countVars>>

AcquireLease(p) ==
    /\ lease = NoOne
    /\ lease' = p
    /\ UNCHANGED <<log, bookmark, pinned, procVars, targetVars, annotation, fetchVars,
                   historyVars, countVars>>

\* The holder stops renewing in time; what it is handling goes on.
LoseLease ==
    /\ lease # NoOne
    /\ losses < MaxLosses
    /\ losses' = losses + 1
    /\ lease' = NoOne
    /\ UNCHANGED <<log, bookmark, pinned, procVars, targetVars, annotation, fetchVars,
                   historyVars, failures, changes>>

\* The holder polls, and the listener hands it the event after the bookmark.
Deliver(p) ==
    /\ lease = p
    /\ step[p] = "polling"
    /\ bookmark < Len(log)
    /\ step' = [step EXCEPT ![p] = "resolving"]
    /\ cursor' = [cursor EXCEPT ![p] = bookmark + 1]
    /\ UNCHANGED <<channelVars, pinned, todo, targetVars, annotation, fetchVars,
                   historyVars, countVars>>

-----------------------------------------------------------------------------
(* The event handler.                                                      *)

Event(p) == log[cursor[p]]

\* The targets named after the slug, and those whose source names it.
appNamesForSpace(slug) ==
    {t \in deployed : NamePart[t] = slug \/ slug \in SourceSlugs[t]}

\* What the slug names by itself, whether or not it exists.
Convention(slug) == {t \in Bare : NamePart[t] = slug}

\* An event argobot does not react to, or one that names no Space.
Ignored(e) == e.type # "release.published" \/ (pinned = NoOne /\ e.slug = "")

Skip(p) ==
    /\ step[p] = "resolving"
    /\ Ignored(Event(p))
    /\ step' = [step EXCEPT ![p] = "handled"]
    /\ UNCHANGED <<channelVars, pinned, cursor, todo, targetVars, annotation, fetchVars,
                   historyVars, countVars>>

\* resolveAppNames: the pinned Application, or else the targets in the cluster
\* that deploy the Space.
resolveAppNames(p) ==
    /\ step[p] = "resolving"
    /\ ~Ignored(Event(p))
    /\ todo' = [todo EXCEPT ![p] =
          IF pinned # NoOne THEN {pinned} ELSE appNamesForSpace(Event(p).slug)]
    /\ step' = [step EXCEPT ![p] = "syncing"]
    /\ UNCHANGED <<channelVars, pinned, cursor, targetVars, annotation, fetchVars,
                   historyVars, countVars>>

\* The list fails: the convention is tried rather than the event dropped.
ListFails(p) ==
    /\ step[p] = "resolving"
    /\ ~Ignored(Event(p)) /\ pinned = NoOne
    /\ failures < MaxFailures
    /\ failures' = failures + 1
    /\ todo' = [todo EXCEPT ![p] = Convention(Event(p).slug)]
    /\ unlisted' = unlisted \cup {cursor[p]}
    /\ step' = [step EXCEPT ![p] = "syncing"]
    /\ UNCHANGED <<channelVars, pinned, cursor, targetVars, annotation, fetchVars, tried,
                   losses, changes>>

\* Mutant: Sveltos and Flux get the same value each time, as Argo CD does.
SameValue(t) == 1

\* A merge patch of the annotation: one constant value, or a new one.
NewValue(t) == IF KeepsAnnotation THEN annotation[t] + 1 ELSE 1

\* The handler goes on to the next name, whatever became of this one.
Tried(p, t) ==
    /\ step[p] = "syncing"
    /\ t \in todo[p]
    /\ todo' = [todo EXCEPT ![p] = @ \ {t}]
    /\ tried' = tried \cup {<<cursor[p], t>>}

Sync(p, t) ==
    /\ Tried(p, t)
    /\ t \in deployed
    /\ annotation' = [annotation EXCEPT ![t] = NewValue(t)]
    /\ UNCHANGED <<channelVars, pinned, step, cursor, targetVars, fetchVars, unlisted,
                   countVars>>

\* The target is gone since it was listed, or was never there.
SyncNotFound(p, t) ==
    /\ Tried(p, t)
    /\ t \notin deployed
    /\ UNCHANGED <<channelVars, pinned, step, cursor, targetVars, annotation, fetchVars,
                   unlisted, countVars>>

\* Mutant: the handler returns at the first name that fails.
SyncFailsReturns(p, t) ==
    /\ failures < MaxFailures
    /\ failures' = failures + 1
    /\ step[p] = "syncing"
    /\ t \in todo[p]
    /\ todo' = [todo EXCEPT ![p] = {}]
    /\ tried' = tried \cup {<<cursor[p], t>>}
    /\ UNCHANGED <<channelVars, pinned, step, cursor, targetVars, annotation, fetchVars,
                   unlisted, losses, changes>>

\* The patch fails; the failure is logged and nothing remembers it.
SyncFails(p, t) ==
    /\ failures < MaxFailures
    /\ failures' = failures + 1
    /\ Tried(p, t)
    /\ UNCHANGED <<channelVars, pinned, step, cursor, targetVars, annotation, fetchVars,
                   unlisted, losses, changes>>

AllTried(p) ==
    /\ step[p] = "syncing"
    /\ todo[p] = {}
    /\ step' = [step EXCEPT ![p] = "handled"]
    /\ UNCHANGED <<channelVars, pinned, cursor, todo, targetVars, annotation, fetchVars,
                   historyVars, countVars>>

\* Mutant: the bookmark is the next event to deliver, not the last handled.
MoveBookmarkPast(p) ==
    /\ step[p] = "handled"
    /\ bookmark' = IF lease = p THEN cursor[p] + 1 ELSE bookmark
    /\ step' = [step EXCEPT ![p] = "polling"]
    /\ cursor' = [cursor EXCEPT ![p] = 0]
    /\ UNCHANGED <<log, lease, pinned, todo, targetVars, annotation, fetchVars,
                   historyVars, countVars>>

\* The handler has returned, and the listener moves the bookmark.  A process
\* that lost the lease meanwhile is refused and waits for it again.
MoveBookmark(p) ==
    /\ step[p] = "handled"
    /\ bookmark' = IF lease = p THEN cursor[p] ELSE bookmark
    /\ step' = [step EXCEPT ![p] = "polling"]
    /\ cursor' = [cursor EXCEPT ![p] = 0]
    /\ UNCHANGED <<log, lease, pinned, todo, targetVars, annotation, fetchVars,
                   historyVars, countVars>>

\* A process ends and starts again; its lease, if it has it, runs out.
Restart(p) ==
    /\ losses < MaxLosses
    /\ losses' = losses + 1
    /\ lease' = IF lease = p THEN NoOne ELSE lease
    /\ step' = [step EXCEPT ![p] = "polling"]
    /\ cursor' = [cursor EXCEPT ![p] = 0]
    /\ todo' = [todo EXCEPT ![p] = {}]
    /\ UNCHANGED <<log, bookmark, pinned, targetVars, annotation, fetchVars, historyVars,
                   failures, changes>>

-----------------------------------------------------------------------------
(* The cluster and the controllers.                                        *)

\* A target is created; its controller fetches it as it finds it.
CreateTarget(t) ==
    /\ t \notin deployed
    /\ changes < MaxTargetChanges
    /\ changes' = changes + 1
    /\ deployed' = deployed \cup {t}
    /\ since' = [since EXCEPT ![t] = Len(log)]
    /\ annotation' = [annotation EXCEPT ![t] = 0]
    /\ handled' = [handled EXCEPT ![t] = 0]
    /\ fetching' = [fetching EXCEPT ![t] = FALSE]
    /\ token' = [token EXCEPT ![t] = 0]
    /\ fetched' = [fetched EXCEPT ![t] = 0]
    /\ running' = [running EXCEPT ![t] = Latest(t)]
    /\ UNCHANGED <<channelVars, pinned, procVars, historyVars, failures, losses>>

DeleteTarget(t) ==
    /\ t \in deployed
    /\ changes < MaxTargetChanges
    /\ changes' = changes + 1
    /\ deployed' = deployed \ {t}
    /\ UNCHANGED <<channelVars, pinned, procVars, since, annotation, fetchVars,
                   historyVars, failures, losses>>

Requested(t) ==
    /\ t \in deployed
    /\ IF KeepsAnnotation THEN annotation[t] # handled[t] ELSE annotation[t] # 0

\* The controller begins to answer the annotation: it resolves the source.
BeginFetch(t) ==
    /\ Requested(t)
    /\ ~fetching[t]
    /\ fetching' = [fetching EXCEPT ![t] = TRUE]
    /\ token' = [token EXCEPT ![t] = annotation[t]]
    /\ fetched' = [fetched EXCEPT ![t] = Latest(t)]
    /\ UNCHANGED <<channelVars, pinned, procVars, targetVars, annotation, handled, running,
                   historyVars, countVars>>

\* The controller is done with it: Argo CD removes the annotation, the others
\* record the value they answered.
EndFetch(t) ==
    /\ t \in deployed
    /\ fetching[t]
    /\ fetching' = [fetching EXCEPT ![t] = FALSE]
    /\ running' = [running EXCEPT ![t] = fetched[t]]
    /\ IF KeepsAnnotation
       THEN handled' = [handled EXCEPT ![t] = token[t]] /\ UNCHANGED annotation
       ELSE annotation' = [annotation EXCEPT ![t] = 0] /\ UNCHANGED handled
    /\ UNCHANGED <<channelVars, pinned, procVars, targetVars, token, fetched,
                   historyVars, countVars>>

-----------------------------------------------------------------------------
Handler(p) ==
    \/ Skip(p) \/ resolveAppNames(p) \/ ListFails(p)
    \/ \E t \in Targets : Sync(p, t) \/ SyncNotFound(p, t) \/ SyncFails(p, t)
    \/ AllTried(p) \/ MoveBookmark(p)

Controller(t) == BeginFetch(t) \/ EndFetch(t)

Next ==
    \/ \E e \in Events : LogEvent(e)
    \/ LoseLease
    \/ \E p \in Procs : AcquireLease(p) \/ Deliver(p) \/ Handler(p) \/ Restart(p)
    \/ \E t \in Targets : CreateTarget(t) \/ DeleteTarget(t) \/ Controller(t)

Spec == Init /\ [][Next]_vars

\* Some process gets a free lease, its holder polls, a handler that runs goes
\* on, and a controller that was asked answers.  The controllers' own periodic
\* reconciliation is left out: it would hide a lost request.
Fairness ==
    /\ WF_vars(\E p \in Procs : AcquireLease(p))
    /\ \A p \in Procs : WF_vars(Deliver(p)) /\ WF_vars(Handler(p))
    /\ \A t \in Targets : WF_vars(Controller(t))

FairSpec == Spec /\ Fairness

-----------------------------------------------------------------------------
(* Properties.                                                             *)

ChannelTypeOK ==
    /\ log \in Seq(Events) /\ Len(log) <= MaxEvents
    /\ bookmark \in 0..Len(log)
    /\ lease \in Procs \cup {NoOne}
    /\ pinned \in Pinnable

HandlerTypeOK ==
    /\ step \in [Procs -> {"polling", "resolving", "syncing", "handled"}]
    /\ cursor \in [Procs -> 0..Len(log)]
    /\ \A p \in Procs : step[p] # "polling" => cursor[p] > 0
    /\ todo \in [Procs -> SUBSET Targets]

TargetTypeOK ==
    /\ deployed \subseteq Targets
    /\ since \in [Targets -> 0..Len(log)]
    /\ annotation \in [Targets -> Nat] /\ handled \in [Targets -> Nat]
    /\ fetching \in [Targets -> BOOLEAN] /\ token \in [Targets -> Nat]
    /\ fetched \in [Targets -> Nat] /\ running \in [Targets -> Nat]

HistoryTypeOK ==
    /\ tried \subseteq (1..Len(log)) \X Targets
    /\ unlisted \subseteq 1..Len(log)
    /\ failures \in 0..MaxFailures
    /\ losses \in 0..MaxLosses
    /\ changes \in 0..MaxTargetChanges

\* Every variable has its type, and a handler works on an event that was logged.
TypeOK == ChannelTypeOK /\ HandlerTypeOK /\ TargetTypeOK /\ HistoryTypeOK

\* The targets an event is for.  Where they could not be listed only the
\* convention is left.
MeantFor(i) ==
    IF pinned # NoOne THEN {pinned}
    ELSE IF i \in unlisted THEN Convention(log[i].slug)
    ELSE {t \in Targets : NamePart[t] = log[i].slug \/ log[i].slug \in SourceSlugs[t]}

\* Those of them that have been there since before the event.
Due(i) == {t \in MeantFor(i) \cap deployed : ~Ignored(log[i]) /\ since[t] < i}

Heard(i) == \A t \in Due(i) : <<i, t>> \in tried

\* No event is consumed unheard (makeEventHandler, resolveAppNames): once the
\* bookmark has passed an event, Sync was called for every target it is for
\* that has been there since before the event, whichever process handled it,
\* whatever died, lost its lease or failed in between.
ConsumedMeansTried == \A i \in 1..bookmark : Heard(i)

\* Why ConsumedMeansTried holds, though a process that lost its lease and has it
\* back may move the bookmark to where it was: a process is at work on an event
\* only when those before it were heard, and what the event is due to is tried or
\* still to do.
EarlierAreHeard ==
    \A p \in Procs : step[p] # "polling" => \A i \in 1..(cursor[p] - 1) : Heard(i)

HandledIsHeard ==
    \A p \in Procs :
        /\ step[p] = "syncing" => \A t \in Due(cursor[p]) :
              t \in todo[p] \/ <<cursor[p], t>> \in tried
        /\ step[p] = "handled" => Heard(cursor[p])

\* "the change takes effect immediately instead of waiting for the controller's
\* next reconciliation" and "re-patching re-triggers on the next event": if no
\* Kubernetes call fails, every target comes to run, and goes on running, the
\* newest Release of its sources, without the controller's own reconciliation.
\* A pinned configuration syncs the pinned Application alone.
PublishedIsSynced ==
    <>[](\A t \in deployed :
            failures = 0 /\ pinned \in {NoOne, t} => running[t] = Latest(t))
=============================================================================
