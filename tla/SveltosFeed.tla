---------------------------- MODULE SveltosFeed ----------------------------
(***************************************************************************)
(* What live-status reporting promises a reader of ConfigHub where Sveltos *)
(* deploys: the LiveStatus of a Release is what one HealthCheckReport and  *)
(* the ClusterSummaries of its cluster say of the Release's Space, in      *)
(* states they were really in, the Release's bundle holds every Unit       *)
(* revision that report shows, and of each of these objects a later state  *)
(* is never replaced by an earlier one.  There is no informer, queue,      *)
(* cache, list or retry here, nor who may see a Space, nor what withdrawing *)
(* a Release does before it is deleted.                                    *)
(***************************************************************************)
EXTENDS SveltosStatus

CONSTANTS Reports, ClusterOf, NoCluster, InitialPast, InitialReleases, ReportStates,
          SummaryStates, Bundles, MaxReleases, NoRelease, NoStatus

Objects == Reports \cup Summaries

VARIABLES
    past,       \* every state each object has had, oldest first
    published,  \* the number of the newest Release
    contents,   \* Release number -> its Space and bundle
    live        \* Release number -> its LiveStatus, whose, and from which states

vars == <<past, published, contents, live>>

Init ==
    /\ past = InitialPast
    /\ published = Len(InitialReleases)
    /\ contents = [r \in 1..MaxReleases |->
                     IF r > published THEN NoRelease
                     ELSE [space |-> InitialReleases[r].space,
                           bundle |-> InitialReleases[r].bundle]]
    /\ live = [r \in 1..MaxReleases |-> NoStatus]

States(o) == IF o \in Reports THEN ReportStates ELSE SummaryStates

Change(o) ==
    /\ \E s \in States(o) \cup {Absent} :
          past' = [past EXCEPT ![o] = Append(@, s)]
    /\ UNCHANGED <<published, contents, live>>

Publish(sp, bundle) ==
    /\ published < MaxReleases
    /\ published' = published + 1
    /\ contents' = [contents EXCEPT ![published + 1] = [space |-> sp, bundle |-> bundle]]
    /\ UNCHANGED <<past, live>>

Delete(r) ==
    /\ contents' = [contents EXCEPT ![r] = NoRelease]
    /\ live' = [live EXCEPT ![r] = NoStatus]
    /\ UNCHANGED <<past, published>>

\* Of each object, the number of a state it was in; 0 is before it was seen.
Moments == [Objects -> UNION {0..Len(past[o]) : o \in Objects}]

At(o, v) == IF v[o] = 0 THEN Absent ELSE past[o][v[o]]

ClusterAt(k, v) ==
    [s \in {t \in Summaries : ClusterOf[t] = ClusterOf[k]} |-> At(s, v)]

\* The report k shows, in its state, revisions that Release r bundles.
Runs(k, v, r) ==
    /\ \A o \in Objects : v[o] <= Len(past[o])
    /\ ClusterOf[k] # NoCluster
    /\ At(k, v) # Absent
    /\ contents[r] # NoRelease
    /\ contents[r].space \in DOMAIN observeSpaces(At(k, v))
    /\ observeSpaces(At(k, v))[contents[r].space].Revisions \subseteq contents[r].bundle

\* What k and the ClusterSummaries said at moment v becomes the LiveStatus of r.
Report(k, v, r) ==
    /\ UNCHANGED <<past, published, contents>>
    /\ Runs(k, v, r)
    /\ live[r] # NoStatus /\ live[r].by = k => \A o \in Objects : live[r].ver[o] <= v[o]
    /\ \E st \in StatusesFor(observeSpaces(At(k, v))[contents[r].space], ClusterAt(k, v),
                             contents[r].space, k) :
          live' = [live EXCEPT ![r] = [by |-> k, ver |-> v, status |-> st]]

\* What a step has changed says which of them it was.
Next ==
    \/ past' # past /\ \E o \in Objects : Change(o)
    \/ published' # published /\ \E sp \in Spaces, bundle \in Bundles : Publish(sp, bundle)
    \/ contents' # contents /\ \E r \in 1..MaxReleases : Delete(r)
    \/ live' # live /\ \E k \in Reports, r \in 1..MaxReleases :
                          \E v \in Moments : Report(k, v, r)

Spec == Init /\ [][Next]_vars
=============================================================================
