--------------------------- MODULE SveltosStatus ---------------------------
(***************************************************************************)
(* What the Sveltos live-status reporter makes of the objects it watches   *)
(* (reporter_sveltos.go, livestatus_sveltos.go), as functions: the Unit    *)
(* revisions and the health a HealthCheckReport shows of each Space, what  *)
(* the ClusterSummaries of a cluster say of the deploy, the LiveStatus of  *)
(* the two together, and which bundle of a Release covers what was seen.   *)
(*                                                                         *)
(* A report is the sequence of its collected objects.  Of an object only   *)
(* its origin (a Space and a Unit at a revision), its health and its       *)
(* message matter; one without a usable origin is in no Space.             *)
(***************************************************************************)
EXTENDS Naturals, Sequences

CONSTANTS
    Spaces,        \* Space ids, numbers in the order of their text
    Summaries,     \* ClusterSummaries, numbers in the order of their profiles' names
    NoSpace,       \* the Space of an object without a usable origin
    NoProfile,     \* the name of no profile
    Absent         \* an object that does not exist

ASSUME SpacesAssumption == Spaces \subseteq Nat /\ NoSpace \notin Spaces
ASSUME SummariesAssumption == Summaries \subseteq Nat /\ NoProfile \notin Summaries

Least(S) == CHOOSE n \in S : \A m \in S : n <= m

\* The first of the highest rank, as both loops over statuses keep it.
FirstWorst(statuses, rank) ==
    statuses[CHOOSE i \in DOMAIN statuses :
                /\ \A j \in DOMAIN statuses : rank[statuses[j]] <= rank[statuses[i]]
                /\ \A j \in 1..(i - 1) : rank[statuses[j]] < rank[statuses[i]]]

\* The Unit revisions a report shows of each Space, and the objects that carry them.
observeSpaces(report) ==
    [sp \in {report[i].space : i \in DOMAIN report} \ {NoSpace} |->
        [Revisions |-> {report[i].revision :
                           i \in {j \in DOMAIN report : report[j].space = sp}},
         Resources |-> SelectSeq(report, LAMBDA object : object.space = sp)]]

-----------------------------------------------------------------------------
(* The deploy: feature statuses.                                           *)

FeatureStatuses ==
    {"Provisioned", "Provisioning", "Failed", "FailedNonRetriable", "Removing", ""}

FeatureRank ==
    [s \in FeatureStatuses |->
        CASE s = "Provisioned" -> 0
          [] s = "Provisioning" -> 2
          [] s \in {"Failed", "FailedNonRetriable"} -> 3
          [] OTHER -> 1]

combineFeatureStatuses(statuses) ==
    IF statuses = <<>> THEN "" ELSE FirstWorst(statuses, FeatureRank)

\* What the ClusterSummaries of one cluster say of a Space: the combined status
\* of those that deploy it and the first of their profiles' names.  They are
\* listed from a Go map, in any order, so that of several statuses of the
\* highest rank any may come first: every outcome is an element.
deployStatus(summaries, sp) ==
    LET deploying == {s \in DOMAIN summaries :
                        summaries[s] # Absent /\ sp \in summaries[s].deploys}
        combined  == {combineFeatureStatuses(summaries[s].statuses) :
                        s \in {d \in deploying : summaries[d].statuses # <<>>}}
        worst     == {c \in combined :
                        \A other \in combined : FeatureRank[other] <= FeatureRank[c]}
    IN  [feature : IF worst = {} THEN {""} ELSE worst,
         profile : {IF deploying = {} THEN NoProfile ELSE Least(deploying)}]

sveltosSync(feature) == IF feature = "Provisioned" THEN "Synced" ELSE "Unknown"

sveltosOperation(feature) ==
    CASE feature = "Provisioning" -> "Running"
      [] feature = "Provisioned" -> "Succeeded"
      [] feature \in {"Failed", "FailedNonRetriable"} -> "Failed"
      [] OTHER -> ""

-----------------------------------------------------------------------------
(* The health of the objects.                                              *)

HealthStatuses == {"Healthy", "Suspended", "Progressing", "Degraded", "Odd", ""}

HealthRank ==
    [s \in HealthStatuses |->
        CASE s = "Healthy" -> 0
          [] s = "Suspended" -> 1
          [] s = "Progressing" -> 2
          [] s = "Degraded" -> 3
          [] OTHER -> 4]

sveltosHealth(health) ==
    IF health \in {"Healthy", "Progressing", "Degraded", "Suspended"} THEN health
    ELSE "Unknown"

\* The first message among the objects in that state.
MessageOf(resources, health) ==
    LET said == {i \in DOMAIN resources :
                    resources[i].health = health /\ resources[i].message # ""}
    IN  IF said = {} THEN "" ELSE resources[Least(said)].message

fromSveltos(feature, health) ==
    [Sync |-> sveltosSync(feature), Health |-> sveltosHealth(health),
     Operation |-> sveltosOperation(feature),
     ReporterSync |-> feature, ReporterHealth |-> health, ReporterOperation |-> feature]

projectSveltosStatus(resources, feature, dataSource) ==
    LET health == FirstWorst([i \in DOMAIN resources |-> resources[i].health], HealthRank)
    IN  [Part |-> fromSveltos(feature, health), DataSource |-> dataSource,
         Message |-> MessageOf(resources, health)]

\* Every LiveStatus the report named reportName may lead to for a Space, given
\* the ClusterSummaries of its cluster.
StatusesFor(observation, summaries, sp, reportName) ==
    {projectSveltosStatus(observation.Resources, d.feature,
                          IF d.profile = NoProfile THEN reportName ELSE d.profile) :
        d \in deployStatus(summaries, sp)}
=============================================================================
