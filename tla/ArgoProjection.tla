-------------------------- MODULE ArgoProjection ---------------------------
(***************************************************************************)
(* What the Argo CD reporter reads off an Application and what it makes of *)
(* it: the deployment Space it belongs to and the LiveStatus of the        *)
(* Release it runs (reporter.go).  An Application is a record of the       *)
(* fields the reporter reads; a field the object does not have is "", as   *)
(* unstructured.NestedString returns it.                                   *)
(***************************************************************************)
CONSTANTS
    Words,     \* the words and messages a field may hold
    Apps,      \* Applications: the informer's keys, <namespace>/<name>
    NameOf,    \* the name of each Application
    Objects,   \* the contents an Application may have
    Absent     \* an Application that does not exist

ASSUME WordsAssumption == {"", "Unknown", "Failed"} \subseteq Words
ASSUME AppsAssumption == NameOf \in [Apps -> Words]
ASSUME ObjectsAssumption ==
    Objects \subseteq [source : Words, revision : Words, sync : Words, health : Words,
                       phase : Words, healthMsg : Words, opMsg : Words]
ASSUME AbsentAssumption == Absent \notin Objects

\* The fields of ReleaseLiveStatus other than ObservedAt, which no comparison
\* reads, and Reporter, which is always "argobot".
Fields == {"Sync", "ReporterSync", "Health", "ReporterHealth",
           "Operation", "ReporterOperation", "Message", "DataSource"}

EmptyStatus == [f \in Fields |-> ""]

\* o.source is what spaceSlugFromRepoURL makes of spec.source.repoURL: a slug,
\* or "" when the URL does not name a Space.  Without it the name is the slug.
deploymentSpaceSlug(a, o) == IF o.source # "" THEN o.source ELSE NameOf[a]

OrUnknown(word) == IF word = "" THEN "Unknown" ELSE word

\* livestatus.FromArgoCD of the ConfigHub SDK: ConfigHub's word beside Argo's own.
FromArgoCD(sync, health, phase) ==
    [Sync              |-> OrUnknown(sync),
     ReporterSync      |-> sync,
     Health            |-> OrUnknown(health),
     ReporterHealth    |-> health,
     Operation         |-> IF phase = "Error" THEN "Failed" ELSE phase,
     ReporterOperation |-> phase]

\* The health message, or else the operation message.  Its truncation to
\* liveStatusMaxMessage bytes is the subject of module LiveStatusText.
projectStatus(a, o) ==
    LET word    == FromArgoCD(o.sync, o.health, o.phase)
        message == IF o.healthMsg # "" THEN o.healthMsg ELSE o.opMsg
    IN  [f \in Fields |->
            CASE f = "DataSource" -> NameOf[a]
              [] f = "Message"    -> message
              [] OTHER            -> word[f]]
=============================================================================
