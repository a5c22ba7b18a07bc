------------------------------ MODULE FluxPlan ------------------------------
(***************************************************************************)
(* What the Flux live-status reporter makes of an OCIRepository, the       *)
(* Kustomizations that apply it and the Releases of its Space              *)
(* (reporter_flux.go, livestatus_flux.go): which Releases to give which    *)
(* status.  Everything here is a function of its arguments.                *)
(*                                                                         *)
(* A Kustomization is a record of what the reporter reads of it; a         *)
(* condition that is absent is "".  A Release is a record of its digest,   *)
(* whether it is published, and its LiveStatus.                            *)
(***************************************************************************)
EXTENDS Naturals, Sequences, FiniteSets

CONSTANTS
    KustOrder,    \* the Kustomizations' names, in DataSource order
    Source,       \* the OCIRepository's name
    Digests,      \* manifest digests
    MaxReleases,  \* bound: Releases ever published
    NamesFit,     \* how many names fit in the 253 bytes of a DataSource
    CutShort,     \* the Kustomizations whose name, when it is the first that does
                  \* not fit, is cut inside its namespace
    CutName,      \* what is left of a name that was cut elsewhere
    CutNamespace, \* what is left of one cut inside its namespace: a single "/"
    Garbled,      \* what fluxDataSource makes of that
    LongTexts,    \* messages too long to be kept whole behind a mark
    BrokenTexts,  \* messages cut in the middle of a rune
    Absent,       \* an object that does not exist
    NoRelease,    \* a Release number not published, or deleted
    NoStatus      \* the LiveStatus of a Release nothing was written to

ASSUME FluxBoundsAssumption == MaxReleases \in Nat /\ NamesFit \in Nat
ASSUME FluxDigestsAssumption == "" \notin Digests
ASSUME FluxTextsAssumption == BrokenTexts \subseteq LongTexts /\ "" \notin LongTexts

Kusts == {KustOrder[i] : i \in 1..Len(KustOrder)}

ASSUME FluxNamesAssumption ==
    KustOrder \in Seq(Kusts) /\ Source \notin Kusts /\ CutShort \subseteq Kusts

ReleaseIds == 1..MaxReleases

\* The largest of a set of numbers, or 0.
Greatest(S) == IF S = {} THEN 0 ELSE CHOOSE m \in S : \A n \in S : n <= m

\* The nth of a set of numbers.
Nth(S, n) == CHOOSE m \in S : Cardinality({i \in S : i <= m}) = n

-----------------------------------------------------------------------------
(* One Kustomization: livestatus_flux.go.                                  *)

\* The last attempted revision is on the cluster.
fluxApplied(k) ==
    \/ k.ready = "True"
    \/ k.readyReason = "HealthCheckFailed"
    \/ k.healthy = "Unknown" /\ k.reconciling = "True"

fluxHealth(k) ==
    CASE ~k.healthChecked -> "Unknown"
      [] k.healthChecked /\ (k.healthy = "True" \/ (k.healthy = "" /\ k.ready = "True"))
            -> "Healthy"
      [] OTHER ->
            IF k.healthy = "False" \/ k.readyReason = "HealthCheckFailed" THEN "Degraded"
            ELSE IF k.reconciling = "True" \/ k.healthy = "Unknown" THEN "Progressing"
            ELSE "Unknown"

Failing(k) == k.stalled = "True" \/ k.ready = "False"

fluxOperation(k) ==
    IF Failing(k) THEN "Failed"
    ELSE IF k.reconciling = "True" THEN "Running"
    ELSE IF k.ready = "True" THEN "Succeeded"
    ELSE ""

\* A status without DataSource and Message.
Part(sync, health, operation, syncWord, healthWord, operationWord) ==
    [Sync |-> sync, Health |-> health, Operation |-> operation,
     ReporterSync |-> syncWord, ReporterHealth |-> healthWord,
     ReporterOperation |-> operationWord]

Parts ==
    [Sync : {"Synced", "OutOfSync", "Unknown"},
     Health : {"Healthy", "Progressing", "Degraded", "Unknown"},
     Operation : {"", "Running", "Succeeded", "Failed"},
     ReporterSync : STRING, ReporterHealth : STRING, ReporterOperation : STRING]

\* The Release the cluster runs, the one last attempted.
fromFluxRunning(k) ==
    Part(IF fluxApplied(k) THEN "Synced" ELSE "Unknown", fluxHealth(k), fluxOperation(k),
         k.readyReason, k.healthyReason, k.readyReason)

\* The Release the cluster runs while a newer one is attempted.
fromFluxSuperseded(k) ==
    LET health == IF ~k.healthChecked THEN "Unknown"
                  ELSE IF k.healthy = "False" THEN "Degraded"
                  ELSE IF k.healthy \in {"True", ""} THEN "Healthy"
                  ELSE "Unknown"
    IN  Part("Synced", health, "Succeeded", "", k.healthyReason, "")

\* A Release attempted and not applied.
fromFluxAttempted(k) ==
    LET operation == IF Failing(k) THEN "Failed"
                     ELSE IF k.reconciling = "True" \/ k.ready = "Unknown" THEN "Running"
                     ELSE ""
    IN  Part("OutOfSync", "Unknown", operation, k.readyReason, "", k.readyReason)

\* A Release the OCIRepository failed to pull.
fromFluxSourceFailed(reason) == Part("OutOfSync", "Unknown", "Failed", reason, "", reason)

\* A Release another one has replaced.
fromFluxReplaced == Part("OutOfSync", "Unknown", "", "", "", "")

-----------------------------------------------------------------------------
(* What the objects say, by the digest of the Release it is about.         *)

\* The digest of a revision; one of another source has none.
fluxManifestDigest(revision) == IF revision \in Digests THEN revision ELSE ""

\* The two digests a Kustomization speaks about.
AttemptedRevision(k) == IF k.attempted = "" THEN k.applied ELSE k.attempted

AttemptedDigest(k) == fluxManifestDigest(AttemptedRevision(k))

RunningDigest(k) ==
    fluxManifestDigest(IF fluxApplied(k) THEN AttemptedRevision(k) ELSE k.applied)

\* A name in a DataSource: <kind>/<namespace>/<name>.  Earlier versions of
\* argobot left out the kind of a Kustomization.
Name(kind, n) == [kind |-> kind, name |-> n]

\* What is left of a name that does not fit.
Cuts == {CutName, CutNamespace, Garbled}

\* A message is the sequence of its parts: "Replaced by release N", and an
\* object's Ready message after its name, whole or cut at the limit for messages.
\* A part is "whole" as it is first written, "cut" again behind a mark, "mended"
\* where the JSON of the patch has a rune in the place of the broken one.
Line(r, from, text) == [replacedBy |-> r, from |-> from, text |-> text, form |-> "whole"]

ReplacedBy(r) == <<Line(r, Name("", ""), "")>>

Says(n, text) == IF text = "" THEN <<>> ELSE <<Line(0, n, text)>>

\* What Kustomization n, in state k, says about the Release with digest d.
Observation(n, k, d) ==
    LET name == Name("Kustomization", n)
        text == IF k.ready = "True" THEN "" ELSE k.message
    IN  IF d = RunningDigest(k) /\ d = AttemptedDigest(k)
        THEN [name |-> name, part |-> fromFluxRunning(k), message |-> Says(name, text)]
        ELSE IF d = RunningDigest(k)
        THEN [name |-> name, part |-> fromFluxSuperseded(k), message |-> <<>>]
        ELSE [name |-> name, part |-> fromFluxAttempted(k), message |-> Says(name, text)]

\* A Kustomization in state k says something about digest d.
Speaks(k, d) == k # Absent /\ d \in {RunningDigest(k), AttemptedDigest(k)}

\* The Kustomizations that do, in order.
Speakers(kusts, d) ==
    LET at == {i \in 1..Len(KustOrder) : Speaks(kusts[KustOrder[i]], d)}
    IN  [n \in 1..Cardinality(at) |-> KustOrder[Nth(at, n)]]

observeFluxSource(kusts, d) ==
    LET who == Speakers(kusts, d)
    IN  [i \in 1..Len(who) |-> Observation(who[i], kusts[who[i]], d)]

\* The Release a failing OCIRepository should have pulled: the newest of its
\* pinned digest, or else the newest published one.
fluxSourceTarget(source, rs) ==
    Greatest({r \in ReleaseIds :
                /\ rs[r] # NoRelease
                /\ IF source.pinned # "" THEN rs[r].digest = source.pinned
                   ELSE rs[r].published})

SourceName == Name("OCIRepository", Source)

SourceFailure(source) ==
    <<[name |-> SourceName, part |-> fromFluxSourceFailed(source.reason),
       message |-> Says(SourceName, source.message)]>>

\* Everything said about digest d; the repository is heard only about a Release
\* no Kustomization speaks of.
Observations(source, kusts, rs, d) ==
    LET target == fluxSourceTarget(source, rs)
    IN  IF /\ source.ready = "False" /\ target # 0
           /\ rs[target].digest = d /\ Speakers(kusts, d) = <<>>
        THEN SourceFailure(source)
        ELSE observeFluxSource(kusts, d)

Names == [kind : {"Kustomization", "OCIRepository", ""}, name : Kusts \cup {Source, ""}]

Messages == Seq([replacedBy : Nat, from : Names, text : STRING,
                 form : {"whole", "cut", "mended"}])

DataSources == Seq(Names \cup Cuts) \ {<<>>}

\* The statuses argobot may find on a Release, and Releases with them.
Statuses ==
    [Part : Parts, Reporter : STRING, DataSource : DataSources, Message : Messages]

Releases == [digest : Digests, published : BOOLEAN, live : Statuses \cup {NoStatus}]

\* True of any strings, and not known to the provers.
ASSUME FluxWordsAssumption == {"", "argobot"} \subseteq STRING
ASSUME FluxCutsAssumption == CutNamespace \notin {CutName, Garbled} /\ Cuts \cap Names = {}
ASSUME FluxReleasesAssumption == NoStatus \notin Statuses /\ NoRelease \notin Releases

-----------------------------------------------------------------------------
(* One status from several observations.                                   *)

SyncRank(s) == CASE s = "Synced" -> 0 [] s = "OutOfSync" -> 2 [] OTHER -> 1

HealthRank(h) ==
    CASE h = "Healthy" -> 0 [] h = "Suspended" -> 1 [] h = "Progressing" -> 2
      [] h \in {"Degraded", "Missing"} -> 3 [] OTHER -> 4

OperationRank(o) ==
    CASE o = "Succeeded" -> 0 [] o = "Running" -> 2 [] o = "Failed" -> 3 [] OTHER -> 1

\* The first of the observations whose rank no other exceeds.
LeastAdvanced(obs, rank) ==
    obs[CHOOSE i \in 1..Len(obs) :
          \A j \in 1..Len(obs) : rank[j] <= rank[i] /\ (rank[j] = rank[i] => i <= j)].part

\* The first name that does not fit is cut; one cut before fits as it is.
CutOf(n) ==
    IF n \in Cuts THEN n
    ELSE IF n.name \in CutShort THEN CutNamespace
    ELSE CutName

\* A DataSource too long for its 253 bytes ends in a name cut short.
truncateNames(names) ==
    IF Len(names) <= NamesFit THEN names
    ELSE Append(SubSeq(names, 1, NamesFit), CutOf(names[NamesFit + 1]))

\* The first message there is.
FirstMessage(obs) ==
    LET said == {i \in 1..Len(obs) : obs[i].message # <<>>}
    IN  IF said = {} THEN <<>> ELSE obs[Nth(said, 1)].message

projectFluxStatus(obs) ==
    LET sync      == LeastAdvanced(obs, [i \in 1..Len(obs) |-> SyncRank(obs[i].part.Sync)])
        health    == LeastAdvanced(obs, [i \in 1..Len(obs) |-> HealthRank(obs[i].part.Health)])
        operation == LeastAdvanced(obs, [i \in 1..Len(obs) |-> OperationRank(obs[i].part.Operation)])
    IN  [Part |-> Part(sync.Sync, health.Health, operation.Operation, sync.ReporterSync,
                       health.ReporterHealth, operation.ReporterOperation),
         Reporter   |-> "argobot",
         DataSource |-> truncateNames([i \in 1..Len(obs) |-> obs[i].name]),
         Message    |-> FirstMessage(obs)]

-----------------------------------------------------------------------------
(* The plan: which Release gets which status.                              *)

\* The newest Release with digest d, or 0.
ByDigest(rs, d) ==
    Greatest({r \in ReleaseIds : rs[r] # NoRelease /\ rs[r].digest = d})

\* A fluxWrite for each Release the objects say something about.
Said(source, kusts, rs) ==
    LET newest == {r \in ReleaseIds : /\ rs[r] # NoRelease
                                      /\ r = ByDigest(rs, rs[r].digest)}
        heard  == {[Release |-> r, By |-> Observations(source, kusts, rs, rs[r].digest)] :
                      r \in newest}
    IN  {[Release |-> h.Release, Status |-> projectFluxStatus(h.By)] :
            h \in {g \in heard : g.By # <<>>}}

\* The write for the Release that runs: the newest one Synced, if there is any.
RunningOf(writes) ==
    {w \in writes : /\ w.Status.Part.Sync = "Synced"
                    /\ \A v \in writes : v.Status.Part.Sync = "Synced" => v.Release <= w.Release}

\* Mutant: a DataSource of an earlier version is taken as it is.
fluxDataSourceAsIs(names) == names

\* A name with a single "/" is taken for a Kustomization's in the earlier form, one
\* that was cut inside its namespace too.
Upgraded(n) ==
    IF n = CutNamespace THEN Garbled
    ELSE IF n \notin Cuts /\ n.kind = "" THEN Name("Kustomization", n.name)
    ELSE n

\* A DataSource of an earlier version, in the form of this one.
fluxDataSource(names) == truncateNames([i \in 1..Len(names) |-> Upgraded(names[i])])

\* Mutant: a failure is not kept.
fluxReplacedForgets(part, names, message, by) ==
    [Part |-> fromFluxReplaced, Reporter |-> "argobot", DataSource |-> names,
     Message |-> ReplacedBy(by)]

\* A message behind a mark, where there is room for less of it.
Shortened(message) ==
    [i \in 1..Len(message) |->
        IF message[i].text \in LongTexts THEN [message[i] EXCEPT !.form = "cut"]
        ELSE message[i]]

\* A failure is kept, with its reason and what fits of its message.
fluxReplacedStatus(part, names, message, by) ==
    [Part |-> IF part.Operation = "Failed"
              THEN [fromFluxReplaced EXCEPT !.Operation = "Failed",
                                            !.ReporterOperation = part.ReporterOperation]
              ELSE fromFluxReplaced,
     Reporter   |-> "argobot",
     DataSource |-> names,
     Message    |-> IF part.Operation = "Failed" THEN ReplacedBy(by) \o Shortened(message)
                    ELSE ReplacedBy(by)]

\* Mutant: a mark with a failure behind it is not recognised.
fluxMarkedBare(status) == \E r \in ReleaseIds : status.Message = ReplacedBy(r)

\* planFluxWrites marked the status replaced before.
fluxMarkedReplaced(status) ==
    /\ status.Part.Sync = "OutOfSync"
    /\ status.Message # <<>> /\ Head(status.Message).replacedBy # 0

\* The names by which a status is known for this repository's.
Owners(kusts) ==
    {SourceName} \cup {Name("Kustomization", n) : n \in {m \in Kusts : kusts[m] # Absent}}

\* argobot wrote the status for this repository.
Owned(kusts, status) ==
    LET names == fluxDataSource(status.DataSource)
    IN  status.Reporter = "argobot" /\ \E i \in 1..Len(names) : names[i] \in Owners(kusts)

\* The new status of a Release nothing speaks of while Release by runs.
Replaced(release, names, by) ==
    IF release.live = NoStatus
    THEN fluxReplacedStatus(fromFluxReplaced, names, <<>>, by)
    ELSE LET upgraded == fluxDataSource(release.live.DataSource)
         IN  IF fluxMarkedReplaced(release.live)
             THEN [release.live EXCEPT !.DataSource = upgraded]
             ELSE fluxReplacedStatus(release.live.Part, upgraded, release.live.Message, by)

\* Whether Replaced is written at all.
IsReplaced(kusts, release, r, by) ==
    IF release.live = NoStatus THEN release.published /\ r < by
    ELSE /\ Owned(kusts, release.live)
         /\ fluxMarkedReplaced(release.live) =>
                fluxDataSource(release.live.DataSource) # release.live.DataSource

\* The writes for the Releases that running, the write for the one that runs, has
\* replaced: those the objects say nothing about.
Replacements(kusts, rs, running, writes) ==
    {[Release |-> r, Status |-> Replaced(rs[r], running.Status.DataSource, running.Release)] :
        r \in {n \in ReleaseIds \ {w.Release : w \in writes} :
                 rs[n] # NoRelease /\ IsReplaced(kusts, rs[n], n, running.Release)}}

planFluxWrites(source, kusts, rs) ==
    LET writes == Said(source, kusts, rs)
    IN  writes \cup UNION {Replacements(kusts, rs, running, writes) :
                              running \in RunningOf(writes)}

\* writeIfChanged: the writes of a plan that would change something.
Changes(plan, rs) == {w \in plan : rs[w.Release].live # w.Status}

\* What ConfigHub holds of a status it was sent, and gives back: JSON has a
\* replacement rune where a message was cut in the middle of one.
Received(status) ==
    [status EXCEPT !.Message =
        [i \in 1..Len(@) |->
            IF @[i].text \in BrokenTexts /\ @[i].form = "whole"
            THEN [@[i] EXCEPT !.form = "mended"] ELSE @[i]]]

\* The message of a mark has another one behind it, as much of it as fits.
HasBehind(mark, said) ==
    /\ Len(mark) = Len(said) + 1
    /\ \A i \in 1..Len(said) :
          mark[i + 1].from = said[i].from /\ mark[i + 1].text = said[i].text
=============================================================================
