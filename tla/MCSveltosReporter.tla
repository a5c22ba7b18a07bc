------------------------- MODULE MCSveltosReporter -------------------------
(* Instances of SveltosReporter for TLC.                                   *)
EXTENDS SveltosReporter, TLC

CONSTANTS k1, k2

Object(sp, revision, health, message) ==
    [space |-> sp, revision |-> revision, health |-> health, message |-> message]

\* What a cluster shows of Space 1 while it runs web, of web and db, of a Space 2
\* beside it, and of objects that argobot knows nothing of.
Web(n, health, message) == Object(1, <<"web", n>>, health, message)

Up        == <<Web(1, "Healthy", "")>>
Grown     == <<Object(NoSpace, <<>>, "Degraded", ""), Web(1, "Healthy", ""),
               Object(1, <<"db", 1>>, "Progressing", "ready 1/2")>>
Foreign   == <<Object(NoSpace, <<>>, "Healthy", "")>>
TwoSpaces == <<Web(1, "Healthy", ""), Object(2, <<"db", 1>>, "Odd", "?")>>

Web1 == {<<"web", 1>>}
Web2 == {<<"web", 2>>}
Both == {<<"web", 1>>, <<"db", 1>>}

Summary(spaces, statuses) == [deploys |-> spaces, statuses |-> statuses]

Provisioned  == Summary({1}, <<"Provisioned", "Provisioned">>)
Provisioning == Summary({1}, <<"Provisioned", "Provisioning">>)
OneCluster   == [o \in {k1, k2, 1, 2} |-> "c"]
AgentToo     == [o \in {k1, k2, 1} |-> IF o = k2 THEN NoCluster ELSE "c"]

ExistingPair == (k1 :> <<Up>>) @@ (k2 :> <<Up>>) @@ (1 :> <<Provisioned>>)
JustOne      == (k1 :> <<Up>>) @@ (1 :> <<Provisioned>>)

OneRelease == <<[space |-> 1, bundle |-> Web1, published |-> TRUE]>>

\* The two reports of a cluster may change places.
ReportSymmetry == Permutations({k1, k2})

UpOrGrown     == {Up, Grown}
UpOrTwo       == {Up, TwoSpaces, Foreign}
DeployStates  == {Provisioned, Provisioning}
WebBundles    == {Web1, Web2}
GrowingBundle == {Both}
=============================================================================
