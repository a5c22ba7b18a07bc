-------------------------- MODULE MCFluxReporter ---------------------------
(* Instances of FluxReporter for TLC.                                      *)
EXTENDS FluxReporter, TLC

CONSTANTS k1, k2

OneKust  == <<k1>>
TwoKusts == <<k1, k2>>

Kust(applied, attempted, ready, reason, healthy, reconciling, message) ==
    [applied |-> applied, attempted |-> attempted, ready |-> ready,
     readyReason |-> reason, healthy |-> healthy, healthyReason |-> reason,
     reconciling |-> reconciling, stalled |-> "", healthChecked |-> healthy # "",
     message |-> message]

\* What kustomize-controller shows of a Kustomization: a revision is applied and
\* healthy; it was applied and is being checked; it does not build.
Applied(d)           == Kust(d, d, "True", "ReconciliationSucceeded", "True", "", "Applied")
Checking(d, from)    == Kust(from, d, "Unknown", "Progressing", "Unknown", "True", "Checking")
BuildFailed(d, from) == Kust(from, d, "False", "BuildFailed", "", "True", "No file")

Repo(ready, pinned, message) ==
    [ready |-> ready, reason |-> message, pinned |-> pinned, message |-> message]

Pulled     == Repo("True", "", "")
PullFailed == Repo("False", "", "OCIPullFailed")

RepoStates == {Pulled, PullFailed}
PulledOnly == {Pulled}

Moves == {Applied("a"), Applied("b")}
Mixed == {Applied("a"), BuildFailed("b", "a"), Checking("b", "a")}

\* A Space with two Releases nothing was reported on, and one with a Release an
\* earlier version of argobot has reported on.
Unreported(d) == [digest |-> d, published |-> TRUE, live |-> NoStatus]

TwoReleases == {<<Unreported("a"), Unreported("b")>>}

NoNames == {}
SecondIsCutShort == {k2}

Earlier ==
    {<<[Unreported("a") EXCEPT !.live =
          [Part |-> fromFluxRunning(Applied("a")), Reporter |-> "argobot",
           DataSource |-> <<Name("", k1)>>, Message |-> <<>>]],
       NoRelease>>}

EarlierOrNone == Earlier \cup TwoReleases
=============================================================================
