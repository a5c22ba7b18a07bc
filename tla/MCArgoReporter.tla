-------------------------- MODULE MCArgoReporter ---------------------------
(* Instances of ArgoReporter for TLC.                                      *)
EXTENDS ArgoReporter, LiveStatusText, TLC

CONSTANTS a1, p1, p2

\* An Application in Space "orders" by its source, or by its name.
App(source, revision, sync, phase, healthMsg, opMsg) ==
    [source |-> source, revision |-> revision, sync |-> sync, health |-> "Healthy",
     phase |-> phase, healthMsg |-> healthMsg, opMsg |-> opMsg]

\* The life of a sync: the new revision is being applied, and then it is there.
Syncing == App("orders", "d1", "OutOfSync", "Running", "", "applying")
Synced  == App("orders", "d1", "Synced", "", "", "")
Moved   == App("", "d2", "Synced", "", "fine", "applied")
Fresh   == App("orders", "", "", "", "", "")

OneName == (a1 :> "orders")

MCWords == {"", "orders", "d1", "d2", "OutOfSync", "Synced", "Unknown",
            "Healthy", "Running", "Failed", "applying", "fine", "applied"}

\* Two ids of one slug: the Space is deleted and created again.
MCSlugOf == (p1 :> "orders") @@ (p2 :> "orders")
OneSlug  == (p1 :> "orders")

MoveObjects == {Fresh, Syncing, Synced, Moved}
SyncObjects == {Syncing, Synced}

\* The texts of n bytes; with those of up to 12, every place of a cut in a rune.
TextsOf[n \in 0..12] ==
    IF n = 0 THEN {<<>>}
    ELSE UNION {{t \o Rune(w) : t \in TextsOf[n - w]} : w \in {v \in Widths : v <= n}}

ASSUME TextsFit ==
    \A n \in 0..12, limit \in 1..8 : \A s \in TextsOf[n] :
        IsText(s) /\ TruncatedFits(s, limit) /\ SentNearlyFits(s, limit)
=============================================================================
