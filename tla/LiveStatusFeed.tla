-------------------------- MODULE LiveStatusFeed ---------------------------
(***************************************************************************)
(* What live-status reporting promises a reader of ConfigHub, with nothing *)
(* of how it is done: the LiveStatus of a Release is the projection of a   *)
(* state some Application was really in while it named this very Release,  *)
(* and a later state of the same Application is never replaced by an       *)
(* earlier one.  No informer, queue, lookup or retry appears here.         *)
(***************************************************************************)
EXTENDS ConfigHub, ArgoProjection, Sequences

VARIABLE past   \* every state each Application has had, oldest first

vars == <<past, hubVars>>

Init ==
    /\ past = [a \in Apps |-> <<>>]
    /\ HubInit

\* The Application is created, changed or deleted.
Change(a) ==
    /\ \E o \in Objects \cup {Absent} : past' = [past EXCEPT ![a] = Append(@, o)]
    /\ UNCHANGED hubVars

\* Release r is one the v-th state of Application a says it runs.
Runs(a, v, r) ==
    /\ v \in 1..Len(past[a])
    /\ past[a][v] # Absent
    /\ release[r] # NoRelease
    /\ release[r].digest = past[a][v].revision
    /\ SlugOf[release[r].space] = deploymentSpaceSlug(a, past[a][v])

\* A state of an Application becomes the LiveStatus of the Release it runs.
Report(a, v, r) ==
    /\ Runs(a, v, r)
    /\ live[r] # NoStatus /\ live[r].by = a => live[r].ver <= v
    /\ live' = [live EXCEPT ![r] =
                  [by |-> a, ver |-> v, status |-> projectStatus(a, past[a][v])]]
    /\ UNCHANGED <<past, visible, published, release>>

Next ==
    \/ \E a \in Apps : Change(a)
    \/ \E sp \in Spaces : ShowSpace(sp) \/ HideSpace(sp)
    \/ \E sp \in Spaces, d \in Digests : Publish(sp, d)
    \/ \E r \in ReleaseIds : DeleteRelease(r)
    \/ \E a \in Apps, r \in ReleaseIds :
          \E v \in 1..Len(past[a]) : Report(a, v, r)

Spec == Init /\ [][Next]_vars
=============================================================================
