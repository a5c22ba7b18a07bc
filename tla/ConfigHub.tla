----------------------------- MODULE ConfigHub -----------------------------
(***************************************************************************)
(* ConfigHub as the Argo CD live-status reporter sees it: the Spaces       *)
(* argobot's identity can read, the Releases published in them, and the    *)
(* LiveStatus of each Release.  The service is not part of this            *)
(* repository; it is modelled from the calls releaseLookup and             *)
(* liveStatusWriter make (reporter.go) and what their comments say of it.  *)
(***************************************************************************)
EXTENDS Naturals

CONSTANTS
    Spaces,        \* Space ids
    Slugs,         \* Space slugs
    SlugOf,        \* the slug of each Space id; two ids may share one
    Digests,       \* manifest digests
    MaxReleases,   \* bound: Releases ever published
    Null,          \* the null of a JSON merge patch
    NoRelease,     \* a Release number not published, or deleted
    NoStatus       \* the LiveStatus of a Release nothing was written to

ASSUME SpacesAssumption == SlugOf \in [Spaces -> Slugs]
ASSUME MaxReleasesAssumption == MaxReleases \in Nat

VARIABLES
    visible,       \* the Spaces argobot can read now
    published,     \* the number of the newest Release
    release,       \* Release number -> its Space and ManifestDigest
    live           \* Release number -> its LiveStatus

hubVars == <<visible, published, release, live>>

\* ReleaseIDs stand in the order of ReleaseNum.
ReleaseIds == 1..MaxReleases

Releases == [space : Spaces, digest : Digests]

HubInit ==
    /\ visible = {}
    /\ published = 0
    /\ release = [r \in ReleaseIds |-> NoRelease]
    /\ live = [r \in ReleaseIds |-> NoStatus]

\* A Space is created, or argobot is granted its Target.  No two Spaces that
\* exist at a time have the same slug.
ShowSpace(sp) ==
    /\ \A other \in visible : SlugOf[other] # SlugOf[sp]
    /\ visible' = visible \cup {sp}
    /\ UNCHANGED <<published, release, live>>

\* A Space is deleted, or argobot loses sight of it.
HideSpace(sp) ==
    /\ sp \in visible
    /\ visible' = visible \ {sp}
    /\ UNCHANGED <<published, release, live>>

\* A publish, or a rollback: publishing from an existing Tag makes a new
\* Release with the digest of an earlier one.
Publish(sp, d) ==
    /\ sp \in visible
    /\ published < MaxReleases
    /\ published' = published + 1
    /\ release' = [release EXCEPT ![published + 1] = [space |-> sp, digest |-> d]]
    /\ UNCHANGED <<visible, live>>

\* A Release is withdrawn and deleted, and its LiveStatus with it.
DeleteRelease(r) ==
    /\ release[r] # NoRelease
    /\ release' = [release EXCEPT ![r] = NoRelease]
    /\ live' = [live EXCEPT ![r] = NoStatus]
    /\ UNCHANGED <<visible, published>>

\* The Releases of a Space with a digest, as ListExtendedReleases returns them.
ReleasesWith(sp, d) ==
    {r \in ReleaseIds : release[r] = [space |-> sp, digest |-> d]}

\* The server's side of a JSON merge patch: a field the patch leaves out keeps
\* its value, and a null removes it.
MergePatch(old, patch) ==
    [f \in DOMAIN old |->
        IF f \notin DOMAIN patch THEN old[f]
        ELSE IF patch[f] = Null THEN "" ELSE patch[f]]
=============================================================================
