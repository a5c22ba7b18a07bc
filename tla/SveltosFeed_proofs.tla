-------------------------- MODULE SveltosFeed_proofs --------------------------
(***************************************************************************)
(* That SveltosReporter implements SveltosFeed, for every value of its     *)
(* constants, and that what a Release says already is not written to it    *)
(* again.  Both rest on three invariants: what a report has found is of    *)
(* its Space (FoundIsOfSpace), what is written is what the objects said    *)
(* (SaidByObjects), and none of it is older than what was written before   *)
(* (NothingNewer).  The second needs a fourth: the signature that is kept  *)
(* is of what the Release says (SignaturesKept).                           *)
(***************************************************************************)
EXTENDS SveltosReporter_proofs

\* What report k and the ClusterSummaries of its cluster may say of a Space in the
\* states numbered by v.
SaidOf(k, v, sp) ==
    StatusesFor(observeSpaces(ObjectAt(k, v[k]))[sp], SummariesAt(k, v), sp, k)

\* The Releases listed are of the Space under way, the one found bundles what is
\* seen of it, and a match that is remembered is of a bundle that holds it.
ListedIsOfSpace ==
    pc \in {"match", "compare", "patch"} =>
        \A r \in listed : release[r] # NoRelease => release[r].space = space

MatchesCover ==
    \A sp \in Spaces : releaseMatches[sp] # NoMatch =>
        /\ bundleRevisions[releaseMatches[sp].release] # NotRead
        /\ releaseMatches[sp].key.revisions
              \subseteq bundleRevisions[releaseMatches[sp].release]

TargetCovers ==
    pc \in {"compare", "patch"} =>
        /\ bundleRevisions[target] # NotRead
        /\ Observed.Revisions \subseteq bundleRevisions[target]

FoundIsOfSpace == BundlesAreKnown /\ ListedIsOfSpace /\ MatchesCover /\ TargetCovers

\* What is to be written is what the objects said in the states it names, and not
\* what this report has written last for the Space.
WriteIsSaid ==
    pc = "patch" =>
        /\ write.ver[key] = snap[key]
        /\ \A o \in Objects \ About(key) : write.ver[o] = 0
        /\ write.status \in SaidOf(key, write.ver, space)
        /\ lastSig[key][space] # [release |-> target, status |-> write.status]

\* So is what a Release says.
LiveIsSaid ==
    \A r \in ReleaseIds : live[r] # NoStatus =>
        /\ \A o \in Objects : live[r].ver[o] <= Newest[o]
        /\ live[r].status \in SaidOf(live[r].by, live[r].ver, release[r].space)

SaidByObjects == WriteIsSaid /\ LiveIsSaid

\* Nothing that is written on a Release is of later states than those that the
\* stores hold, or that the same report goes on with.
NothingNewer ==
    \A r \in ReleaseIds : live[r] # NoStatus =>
        /\ \A o \in Objects \ About(live[r].by) : live[r].ver[o] = 0
        /\ \A informer \in synced : \A o \in informer : live[r].ver[o] <= cache[o]
        /\ live[r].by = key =>
              /\ live[r].ver[key] <= snap[key]
              /\ pc = "patch" => \A o \in Objects : live[r].ver[o] <= write.ver[o]

-----------------------------------------------------------------------------
(* Facts about single steps.                                               *)

\* A state an object was in stays the one with its number.
LEMMA ObjectStays ==
    ASSUME TypeOK, [Next]_vars, NEW o \in Objects, NEW n \in Nat, n <= Newest[o]
    PROVE  ObjectAt(o, n)' = ObjectAt(o, n)
<1>1. n # 0 => past'[o][n] = past[o][n]
  BY PastGrows
<1> QED
  BY <1>1 DEF ObjectAt

\* So does what the objects said in the states they were in.
LEMMA SaidStays ==
    ASSUME TypeOK, [Next]_vars, NEW k \in Reports, NEW v \in [Objects -> Nat], NEW sp,
           \A o \in Objects : v[o] <= Newest[o]
    PROVE  SaidOf(k, v, sp)' = SaidOf(k, v, sp)
<1>1. \A o \in Objects : ObjectAt(o, v[o])' = ObjectAt(o, v[o])
  BY ObjectStays
<1>2. k \in Objects /\ About(k) \ {k} \subseteq Objects
  BY DEF About, Objects
<1>3. SummariesAt(k, v)' = SummariesAt(k, v)
  BY <1>1, <1>2 DEF SummariesAt
<1> QED
  BY <1>1, <1>2, <1>3 DEF SaidOf

\* How the worker comes to have the Releases of a Space.
LEMMA LateCases ==
    ASSUME [Next]_vars, pc' \in {"match", "compare", "patch"}
    PROVE  /\ ~Restart
           /\ \/ UNCHANGED <<workVars, memoVars>>
              \/ FindCached \/ listReleases \/ Send
              \/ \E r \in tries : FindCovering(r) \/ TryNext(r)
<1>1. ~Restart
  BY DEF Restart, Leave
<1>2. \A fails \in BOOLEAN : ~Over(fails)
  BY DEF Over, ReturnNil, ReturnError, Leave
<1>3. Report => \/ FindCached \/ listReleases \/ Send
                \/ \E r \in tries : FindCovering(r) \/ TryNext(r)
  BY <1>2 DEF Report, NotKnown, NoneCovers, Suppress, patchRelease, patchAnswerLost,
              Refused, CallFails
<1>4. \A k \in Reports : ~processNext(k) /\ ~reportDeleted(k)
  BY DEF processNext, reportDeleted, Taken, workVars
<1> QED
  BY <1>1, <1>3, <1>4, Frames DEF Next, vars

-----------------------------------------------------------------------------
(* What a report has found.                                                *)

\* The Releases listed are published ones of the Space under way.
LEMMA ListedStep == TypeOK /\ ListedIsOfSpace /\ [Next]_vars => ListedIsOfSpace'
<1> SUFFICES ASSUME TypeOK, ListedIsOfSpace, [Next]_vars,
                    pc' \in {"match", "compare", "patch"},
                    NEW r \in listed', release'[r] # NoRelease
             PROVE  release'[r].space = space'
  BY DEF ListedIsOfSpace
<1>1. CASE FindCached \/ listReleases
  BY <1>1 DEF FindCached, listReleases, PublishedNow, Stay, hubVars
<1>2. CASE UNCHANGED <<space, listed>> /\ pc \in {"match", "compare", "patch"}
  <2>1. r \in ReleaseIds /\ r <= published
    BY <1>2, BoundsAssumption DEF TypeOK, WorkerTypeOK, HubTypeOK, ReleaseIds
  <2>2. release[r] # NoRelease /\ release'[r].space = release[r].space
    BY <2>1, ReleaseStays
  <2> QED
    BY <1>2, <2>2 DEF ListedIsOfSpace
<1>3. \A q \in tries : FindCovering(q) \/ TryNext(q) =>
         UNCHANGED <<space, listed>> /\ pc = "match"
  BY DEF FindCovering, TryNext, LooksAt, Stay
<1>4. Send => UNCHANGED <<space, listed>> /\ pc = "compare"
  BY DEF Send, Stay
<1> QED
  BY <1>1, <1>2, <1>3, <1>4, LateCases DEF workVars, stepVars

\* A bundle that covers what is seen is a bundle that was read, and is remembered.
LEMMA FoundCovers ==
    ASSUME TypeOK, NEW r \in tries, FindCovering(r)
    PROVE  /\ r \in ReleaseIds
           /\ bundleRevisions'[r] # NotRead
           /\ Observed.Revisions \subseteq bundleRevisions'[r]
<1>1. r \in ReleaseIds /\ DOMAIN bundleRevisions = ReleaseIds
  BY BoundsAssumption DEF TypeOK, WorkerTypeOK, HubTypeOK, MemoTypeOK, ReleaseIds
<1>2. /\ pc = "match" /\ Remember(r)
      /\ Observed.Revisions \subseteq releaseBundleRevisions(r)
  BY DEF FindCovering, LooksAt, Covers
<1>3. releaseBundleRevisions(r) # {}
  BY <1>2, UnderWay
<1>4. CASE bundleRevisions[r] # NotRead
  BY <1>1, <1>2, <1>4 DEF Remember, releaseBundleRevisions
<1>5. CASE bundleRevisions[r] = NotRead /\ Readable(r)
  <2>1. release[r] \in Releases /\ releaseBundleRevisions(r) = release[r].bundle
    BY <1>1, <1>5 DEF TypeOK, HubTypeOK, Readable, releaseBundleRevisions
  <2>2. bundleRevisions'[r] = release[r].bundle
    BY <1>1, <1>2, <1>5, <2>1 DEF Remember
  <2> QED
    BY <1>1, <1>2, <2>1, <2>2, ReleasesAssumption
<1> QED
  BY <1>1, <1>3, <1>4, <1>5 DEF releaseBundleRevisions

\* A match that is remembered is of a bundle that is.
LEMMA MatchesCoverStep == TypeOK /\ MatchesCover /\ [Next]_vars => MatchesCover'
<1> SUFFICES ASSUME TypeOK, MatchesCover, [Next]_vars,
                    NEW sp \in Spaces, releaseMatches'[sp] # NoMatch
             PROVE  /\ bundleRevisions'[releaseMatches'[sp].release] # NotRead
                    /\ releaseMatches'[sp].key.revisions
                          \subseteq bundleRevisions'[releaseMatches'[sp].release]
  BY DEF MatchesCover
<1>1. ~Restart
  BY DEF Restart
<1>2. CASE releaseMatches'[sp] = releaseMatches[sp]
  <2>1. releaseMatches[sp].release \in ReleaseIds
    <3>1. releaseMatches[sp].release \in 1..published
      BY <1>2 DEF TypeOK, MemoTypeOK
    <3> QED
      BY <3>1, BoundsAssumption DEF TypeOK, HubTypeOK, ReleaseIds
  <2>2. bundleRevisions'[releaseMatches[sp].release] =
           bundleRevisions[releaseMatches[sp].release]
    BY <1>1, <1>2, <2>1, BundlesStay DEF MatchesCover
  <2> QED
    BY <1>2, <2>2 DEF MatchesCover
<1>3. ASSUME NEW r \in tries, FindCovering(r), releaseMatches'[sp] # releaseMatches[sp]
      PROVE  /\ bundleRevisions'[releaseMatches'[sp].release] # NotRead
             /\ releaseMatches'[sp].key.revisions
                   \subseteq bundleRevisions'[releaseMatches'[sp].release]
  <2>1. releaseMatches'[sp] = [key |-> MatchKey(listed), release |-> r]
    BY <1>3 DEF FindCovering, TypeOK, MemoTypeOK
  <2>2. releaseMatches'[sp].release = r
        /\ releaseMatches'[sp].key.revisions = Observed.Revisions
    BY <2>1 DEF MatchKey, releaseMatchKey
  <2> QED
    BY <1>3, <2>2, FoundCovers
<1> QED
  BY <1>1, <1>2, <1>3, ReportCases DEF FindCached, listReleases, TryNext, memoVars

\* The Release found, looked for or remembered, bundles what is seen.
LEMMA TargetStep ==
    TypeOK /\ MatchesCover /\ TargetCovers /\ [Next]_vars => TargetCovers'
<1> SUFFICES ASSUME TypeOK, MatchesCover, TargetCovers, [Next]_vars,
                    pc' \in {"compare", "patch"}
             PROVE  /\ bundleRevisions'[target'] # NotRead
                    /\ Observed'.Revisions \subseteq bundleRevisions'[target']
  BY DEF TargetCovers
<1>0. ~Restart
  BY LateCases
<1>1. CASE /\ pc \in {"compare", "patch"}
           /\ UNCHANGED <<key, snap, space, target, bundleRevisions>>
  <2>1. Observed' = Observed
    BY <1>1, ObservedStays
  <2> QED
    BY <1>1, <2>1 DEF TargetCovers
<1>2. CASE FindCached
  <2>1. /\ pc = "list" /\ releaseMatches[space] # NoMatch
        /\ releaseMatches[space].key.revisions = Observed.Revisions
        /\ target' = releaseMatches[space].release
        /\ UNCHANGED <<key, snap, space, bundleRevisions>>
    BY <1>2 DEF FindCached, Matched, MatchKey, releaseMatchKey, Stay, memoVars
  <2>2. space \in Spaces /\ Observed' = Observed
    BY <2>1, UnderWay, ObservedStays
  <2> QED
    BY <2>1, <2>2 DEF MatchesCover
<1>3. ASSUME NEW r \in tries, FindCovering(r)
      PROVE  /\ bundleRevisions'[target'] # NotRead
             /\ Observed'.Revisions \subseteq bundleRevisions'[target']
  <2>1. pc = "match" /\ target' = r /\ UNCHANGED <<key, snap, space>>
    BY <1>3 DEF FindCovering, LooksAt, Stay
  <2>2. Observed' = Observed
    BY <2>1, ObservedStays
  <2> QED
    BY <1>3, <2>1, <2>2, FoundCovers
<1>4. ~listReleases /\ \A r \in tries : ~TryNext(r)
  BY DEF listReleases, TryNext, LooksAt
<1>5. Send => /\ pc = "compare"
              /\ UNCHANGED <<key, snap, space, target, bundleRevisions>>
  BY DEF Send, Stay, memoVars
<1> QED
  BY <1>1, <1>2, <1>3, <1>4, <1>5, LateCases DEF workVars, stepVars, memoVars

LEMMA FoundStep == TypeOK /\ FoundIsOfSpace /\ [Next]_vars => FoundIsOfSpace'
BY BundlesStep, ListedStep, MatchesCoverStep, TargetStep DEF FoundIsOfSpace

-----------------------------------------------------------------------------
(* What is written is what the objects said.                               *)

\* What a status put together now is from.
LEMMA NowIsSaid ==
    ASSUME TypeOK, pc # "idle"
    PROVE  /\ key \in Reports
           /\ FromNow \in [Objects -> Nat]
           /\ FromNow[key] = snap[key]
           /\ \A o \in Objects \ About(key) : FromNow[o] = 0
           /\ \A o \in About(key) \ {key} : FromNow[o] = cache[o]
           /\ StatusesNow = SaidOf(key, FromNow, space)
<1>1. /\ key \in Reports /\ key \in Objects /\ key \in About(key)
      /\ snap \in [Objects -> Nat] /\ cache \in [Objects -> Nat]
      /\ About(key) \subseteq Objects
  BY DEF TypeOK, WorkerTypeOK, StoreTypeOK, About, Objects
<1>2. Stored(key) \in [Objects -> Nat]
  BY <1>1 DEF Stored
<1>3. FromNow \in [Objects -> Nat] /\ FromNow[key] = snap[key]
  BY <1>1, <1>2 DEF FromNow
<1>4. \A o \in Objects \ {key} : FromNow[o] = IF o \in About(key) THEN cache[o] ELSE 0
  BY <1>1, <1>2 DEF FromNow, Stored
<1>5. SummariesAt(key, FromNow) = SummariesAt(key, cache)
  BY <1>1, <1>4 DEF SummariesAt
<1> QED
  BY <1>1, <1>3, <1>4, <1>5 DEF StatusesNow, SaidOf, Observed

\* What the objects are sent as having said they have said, and it is news to the
\* signature.
LEMMA WriteStep == TypeOK /\ WriteIsSaid /\ [Next]_vars => WriteIsSaid'
<1> SUFFICES ASSUME TypeOK, WriteIsSaid, [Next]_vars, pc' = "patch"
             PROVE  WriteIsSaid'
  BY DEF WriteIsSaid
<1>1. CASE UNCHANGED <<workVars, memoVars>>
  <2>1. /\ pc = "patch" /\ key \in Reports
        /\ UNCHANGED <<key, snap, space, target, write, lastSig>>
        /\ write.ver \in [Objects -> Nat]
        /\ \A o \in Objects : write.ver[o] <= Newest[o]
    <3>1. /\ pc = "patch" /\ UNCHANGED <<key, snap, space, target, write, lastSig>>
      BY <1>1 DEF workVars, stepVars, memoVars
    <3>2. /\ key \in Reports /\ write.ver \in [Objects -> Nat]
          /\ \A o \in Objects : write.ver[o] <= cache[o] /\ cache[o] <= Newest[o]
                                /\ cache[o] \in Nat /\ Newest[o] \in Nat
      BY <3>1, PastGrows DEF TypeOK, WorkerTypeOK, StoreTypeOK
    <3> QED
      BY <3>1, <3>2
  <2>2. SaidOf(key, write.ver, space)' = SaidOf(key, write.ver, space)
    BY <2>1, SaidStays
  <2>3. About(key)' = About(key)
    BY <2>1 DEF About
  <2> QED
    BY <2>1, <2>2, <2>3 DEF WriteIsSaid
<1>2. CASE Send
  <2>1. PICK st \in StatusesNow :
           /\ lastSig[key][space] # [release |-> target, status |-> st]
           /\ write' = [ver |-> FromNow, status |-> st]
    BY <1>2 DEF Send
  <2>2. pc = "compare" /\ UNCHANGED <<past, key, snap, space, target, lastSig>>
    BY <1>2 DEF Send, Stay, memoVars
  <2>3. About(key)' = About(key) /\ SaidOf(key, write.ver, space)' =
           SaidOf(key, FromNow, space)
    <3>1. \A o, n : ObjectAt(o, n)' = ObjectAt(o, n)
      BY <2>2 DEF ObjectAt
    <3>2. write'.ver = FromNow
      BY <2>1
    <3> QED
      BY <2>2, <3>2 DEF SaidOf, SummariesAt, About, ObjectAt
  <2> QED
    BY <2>1, <2>2, <2>3, NowIsSaid DEF WriteIsSaid
<1>3. ~FindCached /\ ~listReleases /\ \A r \in tries : ~FindCovering(r) /\ ~TryNext(r)
  BY DEF FindCached, listReleases, FindCovering, TryNext, LooksAt
<1> QED
  BY <1>1, <1>2, <1>3, LateCases

\* A Release says what it said, or what the report under way writes on it.
LEMMA LiveCases ==
    ASSUME TypeOK, [Next]_vars, NEW r \in ReleaseIds, live'[r] # NoStatus
    PROVE  \/ live'[r] = live[r]
           \/ /\ pc = "patch" /\ ApplyPatch /\ r = target
              /\ UNCHANGED <<past, storeVars>>
              /\ live'[r] = [by |-> key, ver |-> write.ver, status |-> write.status]
              /\ key' # None => UNCHANGED <<key, snap>> /\ pc' = "list"
<1>0. DOMAIN live = ReleaseIds
  BY DEF TypeOK, HubTypeOK
<1>1. CASE UNCHANGED live
  BY <1>1
<1>2. HubMoves => live'[r] = live[r]
  BY <1>0 DEF HubMoves, ShowSpace, HideSpace, Publish, Withdraw, DeleteRelease
<1>3. CASE patchRelease \/ patchAnswerLost
  <2>1. \A fails \in BOOLEAN : Over(fails) =>
           key' = None \/ (UNCHANGED <<key, snap>> /\ pc' = "list")
    BY DEF Over, ReturnNil, ReturnError, Leave
  <2>2. /\ pc = "patch" /\ ApplyPatch /\ UNCHANGED <<past, storeVars>>
        /\ key' # None => UNCHANGED <<key, snap>> /\ pc' = "list"
    BY <1>3, <2>1 DEF patchRelease, patchAnswerLost
  <2> QED
    BY <1>0, <2>2 DEF ApplyPatch
<1>4. Report => UNCHANGED live \/ patchRelease \/ patchAnswerLost
  BY DEF Report, FindCached, listReleases, NotKnown, FindCovering, TryNext, NoneCovers,
         Suppress, Send, Refused, CallFails, Stay, Untouched, hubVars
<1> QED
  BY <1>1, <1>2, <1>3, <1>4, Frames DEF Next, vars, hubVars

\* What a Release says is what was said, by objects that keep having said it.
LEMMA LiveStep ==
    TypeOK /\ ListedIsOfSpace /\ WriteIsSaid /\ LiveIsSaid /\ [Next]_vars => LiveIsSaid'
<1> SUFFICES ASSUME TypeOK, ListedIsOfSpace, WriteIsSaid, LiveIsSaid, [Next]_vars,
                    NEW r \in ReleaseIds, live'[r] # NoStatus
             PROVE  /\ \A o \in Objects : live'[r].ver[o] <= Newest'[o]
                    /\ live'[r].status \in
                          SaidOf(live[r].by, live[r].ver, release[r].space)'
  BY DEF LiveIsSaid
<1>0. \A o \in Objects : Newest[o] \in Nat /\ Newest'[o] \in Nat /\ Newest[o] <= Newest'[o]
  BY PastGrows
<1>1. CASE live'[r] = live[r]
  <2>1. /\ release'[r] # NoRelease /\ r <= published
        /\ live[r].by \in Reports /\ live[r].ver \in [Objects -> Nat]
    <3>1. HubTypeOK /\ HubTypeOK'
      BY HubTypeStep DEF TypeOK
    <3> QED
      BY <1>1, <3>1 DEF HubTypeOK
  <2>2. release'[r].space = release[r].space
    BY <2>1, ReleaseStays
  <2>3. /\ \A o \in Objects : live[r].ver[o] <= Newest[o]
        /\ live[r].status \in SaidOf(live[r].by, live[r].ver, release[r].space)
    BY <1>1 DEF LiveIsSaid
  <2>4. SaidOf(live[r].by, live[r].ver, release[r].space)' =
           SaidOf(live[r].by, live[r].ver, release[r].space)
    BY <1>1, <2>1, <2>2, <2>3, SaidStays
  <2> QED
    BY <1>0, <1>1, <2>1, <2>3, <2>4
<1>2. CASE /\ pc = "patch" /\ ApplyPatch /\ r = target
           /\ UNCHANGED <<past, storeVars>>
           /\ live'[r] = [by |-> key, ver |-> write.ver, status |-> write.status]
  <2>1. /\ release[r] # NoRelease /\ release' = release /\ r \in listed /\ key \in Reports
        /\ write.ver \in [Objects -> Nat]
        /\ \A o \in Objects : write.ver[o] <= cache[o] /\ cache[o] <= Newest[o]
                              /\ cache[o] \in Nat
    BY <1>2 DEF ApplyPatch, Readable, TypeOK, WorkerTypeOK, StoreTypeOK
  <2>2. release'[r].space = space
    BY <1>2, <2>1 DEF ListedIsOfSpace
  <2>3. write.status \in SaidOf(key, write.ver, space)
    BY <1>2 DEF WriteIsSaid
  <2>4. \A o \in Objects : write.ver[o] <= Newest[o]
    BY <1>0, <2>1
  <2>5. /\ live'[r].by = key /\ live'[r].ver = write.ver /\ live'[r].status = write.status
    BY <1>2
  <2>6. SaidOf(live[r].by, live[r].ver, release[r].space)' = SaidOf(key, write.ver, space)
    BY <2>1, <2>2, <2>4, <2>5, SaidStays
  <2> QED
    BY <1>0, <2>1, <2>3, <2>4, <2>5, <2>6
<1> QED
  BY <1>1, <1>2, LiveCases

-----------------------------------------------------------------------------
(* No older state replaces a newer one.                                    *)

\* What is written on a Release the stores have seen, once their informers have
\* synced, a new informer's included.
LEMMA StoresAreAhead ==
    ASSUME TypeOK, LiveIsSaid, NothingNewer, [Next]_vars, NEW r \in ReleaseIds,
           live[r] # NoStatus, NEW informer \in synced', NEW o \in informer
    PROVE  live[r].ver[o] <= cache'[o]
<1>1. o \in Objects /\ informer \in Informers /\ ~Restart
  BY StoreTypeStep DEF TypeOK, StoreTypeOK, Informers, Objects, Restart
<1>2. /\ cache[o] \in Nat /\ cache'[o] \in Nat /\ cache[o] <= cache'[o]
      /\ live[r].ver[o] \in Nat /\ live[r].ver[o] <= Newest[o]
  BY <1>1, StoreGrows DEF LiveIsSaid, TypeOK, HubTypeOK
<1>3. CASE informer \in synced
  BY <1>2, <1>3 DEF NothingNewer
<1>4. CASE informer \notin synced
  <2>1. CacheSync(informer)
    <3>1. ASSUME NEW other \in Informers, CacheSync(other) PROVE other = informer
      BY <1>4, <3>1 DEF CacheSync
    <3>2. Report => UNCHANGED synced
      BY ReportFrame DEF storeVars
    <3> QED
      BY <1>1, <1>4, <3>1, <3>2, Frames DEF Next, vars, storeVars
  <2>2. cache'[o] = Newest[o]
    BY <1>1, <2>1 DEF CacheSync
  <2> QED
    BY <1>2, <2>2
<1> QED
  BY <1>3, <1>4

\* Nor has a report that goes on read anything older, or is about to write it.
LEMMA ReportIsAhead ==
    ASSUME TypeOK, NothingNewer, [Next]_vars, NEW r \in ReleaseIds,
           live[r] # NoStatus, key' = live[r].by
    PROVE  /\ live[r].ver[key'] <= snap'[key']
           /\ pc' = "patch" => \A o \in Objects : live[r].ver[o] <= write'.ver[o]
<1>0. /\ live[r].by \in Reports /\ live[r].ver \in [Objects -> Nat]
      /\ cache \in [Objects -> Nat]
  BY DEF TypeOK, HubTypeOK, StoreTypeOK
<1>1. pc' # "idle"
  BY <1>0, WorkerTypeStep, ReportsAssumption DEF WorkerTypeOK
<1>2. ASSUME NEW k \in Reports, processNext(k)
      PROVE  live[r].ver[key'] <= snap'[key'] /\ pc' # "patch"
  <2>1. /\ key' = k /\ snap'[k] = cache[k] /\ pc' = "list" /\ synced = Informers
    BY <1>2, TakenIsStored DEF processNext, Taken, About
  <2> QED
    BY <1>0, <1>2, <2>1 DEF NothingNewer, Informers
<1>3. CASE pc # "idle" /\ key' = key /\ snap' = snap
  <2>1. live[r].ver[key'] <= snap'[key']
    BY <1>0, <1>3 DEF NothingNewer
  <2>2. CASE pc' = "patch" /\ UNCHANGED <<workVars, memoVars>>
    BY <1>3, <2>2 DEF NothingNewer, workVars, stepVars
  <2>3. CASE Send
    <3>1. write'.ver = FromNow
      BY <2>3 DEF Send
    <3>2. ASSUME NEW o \in About(key) \ {key} PROVE live[r].ver[o] <= cache[o]
      <4>1. synced = Informers /\ o \in Summaries
        BY <1>3 DEF TypeOK, WorkerTypeOK, About
      <4> QED
        BY <4>1 DEF NothingNewer, Informers
    <3>3. /\ \A o \in Objects \ About(key) : live[r].ver[o] = 0
          /\ live[r].ver[key] <= snap[key]
      BY <1>3 DEF NothingNewer
    <3> QED
      BY <1>0, <1>3, <2>1, <3>1, <3>2, <3>3, NowIsSaid
  <2>4. ~(pc' = "patch") \/ Send \/ UNCHANGED <<workVars, memoVars>>
    BY LateCases DEF FindCached, listReleases, FindCovering, TryNext, LooksAt
  <2> QED
    BY <2>1, <2>2, <2>3, <2>4
<1> QED
  BY <1>1, <1>2, <1>3, SameReport

\* No step writes states older than those that were written.
LEMMA NothingNewerStep ==
    TypeOK /\ WriteIsSaid /\ LiveIsSaid /\ NothingNewer /\ [Next]_vars => NothingNewer'
<1> SUFFICES ASSUME TypeOK, WriteIsSaid, LiveIsSaid, NothingNewer, [Next]_vars,
                    NEW r \in ReleaseIds, live'[r] # NoStatus
             PROVE  /\ \A o \in Objects \ About(live[r].by)' : live'[r].ver[o] = 0
                    /\ \A informer \in synced' : \A o \in informer :
                          live'[r].ver[o] <= cache'[o]
                    /\ live'[r].by = key' =>
                          /\ live'[r].ver[key'] <= snap'[key']
                          /\ pc' = "patch" =>
                                \A o \in Objects : live'[r].ver[o] <= write'.ver[o]
  BY DEF NothingNewer
<1>1. CASE live'[r] = live[r]
  <2>1. \A o \in Objects \ About(live[r].by)' : live'[r].ver[o] = 0
    BY <1>1 DEF NothingNewer, About
  <2>2. \A informer \in synced' : \A o \in informer : live'[r].ver[o] <= cache'[o]
    BY <1>1, StoresAreAhead
  <2>3. live'[r].by = key' =>
           /\ live'[r].ver[key'] <= snap'[key']
           /\ pc' = "patch" => \A o \in Objects : live'[r].ver[o] <= write'.ver[o]
    BY <1>1, ReportIsAhead
  <2> QED
    BY <2>1, <2>2, <2>3
<1>2. CASE /\ pc = "patch" /\ ApplyPatch /\ r = target
           /\ UNCHANGED <<past, storeVars>>
           /\ live'[r] = [by |-> key, ver |-> write.ver, status |-> write.status]
           /\ key' # None => UNCHANGED <<key, snap>> /\ pc' = "list"
  <2>1. /\ live'[r].by = key /\ live'[r].ver = write.ver
        /\ UNCHANGED <<synced, cache>>
    BY <1>2 DEF storeVars
  <2>2. /\ key \in Reports /\ synced = Informers /\ snap[key] \in Nat
        /\ \A o \in Objects : write.ver[o] <= cache[o]
    BY <1>2 DEF TypeOK, WorkerTypeOK, Objects
  <2>3. \A informer \in synced : \A o \in informer : o \in Objects
    BY <2>2 DEF Informers, Objects
  <2>4. /\ write.ver[key] = snap[key]
        /\ \A o \in Objects \ About(key) : write.ver[o] = 0
    BY <1>2 DEF WriteIsSaid
  <2>5. About(live[r].by)' = About(key)
    BY <2>1 DEF About
  <2>6. live'[r].by = key' => pc' = "list" /\ snap' = snap /\ key' = key
    BY <1>2, <2>1, <2>2, ReportsAssumption
  <2> QED
    BY <2>1, <2>2, <2>3, <2>4, <2>5, <2>6
<1> QED
  BY <1>1, <1>2, LiveCases

-----------------------------------------------------------------------------
(* The two modules read objects in the same way.                           *)

LEMMA SameLeast == \A S : Feed!Least(S) = Least(S)
BY DEF Feed!Least, Least

LEMMA SameWorst ==
    \A statuses, rank : Feed!FirstWorst(statuses, rank) = FirstWorst(statuses, rank)
BY DEF Feed!FirstWorst, FirstWorst

LEMMA SameObserve == \A report : Feed!observeSpaces(report) = observeSpaces(report)
BY DEF Feed!observeSpaces, observeSpaces

LEMMA SameDeploy ==
    \A summaries, sp : Feed!deployStatus(summaries, sp) = deployStatus(summaries, sp)
<1>1. Feed!FeatureRank = FeatureRank
  BY DEF Feed!FeatureRank, FeatureRank, Feed!FeatureStatuses, FeatureStatuses
<1>2. \A s : Feed!combineFeatureStatuses(s) = combineFeatureStatuses(s)
  BY <1>1, SameWorst DEF Feed!combineFeatureStatuses, combineFeatureStatuses
<1> SUFFICES ASSUME NEW summaries, NEW sp
             PROVE  Feed!deployStatus(summaries, sp) = deployStatus(summaries, sp)
  OBVIOUS
<1> DEFINE deploying == {s \in DOMAIN summaries :
                           summaries[s] # Absent /\ sp \in summaries[s].deploys}
           combined  == {combineFeatureStatuses(summaries[s].statuses) :
                           s \in {d \in deploying : summaries[d].statuses # <<>>}}
           feedComb  == {Feed!combineFeatureStatuses(summaries[s].statuses) :
                           s \in {d \in deploying : summaries[d].statuses # <<>>}}
           Worst(S)  == {c \in S : \A other \in S : FeatureRank[other] <= FeatureRank[c]}
           Both(S)   == [feature : IF Worst(S) = {} THEN {""} ELSE Worst(S),
                         profile : {IF deploying = {} THEN NoProfile ELSE Least(deploying)}]
<1>3. feedComb = combined
  BY <1>2
<1>4. deployStatus(summaries, sp) = Both(combined)
  BY DEF deployStatus
<1>5. Feed!Least(deploying) = Least(deploying)
  BY SameLeast
<1>6. Feed!deployStatus(summaries, sp) = Both(feedComb)
  BY <1>1, <1>5 DEF Feed!deployStatus
<1> QED
  BY <1>3, <1>4, <1>6

LEMMA SameStatuses ==
    \A seen, summaries, sp, k :
        Feed!StatusesFor(seen, summaries, sp, k) = StatusesFor(seen, summaries, sp, k)
<1>1. Feed!HealthRank = HealthRank
  BY DEF Feed!HealthRank, HealthRank, Feed!HealthStatuses, HealthStatuses
<1>2. \A resources, health : Feed!MessageOf(resources, health) = MessageOf(resources, health)
  BY SameLeast DEF Feed!MessageOf, MessageOf
<1>3. \A feature, health : Feed!fromSveltos(feature, health) = fromSveltos(feature, health)
  BY DEF Feed!fromSveltos, fromSveltos, Feed!sveltosSync, sveltosSync, Feed!sveltosHealth,
         sveltosHealth, Feed!sveltosOperation, sveltosOperation
<1>4. \A resources, feature, dataSource :
         Feed!projectSveltosStatus(resources, feature, dataSource) =
            projectSveltosStatus(resources, feature, dataSource)
  BY <1>1, <1>2, <1>3, SameWorst DEF Feed!projectSveltosStatus, projectSveltosStatus
<1> QED
  BY <1>4, SameDeploy DEF Feed!StatusesFor, StatusesFor

-----------------------------------------------------------------------------
(* The feed.                                                               *)

\* What a reader of ConfigHub sees of a Release.
Contents(r) ==
    IF release[r] = NoRelease THEN NoRelease
    ELSE [space |-> release[r].space, bundle |-> release[r].bundle]

\* The feed reads the states of objects as the reporter does.
LEMMA SameMoment ==
    ASSUME NEW k \in Reports, NEW v \in [Objects -> Nat]
    PROVE  /\ Feed!Objects = Objects
           /\ Feed!At(k, v) = ObjectAt(k, v[k])
           /\ Feed!ClusterAt(k, v) = SummariesAt(k, v)
<1>1. \A o : Feed!At(o, v) = ObjectAt(o, v[o])
  BY DEF Feed!At, ObjectAt
<1>2. About(k) \ {k} = {t \in Summaries : ClusterOf[t] = ClusterOf[k]}
  BY ReportsAssumption DEF About
<1> QED
  BY <1>1, <1>2 DEF Feed!ClusterAt, SummariesAt, Feed!Objects, Objects

\* The patch is of states that show revisions which the Release bundles.
LEMMA PatchRuns ==
    ASSUME TypeOK, FoundIsOfSpace, WriteIsSaid, pc = "patch", Readable(target)
    PROVE  /\ target \in ReleaseIds /\ key \in Reports /\ write.ver \in [Objects -> Nat]
           /\ release[target].space = space
           /\ Feed!Runs(key, write.ver, target)
<1>1. /\ target \in ReleaseIds /\ target \in listed
      /\ release[target] # NoRelease /\ release[target] \in Releases
  <2>1. target \in listed /\ listed \subseteq 1..published /\ release[target] # NoRelease
    BY DEF TypeOK, WorkerTypeOK, Readable
  <2>2. published \in 0..MaxReleases /\ MaxReleases \in Nat
    BY BoundsAssumption DEF TypeOK, HubTypeOK
  <2>3. target \in ReleaseIds
    BY <2>1, <2>2 DEF ReleaseIds
  <2> QED
    BY <2>1, <2>3 DEF TypeOK, HubTypeOK
<1>2. /\ key \in Reports /\ ClusterOf[key] # NoCluster
      /\ Present(key, snap[key]) /\ write.ver[key] = snap[key]
      /\ space \in DOMAIN observeSpaces(ObjectAt(key, snap[key]))
      /\ write.ver \in [Objects -> Nat]
      /\ \A o \in Objects : write.ver[o] <= cache[o] /\ cache[o] <= Newest[o]
                            /\ cache[o] \in Nat
  BY DEF TypeOK, WorkerTypeOK, StoreTypeOK, WriteIsSaid
<1>3. release[target].space = space
  BY <1>1 DEF FoundIsOfSpace, ListedIsOfSpace
<1>4. Observed.Revisions \subseteq release[target].bundle
  BY <1>1 DEF FoundIsOfSpace, TargetCovers, BundlesAreKnown
<1>5. Feed!At(key, write.ver) = ObjectAt(key, snap[key])
  BY <1>2, SameMoment
<1>6. /\ Contents(target) # NoRelease
      /\ Contents(target).space = space
      /\ Observed.Revisions \subseteq Contents(target).bundle
  BY <1>1, <1>3, <1>4, ReleasesAssumption DEF Contents
<1>7. \A o \in Objects : write.ver[o] <= Len(past[o])
  <2>1. \A o \in Objects : Newest[o] = Len(past[o]) /\ Newest[o] \in Nat
    BY DEF Newest, TypeOK, ClusterTypeOK
  <2> QED
    BY <1>2, <2>1
<1>8. Feed!Runs(key, write.ver, target)
  <2>1. [r \in ReleaseIds |-> Contents(r)][target] = Contents(target)
    BY <1>1
  <2> QED
    BY <1>2, <1>5, <1>6, <1>7, <2>1, SameObserve
    DEF Feed!Runs, Contents, Present, Observed, Feed!Objects, Objects
<1> QED
  BY <1>1, <1>2, <1>3, <1>8

\* A patch is a Report of the feed, or changes nothing.
LEMMA PatchReports ==
    ASSUME TypeOK, FoundIsOfSpace, WriteIsSaid, NothingNewer, pc = "patch", ApplyPatch,
           UNCHANGED past, live' # live
    PROVE  Feed!Next
<1>1. /\ target \in ReleaseIds /\ key \in Reports /\ write.ver \in [Objects -> Nat]
      /\ release[target].space = space
      /\ Feed!Runs(key, write.ver, target)
      /\ release[target] # NoRelease
  BY PatchRuns DEF ApplyPatch, Readable
<1>2. /\ live' = [live EXCEPT ![target] =
                    [by |-> key, ver |-> write.ver, status |-> write.status]]
      /\ UNCHANGED <<published, release>>
  BY DEF ApplyPatch
<1>3. write.status \in StatusesFor(observeSpaces(ObjectAt(key, write.ver[key]))[space],
                                   SummariesAt(key, write.ver), space, key)
  BY DEF WriteIsSaid, SaidOf
<1>4. live[target] # NoStatus /\ live[target].by = key
         => \A o \in Objects : live[target].ver[o] <= write.ver[o]
  BY <1>1 DEF NothingNewer
<1>5. [r \in ReleaseIds |-> Contents(r)][target].space = space
  BY <1>1 DEF Contents
<1>6. Feed!Report(key, write.ver, target)
  <2>1. write.status \in
           Feed!StatusesFor(Feed!observeSpaces(Feed!At(key, write.ver))[space],
                            Feed!ClusterAt(key, write.ver), space, key)
    BY <1>1, <1>3, SameMoment, SameObserve, SameStatuses
  <2> QED
    BY <1>1, <1>2, <1>4, <1>5, <2>1 DEF Feed!Report, Contents, Feed!Objects, Objects
<1>7. write.ver \in Feed!Moments
  <2>1. \A o \in Objects : write.ver[o] \in 0..Len(past[o])
    <3>1. \A o \in Objects : write.ver[o] <= Len(past[o])
      BY <1>1 DEF Feed!Runs, Feed!Objects, Objects
    <3>2. \A o \in Objects : Len(past[o]) \in Nat
      BY DEF TypeOK, ClusterTypeOK
    <3> QED
      BY <1>1, <3>1, <3>2
  <2>2. \A o \in Objects : write.ver[o] \in UNION {0..Len(past[b]) : b \in Objects}
    BY <2>1
  <2> QED
    BY <1>1, <2>2 DEF Feed!Moments, Feed!Objects, Objects
<1> QED
  BY <1>1, <1>6, <1>7 DEF Feed!Next, ReleaseIds

\* ConfigHub's own moves are the feed's: a withdrawal changes nothing it shows.
LEMMA HubMovesFeed ==
    TypeOK /\ HubMoves => Feed!Next \/ UNCHANGED (Feed!vars)
<1> SUFFICES ASSUME TypeOK, HubMoves PROVE Feed!Next \/ UNCHANGED (Feed!vars)
  OBVIOUS
<1> DEFINE contents == [r \in ReleaseIds |-> Contents(r)]
<1>0. /\ release \in [ReleaseIds -> Releases \cup {NoRelease}] /\ DOMAIN live = ReleaseIds
      /\ published \in Nat /\ UNCHANGED past
  BY BoundsAssumption DEF TypeOK, HubTypeOK, HubMoves
<1>1. CASE UNCHANGED <<published, release, live>>
  BY <1>0, <1>1 DEF Feed!vars
<1>2. ASSUME NEW sp \in Spaces, NEW bundle \in Bundles, Publish(sp, bundle)
      PROVE  Feed!Next
  <2> DEFINE new == [space |-> sp, bundle |-> bundle, published |-> TRUE]
             shown == [space |-> sp, bundle |-> bundle]
  <2>1. /\ published + 1 \in ReleaseIds /\ published' = published + 1 /\ published' # published
        /\ published < MaxReleases
        /\ release' = [release EXCEPT ![published + 1] = new]
        /\ live' = live
    BY <1>0, <1>2, BoundsAssumption DEF Publish, ReleaseIds
  <2>2. new \in Releases /\ new # NoRelease
    <3>1. new \in Releases
      BY <1>2 DEF Releases
    <3> QED
      BY <3>1, ReleasesAssumption
  <2>3. ASSUME NEW r \in ReleaseIds
        PROVE  contents'[r] = [contents EXCEPT ![published + 1] = shown][r]
    <3>1. CASE r = published + 1
      BY <1>0, <2>1, <2>2, <3>1 DEF Contents
    <3>2. CASE r # published + 1
      BY <1>0, <2>1, <3>2 DEF Contents
    <3> QED
      BY <3>1, <3>2
  <2>4. contents' = [contents EXCEPT ![published + 1] = shown]
    BY <2>3
  <2>5. Feed!Publish(sp, bundle)
    BY <1>0, <2>1, <2>4 DEF Feed!Publish, Contents
  <2> QED
    BY <2>1, <2>5 DEF Feed!Next
<1>3. ASSUME NEW q \in ReleaseIds, Withdraw(q) PROVE UNCHANGED (Feed!vars)
  <2>1. /\ release[q] # NoRelease /\ release[q] \in Releases
        /\ release' = [release EXCEPT ![q] = [release[q] EXCEPT !.published = FALSE]]
        /\ UNCHANGED <<published, live>>
    BY <1>0, <1>3 DEF Withdraw
  <2>2. /\ [release[q] EXCEPT !.published = FALSE] \in Releases
        /\ [release[q] EXCEPT !.published = FALSE].space = release[q].space
        /\ [release[q] EXCEPT !.published = FALSE].bundle = release[q].bundle
    BY <2>1 DEF Releases
  <2>3. \A r \in ReleaseIds : Contents(r)' = Contents(r)
    BY <1>0, <2>1, <2>2, ReleasesAssumption DEF Contents
  <2> QED
    BY <1>0, <2>1, <2>3 DEF Feed!vars, Contents
<1>4. ASSUME NEW q \in ReleaseIds, DeleteRelease(q) PROVE Feed!Next
  <2>1. /\ release[q] # NoRelease /\ release[q] \in Releases
        /\ release' = [release EXCEPT ![q] = NoRelease]
        /\ live' = [live EXCEPT ![q] = NoStatus] /\ UNCHANGED published
    BY <1>0, <1>4 DEF DeleteRelease
  <2>2. contents' = [contents EXCEPT ![q] = NoRelease]
    BY <1>0, <2>1 DEF Contents
  <2>3. contents' # contents
    <3>1. contents'[q] = NoRelease /\ contents[q] # NoRelease
      BY <1>0, <2>1, ReleasesAssumption DEF Contents
    <3> QED
      BY <3>1
  <2>4. Feed!Delete(q)
    BY <1>0, <2>1, <2>2 DEF Feed!Delete, Contents
  <2> QED
    BY <2>3, <2>4 DEF Feed!Next, ReleaseIds, Contents
<1> QED
  BY <1>1, <1>2, <1>3, <1>4 DEF HubMoves, ShowSpace, HideSpace

\* A step of the reporter is a step of the feed, or changes nothing it shows.
LEMMA FeedStep ==
    TypeOK /\ FoundIsOfSpace /\ WriteIsSaid /\ NothingNewer /\ [Next]_vars
        => [Feed!Next]_(Feed!vars)
<1> SUFFICES ASSUME TypeOK, FoundIsOfSpace, WriteIsSaid, NothingNewer, [Next]_vars
             PROVE  Feed!Next \/ UNCHANGED (Feed!vars)
  OBVIOUS
<1>1. UNCHANGED <<past, published, release, live>> => UNCHANGED (Feed!vars)
  BY DEF Feed!vars
<1>2. ASSUME NEW o \in Objects, Change(o) PROVE Feed!Next
  <2>1. PICK s \in States(o) \cup {Absent} : past' = [past EXCEPT ![o] = Append(@, s)]
    BY <1>2 DEF Change
  <2>2. past' # past
    <3>1. past[o] \in Seq(States(o) \cup {Absent}) /\ past'[o] = Append(past[o], s)
      BY <2>1 DEF TypeOK, ClusterTypeOK
    <3> QED
      BY <3>1
  <2>3. UNCHANGED <<published, release, live>>
    BY <1>2 DEF Change, hubVars
  <2>4. Feed!Change(o)
    BY <2>1, <2>3 DEF Feed!Change, States, Feed!States
  <2> QED
    BY <2>2, <2>4 DEF Feed!Next, Feed!Objects, Objects
<1>3. CASE patchRelease \/ patchAnswerLost
  <2>1. pc = "patch" /\ ApplyPatch /\ UNCHANGED past
    BY <1>3 DEF patchRelease, patchAnswerLost
  <2>2. CASE live' = live
    BY <1>1, <2>1, <2>2 DEF ApplyPatch
  <2> QED
    BY <2>1, <2>2, PatchReports
<1>4. Report => patchRelease \/ patchAnswerLost \/ UNCHANGED <<past, published, release, live>>
  BY DEF Report, FindCached, listReleases, NotKnown, FindCovering, TryNext, NoneCovers,
         Suppress, Send, Refused, CallFails, Stay, Untouched, hubVars
<1> QED
  BY <1>1, <1>2, <1>3, <1>4, HubMovesFeed, Frames DEF Next, vars, hubVars

\* The inductive invariant.
ReportingInv == TypeOK /\ FoundIsOfSpace /\ SaidByObjects /\ NothingNewer

LEMMA ReportingInit == Init => ReportingInv
<1>1. Init => FoundIsOfSpace
  BY DEF Init, FoundIsOfSpace, BundlesAreKnown, ListedIsOfSpace, MatchesCover, TargetCovers
<1>2. Init => SaidByObjects /\ NothingNewer
  BY DEF Init, SaidByObjects, WriteIsSaid, LiveIsSaid, NothingNewer
<1> QED
  BY <1>1, <1>2, TypeInit DEF ReportingInv

LEMMA ReportingStep == ReportingInv /\ [Next]_vars => ReportingInv'
<1>1. TypeOK /\ [Next]_vars => TypeOK'
  BY ClusterTypeStep, HubTypeStep, StoreTypeStep, WorkerTypeStep, MemoTypeStep, CountsStep
  DEF TypeOK
<1>2. FoundIsOfSpace => ListedIsOfSpace
  BY DEF FoundIsOfSpace
<1> QED
  BY <1>1, <1>2, FoundStep, WriteStep, LiveStep, NothingNewerStep
  DEF ReportingInv, SaidByObjects

\* The Sveltos reporter implements its feed: with any number of reports, Spaces,
\* Releases, failed calls, lost answers and restarts, what is written on a Release
\* is what one report and its ClusterSummaries said, the Release bundles what that
\* report shows, and no state is written over a later one.
THEOREM SveltosReporterImplementsFeed == Spec => ImplementsSveltosFeed
<1>1. Init => Feed!Init
  <2> SUFFICES ASSUME Init PROVE Feed!Init
    OBVIOUS
  <2>1. \A r \in ReleaseIds :
           IF r > published THEN release[r] = NoRelease
           ELSE /\ release[r] = InitialReleases[r] /\ InitialReleases[r] \in Releases
                /\ InitialReleases[r] # NoRelease
    BY ReleasesAssumption, BoundsAssumption DEF Init, ReleaseIds
  <2>2. \A r \in ReleaseIds :
           Contents(r) = IF r > published THEN NoRelease
                         ELSE [space |-> InitialReleases[r].space,
                               bundle |-> InitialReleases[r].bundle]
    BY <2>1 DEF Contents
  <2> QED
    BY <2>2 DEF Init, Feed!Init, Contents, ReleaseIds
<1>2. ReportingInv /\ [Next]_vars => [Feed!Next]_(Feed!vars)
  BY FeedStep DEF ReportingInv, SaidByObjects
<1> QED
  BY ReportingInit, ReportingStep, <1>1, <1>2, PTL
  DEF Spec, ImplementsSveltosFeed, Feed!Spec

-----------------------------------------------------------------------------
(* What is not written again.                                              *)

\* What is sent is one of the statuses there are, and a signature of them.
LEMMA SentIsStatus ==
    ASSUME ReportingInv, pc = "patch"
    PROVE  /\ key \in Reports /\ target \in ReleaseIds /\ target \in listed
           /\ NoSig # [release |-> target, status |-> write.status]
<1> DEFINE seen      == ObjectAt(key, write.ver[key])
           summaries == SummariesAt(key, write.ver)
<1>0. TypeOK /\ WriteIsSaid
  BY DEF ReportingInv, SaidByObjects
<1>1. /\ key \in Reports /\ target \in listed /\ listed \subseteq 1..published
      /\ write.ver \in [Objects -> Nat] /\ Present(key, snap[key])
      /\ space \in DOMAIN observeSpaces(ObjectAt(key, snap[key]))
  BY <1>0 DEF TypeOK, WorkerTypeOK
<1>2. target \in ReleaseIds
  BY <1>0, <1>1, BoundsAssumption DEF TypeOK, HubTypeOK, ReleaseIds
<1>3. ASSUME NEW o \in Objects PROVE ObjectAt(o, write.ver[o]) \in States(o) \cup {Absent}
  <2>1. past[o] \in Seq(States(o) \cup {Absent})
    BY <1>0 DEF TypeOK, ClusterTypeOK
  <2>2. write.ver[o] \in Nat /\ write.ver[o] <= Len(past[o])
    <3>1. /\ write.ver[o] \in Nat /\ write.ver[o] <= cache[o] /\ cache[o] <= Newest[o]
          /\ cache[o] \in Nat /\ Newest[o] = Len(past[o])
      BY <1>0, <1>1 DEF TypeOK, WorkerTypeOK, StoreTypeOK, Newest
    <3> QED
      BY <2>1, <3>1
  <2> QED
    BY <2>1, <2>2 DEF ObjectAt
<1>4. seen \in ReportStates /\ space \in DOMAIN observeSpaces(seen)
  <2>1. write.ver[key] = snap[key] /\ key \in Objects
    BY <1>0, <1>1 DEF WriteIsSaid, Objects
  <2> QED
    BY <1>1, <1>3, <2>1 DEF Present, States
<1>5. summaries \in [About(key) \ {key} -> SummaryStates \cup {Absent}]
  <2>1. \A s \in About(key) \ {key} : s \in Objects /\ s \notin Reports
    BY ReportsAssumption DEF About, Objects
  <2>2. \A s \in About(key) \ {key} :
           ObjectAt(s, write.ver[s]) \in SummaryStates \cup {Absent}
    BY <1>3, <2>1 DEF States
  <2> QED
    BY <2>2 DEF SummariesAt
<1>6. write.status \in StatusesFor(observeSpaces(seen)[space], summaries, space, key)
  BY <1>0 DEF WriteIsSaid, SaidOf
<1> HIDE DEF seen, summaries
<1>7. write.status \in Statuses
  <2> DEFINE said(k, report) ==
         UNION {StatusesFor(observeSpaces(report)[sp], cluster, sp, k) :
                   sp \in DOMAIN observeSpaces(report),
                   cluster \in [About(k) \ {k} -> SummaryStates \cup {Absent}]}
  <2>1. write.status \in said(key, seen)
    BY <1>4, <1>5, <1>6
  <2>2. Statuses = UNION {said(k, report) : k \in Reports, report \in ReportStates}
    BY DEF Statuses
  <2> HIDE DEF said
  <2> QED
    BY <1>1, <1>4, <2>1, <2>2
<1> QED
  BY <1>1, <1>2, <1>7, SignaturesAssumption

\* What is known of a report only grows.
LEMMA SeenGrows ==
    ASSUME TypeOK, [Next]_vars, ~Restart, NEW k \in Reports
    PROVE  /\ Seen(k) \in Nat /\ Seen(k)' \in Nat
           /\ Seen(k) <= Seen(k)' /\ Seen(k) <= cache[k] /\ cache[k] <= Newest[k]
<1>1. /\ k \in Objects /\ k \in About(k) /\ k # None
      /\ cache[k] \in Nat /\ cache'[k] \in Nat /\ cache[k] <= cache'[k]
      /\ snap[k] \in Nat /\ snap[k] <= cache[k] /\ cache[k] <= Newest[k]
  BY StoreGrows, ReportsAssumption DEF Objects, About, TypeOK, WorkerTypeOK, StoreTypeOK
<1>2. CASE key' = k
  <2>1. pc' # "idle"
    BY <1>1, <1>2, WorkerTypeStep DEF WorkerTypeOK
  <2>2. ASSUME NEW other \in Reports, processNext(other)
        PROVE  snap'[k] = cache[k] /\ key # k
    <3>1. other = k
      BY <1>2, <2>2 DEF processNext
    <3>2. snap'[k] = cache[k]
      BY <1>1, <2>2, <3>1, TakenIsStored
    <3>3. key = None
      BY <2>2 DEF processNext, Taken, TypeOK, WorkerTypeOK
    <3> QED
      BY <1>1, <3>2, <3>3
  <2> QED
    BY <1>1, <1>2, <2>1, <2>2, SameReport DEF Seen
<1>3. CASE key' # k
  BY <1>1, <1>3 DEF Seen
<1> QED
  BY <1>2, <1>3

\* So a report that was deleted in between was.
LEMMA WasAbsentStays ==
    ASSUME TypeOK, [Next]_vars, ~Restart, NEW k \in Reports, NEW from \in Nat,
           WasAbsent(k, from, Seen(k))
    PROVE  WasAbsent(k, from, Seen(k))'
<1>1. PICK n \in from..Seen(k) : ObjectAt(k, n) = Absent
  BY DEF WasAbsent
<1>2. n \in Nat /\ n <= Newest[k] /\ n \in from..Seen(k)'
  <2>1. k \in Objects
    BY DEF Objects
  <2>2. Newest[k] \in Nat /\ cache[k] \in Nat
    BY <2>1, PastGrows DEF TypeOK, StoreTypeOK
  <2> QED
    BY <1>1, <2>2, SeenGrows
<1>3. ObjectAt(k, n)' = Absent
  BY <1>1, <1>2, ObjectStays DEF Objects
<1> QED
  BY <1>2, <1>3 DEF WasAbsent

\* Only a write, and the deletion of its report, changes a signature while no answer
\* is lost and the process lives.
LEMMA SignatureCases ==
    ASSUME TypeOK, [Next]_vars, counts'["lost"] = 0, counts'["restart"] = 0
    PROVE  /\ counts["lost"] = 0 /\ counts["restart"] = 0
           /\ ~Restart /\ ~patchAnswerLost
           /\ \/ UNCHANGED lastSig
              \/ patchRelease
              \/ \E k \in Reports : reportDeleted(k)
<1>0. /\ counts \in [{"change", "withdraw"} \cup FaultKinds -> Nat]
      /\ "lost" \in FaultKinds /\ "restart" \in FaultKinds
  BY DEF TypeOK, CountsOK, FaultKinds
<1>1. \A what : Count(what) =>
         counts["lost"] = 0 /\ counts["restart"] = 0 /\ what \notin {"lost", "restart"}
  BY <1>0 DEF Count
<1>2. ~Restart /\ ~patchAnswerLost
  BY <1>1 DEF Restart, patchAnswerLost, Fault
<1>3. HubMoves => UNCHANGED counts \/ \E what : Count(what)
  BY DEF HubMoves, ShowSpace, HideSpace, Publish, Withdraw, DeleteRelease, Fault
<1>4. Report => /\ UNCHANGED counts \/ \E what : Count(what)
                /\ UNCHANGED lastSig \/ patchRelease
  BY <1>2 DEF Report, FindCached, listReleases, NotKnown, FindCovering, TryNext, NoneCovers,
         Suppress, Send, patchRelease, Refused, CallFails, Fault, memoVars
<1>5. \A o \in Objects : Change(o) => \E what : Count(what)
  BY DEF Change
<1> QED
  BY <1>1, <1>2, <1>3, <1>4, <1>5, Frames DEF Next, vars, memoVars

\* What a Release goes on saying.
LEMMA KeptStep ==
    ASSUME ReportingInv, SignaturesKept, [Next]_vars,
           counts'["lost"] = 0, counts'["restart"] = 0,
           NEW r \in ReleaseIds, live[r] # NoStatus, live'[r] = live[r],
           NEW k \in Reports, k = live[r].by, NEW sp \in Spaces, sp = release[r].space,
           NEW from \in Nat, from = live[r].ver[k]
    PROVE  \/ lastSig'[k][sp] = [release |-> r, status |-> live[r].status]
           \/ lastSig'[k][sp] # NoSig /\ lastSig'[k][sp].release # r
           \/ WasAbsent(k, from, Seen(k))'
<1>0. TypeOK /\ NothingNewer /\ ListedIsOfSpace /\ ~Restart
  BY SignatureCases DEF ReportingInv, FoundIsOfSpace
<1>1. /\ k \in Objects
      /\ lastSig = [q \in Reports |-> [s \in Spaces |-> lastSig[q][s]]]
  BY <1>0 DEF TypeOK, HubTypeOK, MemoTypeOK, Objects
<1>2. WasAbsent(k, from, Seen(k)) => WasAbsent(k, from, Seen(k))'
  BY <1>0, WasAbsentStays
<1>3. CASE lastSig'[k][sp] = lastSig[k][sp]
  BY <1>0, <1>2, <1>3, SignatureCases DEF SignaturesKept
<1>4. ASSUME NEW q \in Reports, reportDeleted(q), lastSig'[k][sp] # lastSig[k][sp]
      PROVE  WasAbsent(k, from, Seen(k))'
  <2>1. k = q
    BY <1>1, <1>4 DEF reportDeleted
  <2>2. /\ synced = Informers /\ ObjectAt(k, cache[k]) = Absent
        /\ key' = None /\ UNCHANGED <<past, cache>>
    BY <1>0, <1>4, <2>1
    DEF reportDeleted, Taken, Present, TypeOK, WorkerTypeOK, workVars, storeVars
  <2>3. live[r].ver[k] <= cache[k] /\ cache[k] \in Nat
    BY <1>0, <1>1, <2>2 DEF NothingNewer, Informers, TypeOK, StoreTypeOK
  <2>4. Seen(k)' = cache[k] /\ ObjectAt(k, cache[k])' = Absent
    BY <2>2, ReportsAssumption DEF Seen, ObjectAt
  <2>5. \A n : ObjectAt(k, n)' = ObjectAt(k, n)
    BY <2>2 DEF ObjectAt
  <2> QED
    BY <1>1, <2>2, <2>3, <2>4, <2>5 DEF WasAbsent
<1>5. CASE patchRelease /\ lastSig'[k][sp] # lastSig[k][sp]
  <2>1. /\ pc = "patch"
        /\ lastSig' = [lastSig EXCEPT ![key][space] =
                          [release |-> target, status |-> write.status]]
        /\ live' = [live EXCEPT ![target] =
                       [by |-> key, ver |-> write.ver, status |-> write.status]]
    BY <1>5 DEF patchRelease, ApplyPatch
  <2>2. lastSig'[k][sp] = [release |-> target, status |-> write.status]
    <3> DEFINE sig == [release |-> target, status |-> write.status]
    <3>1. lastSig' = [lastSig EXCEPT ![key][space] = sig] /\ lastSig'[k][sp] # lastSig[k][sp]
      BY <1>5, <2>1
    <3> HIDE DEF sig
    <3>2. lastSig'[k][sp] = sig
      BY <1>1, <3>1
    <3> QED
      BY <3>2 DEF sig
  <2>3. ASSUME target = r PROVE live[r].status = write.status
    <3>0. r \in DOMAIN live
      BY <1>0 DEF TypeOK, HubTypeOK
    <3>1. live'[r] = [by |-> key, ver |-> write.ver, status |-> write.status]
      BY <2>1, <2>3, <3>0
    <3>2. live[r] = [by |-> key, ver |-> write.ver, status |-> write.status]
      BY <3>1
    <3> QED
      BY <3>2
  <2> QED
    BY <2>1, <2>2, <2>3, SentIsStatus
<1> QED
  BY <1>0, <1>1, <1>3, <1>4, <1>5, SignatureCases

\* No step parts a signature from what it was kept for.
LEMMA SignaturesStep == ReportingInv /\ SignaturesKept /\ [Next]_vars => SignaturesKept'
<1> SUFFICES ASSUME ReportingInv, SignaturesKept, [Next]_vars,
                    counts'["lost"] = 0, counts'["restart"] = 0,
                    NEW r \in ReleaseIds, live'[r] # NoStatus
             PROVE  \/ lastSig'[live'[r].by][release'[r].space] =
                          [release |-> r, status |-> live'[r].status]
                    \/ /\ lastSig'[live'[r].by][release'[r].space] # NoSig
                       /\ lastSig'[live'[r].by][release'[r].space].release # r
                    \/ WasAbsent(live[r].by, live[r].ver[live[r].by], Seen(live[r].by))'
  BY DEF SignaturesKept
<1>0. TypeOK /\ ListedIsOfSpace
  BY DEF ReportingInv, FoundIsOfSpace
<1>1. CASE live'[r] = live[r]
  <2>1. /\ release'[r] # NoRelease /\ r <= published
        /\ live[r].by \in Reports /\ release[r] # NoRelease
        /\ release[r].space \in Spaces
    <3>1. HubTypeOK /\ HubTypeOK'
      BY <1>0, HubTypeStep DEF TypeOK
    <3>2. release[r] # NoRelease /\ release[r] \in Releases
      BY <1>1, <3>1 DEF HubTypeOK
    <3> QED
      BY <1>1, <3>1, <3>2 DEF HubTypeOK, Releases
  <2>2. release'[r].space = release[r].space
    BY <1>0, <2>1, ReleaseStays
  <2>3. PICK k \in Reports : k = live[r].by
    BY <2>1
  <2>4. PICK from \in Nat : from = live[r].ver[k]
    BY <1>0, <1>1, <2>1, <2>3 DEF TypeOK, HubTypeOK, Objects
  <2>5. PICK sp \in Spaces : sp = release[r].space
    BY <2>1
  <2>6. \/ lastSig'[k][sp] = [release |-> r, status |-> live[r].status]
        \/ lastSig'[k][sp] # NoSig /\ lastSig'[k][sp].release # r
        \/ WasAbsent(k, from, Seen(k))'
    BY <1>1, <2>3, <2>4, <2>5, KeptStep
  <2>7. WasAbsent(k, from, Seen(k))' =>
           WasAbsent(live[r].by, live[r].ver[live[r].by], Seen(live[r].by))'
    BY <1>1, <2>3, <2>4
  <2> QED
    BY <1>1, <2>2, <2>3, <2>5, <2>6, <2>7
<1>2. CASE /\ pc = "patch" /\ ApplyPatch /\ r = target
           /\ live'[r] = [by |-> key, ver |-> write.ver, status |-> write.status]
           /\ live'[r] # live[r]
  <2>1. /\ release[r] # NoRelease /\ release' = release /\ r \in listed
        /\ key \in Reports /\ space \in Spaces
    BY <1>0, <1>2, UnderWay DEF ApplyPatch, Readable, TypeOK, WorkerTypeOK
  <2>2. release'[r].space = space
    BY <1>0, <1>2, <2>1 DEF ListedIsOfSpace
  <2>3. patchRelease
    <3>1. Report => UNCHANGED live \/ patchRelease \/ patchAnswerLost
      BY DEF Report, FindCached, listReleases, NotKnown, FindCovering, TryNext, NoneCovers,
             Suppress, Send, Refused, CallFails, Stay, Untouched, hubVars
    <3>2. HubMoves /\ UNCHANGED release => UNCHANGED live
      <4>1. \A q \in ReleaseIds : DeleteRelease(q) /\ UNCHANGED release => FALSE
        BY <1>0 DEF DeleteRelease, TypeOK, HubTypeOK
      <4> QED
        BY <4>1 DEF HubMoves, ShowSpace, HideSpace, Publish, Withdraw
    <3> QED
      BY <1>0, <1>2, <2>1, <3>1, <3>2, Frames, SignatureCases DEF Next, vars, hubVars
  <2>4. lastSig'[key][space] = [release |-> r, status |-> write.status]
    BY <1>0, <1>2, <2>1, <2>3 DEF patchRelease, TypeOK, MemoTypeOK
  <2> QED
    BY <1>2, <2>2, <2>4
<1> QED
  BY <1>0, <1>1, <1>2, LiveCases

\* What a Release says already, written by the same report, is written there again
\* only after a lost answer or a restart, when the Space was reported on another
\* Release since, or when the report was deleted in between: with any number of
\* reports, Spaces and failed calls, and whatever order the ClusterSummaries are in.
THEOREM UnchangedSveltosReportIsNotWritten == Spec => []UnchangedIsNotWritten
<1>1. Init => SignaturesKept
  BY DEF Init, SignaturesKept
<1>2. ReportingInv /\ SignaturesKept => UnchangedIsNotWritten
  <2> SUFFICES ASSUME ReportingInv, SignaturesKept,
                      pc = "patch", counts["lost"] = 0, counts["restart"] = 0,
                      live[target] # NoStatus, live[target].by = key,
                      live[target].status = write.status
               PROVE  \/ /\ lastSig[key][space] # NoSig
                         /\ lastSig[key][space].release # target
                      \/ WasAbsent(key, live[target].ver[key], snap[key])
    BY DEF UnchangedIsNotWritten
  <2>1. target \in ReleaseIds /\ target \in listed
    BY SentIsStatus
  <2>2. release[target] # NoRelease /\ release[target].space = space
    BY <2>1 DEF ReportingInv, TypeOK, HubTypeOK, FoundIsOfSpace, ListedIsOfSpace
  <2>3. lastSig[key][space] # [release |-> target, status |-> write.status]
    BY DEF ReportingInv, SaidByObjects, WriteIsSaid
  <2> QED
    BY <2>1, <2>2, <2>3 DEF SignaturesKept, Seen
<1> QED
  BY ReportingInit, ReportingStep, SignaturesStep, <1>1, <1>2, PTL DEF Spec
=============================================================================
