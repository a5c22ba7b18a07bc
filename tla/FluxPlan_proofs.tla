--------------------------- MODULE FluxPlan_proofs ---------------------------
(***************************************************************************)
(* Facts about FluxPlan, for any Kustomizations and Releases: what a plan  *)
(* writes is a status, one for each Release; a plan that was carried out   *)
(* is followed by one that rewrites at most marks whose DataSource ends    *)
(* inside a namespace, and never the same one twice.                       *)
(*                                                                         *)
(* The numbers are found by least elements: that a set of numbers has one  *)
(* follows from the finite sets' being well-founded.                       *)
(***************************************************************************)
EXTENDS FluxPlan, FiniteSetTheorems, SequenceTheorems, WellFoundedInduction, TLAPS

-----------------------------------------------------------------------------
(* Numbers.                                                                *)

\* A set of natural numbers has a least one.
LEMMA LeastNat ==
    ASSUME NEW T \in SUBSET Nat, T # {}
    PROVE  \E n \in T : \A m \in T : n <= m
<1>1. PICK a \in T : TRUE
  OBVIOUS
<1> DEFINE below   == {n \in T : n <= a}
           initial == {1..n : n \in below}
           subsets == FiniteSubsetsOf(1..a)
<1>2. IsWellFoundedOn(StrictSubsetOrdering(1..a), subsets)
  BY FS_StrictSubsetOrderingWellFounded
<1>3. initial \subseteq subsets /\ initial # {}
  <2>1. \A n \in below : 1..n \in SUBSET (1..a) /\ IsFiniteSet(1..n)
    BY FS_Interval
  <2> QED
    BY <2>1, <1>1 DEF FiniteSubsetsOf
<1>4. PICK x \in initial : \A y \in initial : ~(<<y, x>> \in StrictSubsetOrdering(1..a))
  <2> HIDE DEF initial, subsets
  <2> QED
    BY <1>2, <1>3, WFMin
<1>5. PICK n \in below : x = 1..n
  BY <1>4
<1>6. ASSUME NEW m \in below PROVE n <= m
  <2> SUFFICES ASSUME m < n PROVE FALSE
    OBVIOUS
  <2>1. 1..m \subseteq 1..n /\ n \in 1..n /\ n \notin 1..m
    OBVIOUS
  <2>2. <<1..m, 1..n>> \in StrictSubsetOrdering(1..a)
    BY <2>1 DEF StrictSubsetOrdering
  <2> QED
    BY <1>4, <1>5, <2>2
<1> QED
  BY <1>5, <1>6

\* Of bounded numbers there is a largest.
LEMMA GreatestIs ==
    ASSUME NEW n \in Nat, NEW S \in SUBSET Nat, \A m \in S : m <= n
    PROVE  /\ Greatest(S) \in Nat
           /\ S # {} => Greatest(S) \in S
           /\ \A m \in S : m <= Greatest(S)
<1>1. CASE S = {}
  BY <1>1 DEF Greatest
<1>2. CASE S # {}
  <2> DEFINE bounds == {b \in Nat : \A m \in S : m <= b}
  <2>1. bounds # {} /\ bounds \subseteq Nat
    OBVIOUS
  <2>2. PICK b \in bounds : \A other \in bounds : b <= other
    BY <2>1, LeastNat
  <2>3. b \in S
    <3> SUFFICES ASSUME b \notin S PROVE FALSE
      OBVIOUS
    <3>1. PICK m \in S : TRUE
      BY <1>2
    <3>2. b > 0 /\ b - 1 \in Nat
      BY <3>1
    <3>3. b - 1 \in bounds
      BY <3>2
    <3> QED
      BY <2>2, <3>2, <3>3
  <2>4. \E m \in S : \A k \in S : k <= m
    BY <2>3
  <2> QED
    BY <1>2, <2>4 DEF Greatest
<1> QED
  BY <1>1, <1>2

\* Those of a set of numbers that are not past m.
Upto(S, m) == {i \in S : i <= m}

LEMMA UptoFacts ==
    ASSUME NEW k \in Nat, NEW S \in SUBSET Nat, \A i \in S : 1 <= i /\ i <= k
    PROVE  /\ Upto(S, 0) = {} /\ Upto(S, k) = S
           /\ \A m \in Nat : IsFiniteSet(Upto(S, m)) /\ Cardinality(Upto(S, m)) \in Nat
           /\ \A m \in Nat \ {0} :
                 Cardinality(Upto(S, m)) = IF m \in S THEN Cardinality(Upto(S, m - 1)) + 1
                                           ELSE Cardinality(Upto(S, m - 1))
<1>0. \A i \in S : i \in Nat /\ 1 <= i /\ i <= k
  OBVIOUS
<1>1. Upto(S, 0) = {} /\ Upto(S, k) = S
  <2>1. \A i \in S : ~(i <= 0)
    BY <1>0
  <2> QED
    BY <1>0, <2>1, Zenon DEF Upto
<1>2. \A m \in Nat : IsFiniteSet(Upto(S, m)) /\ Cardinality(Upto(S, m)) \in Nat
  <2> SUFFICES ASSUME NEW m \in Nat
               PROVE  IsFiniteSet(Upto(S, m)) /\ Cardinality(Upto(S, m)) \in Nat
    OBVIOUS
  <2>1. Upto(S, m) \in SUBSET Nat /\ \A i \in Upto(S, m) : i <= m
    BY DEF Upto
  <2> QED
    BY <2>1, FS_BoundedSetOfNaturals, FS_CardinalityType
<1>3. ASSUME NEW m \in Nat \ {0}
      PROVE  Cardinality(Upto(S, m)) = IF m \in S THEN Cardinality(Upto(S, m - 1)) + 1
                                       ELSE Cardinality(Upto(S, m - 1))
  <2>1. m - 1 \in Nat /\ m \notin Upto(S, m - 1)
    BY DEF Upto
  <2>2. CASE m \in S
    <3>1. \A i \in S : i <= m <=> i <= m - 1 \/ i = m
      BY <1>0
    <3>2. m <= m
      OBVIOUS
    <3>3. Upto(S, m) = Upto(S, m - 1) \cup {m}
      BY <2>2, <3>1, <3>2, Zenon DEF Upto
    <3> QED
      BY <1>2, <2>1, <2>2, <3>3, FS_AddElement
  <2>3. CASE m \notin S
    <3>1. \A i \in S : i <= m <=> i <= m - 1
      BY <1>0, <2>3
    <3>2. Upto(S, m) = Upto(S, m - 1)
      BY <3>1, Zenon DEF Upto
    <3> QED
      BY <2>3, <3>2
  <2> QED
    BY <2>2, <2>3
<1> QED
  BY <1>1, <1>2, <1>3

\* The nth of a set of n numbers or more is there.
LEMMA NthIsThere ==
    ASSUME NEW k \in Nat, NEW S \in SUBSET Nat, \A m \in S : 1 <= m /\ m <= k,
           NEW n \in Nat, 1 <= n, n <= Cardinality(S)
    PROVE  Nth(S, n) \in S /\ Cardinality(Upto(S, Nth(S, n))) = n
<1> DEFINE reach == {m \in Nat : n <= Cardinality(Upto(S, m))}
<1>1. k \in reach
  BY UptoFacts
<1>2. PICK m \in reach : \A other \in reach : m <= other
  <2>1. reach \in SUBSET Nat /\ reach # {}
    BY <1>1
  <2> HIDE DEF reach
  <2> QED
    BY <2>1, LeastNat
<1>3. m \in Nat /\ n <= Cardinality(Upto(S, m)) /\ Cardinality(Upto(S, m)) \in Nat
  BY <1>2, UptoFacts
<1>4. m # 0
  BY <1>3, UptoFacts, FS_EmptySet
<1>5. m - 1 \in Nat /\ m - 1 \notin reach
  <2> HIDE DEF reach
  <2> QED
    BY <1>2, <1>3, <1>4
<1>6. Cardinality(Upto(S, m - 1)) \in Nat /\ Cardinality(Upto(S, m - 1)) < n
  BY <1>5, UptoFacts
<1>7. m \in S /\ Cardinality(Upto(S, m)) = n
  <2>1. Cardinality(Upto(S, m)) = IF m \in S THEN Cardinality(Upto(S, m - 1)) + 1
                                  ELSE Cardinality(Upto(S, m - 1))
    BY <1>3, <1>4, UptoFacts
  <2> QED
    BY <1>3, <1>6, <2>1
<1> QED
  BY <1>7 DEF Nth, Upto

\* Of a set of numbers that is not empty there is a first one.
LEMMA FirstIsThere ==
    ASSUME NEW k \in Nat, NEW S \in SUBSET Nat, \A m \in S : 1 <= m /\ m <= k, S # {}
    PROVE  Nth(S, 1) \in S
<1>1. IsFiniteSet(S) /\ Cardinality(S) \in Nat
  BY FS_BoundedSetOfNaturals, FS_CardinalityType
<1>2. Cardinality(S) # 0
  BY <1>1, FS_EmptySet
<1> QED
  BY <1>1, <1>2, NthIsThere

-----------------------------------------------------------------------------
(* What is said.                                                           *)

\* The names as an object of this version gives them, with their kind.
Plain == {n \in Names : n.kind # ""}

\* A message without a mark.
Unmarked == {m \in Messages : m = <<>> \/ Head(m).replacedBy = 0}

Heard == [name : Plain, part : Parts, message : Unmarked]

\* The objects' reasons and messages are text.
Worded(source, kusts) ==
    /\ {source.reason, source.message} \subseteq STRING
    /\ \A n \in Kusts : kusts[n] # Absent =>
          {kusts[n].readyReason, kusts[n].healthyReason, kusts[n].message} \subseteq STRING

LEMMA SpeakersAre ==
    ASSUME NEW kusts, NEW d
    PROVE  /\ Speakers(kusts, d) \in Seq(Kusts)
           /\ \A i \in 1..Len(Speakers(kusts, d)) : Speaks(kusts[Speakers(kusts, d)[i]], d)
<1> DEFINE at == {i \in 1..Len(KustOrder) : Speaks(kusts[KustOrder[i]], d)}
           who == [n \in 1..Cardinality(at) |-> KustOrder[Nth(at, n)]]
<1>1. Len(KustOrder) \in Nat
  BY FluxNamesAssumption
<1>2. at \in SUBSET Nat /\ \A i \in at : 1 <= i /\ i <= Len(KustOrder)
  BY <1>1
<1>3. Cardinality(at) \in Nat
  <2> HIDE DEF at
  <2> QED
    BY <1>1, <1>2, FS_BoundedSetOfNaturals, FS_CardinalityType
<1>4. \A n \in 1..Cardinality(at) : Nth(at, n) \in at
  <2> HIDE DEF at
  <2> SUFFICES ASSUME NEW n \in 1..Cardinality(at) PROVE Nth(at, n) \in at
    OBVIOUS
  <2>1. n \in Nat /\ 1 <= n /\ n <= Cardinality(at)
    BY <1>3
  <2> QED
    BY <1>1, <1>2, <2>1, NthIsThere
<1>5. \A i \in at : KustOrder[i] \in Kusts /\ Speaks(kusts[KustOrder[i]], d)
  BY DEF Kusts
<1> HIDE DEF at
<1>6. who \in Seq(Kusts) /\ Len(who) = Cardinality(at)
  BY <1>3, <1>4, <1>5
<1>7. Speakers(kusts, d) = who
  BY DEF Speakers, at
<1> QED
  BY <1>3, <1>4, <1>5, <1>6, <1>7

LEMMA PartsAre ==
    ASSUME NEW k, {k.readyReason, k.healthyReason} \subseteq STRING
    PROVE  {fromFluxRunning(k), fromFluxSuperseded(k), fromFluxAttempted(k), fromFluxReplaced}
               \subseteq Parts
<1>1. fluxHealth(k) \in {"Healthy", "Progressing", "Degraded", "Unknown"}
  BY DEF fluxHealth
<1>2. fluxOperation(k) \in {"", "Running", "Succeeded", "Failed"}
  BY DEF fluxOperation
<1>3. fromFluxRunning(k) \in Parts
  BY <1>1, <1>2 DEF fromFluxRunning, Part, Parts
<1>4. fromFluxSuperseded(k) \in Parts
  BY FluxWordsAssumption DEF fromFluxSuperseded, Part, Parts
<1>5. fromFluxAttempted(k) \in Parts
  BY FluxWordsAssumption DEF fromFluxAttempted, Part, Parts
<1>6. fromFluxReplaced \in Parts
  BY FluxWordsAssumption DEF fromFluxReplaced, Part, Parts
<1> QED
  BY <1>3, <1>4, <1>5, <1>6

LEMMA SaysIs ==
    ASSUME NEW n \in Names, NEW text \in STRING
    PROVE  Says(n, text) \in Unmarked /\ <<>> \in Unmarked
<1> DEFINE line  == Line(0, n, text)
           lines == [replacedBy : Nat, from : Names, text : STRING,
                     form : {"whole", "cut", "mended"}]
<1>1. line \in lines /\ line.replacedBy = 0
  BY DEF Line
<1> HIDE DEF line, lines
<1>2. <<line>> \in Seq(lines) /\ <<>> \in Seq(lines) /\ Head(<<line>>) = line
  BY <1>1
<1>3. Says(n, text) = IF text = "" THEN <<>> ELSE <<line>>
  BY DEF Says, line
<1> QED
  BY <1>1, <1>2, <1>3 DEF Unmarked, Messages, lines

LEMMA ObservationIs ==
    ASSUME NEW n \in Kusts, NEW k, NEW d,
           {k.readyReason, k.healthyReason, k.message} \subseteq STRING
    PROVE  Observation(n, k, d) \in Heard
<1> DEFINE name == Name("Kustomization", n)
           text == IF k.ready = "True" THEN "" ELSE k.message
<1>1. name \in Plain /\ name \in Names
  BY DEF Name, Names, Plain
<1>2. text \in STRING
  BY FluxWordsAssumption
<1>3. Says(name, text) \in Unmarked /\ <<>> \in Unmarked
  BY <1>1, <1>2, SaysIs
<1> HIDE DEF name, text
<1>4. {fromFluxRunning(k), fromFluxSuperseded(k), fromFluxAttempted(k)} \subseteq Parts
  BY PartsAre
<1>5. Observation(n, k, d) =
        IF d = RunningDigest(k) /\ d = AttemptedDigest(k)
        THEN [name |-> name, part |-> fromFluxRunning(k), message |-> Says(name, text)]
        ELSE IF d = RunningDigest(k)
        THEN [name |-> name, part |-> fromFluxSuperseded(k), message |-> <<>>]
        ELSE [name |-> name, part |-> fromFluxAttempted(k), message |-> Says(name, text)]
  BY DEF Observation, name, text
<1> QED
  BY <1>1, <1>3, <1>4, <1>5 DEF Heard

\* What is said of a digest.
LEMMA ObservationsAre ==
    ASSUME NEW source, NEW kusts, Worded(source, kusts), NEW rs, NEW d
    PROVE  Observations(source, kusts, rs, d) \in Seq(Heard)
<1>1. SourceFailure(source) \in Seq(Heard)
  <2>1. SourceName \in Plain /\ SourceName \in Names
    BY DEF SourceName, Name, Names, Plain
  <2>2. source.reason \in STRING /\ source.message \in STRING
    BY DEF Worded
  <2>3. fromFluxSourceFailed(source.reason) \in Parts
    BY <2>2, FluxWordsAssumption DEF fromFluxSourceFailed, Part, Parts
  <2>4. Says(SourceName, source.message) \in Unmarked
    BY <2>1, <2>2, SaysIs
  <2> QED
    BY <2>1, <2>3, <2>4 DEF SourceFailure, Heard
<1>2. observeFluxSource(kusts, d) \in Seq(Heard)
  <2> DEFINE who == Speakers(kusts, d)
  <2>1. Len(who) \in Nat /\ \A i \in 1..Len(who) : who[i] \in Kusts /\ Speaks(kusts[who[i]], d)
    BY SpeakersAre
  <2> HIDE DEF who
  <2>2. \A i \in 1..Len(who) : Observation(who[i], kusts[who[i]], d) \in Heard
    BY <2>1, ObservationIs DEF Worded, Speaks
  <2>3. [i \in 1..Len(who) |-> Observation(who[i], kusts[who[i]], d)] \in Seq(Heard)
    BY <2>1, <2>2
  <2> QED
    BY <2>3 DEF observeFluxSource, who
<1> QED
  BY <1>1, <1>2 DEF Observations

-----------------------------------------------------------------------------
(* DataSources.                                                            *)

\* The names as this version writes them.
Current == {n \in Names \cup Cuts : n \in Cuts \/ n.kind # ""}

\* A DataSource of this version, cut if it is too long.
Fits(names) ==
    /\ names \in Seq(Current) /\ names # <<>>
    /\ \/ Len(names) <= NamesFit
       \/ Len(names) = NamesFit + 1 /\ names[NamesFit + 1] \in Cuts

\* None of the names ends inside a namespace.
WholeNamespaces(names) == \A i \in 1..Len(names) : names[i] # CutNamespace

LEMMA FitsIsDataSource == ASSUME NEW names, Fits(names) PROVE names \in DataSources
<1>1. Current \subseteq Names \cup Cuts
  BY DEF Current
<1> QED
  BY <1>1, SeqMonotonic DEF Fits, DataSources

\* A DataSource that was cut is not cut again.
LEMMA TruncateIs ==
    ASSUME NEW names \in Seq(Current), names # <<>>
    PROVE  /\ Fits(truncateNames(names))
           /\ Fits(names) => truncateNames(names) = names
<1> DEFINE front == SubSeq(names, 1, NamesFit)
           last  == CutOf(names[NamesFit + 1])
           cut   == Append(front, last)
<1>0. NamesFit \in Nat /\ Len(names) \in Nat
  BY FluxBoundsAssumption
<1>1. CASE Len(names) <= NamesFit
  BY <1>1 DEF truncateNames, Fits
<1>2. CASE ~(Len(names) <= NamesFit)
  <2>1. /\ front \in Seq(Current) /\ Len(front) = NamesFit
        /\ \A i \in 1..NamesFit : front[i] = names[i]
    BY <1>0, <1>2
  <2>2. last \in Cuts /\ last \in Current
    BY DEF CutOf, Cuts, Current
  <2>3. truncateNames(names) = cut
    BY <1>2 DEF truncateNames
  <2> HIDE DEF front, last
  <2>4. /\ cut \in Seq(Current) /\ Len(cut) = NamesFit + 1 /\ cut[NamesFit + 1] = last
        /\ \A i \in 1..NamesFit : cut[i] = front[i]
    <3>1. cut \in Seq(Current) /\ Len(cut) = Len(front) + 1 /\ cut[Len(front) + 1] = last
      BY <1>0, <2>1, <2>2, AppendProperties
    <3>2. \A i \in 1..Len(front) : cut[i] = front[i]
      BY <1>0, <2>1, <2>2, AppendProperties
    <3> HIDE DEF cut
    <3> QED
      BY <2>1, <3>1, <3>2
  <2> HIDE DEF cut
  <2>5. Fits(cut)
    BY <1>0, <2>2, <2>4 DEF Fits
  <2>6. ASSUME Fits(names) PROVE cut = names
    <3>1. Len(names) = NamesFit + 1 /\ names[NamesFit + 1] \in Cuts
      BY <1>0, <1>2, <2>6 DEF Fits
    <3>2. last = names[NamesFit + 1]
      BY <3>1 DEF CutOf, last
    <3>3. \A i \in 1..Len(cut) : cut[i] = names[i]
      BY <1>0, <2>1, <2>4, <3>2
    <3> QED
      BY <2>4, <3>1, <3>3, SeqEqual
  <2> QED
    BY <2>3, <2>5, <2>6
<1> QED
  BY <1>1, <1>2

\* A DataSource that was taken is in the form of this version.  One that is already
\* stays as it is, unless it ends inside a namespace; taken once, it does not.
LEMMA DataSourceIs ==
    ASSUME NEW names \in Seq(Names \cup Cuts), names # <<>>
    PROVE  /\ Fits(fluxDataSource(names))
           /\ Fits(names) /\ WholeNamespaces(names) => fluxDataSource(names) = names
           /\ Fits(names) => WholeNamespaces(fluxDataSource(names))
<1> DEFINE taken == [i \in 1..Len(names) |-> Upgraded(names[i])]
<1>0. /\ NamesFit \in Nat /\ Len(names) \in Nat /\ Len(names) # 0
      /\ \A i \in 1..Len(names) : names[i] \in Names \cup Cuts
  BY FluxBoundsAssumption
<1>1. ASSUME NEW n \in Names \cup Cuts
      PROVE  /\ Upgraded(n) \in Current /\ Upgraded(n) # CutNamespace
             /\ n \in Cuts => Upgraded(n) \in Cuts
             /\ n \in Current /\ n # CutNamespace => Upgraded(n) = n
  <2>1. CASE n \in Cuts
    <3>1. Garbled \in Cuts /\ CutNamespace # Garbled
      BY FluxCutsAssumption DEF Cuts
    <3> QED
      BY <2>1, <3>1 DEF Upgraded, Current
  <2>2. CASE n \notin Cuts
    <3>1. n \in Names /\ n \notin Cuts /\ n # CutNamespace /\ CutNamespace \notin Names
      BY <1>1, <2>2, FluxCutsAssumption DEF Cuts
    <3>2. /\ Name("Kustomization", n.name) \in Names
          /\ Name("Kustomization", n.name).kind # ""
      BY <3>1 DEF Name, Names
    <3>3. Upgraded(n) = IF n.kind = "" THEN Name("Kustomization", n.name) ELSE n
      BY <3>1 DEF Upgraded
    <3> QED
      BY <3>1, <3>2, <3>3 DEF Current
  <2> QED
    BY <2>1, <2>2
<1>2. /\ taken \in Seq(Current) /\ Len(taken) = Len(names) /\ taken # <<>>
      /\ \A i \in 1..Len(names) : taken[i] = Upgraded(names[i])
  BY <1>0, <1>1
<1>3. fluxDataSource(names) = truncateNames(taken)
  BY DEF fluxDataSource
<1> HIDE DEF taken
<1>4. Fits(fluxDataSource(names))
  BY <1>2, <1>3, TruncateIs
<1>5. ASSUME Fits(names) PROVE Fits(taken) /\ WholeNamespaces(taken)
  BY <1>0, <1>1, <1>2, <1>5 DEF Fits, WholeNamespaces
<1>6. ASSUME Fits(names) PROVE fluxDataSource(names) = taken
  BY <1>2, <1>3, <1>5, <1>6, TruncateIs
<1>7. ASSUME Fits(names), WholeNamespaces(names) PROVE taken = names
  <2>1. \A i \in 1..Len(names) : names[i] \in Current /\ names[i] # CutNamespace
    BY <1>0, <1>7 DEF Fits, WholeNamespaces
  <2>2. \A i \in 1..Len(names) : taken[i] = names[i]
    BY <1>0, <1>1, <1>2, <2>1
  <2> QED
    BY <1>2, <2>2, SeqEqual
<1> QED
  BY <1>4, <1>5, <1>6, <1>7

-----------------------------------------------------------------------------
(* One status.                                                             *)

LEMMA HeardIs ==
    ASSUME NEW obs \in Seq(Heard)
    PROVE  /\ Len(obs) \in Nat /\ (obs # <<>> => Len(obs) # 0)
           /\ \A i \in 1..Len(obs) : /\ obs[i].name \in Plain /\ obs[i].part \in Parts
                                     /\ obs[i].message \in Unmarked
<1>1. Len(obs) \in Nat /\ (obs # <<>> => Len(obs) # 0) /\ \A i \in 1..Len(obs) : obs[i] \in Heard
  OBVIOUS
<1>2. \A o \in Heard : o.name \in Plain /\ o.part \in Parts /\ o.message \in Unmarked
  BY DEF Heard
<1> QED
  BY <1>1, <1>2

\* The least advanced observation there is.
LEMMA LeastAdvancedIs ==
    ASSUME NEW obs \in Seq(Heard), obs # <<>>, NEW rank \in [1..Len(obs) -> 0..4]
    PROVE  LeastAdvanced(obs, rank) \in Parts
<1> DEFINE ids   == 1..Len(obs)
           ranks == {rank[i] : i \in ids}
           worst == {i \in ids : \A j \in ids : rank[j] <= rank[i]}
<1>1. Len(obs) \in Nat /\ 1 \in ids /\ \A i \in ids : obs[i].part \in Parts
  BY HeardIs
<1>2. \A i \in ids : rank[i] \in Nat /\ rank[i] <= 4
  OBVIOUS
<1>3. worst # {}
  <2>1. /\ ranks \in SUBSET Nat /\ ranks # {} /\ \A m \in ranks : m <= 4
    BY <1>1, <1>2
  <2> HIDE DEF ids
  <2>2. Greatest(ranks) \in ranks /\ \A m \in ranks : m <= Greatest(ranks)
    <3> HIDE DEF ranks
    <3> QED
      BY <2>1, GreatestIs
  <2>3. PICK i \in ids : rank[i] = Greatest(ranks)
    BY <2>2
  <2> QED
    BY <2>2, <2>3
<1>4. PICK i \in worst : \A j \in worst : i <= j
  <2>1. worst \in SUBSET Nat
    BY <1>1
  <2> HIDE DEF worst
  <2> QED
    BY <1>3, <2>1, LeastNat
<1>5. \A j \in ids : rank[j] <= rank[i] /\ (rank[j] = rank[i] => i <= j)
  BY <1>4
<1>6. \E n \in ids : \A j \in ids : rank[j] <= rank[n] /\ (rank[j] = rank[n] => n <= j)
  BY <1>4, <1>5
<1>7. (CHOOSE n \in ids : \A j \in ids : rank[j] <= rank[n] /\ (rank[j] = rank[n] => n <= j))
          \in ids
  <2> HIDE DEF ids
  <2> QED
    BY <1>6
<1> QED
  BY <1>1, <1>7 DEF LeastAdvanced

LEMMA FirstMessageIs ==
    ASSUME NEW obs \in Seq(Heard)
    PROVE  FirstMessage(obs) \in Unmarked
<1> DEFINE said == {i \in 1..Len(obs) : obs[i].message # <<>>}
<1>1. Len(obs) \in Nat /\ \A i \in 1..Len(obs) : obs[i].message \in Unmarked
  BY HeardIs
<1>2. CASE said = {}
  BY <1>2, SaysIs DEF FirstMessage, Unmarked, Messages
<1>3. CASE said # {}
  <2>1. said \in SUBSET Nat /\ \A i \in said : 1 <= i /\ i <= Len(obs)
    BY <1>1
  <2> HIDE DEF said
  <2>2. Nth(said, 1) \in said
    BY <1>1, <1>3, <2>1, FirstIsThere
  <2>3. FirstMessage(obs) = obs[Nth(said, 1)].message
    BY <1>3 DEF FirstMessage, said
  <2> QED
    BY <1>1, <2>2, <2>3 DEF said
<1> QED
  BY <1>2, <1>3

\* What observations make is a status, in the form of this version, without a mark.
LEMMA ProjectedIs ==
    ASSUME NEW obs \in Seq(Heard), obs # <<>>
    PROVE  /\ projectFluxStatus(obs) \in Statuses
           /\ ~fluxMarkedReplaced(projectFluxStatus(obs))
           /\ Fits(projectFluxStatus(obs).DataSource)
<1> DEFINE sync      == LeastAdvanced(obs, [i \in 1..Len(obs) |-> SyncRank(obs[i].part.Sync)])
           health    == LeastAdvanced(obs, [i \in 1..Len(obs) |-> HealthRank(obs[i].part.Health)])
           operation == LeastAdvanced(obs,
                            [i \in 1..Len(obs) |-> OperationRank(obs[i].part.Operation)])
           names     == [i \in 1..Len(obs) |-> obs[i].name]
           part      == Part(sync.Sync, health.Health, operation.Operation, sync.ReporterSync,
                             health.ReporterHealth, operation.ReporterOperation)
           source    == truncateNames(names)
           message   == FirstMessage(obs)
<1>1. sync \in Parts /\ health \in Parts /\ operation \in Parts
  <2>1. \A s : SyncRank(s) \in 0..4 /\ HealthRank(s) \in 0..4 /\ OperationRank(s) \in 0..4
    BY DEF SyncRank, HealthRank, OperationRank
  <2> QED
    BY <2>1, LeastAdvancedIs
<1> HIDE DEF sync, health, operation
<1>2. part \in Parts
  BY <1>1 DEF Part, Parts
<1>3. names \in Seq(Current) /\ names # <<>>
  <2>1. Len(obs) \in Nat /\ Len(obs) # 0 /\ \A i \in 1..Len(obs) : obs[i].name \in Plain
    BY HeardIs
  <2>2. Plain \subseteq Current
    BY DEF Plain, Current
  <2> QED
    BY <2>1, <2>2
<1> HIDE DEF names
<1>4. Fits(source)
  BY <1>3, TruncateIs
<1>5. source \in DataSources
  BY <1>4, FitsIsDataSource
<1>7. message \in Unmarked /\ message \in Messages
  BY FirstMessageIs DEF Unmarked
<1> HIDE DEF part, source, message
<1>8. projectFluxStatus(obs) =
        [Part |-> part, Reporter |-> "argobot", DataSource |-> source, Message |-> message]
  BY DEF projectFluxStatus, part, source, message, names, sync, health, operation
<1>9. projectFluxStatus(obs) \in Statuses
  <2>1. "argobot" \in STRING
    BY FluxWordsAssumption
  <2> QED
    BY <1>2, <1>5, <1>7, <1>8, <2>1 DEF Statuses
<1> QED
  BY <1>4, <1>7, <1>8, <1>9 DEF fluxMarkedReplaced, Unmarked

-----------------------------------------------------------------------------
(* The plan.                                                               *)

Listings == [ReleaseIds -> Releases \cup {NoRelease}]

Writes == [Release : ReleaseIds, Status : Statuses]

LEMMA ReleasesAre ==
    ASSUME NEW rel \in Releases
    PROVE  /\ rel.digest \in Digests /\ rel.published \in BOOLEAN
           /\ rel.live \in Statuses \cup {NoStatus} /\ rel # NoRelease
           /\ \A st : /\ [rel EXCEPT !.live = st].digest = rel.digest
                      /\ [rel EXCEPT !.live = st].published = rel.published
                      /\ [rel EXCEPT !.live = st].live = st
                      /\ st \in Statuses => [rel EXCEPT !.live = st] \in Releases
BY FluxReleasesAssumption DEF Releases

LEMMA StatusesAre ==
    ASSUME NEW st \in Statuses
    PROVE  /\ st # NoStatus
           /\ st.Part \in Parts /\ st.Message \in Messages
           /\ st.DataSource \in Seq(Names \cup Cuts) /\ st.DataSource # <<>>
           /\ \A names : /\ [st EXCEPT !.DataSource = names].DataSource = names
                         /\ [st EXCEPT !.DataSource = names].Part = st.Part
                         /\ [st EXCEPT !.DataSource = names].Message = st.Message
                         /\ names \in DataSources =>
                               [st EXCEPT !.DataSource = names] \in Statuses
<1>1. /\ st.Part \in Parts /\ st.Message \in Messages /\ st.DataSource \in DataSources
      /\ \A names : /\ [st EXCEPT !.DataSource = names].DataSource = names
                    /\ [st EXCEPT !.DataSource = names].Part = st.Part
                    /\ [st EXCEPT !.DataSource = names].Message = st.Message
                    /\ names \in DataSources => [st EXCEPT !.DataSource = names] \in Statuses
  BY DEF Statuses
<1> QED
  BY <1>1, FluxReleasesAssumption DEF DataSources

\* What the objects say: one unmarked status for a Release.
LEMMA SaidIs ==
    ASSUME NEW source, NEW kusts, Worded(source, kusts), NEW rs \in Listings
    PROVE  /\ \A w \in Said(source, kusts, rs) :
                 /\ w \in Writes /\ rs[w.Release] # NoRelease
                 /\ ~fluxMarkedReplaced(w.Status)
                 /\ Fits(w.Status.DataSource)
           /\ \A w, v \in Said(source, kusts, rs) : w.Release = v.Release => w = v
<1> DEFINE By(r)   == Observations(source, kusts, rs, rs[r].digest)
           said(r) == [Release |-> r, Status |-> projectFluxStatus(By(r))]
<1>1. \A w \in Said(source, kusts, rs) :
         \E r \in ReleaseIds : rs[r] # NoRelease /\ By(r) # <<>> /\ w = said(r)
  BY DEF Said
<1>2. \A r \in ReleaseIds : By(r) \in Seq(Heard)
  BY ObservationsAre
<1> HIDE DEF By
<1>3. ASSUME NEW w \in Said(source, kusts, rs)
      PROVE  /\ w \in Writes /\ rs[w.Release] # NoRelease
             /\ ~fluxMarkedReplaced(w.Status)
             /\ Fits(w.Status.DataSource)
  <2>1. PICK r \in ReleaseIds : rs[r] # NoRelease /\ By(r) # <<>> /\ w = said(r)
    BY <1>1
  <2>2. /\ projectFluxStatus(By(r)) \in Statuses
        /\ ~fluxMarkedReplaced(projectFluxStatus(By(r)))
        /\ Fits(projectFluxStatus(By(r)).DataSource)
    BY <1>2, <2>1, ProjectedIs
  <2> QED
    BY <2>1, <2>2 DEF Writes
<1>4. ASSUME NEW w \in Said(source, kusts, rs), NEW v \in Said(source, kusts, rs),
             w.Release = v.Release
      PROVE  w = v
  <2>1. PICK r \in ReleaseIds : w = said(r)
    BY <1>1
  <2>2. PICK s \in ReleaseIds : v = said(s)
    BY <1>1
  <2> QED
    BY <1>4, <2>1, <2>2
<1> QED
  BY <1>3, <1>4

\* There is at most one Release that runs.
LEMMA RunningIs ==
    ASSUME NEW writes \in SUBSET Writes,
           \A w, v \in writes : w.Release = v.Release => w = v
    PROVE  /\ RunningOf(writes) \subseteq writes
           /\ \A a, b \in RunningOf(writes) : a = b
<1>1. \A w \in writes : w.Release \in Nat
  BY DEF Writes, ReleaseIds
<1>2. ASSUME NEW a \in RunningOf(writes), NEW b \in RunningOf(writes) PROVE a = b
  <2>1. a \in writes /\ b \in writes /\ a.Release <= b.Release /\ b.Release <= a.Release
    BY DEF RunningOf
  <2> QED
    BY <1>1, <2>1
<1> QED
  BY <1>2 DEF RunningOf

\* What becomes of a failure that is marked replaced.
Kept(old, new) ==
    /\ new.Part.Operation = "Failed"
    /\ new.Part.ReporterOperation = old.Part.ReporterOperation
    /\ HasBehind(new.Message, old.Message)

\* A replaced Release gets a marked status in the form of this version, which keeps
\* a failure.
LEMMA ReplacedIs ==
    ASSUME NEW rel \in Releases, NEW names \in DataSources, Fits(names), NEW by \in ReleaseIds
    PROVE  /\ Replaced(rel, names, by) \in Statuses
           /\ fluxMarkedReplaced(Replaced(rel, names, by))
           /\ Fits(Replaced(rel, names, by).DataSource)
           /\ rel.live # NoStatus /\ fluxMarkedReplaced(rel.live) =>
                 Replaced(rel, names, by) =
                    [rel.live EXCEPT !.DataSource = fluxDataSource(rel.live.DataSource)]
           /\ /\ rel.live # NoStatus /\ ~fluxMarkedReplaced(rel.live)
              /\ rel.live.Part.Operation = "Failed"
              => Kept(rel.live, Replaced(rel, names, by))
<1> DEFINE line == Line(by, Name("", ""), "")
           lines == [replacedBy : Nat, from : Names, text : STRING,
                     form : {"whole", "cut", "mended"}]
<1>1. line \in lines /\ line.replacedBy # 0
  <2>1. Name("", "") \in Names
    BY DEF Name, Names
  <2>2. "" \in STRING
    BY FluxWordsAssumption
  <2>3. by \in Nat /\ by # 0
    BY FluxBoundsAssumption DEF ReleaseIds
  <2> QED
    BY <2>1, <2>2, <2>3 DEF Line
<1>2. ReplacedBy(by) = <<line>> /\ Messages = Seq(lines)
  BY DEF ReplacedBy, Messages
<1> HIDE DEF line, lines
<1>3. ASSUME NEW part \in Parts, NEW source \in DataSources, NEW message \in Messages
      PROVE  LET st == fluxReplacedStatus(part, source, message, by)
             IN  /\ st \in Statuses /\ fluxMarkedReplaced(st) /\ st.DataSource = source
                 /\ part.Operation = "Failed" =>
                       /\ st.Part.Operation = "Failed"
                       /\ st.Part.ReporterOperation = part.ReporterOperation
                       /\ HasBehind(st.Message, message)
  <2> DEFINE kept == [fromFluxReplaced EXCEPT !.Operation = "Failed",
                                              !.ReporterOperation = part.ReporterOperation]
             newPart == IF part.Operation = "Failed" THEN kept ELSE fromFluxReplaced
             rest == Shortened(message)
             text == IF part.Operation = "Failed" THEN ReplacedBy(by) \o rest
                     ELSE ReplacedBy(by)
             st == [Part |-> newPart, Reporter |-> "argobot", DataSource |-> source,
                    Message |-> text]
  <2>1. "" \in STRING /\ "argobot" \in STRING
    BY FluxWordsAssumption
  <2>2. /\ kept \in Parts /\ fromFluxReplaced \in Parts
        /\ kept.Sync = "OutOfSync" /\ fromFluxReplaced.Sync = "OutOfSync"
        /\ kept.Operation = "Failed" /\ kept.ReporterOperation = part.ReporterOperation
    BY <2>1 DEF fromFluxReplaced, Part, Parts
  <2> HIDE DEF kept
  <2>3. newPart \in Parts /\ newPart.Sync = "OutOfSync"
    BY <2>2
  <2>4. /\ <<line>> \o rest \in Seq(lines) /\ <<line>> \in Seq(lines)
        /\ Head(<<line>> \o rest) = line /\ Head(<<line>>) = line
        /\ <<line>> \o rest # <<>> /\ <<line>> # <<>>
        /\ HasBehind(<<line>> \o rest, message)
    <3>1. Len(message) \in Nat /\ \A i \in 1..Len(message) : message[i] \in lines
      BY <1>2
    <3>2. ASSUME NEW i \in 1..Len(message)
          PROVE  LET kept2 == IF message[i].text \in LongTexts
                              THEN [message[i] EXCEPT !.form = "cut"] ELSE message[i]
                 IN  kept2 \in lines /\ kept2.from = message[i].from /\ kept2.text = message[i].text
      BY <3>1 DEF lines
    <3>3. /\ rest \in Seq(lines) /\ Len(rest) = Len(message)
          /\ \A i \in 1..Len(message) :
                rest[i].from = message[i].from /\ rest[i].text = message[i].text
      BY <3>1, <3>2 DEF Shortened
    <3> HIDE DEF rest
    <3>4. /\ <<line>> \in Seq(lines) /\ Len(<<line>>) = 1
          /\ Head(<<line>>) = line /\ <<line>> # <<>>
      BY <1>1
    <3> DEFINE both == <<line>> \o rest
    <3>5. both \in Seq(lines) /\ Len(both) = 1 + Len(message)
          /\ both[1] = line /\ \A i \in 1..Len(message) : both[i + 1] = rest[i]
      BY <3>1, <3>3, <3>4
    <3> HIDE DEF both
    <3>6. both # <<>> /\ Head(both) = line
      BY <3>1, <3>5
    <3>7. HasBehind(both, message)
      <4>1. Len(both) = Len(message) + 1
        BY <3>1, <3>5
      <4>2. ASSUME NEW i \in 1..Len(message)
            PROVE  both[i + 1].from = message[i].from /\ both[i + 1].text = message[i].text
        BY <3>3, <3>5
      <4> QED
        BY <4>1, <4>2 DEF HasBehind
    <3> QED
      BY <3>4, <3>5, <3>6, <3>7 DEF both
  <2>5. /\ text \in Messages /\ text # <<>> /\ Head(text).replacedBy # 0
        /\ part.Operation = "Failed" => HasBehind(text, message)
    BY <1>1, <1>2, <2>4
  <2> HIDE DEF newPart, text
  <2>6. fluxReplacedStatus(part, source, message, by) = st
    BY DEF fluxReplacedStatus, newPart, text, kept
  <2>7. st \in Statuses
    BY <2>1, <2>3, <2>5 DEF Statuses
  <2>8. part.Operation = "Failed" => newPart = kept
    BY DEF newPart
  <2> QED
    BY <2>2, <2>3, <2>5, <2>6, <2>7, <2>8 DEF fluxMarkedReplaced
<1>4. CASE rel.live = NoStatus
  <2>1. fromFluxReplaced \in Parts /\ <<>> \in Messages
    <3>1. fromFluxReplaced \in Parts
      BY FluxWordsAssumption DEF fromFluxReplaced, Part, Parts
    <3> QED
      BY <1>2, <3>1
  <2> QED
    BY <1>3, <1>4, <2>1 DEF Replaced
<1>5. CASE rel.live # NoStatus
  <2> DEFINE upgraded == fluxDataSource(rel.live.DataSource)
  <2>1. rel.live \in Statuses
    BY <1>5, ReleasesAre
  <2>2. /\ rel.live.DataSource \in Seq(Names \cup Cuts) /\ rel.live.DataSource # <<>>
        /\ rel.live.Part \in Parts /\ rel.live.Message \in Messages
    BY <2>1, StatusesAre
  <2>3. upgraded \in DataSources /\ Fits(upgraded)
    BY <2>2, DataSourceIs, FitsIsDataSource
  <2> HIDE DEF upgraded
  <2>4. CASE fluxMarkedReplaced(rel.live)
    <3> DEFINE st == [rel.live EXCEPT !.DataSource = upgraded]
    <3>1. /\ st.DataSource = upgraded /\ st.Part = rel.live.Part
          /\ st.Message = rel.live.Message /\ st \in Statuses
      BY <2>1, <2>3, StatusesAre
    <3>2. Replaced(rel, names, by) = st
      BY <1>5, <2>4 DEF Replaced, upgraded
    <3>3. st = [rel.live EXCEPT !.DataSource = fluxDataSource(rel.live.DataSource)]
      BY DEF upgraded
    <3> HIDE DEF st
    <3> QED
      BY <2>3, <2>4, <3>1, <3>2, <3>3 DEF fluxMarkedReplaced
  <2>5. CASE ~fluxMarkedReplaced(rel.live)
    <3>1. Replaced(rel, names, by)
            = fluxReplacedStatus(rel.live.Part, upgraded, rel.live.Message, by)
      BY <1>5, <2>5 DEF Replaced, upgraded
    <3> DEFINE st == fluxReplacedStatus(rel.live.Part, upgraded, rel.live.Message, by)
    <3>2. /\ st \in Statuses /\ fluxMarkedReplaced(st) /\ st.DataSource = upgraded
          /\ rel.live.Part.Operation = "Failed" =>
                /\ st.Part.Operation = "Failed"
                /\ st.Part.ReporterOperation = rel.live.Part.ReporterOperation
                /\ HasBehind(st.Message, rel.live.Message)
      BY <1>3, <2>2, <2>3
    <3> HIDE DEF st
    <3>3. Replaced(rel, names, by) = st
      BY <3>1 DEF st
    <3> QED
      BY <2>3, <2>5, <3>2, <3>3 DEF Kept
  <2> QED
    BY <2>4, <2>5
<1> QED
  BY <1>4, <1>5

\* What a plan writes: at most one status for a Release that is there.  A marked one
\* is that of a replaced Release.
LEMMA PlanIs ==
    ASSUME NEW source, NEW kusts, Worded(source, kusts), NEW rs \in Listings
    PROVE  LET plan   == planFluxWrites(source, kusts, rs)
               writes == Said(source, kusts, rs)
           IN  /\ \A w \in plan :
                     /\ w \in Writes /\ rs[w.Release] # NoRelease
                     /\ \/ w \in writes /\ ~fluxMarkedReplaced(w.Status)
                        \/ w \notin writes /\ fluxMarkedReplaced(w.Status)
                     /\ Fits(w.Status.DataSource)
                     /\ LET old == rs[w.Release].live
                        IN  /\ old # NoStatus /\ ~fluxMarkedReplaced(old)
                            /\ old.Part.Operation = "Failed"
                            /\ fluxMarkedReplaced(w.Status)
                            => Kept(old, w.Status)
               /\ \A w, v \in plan : w.Release = v.Release => w = v
<1> DEFINE plan   == planFluxWrites(source, kusts, rs)
           writes == Said(source, kusts, rs)
           new(r, running) ==
               [Release |-> r,
                Status |-> Replaced(rs[r], running.Status.DataSource, running.Release)]
<1>1. /\ writes \in SUBSET Writes
      /\ \A w \in writes : /\ rs[w.Release] # NoRelease /\ ~fluxMarkedReplaced(w.Status)
                           /\ Fits(w.Status.DataSource)
      /\ \A w, v \in writes : w.Release = v.Release => w = v
  BY SaidIs
<1> HIDE DEF writes
<1>2. RunningOf(writes) \subseteq writes /\ \A a, b \in RunningOf(writes) : a = b
  BY <1>1, RunningIs
<1>3. \A w \in plan :
         \/ w \in writes
         \/ \E running \in RunningOf(writes) : \E r \in ReleaseIds :
               /\ rs[r] # NoRelease /\ r \notin {v.Release : v \in writes}
               /\ w = new(r, running)
  BY DEF planFluxWrites, Replacements, writes
<1>4. ASSUME NEW running \in RunningOf(writes), NEW r \in ReleaseIds, rs[r] # NoRelease
      PROVE  LET st == Replaced(rs[r], running.Status.DataSource, running.Release)
             IN  /\ st \in Statuses /\ fluxMarkedReplaced(st)
                 /\ Fits(st.DataSource)
                 /\ /\ rs[r].live # NoStatus /\ ~fluxMarkedReplaced(rs[r].live)
                    /\ rs[r].live.Part.Operation = "Failed"
                    => Kept(rs[r].live, st)
  <2>1. rs[r] \in Releases
    BY <1>4 DEF Listings
  <2>2. running \in writes /\ running \in Writes
    BY <1>1, <1>2
  <2>3. running.Release \in ReleaseIds /\ running.Status \in Statuses
    BY <2>2 DEF Writes
  <2>4. running.Status.DataSource \in DataSources
    BY <2>3, StatusesAre DEF DataSources
  <2> QED
    BY <1>1, <2>1, <2>2, <2>3, <2>4, ReplacedIs
<1> HIDE DEF plan
<1>5. ASSUME NEW w \in plan
      PROVE  /\ w \in Writes /\ rs[w.Release] # NoRelease
             /\ \/ w \in writes /\ ~fluxMarkedReplaced(w.Status)
                \/ w \notin writes /\ fluxMarkedReplaced(w.Status)
             /\ Fits(w.Status.DataSource)
             /\ LET old == rs[w.Release].live
                IN  /\ old # NoStatus /\ ~fluxMarkedReplaced(old)
                    /\ old.Part.Operation = "Failed"
                    /\ fluxMarkedReplaced(w.Status)
                    => Kept(old, w.Status)
  <2>1. CASE w \in writes
    BY <1>1, <2>1
  <2>2. ASSUME NEW running \in RunningOf(writes), NEW r \in ReleaseIds, rs[r] # NoRelease,
               r \notin {v.Release : v \in writes}, w = new(r, running)
        PROVE  /\ w \in Writes /\ w \notin writes /\ rs[w.Release] # NoRelease
               /\ fluxMarkedReplaced(w.Status)
               /\ Fits(w.Status.DataSource)
               /\ LET old == rs[w.Release].live
                  IN  /\ old # NoStatus /\ ~fluxMarkedReplaced(old)
                      /\ old.Part.Operation = "Failed"
                      => Kept(old, w.Status)
    <3> DEFINE st == Replaced(rs[r], running.Status.DataSource, running.Release)
    <3>1. /\ st \in Statuses /\ fluxMarkedReplaced(st)
          /\ Fits(st.DataSource)
          /\ /\ rs[r].live # NoStatus /\ ~fluxMarkedReplaced(rs[r].live)
             /\ rs[r].live.Part.Operation = "Failed"
             => Kept(rs[r].live, st)
      BY <1>4, <2>2
    <3>2. w.Release = r /\ w.Status = st /\ w = [Release |-> r, Status |-> st]
      BY <2>2
    <3> HIDE DEF st
    <3> QED
      BY <2>2, <3>1, <3>2 DEF Writes
  <2> QED
    BY <1>3, <2>1, <2>2
<1>6. ASSUME NEW w \in plan, NEW v \in plan, w.Release = v.Release PROVE w = v
  <2>1. CASE w \in writes /\ v \in writes
    BY <1>1, <1>6, <2>1
  <2>2. CASE w \notin writes \/ v \notin writes
    <3>1. w \notin writes /\ v \notin writes
      BY <1>3, <1>6, <2>2
    <3> QED
      BY <1>2, <1>3, <1>6, <3>1
  <2> QED
    BY <2>1, <2>2
<1> QED
  BY <1>5, <1>6 DEF plan, writes

\* What the objects say is of the Releases' contents, not of their statuses.
LEMMA SaidSame ==
    ASSUME NEW source, NEW kusts, NEW rs, NEW after,
           \A r \in ReleaseIds :
              /\ after[r] = NoRelease <=> rs[r] = NoRelease
              /\ rs[r] # NoRelease => /\ after[r].digest = rs[r].digest
                                      /\ after[r].published = rs[r].published
    PROVE  Said(source, kusts, after) = Said(source, kusts, rs)
<1>1. \A d : ByDigest(after, d) = ByDigest(rs, d)
  BY DEF ByDigest
<1>2. fluxSourceTarget(source, after) = fluxSourceTarget(source, rs)
  BY DEF fluxSourceTarget
<1>3. LET target == fluxSourceTarget(source, rs)
      IN  target # 0 => target \in ReleaseIds /\ rs[target] # NoRelease
  <2> DEFINE candidates == {r \in ReleaseIds :
                              /\ rs[r] # NoRelease
                              /\ IF source.pinned # "" THEN rs[r].digest = source.pinned
                                 ELSE rs[r].published}
  <2>1. MaxReleases \in Nat /\ candidates \in SUBSET Nat /\ \A m \in candidates : m <= MaxReleases
    <3>1. MaxReleases \in Nat /\ \A m \in ReleaseIds : m \in Nat /\ m <= MaxReleases
      BY FluxBoundsAssumption DEF ReleaseIds
    <3>2. candidates \subseteq ReleaseIds
      OBVIOUS
    <3> HIDE DEF candidates
    <3> QED
      BY <3>1, <3>2
  <2>2. fluxSourceTarget(source, rs) = Greatest(candidates)
    BY DEF fluxSourceTarget
  <2>3. candidates = {} \/ Greatest(candidates) \in candidates
    <3> HIDE DEF candidates
    <3> QED
      BY <2>1, GreatestIs
  <2> QED
    BY <2>2, <2>3 DEF Greatest
<1>4. \A d : Observations(source, kusts, after, d) = Observations(source, kusts, rs, d)
  BY <1>2, <1>3 DEF Observations
<1>5. {r \in ReleaseIds : after[r] # NoRelease /\ r = ByDigest(after, after[r].digest)}
        = {r \in ReleaseIds : rs[r] # NoRelease /\ r = ByDigest(rs, rs[r].digest)}
  BY <1>1
<1> DEFINE newest == {r \in ReleaseIds : rs[r] # NoRelease /\ r = ByDigest(rs, rs[r].digest)}
<1>6. {[Release |-> r, By |-> Observations(source, kusts, after, after[r].digest)] : r \in newest}
        = {[Release |-> r, By |-> Observations(source, kusts, rs, rs[r].digest)] : r \in newest}
  BY <1>4
<1> QED
  BY <1>5, <1>6 DEF Said

\* What ConfigHub gives back of a status is one, with the same source and mark, and
\* keeps the failure it covers.
LEMMA ReceivedIs ==
    ASSUME NEW st \in Statuses
    PROVE  /\ Received(st) \in Statuses /\ Received(st).DataSource = st.DataSource
           /\ fluxMarkedReplaced(Received(st)) <=> fluxMarkedReplaced(st)
           /\ \A old : Kept(old, st) => Kept(old, Received(st))
<1> DEFINE lines == [replacedBy : Nat, from : Names, text : STRING,
                     form : {"whole", "cut", "mended"}]
           give(line) == IF line.text \in BrokenTexts /\ line.form = "whole"
                         THEN [line EXCEPT !.form = "mended"] ELSE line
           given == [i \in 1..Len(st.Message) |-> give(st.Message[i])]
<1>1. /\ st.Part \in Parts /\ st.Message \in Seq(lines)
      /\ Len(st.Message) \in Nat /\ \A i \in 1..Len(st.Message) : st.Message[i] \in lines
  <2>1. st.Part \in Parts /\ st.Message \in Messages /\ Messages = Seq(lines)
    BY StatusesAre DEF Messages
  <2> HIDE DEF lines
  <2> QED
    BY <2>1
<1>2. ASSUME NEW line \in lines
      PROVE  /\ give(line) \in lines /\ give(line).replacedBy = line.replacedBy
             /\ give(line).from = line.from /\ give(line).text = line.text
  OBVIOUS
<1>3. Received(st) = [st EXCEPT !.Message = given]
  BY DEF Received
<1> HIDE DEF give
<1>4. /\ given \in Seq(lines) /\ Len(given) = Len(st.Message)
      /\ \A i \in 1..Len(st.Message) : given[i] = give(st.Message[i])
  BY <1>1, <1>2
<1> HIDE DEF given, lines
<1>5. /\ [st EXCEPT !.Message = given].Message = given
      /\ [st EXCEPT !.Message = given].Part = st.Part
      /\ [st EXCEPT !.Message = given].DataSource = st.DataSource
      /\ given \in Messages => [st EXCEPT !.Message = given] \in Statuses
  BY DEF Statuses
<1>6. given \in Messages
  BY <1>4 DEF Messages, lines
<1>7. /\ given # <<>> <=> st.Message # <<>>
      /\ st.Message # <<>> => Head(given).replacedBy = Head(st.Message).replacedBy
  BY <1>1, <1>2, <1>4
<1>8. fluxMarkedReplaced(Received(st)) <=> fluxMarkedReplaced(st)
  BY <1>3, <1>5, <1>7 DEF fluxMarkedReplaced
<1>9. ASSUME NEW old, Kept(old, st) PROVE Kept(old, Received(st))
  <2>1. /\ Len(given) = Len(old.Message) + 1
        /\ \A i \in 1..Len(old.Message) :
              /\ st.Message[i + 1].from = old.Message[i].from
              /\ st.Message[i + 1].text = old.Message[i].text
    BY <1>4, <1>9 DEF Kept, HasBehind
  <2>2. ASSUME NEW i \in 1..Len(old.Message)
        PROVE  /\ given[i + 1].from = old.Message[i].from
               /\ given[i + 1].text = old.Message[i].text
    <3>1. i + 1 \in 1..Len(st.Message)
      BY <1>1, <1>4, <2>1
    <3>2. given[i + 1] = give(st.Message[i + 1]) /\ st.Message[i + 1] \in lines
      BY <1>1, <1>4, <3>1
    <3> QED
      BY <1>2, <2>1, <3>2
  <2>3. HasBehind(given, old.Message)
    BY <2>1, <2>2, Zenon DEF HasBehind
  <2> QED
    BY <1>3, <1>5, <1>9, <2>3 DEF Kept
<1> QED
  BY <1>3, <1>5, <1>6, <1>8, <1>9

\* The Releases after a plan: each has the status the plan gave it, if it gave one.
IsCarried(plan, rs, after) ==
    \A r \in ReleaseIds :
       /\ \A w \in plan : w.Release = r =>
             \/ after[r] = rs[r] /\ rs[r].live = w.Status
             \/ after[r] = [rs[r] EXCEPT !.live = Received(w.Status)]
       /\ (\A w \in plan : w.Release # r) => after[r] = rs[r]

\* A plan that was carried out is followed by one that says the same again of what
\* the objects speak of, and otherwise takes only the DataSources of marks it made
\* that end inside a namespace.
LEMMA CarriedIs ==
    ASSUME NEW source, NEW kusts, Worded(source, kusts), NEW rs \in Listings,
           NEW after \in Listings, IsCarried(planFluxWrites(source, kusts, rs), rs, after)
    PROVE  LET plan   == planFluxWrites(source, kusts, rs)
               writes == Said(source, kusts, rs)
           IN  /\ Said(source, kusts, after) = writes
               /\ \A w \in writes : after[w.Release].live \in {w.Status, Received(w.Status)}
               /\ \A w \in planFluxWrites(source, kusts, after) \ writes :
                     LET old == after[w.Release].live
                     IN  /\ w \in Writes /\ old \in Statuses /\ fluxMarkedReplaced(old)
                         /\ w.Status = [old EXCEPT !.DataSource = fluxDataSource(old.DataSource)]
                         /\ Fits(old.DataSource) /\ ~WholeNamespaces(old.DataSource)
                         /\ \E v \in plan \ writes : /\ v.Release = w.Release
                                                     /\ old.DataSource = v.Status.DataSource
<1> DEFINE plan   == planFluxWrites(source, kusts, rs)
           writes == Said(source, kusts, rs)
<1>1. /\ \A w \in plan : /\ w \in Writes /\ rs[w.Release] # NoRelease
                         /\ w \notin writes => fluxMarkedReplaced(w.Status)
                         /\ Fits(w.Status.DataSource)
      /\ writes \subseteq plan
      /\ \A w, v \in plan : w.Release = v.Release => w = v
  BY PlanIs DEF planFluxWrites
<1> HIDE DEF plan, writes
<1>2. ASSUME NEW w \in plan
      PROVE  /\ w.Release \in ReleaseIds /\ w.Status \in Statuses
             /\ after[w.Release].live \in {w.Status, Received(w.Status)}
             /\ after[w.Release] \in Releases
             /\ after[w.Release].digest = rs[w.Release].digest
             /\ after[w.Release].published = rs[w.Release].published
  <2>1. w.Release \in ReleaseIds /\ w.Status \in Statuses /\ rs[w.Release] \in Releases
    BY <1>1 DEF Writes, Listings
  <2>2. Received(w.Status) \in Statuses
    BY <2>1, ReceivedIs
  <2>3. \/ after[w.Release] = rs[w.Release] /\ rs[w.Release].live = w.Status
        \/ after[w.Release] = [rs[w.Release] EXCEPT !.live = Received(w.Status)]
    BY <2>1 DEF IsCarried, plan
  <2>4. CASE after[w.Release] = rs[w.Release] /\ rs[w.Release].live = w.Status
    BY <2>1, <2>4
  <2>5. CASE after[w.Release] = [rs[w.Release] EXCEPT !.live = Received(w.Status)]
    <3> DEFINE old == rs[w.Release]
               new == [old EXCEPT !.live = Received(w.Status)]
    <3>1. /\ new.digest = old.digest /\ new.published = old.published
          /\ new.live = Received(w.Status) /\ new \in Releases
      BY <2>1, <2>2, ReleasesAre
    <3> QED
      BY <2>1, <2>5, <3>1
  <2> QED
    BY <2>3, <2>4, <2>5
<1>3. ASSUME NEW r \in ReleaseIds
      PROVE  /\ after[r] = NoRelease <=> rs[r] = NoRelease
             /\ rs[r] # NoRelease => /\ after[r].digest = rs[r].digest
                                     /\ after[r].published = rs[r].published
  <2>1. CASE \A w \in plan : w.Release # r
    BY <2>1 DEF IsCarried, plan
  <2>2. CASE \E w \in plan : w.Release = r
    BY <1>1, <1>2, <2>2, ReleasesAre
  <2> QED
    BY <2>1, <2>2
<1>4. Said(source, kusts, after) = writes
  BY <1>3, SaidSame DEF writes
<1>5. ASSUME NEW running \in RunningOf(writes), NEW r \in ReleaseIds \ {v.Release : v \in writes},
             after[r] # NoRelease, IsReplaced(kusts, after[r], r, running.Release)
      PROVE  LET old == after[r].live
             IN  /\ old \in Statuses /\ fluxMarkedReplaced(old)
                 /\ Fits(old.DataSource) /\ ~WholeNamespaces(old.DataSource)
                 /\ \E v \in plan \ writes : /\ v.Release = r
                                             /\ old.DataSource = v.Status.DataSource
  <2>1. CASE \A w \in plan : w.Release # r
    <3>1. after[r] = rs[r]
      BY <2>1 DEF IsCarried, plan
    <3>2. [Release |-> r,
           Status |-> Replaced(rs[r], running.Status.DataSource, running.Release)] \in plan
      BY <1>5, <3>1 DEF plan, planFluxWrites, Replacements, writes
    <3> QED
      BY <2>1, <3>2
  <2>2. ASSUME NEW v \in plan, v.Release = r
        PROVE  LET old == after[r].live
               IN  /\ old \in Statuses /\ fluxMarkedReplaced(old)
                   /\ Fits(old.DataSource) /\ ~WholeNamespaces(old.DataSource)
                   /\ v \notin writes /\ old.DataSource = v.Status.DataSource
    <3> DEFINE old == after[r].live
    <3>1. v \notin writes /\ old \in {v.Status, Received(v.Status)} /\ v.Status \in Statuses
      BY <1>2, <1>5, <2>2
    <3> HIDE DEF old
    <3>2. /\ fluxMarkedReplaced(v.Status) /\ Fits(v.Status.DataSource)
      BY <1>1, <3>1
    <3>3. /\ old \in Statuses /\ fluxMarkedReplaced(old)
          /\ old.DataSource = v.Status.DataSource
      BY <3>1, <3>2, ReceivedIs
    <3>4. /\ old # NoStatus /\ old.DataSource \in Seq(Names \cup Cuts)
          /\ old.DataSource # <<>> /\ Fits(old.DataSource)
      BY <3>2, <3>3, StatusesAre
    <3>5. fluxDataSource(old.DataSource) # old.DataSource
      BY <1>5, <3>3, <3>4 DEF IsReplaced, old
    <3>6. ~WholeNamespaces(old.DataSource)
      BY <3>4, <3>5, DataSourceIs
    <3> QED
      BY <3>1, <3>3, <3>4, <3>6 DEF old
  <2> QED
    BY <2>1, <2>2
<1>6. ASSUME NEW w \in planFluxWrites(source, kusts, after) \ writes
      PROVE  LET old == after[w.Release].live
             IN  /\ w \in Writes /\ old \in Statuses /\ fluxMarkedReplaced(old)
                 /\ w.Status = [old EXCEPT !.DataSource = fluxDataSource(old.DataSource)]
                 /\ Fits(old.DataSource) /\ ~WholeNamespaces(old.DataSource)
                 /\ \E v \in plan \ writes : /\ v.Release = w.Release
                                             /\ old.DataSource = v.Status.DataSource
  <2>1. PICK running \in RunningOf(writes), r \in ReleaseIds \ {v.Release : v \in writes} :
           /\ after[r] # NoRelease /\ IsReplaced(kusts, after[r], r, running.Release)
           /\ w = [Release |-> r,
                   Status |-> Replaced(after[r], running.Status.DataSource, running.Release)]
    BY <1>4 DEF planFluxWrites, Replacements
  <2>2. w.Release = r
    BY <2>1
  <2>3. /\ after[r].live \in Statuses /\ fluxMarkedReplaced(after[r].live)
        /\ Fits(after[r].live.DataSource) /\ ~WholeNamespaces(after[r].live.DataSource)
        /\ \E v \in plan \ writes : /\ v.Release = r
                                    /\ after[r].live.DataSource = v.Status.DataSource
    BY <1>5, <2>1
  <2>4. after[r].live # NoStatus
    BY <2>3, StatusesAre
  <2>5. w.Status = [after[r].live EXCEPT !.DataSource = fluxDataSource(after[r].live.DataSource)]
    BY <2>1, <2>3, <2>4 DEF Replaced
  <2>6. w \in Writes
    BY PlanIs
  <2> QED
    BY <2>2, <2>3, <2>5, <2>6
<1> QED
  BY <1>1, <1>2, <1>4, <1>6 DEF plan, writes

\* The plan after that has nothing but the same to say again.
LEMMA CarriedTwice ==
    ASSUME NEW source, NEW kusts, Worded(source, kusts), NEW rs \in Listings,
           NEW once \in Listings, IsCarried(planFluxWrites(source, kusts, rs), rs, once),
           NEW twice \in Listings, IsCarried(planFluxWrites(source, kusts, once), once, twice)
    PROVE  \A w \in planFluxWrites(source, kusts, twice) :
              twice[w.Release].live \in {w.Status, Received(w.Status)}
<1> DEFINE writes == Said(source, kusts, rs)
<1>1. /\ Said(source, kusts, once) = writes
      /\ \A v \in planFluxWrites(source, kusts, once) \ writes :
            LET old == once[v.Release].live
            IN  /\ old \in Statuses
                /\ v.Status = [old EXCEPT !.DataSource = fluxDataSource(old.DataSource)]
                /\ Fits(old.DataSource)
  BY CarriedIs
<1>2. /\ Said(source, kusts, twice) = writes
      /\ \A w \in writes : twice[w.Release].live \in {w.Status, Received(w.Status)}
      /\ \A w \in planFluxWrites(source, kusts, twice) \ writes :
            /\ ~WholeNamespaces(twice[w.Release].live.DataSource)
            /\ \E v \in planFluxWrites(source, kusts, once) \ writes :
                  twice[w.Release].live.DataSource = v.Status.DataSource
  <2> DEFINE again == Said(source, kusts, once)
  <2>1. /\ Said(source, kusts, twice) = again
        /\ \A w \in again : twice[w.Release].live \in {w.Status, Received(w.Status)}
        /\ \A w \in planFluxWrites(source, kusts, twice) \ again :
              /\ ~WholeNamespaces(twice[w.Release].live.DataSource)
              /\ \E v \in planFluxWrites(source, kusts, once) \ again :
                    twice[w.Release].live.DataSource = v.Status.DataSource
    <3>1. /\ Said(source, kusts, twice) = again
          /\ \A w \in again : twice[w.Release].live \in {w.Status, Received(w.Status)}
      BY CarriedIs
    <3>2. \A w \in planFluxWrites(source, kusts, twice) \ again :
             LET old == twice[w.Release].live
             IN  /\ w \in Writes /\ old \in Statuses /\ fluxMarkedReplaced(old)
                 /\ w.Status = [old EXCEPT !.DataSource = fluxDataSource(old.DataSource)]
                 /\ Fits(old.DataSource) /\ ~WholeNamespaces(old.DataSource)
                 /\ \E v \in planFluxWrites(source, kusts, once) \ again :
                       /\ v.Release = w.Release
                       /\ old.DataSource = v.Status.DataSource
      BY CarriedIs
    <3> HIDE DEF again
    <3> QED
      BY <3>1, <3>2
  <2>2. again = writes
    BY <1>1
  <2> HIDE DEF again, writes
  <2> QED
    BY <2>1, <2>2
<1> HIDE DEF writes
<1>3. ASSUME NEW v \in planFluxWrites(source, kusts, once) \ writes
      PROVE  WholeNamespaces(v.Status.DataSource)
  <2> DEFINE old == once[v.Release].live
  <2>1. /\ old \in Statuses /\ Fits(old.DataSource)
        /\ v.Status = [old EXCEPT !.DataSource = fluxDataSource(old.DataSource)]
    BY <1>1
  <2> HIDE DEF old
  <2>2. /\ v.Status.DataSource = fluxDataSource(old.DataSource)
        /\ old.DataSource \in Seq(Names \cup Cuts) /\ old.DataSource # <<>>
    BY <2>1, StatusesAre
  <2> QED
    BY <2>1, <2>2, DataSourceIs
<1> QED
  BY <1>2, <1>3
=============================================================================
