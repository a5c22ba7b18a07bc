----------------------- MODULE LiveStatusText_proofs ------------------------
(* What truncate returns, for every message and every limit.               *)
EXTENDS LiveStatusText, SequenceTheorems, FiniteSetTheorems, TLAPS

\* The ellipsis is three bytes of a text.
LEMMA EllipsisType == Ellipsis \in Seq(Bytes) /\ Len(Ellipsis) = 3
<1>1. Rune(1) = [i \in 1..1 |-> <<1, 1>>]
  BY DEF Rune
<1>2. <<1, 1>> \in Bytes
  BY DEF Bytes, Widths
<1>3. Rune(1) \in Seq(Bytes) /\ Len(Rune(1)) = 1
  BY <1>1, <1>2
<1>4. Rune(1) \o Rune(1) \in Seq(Bytes) /\ Len(Rune(1) \o Rune(1)) = 2
  BY <1>3, ConcatProperties
<1>5. Len(Ellipsis) = Len(Rune(1) \o Rune(1)) + Len(Rune(1)) /\ Ellipsis \in Seq(Bytes)
  BY <1>3, <1>4, ConcatProperties DEF Ellipsis
<1> QED
  BY <1>3, <1>4, <1>5

\* Each of its three bytes is a rune of its own.
LEMMA EllipsisBytes ==
    \A i \in 1..3 : Ellipsis[i] = <<1, 1>> /\ Ellipsis[i][1] = 1 /\ Ellipsis[i][2] = 1
<1>1. Rune(1) \in Seq(Bytes) /\ Len(Rune(1)) = 1 /\ Rune(1)[1] = <<1, 1>>
  <2>1. Rune(1) = [i \in 1..1 |-> <<1, 1>>]
    BY DEF Rune
  <2>2. <<1, 1>> \in Bytes
    BY DEF Bytes, Widths
  <2>3. Rune(1) \in Seq(Bytes) /\ Len(Rune(1)) = 1
    BY <2>1, <2>2
  <2>4. Rune(1)[1] = <<1, 1>>
    <3>1. 1 \in 1..1
      OBVIOUS
    <3> QED
      BY <2>1, <3>1, Zenon
  <2> QED
    BY <2>3, <2>4
<1> DEFINE two == Rune(1) \o Rune(1)
<1>2. two \in Seq(Bytes) /\ Len(two) = 2 /\ two[1] = <<1, 1>> /\ two[2] = <<1, 1>>
  BY <1>1, ConcatProperties
<1> HIDE DEF two
<1>3. Ellipsis = two \o Rune(1)
  BY DEF Ellipsis, two
<1>4. \A i \in 1..3 : Ellipsis[i] = <<1, 1>>
  <2>1. \A i \in 1..3 : Ellipsis[i] = IF i <= 2 THEN two[i] ELSE Rune(1)[i - 2]
    BY <1>1, <1>2, <1>3, ConcatProperties
  <2>2. Ellipsis[1] = <<1, 1>> /\ Ellipsis[2] = <<1, 1>> /\ Ellipsis[3] = <<1, 1>>
    BY <1>1, <1>2, <2>1
  <2> QED
    BY <2>2
<1>5. <<1, 1>>[1] = 1 /\ <<1, 1>>[2] = 1
  OBVIOUS
<1> QED
  BY <1>4, <1>5, Zenon

\* truncate (reporter.go) keeps every text within the limit, leaves one that
\* fits alone, and otherwise returns a prefix and, if there is room, the mark.
LEMMA TruncateBounds ==
    ASSUME NEW s \in Seq(Bytes), NEW n \in Nat
    PROVE  /\ Len(truncate(s, n)) <= n
           /\ Len(s) <= n => truncate(s, n) = s
           /\ Len(s) > n /\ n > 3 =>
                 \E i \in 0..n : truncate(s, n) = SubSeq(s, 1, i) \o Ellipsis
<1>1. Len(s) \in Nat /\ \A i \in 1..Len(s) : s[i] \in Bytes
  BY LenProperties
<1>2. ASSUME NEW m \in Nat, m <= Len(s)
      PROVE  SubSeq(s, 1, m) \in Seq(Bytes) /\ Len(SubSeq(s, 1, m)) = m
  <2>1. \A i \in 1..m : s[i] \in Bytes
    BY <1>1, <1>2
  <2>2. /\ SubSeq(s, 1, m) \in Seq(Bytes)
        /\ Len(SubSeq(s, 1, m)) = IF 1 <= m THEN (m - 1) + 1 ELSE 0
    BY <2>1, SubSeqProperties
  <2> QED
    BY <2>2
<1> DEFINE cut == truncate(s, n)
<1>3. CASE Len(s) <= n
  <2>1. cut = s
    BY <1>3 DEF truncate
  <2>2. ~(Len(s) > n)
    BY <1>1, <1>3
  <2> QED
    BY <1>3, <2>1, <2>2
<1>4. CASE Len(s) > n /\ n <= 3
  <2>1. cut = SubSeq(s, 1, n)
    BY <1>1, <1>4 DEF truncate
  <2>2. Len(cut) <= n
    BY <1>1, <1>2, <1>4, <2>1
  <2>3. ~(Len(s) <= n) /\ ~(n > 3)
    BY <1>1, <1>4
  <2> QED
    BY <2>2, <2>3
<1>5. CASE Len(s) > n /\ n > 3
  <2>1. n - 3 \in Nat /\ n - 3 <= Len(s) /\ n - 3 \in 0..n /\ ~(Len(s) <= n)
    BY <1>1, <1>5
  <2>2. PICK m \in 0..n : m = n - 3
    BY <2>1
  <2> DEFINE prefix == SubSeq(s, 1, m)
  <2>3. cut = prefix \o Ellipsis
    BY <1>1, <1>5, <2>2 DEF truncate
  <2>4. prefix \in Seq(Bytes) /\ Len(prefix) = m
    BY <1>2, <2>1, <2>2
  <2> HIDE DEF prefix
  <2>5. Len(prefix \o Ellipsis) = Len(prefix) + Len(Ellipsis)
    BY <2>4, EllipsisType, ConcatProperties
  <2>6. Len(cut) = n
    BY <2>2, <2>3, <2>4, <2>5, EllipsisType
  <2> USE DEF prefix
  <2>7. \E i \in 0..n : cut = SubSeq(s, 1, i) \o Ellipsis
    BY <2>3
  <2>8. Len(cut) <= n
    BY <2>6
  <2> HIDE DEF cut
  <2>9. /\ Len(cut) <= n
        /\ Len(s) <= n => cut = s
        /\ Len(s) > n /\ n > 3 => \E i \in 0..n : cut = SubSeq(s, 1, i) \o Ellipsis
    BY <2>1, <2>7, <2>8
  <2> QED
    BY <2>9 DEF cut
<1>6. Len(s) <= n \/ (Len(s) > n /\ n <= 3) \/ (Len(s) > n /\ n > 3)
  BY <1>1
<1> QED
  BY <1>3, <1>4, <1>5, <1>6, Zenon

\* The promise truncate's comment makes is kept for every message and limit.
THEOREM TruncationFits ==
    ASSUME NEW s \in Seq(Bytes), NEW n \in Nat
    PROVE  TruncatedFits(s, n)
BY TruncateBounds DEF TruncatedFits

\* The width of a byte's rune and its place in it.
LEMMA RuneBounds ==
    ASSUME NEW b \in Bytes
    PROVE  b[1] \in 1..4 /\ b[2] \in 1..4
<1>1. b \in (1..4) \X (1..4)
  BY DEF Bytes, Widths
<1> QED
  BY <1>1

\* Of a text cut off after m bytes, with the mark put behind, every byte but the
\* last three before the mark is still in a whole rune.
LEMMA CutKeepsRunes ==
    ASSUME NEW s, IsText(s), NEW m \in Nat, m <= Len(s),
           NEW cut, cut = SubSeq(s, 1, m) \o Ellipsis
    PROVE  /\ Len(cut) = m + 3
           /\ \A i \in 1..Len(cut) : ~InRune(cut, i) => i \in (m - 2)..m
<1>1. s \in Seq(Bytes) /\ Len(s) \in Nat /\ \A i \in 1..Len(s) : s[i] \in Bytes
  BY LenProperties DEF IsText
<1> DEFINE prefix == SubSeq(s, 1, m)
<1>2. \A i \in 1..m : s[i] \in Bytes
  BY <1>1
<1>3. /\ prefix \in Seq(Bytes) /\ Len(prefix) = m
      /\ \A i \in 1..m : prefix[i] = s[i]
  BY <1>1, <1>2, SubSeqProperties
<1> HIDE DEF prefix
<1>4. Ellipsis \in Seq(Bytes) /\ Len(Ellipsis) = 3
  BY EllipsisType
<1>5. cut = prefix \o Ellipsis
  BY DEF prefix
<1>6. /\ Len(cut) = m + 3
      /\ \A i \in 1..m : cut[i] = s[i]
      /\ \A i \in 1..(m + 3) : i > m => cut[i] = Ellipsis[i - m]
  <2> DEFINE marked == prefix \o Ellipsis
  <2>0. /\ Len(marked) = Len(prefix) + Len(Ellipsis)
        /\ \A i \in 1..(Len(prefix) + Len(Ellipsis)) :
              marked[i] = IF i <= Len(prefix) THEN prefix[i] ELSE Ellipsis[i - Len(prefix)]
    BY <1>3, <1>4, ConcatProperties
  <2> HIDE DEF marked
  <2>1. /\ Len(cut) = m + 3
        /\ \A i \in 1..(m + 3) : cut[i] = IF i <= m THEN prefix[i] ELSE Ellipsis[i - m]
    BY <1>3, <1>4, <1>5, <2>0 DEF marked
  <2>2. ASSUME NEW i \in 1..m PROVE cut[i] = prefix[i]
    <3>1. i \in 1..(m + 3) /\ i <= m
      OBVIOUS
    <3> QED
      BY <2>1, <3>1
  <2>3. \A i \in 1..(m + 3) : i > m => cut[i] = Ellipsis[i - m]
    BY <2>1
  <2> QED
    BY <1>3, <2>1, <2>2, <2>3
<1>8. ASSUME NEW i \in 1..(m + 3), i > m PROVE InRune(cut, i)
  <2>1. i - m \in 1..3 /\ cut[i] = Ellipsis[i - m]
    BY <1>6, <1>8
  <2>2. cut[i] = <<1, 1>> /\ cut[i][1] = 1 /\ cut[i][2] = 1
    BY <2>1, EllipsisBytes
  <2>3. \A j \in i..i : j = i /\ (j - i) + 1 = 1
    OBVIOUS
  <2> QED
    BY <1>6, <2>2, <2>3 DEF InRune
<1>9. ASSUME NEW i \in 1..m, i <= m - 3 PROVE InRune(cut, i)
  <2>1. i \in 1..Len(s) /\ s[i] \in Bytes /\ i \in Nat /\ cut[i] = s[i]
    BY <1>1, <1>6
  <2> DEFINE first == (i + 1) - s[i][2]
             last  == (first + s[i][1]) - 1
  <2>2. first >= 1 /\ last <= Len(s)
        /\ \A j \in first..last : s[j] = <<s[i][1], (j - first) + 1>>
    BY <2>1 DEF IsText, InRune
  <2>3. first \in Int /\ last \in Int /\ last <= m
    <3>1. PICK width \in 1..4, place \in 1..4 : width = s[i][1] /\ place = s[i][2]
      BY <2>1, RuneBounds
    <3>2. first = (i + 1) - place /\ last = (((i + 1) - place) + width) - 1
      BY <3>1
    <3>3. /\ (i + 1) - place \in Int
          /\ (((i + 1) - place) + width) - 1 \in Int
      BY <2>1
    <3>4. (((i + 1) - place) + width) - 1 <= m
      <4>1. width <= place + 3 /\ i <= m - 3
        BY <1>9
      <4> QED
        BY <2>1, <4>1
    <3> HIDE DEF first, last
    <3> QED
      BY <3>2, <3>3, <3>4
  <2>4. ASSUME NEW j \in first..last PROVE cut[j] = s[j]
    BY <1>6, <2>2, <2>3
  <2>5. last <= Len(cut)
    BY <1>6, <2>3
  <2> QED
    BY <2>1, <2>2, <2>4, <2>5 DEF InRune
<1>10. ASSUME NEW i \in 1..Len(cut), ~InRune(cut, i) PROVE i \in (m - 2)..m
  <2>1. i \in 1..(m + 3)
    BY <1>6
  <2>2. ~(i > m)
    BY <1>8, <1>10, <2>1
  <2>3. ~(i <= m - 3)
    BY <1>9, <1>10, <2>1, <2>2
  <2> QED
    BY <2>1, <2>2, <2>3
<1> QED
  BY <1>6, <1>10

\* Three bytes next to each other, if they are all that is in no whole rune, cost
\* six.
LEMMA BrokenCost ==
    ASSUME NEW s, Len(s) \in Nat, NEW a \in Int, NEW b \in Int, b - a <= 2,
           \A i \in 1..Len(s) : ~InRune(s, i) => i \in a..b
    PROVE  SentLength(s) \in Nat /\ SentLength(s) <= Len(s) + 6
<1> DEFINE Broken == {i \in 1..Len(s) : ~InRune(s, i)}
<1>1. Broken \in SUBSET (a..b)
  OBVIOUS
<1>2. IsFiniteSet(a..b) /\ Cardinality(a..b) = IF a <= b THEN (b - a) + 1 ELSE 0
  BY FS_Interval
<1>3. SentLength(s) = Len(s) + 2 * Cardinality(Broken)
  BY DEF SentLength
<1> HIDE DEF Broken
<1>4. IsFiniteSet(Broken) /\ Cardinality(Broken) <= Cardinality(a..b)
  BY <1>1, <1>2, FS_Subset
<1>5. Cardinality(Broken) \in Nat
  BY <1>4, FS_CardinalityType
<1>6. Cardinality(Broken) <= 3
  BY <1>2, <1>4, <1>5
<1> QED
  BY <1>3, <1>5, <1>6

\* Whatever a controller says and whatever the limit, what is sent of it once it
\* is cut (truncate, mergePatchObject) is at most six bytes over the limit.
THEOREM SentOverrunsBySix ==
    ASSUME NEW s, IsText(s), NEW n \in Nat
    PROVE  SentNearlyFits(s, n)
<1> DEFINE cut == truncate(s, n)
<1>1. s \in Seq(Bytes) /\ Len(s) \in Nat /\ Len(cut) <= n
  BY LenProperties, TruncateBounds DEF IsText
<1>2. Len(cut) \in Nat /\ SentLength(cut) \in Nat /\ SentLength(cut) <= Len(cut) + 6
  <2>1. CASE Len(s) <= n
    <3>1. cut = s
      BY <2>1 DEF truncate
    <3>2. \A i \in 1..Len(s) : ~InRune(s, i) => i \in 1..0
      BY DEF IsText
    <3>3. SentLength(s) \in Nat /\ SentLength(s) <= Len(s) + 6
      BY <1>1, <3>2, BrokenCost, 0 - 1 <= 2, 0 \in Int, 1 \in Int
    <3> QED
      BY <1>1, <3>1, <3>3
  <2>2. CASE Len(s) > n /\ n <= 3
    <3>1. cut = SubSeq(s, 1, n)
      BY <1>1, <2>2 DEF truncate
    <3>2. \A i \in 1..n : s[i] \in Bytes
      BY <1>1, <2>2, LenProperties
    <3>3. Len(SubSeq(s, 1, n)) = IF 1 <= n THEN (n - 1) + 1 ELSE 0
      BY <1>1, <3>2, SubSeqProperties
    <3> HIDE DEF cut
    <3>4. Len(cut) = n
      BY <3>1, <3>3
    <3>5. \A i \in 1..Len(cut) : ~InRune(cut, i) => i \in 1..n
      BY <3>4
    <3>6. n - 1 <= 2 /\ n \in Int
      BY <2>2
    <3>7. Len(cut) \in Nat /\ 1 \in Int
      BY <3>4
    <3> QED
      BY <3>5, <3>6, <3>7, BrokenCost
  <2>3. CASE Len(s) > n /\ n > 3
    <3>1. n - 3 \in Nat /\ n - 3 <= Len(s) /\ ~(Len(s) <= n) /\ ~(n <= 3)
      BY <1>1, <2>3
    <3>2. PICK m \in Nat : m = n - 3
      BY <3>1
    <3>3. cut = SubSeq(s, 1, m) \o Ellipsis
      BY <3>1, <3>2 DEF truncate
    <3> HIDE DEF cut
    <3>4. Len(cut) = m + 3 /\ \A i \in 1..Len(cut) : ~InRune(cut, i) => i \in (m - 2)..m
      BY <3>1, <3>2, <3>3, CutKeepsRunes
    <3>5. m - 2 \in Int /\ m \in Int /\ m - (m - 2) <= 2 /\ Len(cut) \in Nat
      BY <3>4
    <3> QED
      BY <3>4, <3>5, BrokenCost
  <2> QED
    BY <1>1, <2>1, <2>2, <2>3
<1>3. SentLength(cut) <= n + 6
  <2> DEFINE sent == SentLength(cut)
             len == Len(cut)
  <2>1. sent <= len + 6 /\ len <= n /\ len \in Nat
    BY <1>1, <1>2
  <2>2. sent \in Int
    BY <1>2
  <2> HIDE DEF sent, len
  <2>3. sent <= n + 6
    BY <2>1, <2>2
  <2> QED
    BY <2>3 DEF sent
<1> QED
  BY <1>3 DEF SentNearlyFits
=============================================================================
