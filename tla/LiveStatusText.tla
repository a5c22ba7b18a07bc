--------------------------- MODULE LiveStatusText ---------------------------
(***************************************************************************)
(* The Message of a LiveStatus, byte by byte: what truncate cuts off a     *)
(* controller's message, and how long it is once mergePatchObject has      *)
(* turned the status to JSON (reporter.go).  A byte is the pair of the     *)
(* UTF-8 width of the rune it belongs to and its place in it; which rune   *)
(* it is does not matter.  JSON cannot hold half a rune: each byte of one  *)
(* is sent as U+FFFD, three bytes long.                                    *)
(***************************************************************************)
EXTENDS Naturals, Sequences, FiniteSets

Widths == 1..4

Bytes == {b \in Widths \X Widths : b[2] <= b[1]}

Rune(w) == [i \in 1..w |-> <<w, i>>]

Ellipsis == Rune(1) \o Rune(1) \o Rune(1)

truncate(s, n) ==
    IF Len(s) <= n THEN s
    ELSE IF n <= 3 THEN SubSeq(s, 1, n)
    ELSE SubSeq(s, 1, n - 3) \o Ellipsis

\* The byte at i is one of a rune that is all there.
InRune(s, i) ==
    LET first == (i + 1) - s[i][2]
        last  == (first + s[i][1]) - 1
    IN  /\ first >= 1 /\ last <= Len(s)
        /\ \A j \in first..last : s[j] = <<s[i][1], (j - first) + 1>>

\* The length of s in the body of the patch, once JSON has been decoded again.
SentLength(s) == Len(s) + 2 * Cardinality({i \in 1..Len(s) : ~InRune(s, i)})

\* A text of whole runes, as a controller's message is.
IsText(s) == s \in Seq(Bytes) /\ \A i \in 1..Len(s) : InRune(s, i)

-----------------------------------------------------------------------------
(* Properties, of a text s and the n of truncate.                          *)

\* "truncate shortens s to at most n bytes, appending an ellipsis marker when
\* it cuts" (the comment on truncate), whatever n is, and a message that fits
\* is left alone.
TruncatedFits(s, n) ==
    /\ Len(truncate(s, n)) <= n
    /\ Len(s) <= n => truncate(s, n) = s
    /\ Len(s) > n /\ n > 3 =>
          \E i \in 0..n : truncate(s, n) = SubSeq(s, 1, i) \o Ellipsis

\* What the cut can cost (truncate, then mergePatchObject): at most one rune is
\* left incomplete, and what is sent is at most six bytes over the limit.
SentNearlyFits(s, n) == SentLength(truncate(s, n)) <= n + 6
=============================================================================
