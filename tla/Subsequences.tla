---------------------------- MODULE Subsequences ----------------------------
(***************************************************************************)
(* What the program does to vectors with retain, filter and sum, as loops  *)
(* over the positions, so that SubsequenceProofs can reason about them.    *)
(***************************************************************************)
EXTENDS Naturals, Sequences, SequencesExt

\* Vec::retain, Iterator::filter: the elements at the positions in I, in their order.
Pick(s, I) ==
    LET picked[n \in 0 .. Len(s)] ==
            IF n = 0 THEN << >>
            ELSE IF n \in I THEN Append(picked[n - 1], s[n])
            ELSE picked[n - 1]
    IN picked[Len(s)]

\* The sums of the first n numbers.
Sums(s) ==
    LET sum[n \in 0 .. Len(s)] == IF n = 0 THEN 0 ELSE sum[n - 1] + s[n]
    IN sum

\* Iterator::sum.
Total(s) == Sums(s)[Len(s)]
=============================================================================
