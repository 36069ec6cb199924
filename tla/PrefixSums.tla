----------------------------- MODULE PrefixSums ------------------------------
(* Sums over lists of numbers: the loops that add up column sizes and key     *)
(* bytes.                                                                    *)
EXTENDS Integers, Sequences

\* The sums of the first i numbers of a list.
PartialSums(s) ==
  LET sum[i \in 0 .. Len(s)] == IF i = 0 THEN 0 ELSE sum[i - 1] + s[i] IN sum
=============================================================================
