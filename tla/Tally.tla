------------------------------- MODULE Tally -------------------------------
(***************************************************************************)
(* Sums of a function into the naturals over a finite set, as numbers of   *)
(* units: index c contributes the pairs <<c, 1>> ... <<c, f[c]>>.  Stated  *)
(* with sets instead of recursion, so that they can be reasoned about      *)
(* (CountingLemmas).                                                       *)
(***************************************************************************)
EXTENDS Integers, FiniteSets

Row(c, n) == {<<c, i>> : i \in 1 .. n}
Units(f, S) == UNION {Row(c, f[c]) : c \in S}

(* the sum of f[c] over all c in S                                         *)
Total(f, S) == Cardinality(Units(f, S))
=============================================================================
