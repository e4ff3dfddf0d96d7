---------------------------------- MODULE Sums ----------------------------------
(***************************************************************************)
(* Python's sum, as a recursive function.                                  *)
(***************************************************************************)
EXTENDS Integers, Sequences

\* The elements of a sequence of numbers added up.
Total(s) ==
  LET upTo[i \in 0 .. Len(s)] == IF i = 0 THEN 0 ELSE upTo[i - 1] + s[i]
  IN  upTo[Len(s)]
================================================================================
