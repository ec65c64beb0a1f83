---------------------------- MODULE PartialSums ----------------------------
(***************************************************************************)
(* The sum of the integers f[1], ..., f[n], written as a recursive         *)
(* function so that PartialSumsProofs can establish what it computes for   *)
(* every n.                                                                *)
(***************************************************************************)
EXTENDS Integers

\* s[i] is the sum of the first i entries of f.
Running(f, n) == LET s[i \in 0 .. n] == IF i = 0 THEN 0 ELSE s[i - 1] + f[i] IN s

SumTo(f, n) == Running(f, n)[n]
=============================================================================
