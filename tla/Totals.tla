------------------------------- MODULE Totals -------------------------------
(***************************************************************************)
(* Sums over numbered slots, the form every running total of the risk code *)
(* takes ("for i, order in enumerate(self.orders): ... c += max_cost").    *)
(* A total is the last entry of the function of its partial sums, so that  *)
(* it can be evaluated by TLC and reasoned about by induction on the slot. *)
(***************************************************************************)
EXTENDS Integers

Lesser(a, b) == IF a <= b THEN a ELSE b

Greater(a, b) == IF a >= b THEN a ELSE b

\* The partial sums of f[1], ..., f[n].
PartialSums(f, n) ==
  LET sum[i \in 0..n] == IF i = 0 THEN 0 ELSE sum[i - 1] + f[i]
  IN  sum

Total(f, n) == PartialSums(f, n)[n]

\* The least element of a non-empty finite set of integers.
Least(S) == CHOOSE m \in S : \A k \in S : m <= k
=============================================================================
