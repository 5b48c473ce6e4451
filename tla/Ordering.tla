------------------------------ MODULE Ordering ------------------------------
(***************************************************************************)
(* sorted(...): the elements of a finite set in the order of a relation,   *)
(* which is strict and total.                                              *)
(***************************************************************************)
EXTENDS Integers, FiniteSets

InOrder(S, less) ==
  CHOOSE f \in [1..Cardinality(S) -> S] :
    \A m, n \in 1..Cardinality(S) : m < n => <<f[m], f[n]>> \in less
=============================================================================
