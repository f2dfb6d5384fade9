------------------------------- MODULE Places -------------------------------
(* Sequences by the places of their entries. *)
EXTENDS Integers, FiniteSets, Sequences

\* The entries of q at the places in S, in their order.
Picked(q, S) ==
  [n \in 1..Cardinality(S) |-> q[CHOOSE k \in S : Cardinality({j \in S : j <= k}) = n]]
=============================================================================
