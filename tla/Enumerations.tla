---------------------------- MODULE Enumerations ----------------------------
(* Finite sets of numbers, listed in order. *)
EXTENDS Naturals, Sequences, FiniteSets

\* In order: the i-th number is the one that i - 1 others come before.
Ascending(S) ==
  [i \in 1 .. Cardinality(S) |-> CHOOSE n \in S : Cardinality({m \in S : m < n}) = i - 1]
=============================================================================
