------------------------------ MODULE Orderings ------------------------------
(***************************************************************************)
(* Sorting and filtering: SortSeq and SelectSeq with a relation and a set  *)
(* in place of the operators, so that what they return can be proved       *)
(* (OrderingProofs).  MCClients compares them with the library's on short  *)
(* sequences.                                                              *)
(***************************************************************************)
EXTENDS Integers, Sequences, FiniteSets

\* The elements of P in the order R, a set of pairs <<earlier, later>>.
Listed(P, R) ==
    CHOOSE l \in [1..Cardinality(P) -> P] : \A k, m \in DOMAIN l : k < m => <<l[k], l[m]>> \in R

\* A set of integers, from the least to the greatest.
Rising(P) == CHOOSE l \in [1..Cardinality(P) -> P] : \A k, m \in DOMAIN l : k < m => l[k] < l[m]

\* The elements of s that are in T, in their order; Places says which they are.
Places(s, T) == {k \in DOMAIN s : s[k] \in T}
Filtered(s, T) ==
    LET at == Rising(Places(s, T))
    IN  [k \in DOMAIN at |-> s[at[k]]]
=============================================================================
