---------------------------- MODULE Subsequences ----------------------------
(* Picking entries out of a sequence by their indexes.                     *)
EXTENDS Naturals, Sequences, FiniteSets

\* The entries of s at the indexes in S, in their order.
Entries(s, S) ==
    [k \in 1 .. Cardinality(S) |->
        s[CHOOSE i \in S : Cardinality({j \in S : j <= i}) = k]]

=============================================================================
