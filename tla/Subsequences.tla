---------------------------- MODULE Subsequences ----------------------------
(***************************************************************************)
(* Sequences made of the places of others: what a loop that appends some   *)
(* of the elements it passes collects, be they the sections of a norm that *)
(* match, the hits of a page that are kept, or the entries of a cache that *)
(* a put leaves alone.                                                     *)
(***************************************************************************)
EXTENDS Integers, Sequences, FiniteSets

\* The numbers of S in ascending order: before the k-th are k - 1 of S.
InOrder(S) == [k \in 1..Cardinality(S) |->
                 CHOOSE i \in S : Cardinality({j \in S : j < i}) = k - 1]

\* The elements of s at the places P.
At(s, P) == [k \in 1..Cardinality(P) |-> s[InOrder(P)[k]]]

=============================================================================
