------------------------------ MODULE Listing ------------------------------
(***************************************************************************)
(* What a server that sorts by id and a client that filters make of their  *)
(* records.  SelectSeq and SortSeq would say the same; these are defined   *)
(* by counting, not by recursion, so that theorems can be proved of them.  *)
(***************************************************************************)
EXTENDS Naturals, Sequences, FiniteSets

\* The n-th of the numbers in S.
Nth(S, n) == CHOOSE i \in S : Cardinality({j \in S : j <= i}) = n

\* ORDER BY id DESC.
Descending(S) == [n \in 1..Cardinality(S) |-> Nth(S, Cardinality(S) + 1 - n)]

\* Array.filter: what s has at the places in K.
Keep(s, K) == [n \in 1..Cardinality(K) |-> s[Nth(K, n)]]
=============================================================================
