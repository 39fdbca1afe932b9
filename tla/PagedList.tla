----------------------------- MODULE PagedList -----------------------------
(***************************************************************************)
(* What a list that grows page by page promises: it shows records of the   *)
(* query that is asked for and of no other, each of them once, and loses   *)
(* none while the query stays.  A record that has matched the query may    *)
(* stay in the list when it no longer does.  The hook usePagedRecords and  *)
(* the community gallery implement it, each with requests of its own.      *)
(***************************************************************************)
EXTENDS Naturals, Sequences

CONSTANTS Queries, Records

VARIABLES
    found,   \* the records that each query has found or might have found so far
    asked, listed

vars == <<found, asked, listed>>

Once(s) == \A m, n \in 1..Len(s) : s[m] = s[n] => m = n

Init == found \in [Queries -> SUBSET Records] /\ asked \in Queries /\ listed = <<>>

\* Another query, or the same one afresh, begins with nothing.
Ask == asked' \in Queries /\ listed' = <<>>

Extend ==
    /\ \A n \in 1..Len(listed') : listed'[n] \in found'[asked]
    /\ Once(listed')
    /\ Len(listed) <= Len(listed') /\ SubSeq(listed', 1, Len(listed)) = listed
    /\ UNCHANGED asked

\* Records begin to match a query, or nothing changes.
Widen == \A q \in Queries : found[q] \subseteq found'[q]

Next == Widen /\ (Ask \/ Extend)

Spec == Init /\ [][Next]_vars
=============================================================================
