-------------------------- MODULE GenerationQueue --------------------------
(***************************************************************************)
(* What the generation queue promises its users, without transactions,     *)
(* locks, workers or processes: the life cycle of a record and the two     *)
(* per-user limits.  RecordQueue implements it.                            *)
(***************************************************************************)
EXTENDS Naturals, FiniteSets

CONSTANTS Users, Records, Caps, Limits, NoUser

VARIABLES status, owner

vars == <<status, owner>>

Having(u, ss) == {r \in Records : owner[r] = u /\ status[r] \in ss}

BelowCap(u)   == \E n \in Caps : Cardinality(Having(u, {"running"})) < n
BelowLimit(u) == \E n \in Limits : Cardinality(Having(u, {"waiting", "running"})) < n

Become(r, s) == status' = [status EXCEPT ![r] = s] /\ UNCHANGED owner

Init ==
    /\ status = [r \in Records |-> "absent"]
    /\ owner = [r \in Records |-> NoUser]

\* A user's new record joins the queue only below the user's limit.
Admit(r, u) ==
    /\ status[r] = "absent" /\ BelowLimit(u)
    /\ status' = [status EXCEPT ![r] = "waiting"]
    /\ owner' = [owner EXCEPT ![r] = u]

\* A record starts only while its user is below the cap.
Start(r) == status[r] = "waiting" /\ BelowCap(owner[r]) /\ Become(r, "running")

\* A running record ends one way or the other.
Finish(r) == status[r] = "running" /\ (Become(r, "completed") \/ Become(r, "failed"))

\* Only a failed record returns to the queue, and only below the limit.
Retry(r) == status[r] = "failed" /\ BelowLimit(owner[r]) /\ Become(r, "waiting")

Remove(r) == status[r] # "absent" /\ Become(r, "deleted")

\* A restart puts every running record back in the queue.
Restart ==
    /\ status' = [r \in Records |-> IF status[r] = "running" THEN "waiting" ELSE status[r]]
    /\ UNCHANGED owner

Next ==
    \/ \E r \in Records, u \in Users : Admit(r, u)
    \/ \E r \in Records : Start(r) \/ Finish(r) \/ Retry(r) \/ Remove(r)
    \/ Restart

Spec == Init /\ [][Next]_vars
=============================================================================
