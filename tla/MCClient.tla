----------------------------- MODULE MCClient -----------------------------
(* The client for TLC: the part that does not move has one initial state.  *)
EXTENDS Client, TLC

MCInit ==
    /\ SumInit
    /\ part # "records" =>
           rows = [i \in Ids |-> [owner |-> NoUser, status |-> "unborn", favorite |-> FALSE]]
    /\ part # "session" => ses_cookie = NoToken

MCSpec == MCInit /\ [][SumNext]_AllVars

\* Calls, accounts, browser tabs and tokens are interchangeable.
Symm == Permutations(Slots) \cup Permutations(Accounts) \cup Permutations(Tabs)
            \cup Permutations(Flows) \cup Permutations(Tokens)
=============================================================================
