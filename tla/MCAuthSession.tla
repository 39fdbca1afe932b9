---------------------------- MODULE MCAuthSession ----------------------------
(* Instances of AuthSession for TLC: the cfg files name the model values. *)
EXTENDS AuthSession, TLC

CONSTANTS alice, bob, c1, c2

\* No request and no user is special.
Symm == Permutations(Requests) \cup Permutations(Users)
=============================================================================
