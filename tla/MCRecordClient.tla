--------------------------- MODULE MCRecordClient ---------------------------
(* Instances of RecordClient for TLC: the cfg files name the model values. *)
EXTENDS RecordClient, TLC

\* Calls are interchangeable, and so are accounts.
Symm == Permutations(Slots) \cup Permutations(Accounts)
=============================================================================
