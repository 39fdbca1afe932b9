--------------------------- MODULE MCRecordQueue ---------------------------
(* Instances of RecordQueue for TLC: the cfg files name the model values. *)
EXTENDS RecordQueue, TLC

CONSTANTS u1, u2, w1, w2, c1, c2, png, webp

\* Users, workers, requests and file types are interchangeable.
Symm == Permutations(Users) \cup Permutations(Workers) \cup Permutations(Requests)
            \cup Permutations(Extensions)
=============================================================================
