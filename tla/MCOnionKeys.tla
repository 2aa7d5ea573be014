------------------------------ MODULE MCOnionKeys ------------------------------
(* Small instances of OnionKeys. *)
EXTENDS OnionKeys, TLC

CONSTANTS w1, w2, t1, t2

OpenersAndTags == Permutations({w1, w2}) \cup Permutations({t1, t2})

SetBack == {-3}

================================================================================
