--------------------------- MODULE MCUserRegistry ---------------------------
(* Small instances of UserRegistry for TLC.                                  *)
EXTENDS UserRegistry, TLC

CONSTANTS u1, u2, a0, a1, r1, r2, root, mail

OneUser == {u1}
TwoUsers == {u1, u2}
TwoAccounts == {a0, a1}
TwoRequests == {r1, r2}
TwoEmails == {root, mail}

(* Requests are interchangeable.                                             *)
RequestSymmetry == Permutations(TwoRequests)
(* And so are the ids of users.                                              *)
RegistrySymmetry == RequestSymmetry \cup Permutations(TwoUsers)
=============================================================================
