-------------------------- MODULE MCAdminSessions ---------------------------
(* Small instances of AdminSessions for TLC.                                 *)
EXTENDS AdminSessions, TLC

CONSTANTS a0, a1, s1, s2, r1, r2, root, mail

TwoAdmins == {a0, a1}
OneSession == {s1}
TwoSessions == {s1, s2}
OneRequest == {r1}
TwoRequests == {r1, r2}
TwoNames == {root, mail}

(* Requests and session ids are interchangeable.                             *)
SessionSymmetry == Permutations(TwoRequests) \cup Permutations(TwoSessions)
=============================================================================
