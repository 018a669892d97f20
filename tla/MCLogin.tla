------------------------------- MODULE MCLogin -------------------------------
(* Two logins, two browsers and two callbacks at a time; the roles of the  *)
(* user come and go.                                                       *)
EXTENDS Login, TLC

CONSTANTS b1, b2, l1, l2, c1, c2

MCRealm == {{}, {"dbm-write"}}
Symmetry == Permutations({b1, b2}) \cup Permutations({l1, l2}) \cup Permutations({c1, c2})
MCBackends == {"memory", "redis"}
=============================================================================
