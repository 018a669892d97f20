---------------------------- MODULE MCRateLimit ----------------------------
(* Small instances of RateLimit for TLC. *)
EXTENDS RateLimit, TLC

Symmetric == Permutations(Requests) \cup Permutations(Clients)
=============================================================================
