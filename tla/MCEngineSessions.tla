-------------------------- MODULE MCEngineSessions --------------------------
(* All three engines, each behind a pool of one connection, so that every  *)
(* request runs on what another has left.                                  *)
EXTENDS EngineSessions

CONSTANTS r1, r2, k1

MCFamilies == {"postgres", "mysql", "sqlite"}
MCSchemas == {"sales"}
=============================================================================
