--------------------------- MODULE MCCredentials ---------------------------
(* Small instances of Credentials for TLC. *)
EXTENDS Credentials, TLC

CONSTANTS r1, r2, a

\* Both requests on the single replica.
OneReplica == [r \in Requests |-> a]
=============================================================================
