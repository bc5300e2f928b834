----------------------------- MODULE MCSqlPool -----------------------------
(* The connection pool with a few threads and connections, in every order *)
(* of the list: small enough to do without symmetry.                      *)
EXTENDS SqlPool
=============================================================================
