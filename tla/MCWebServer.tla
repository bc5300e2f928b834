---------------------------- MODULE MCWebServer ----------------------------
(* The server on a few connections, descriptors and workers.  None of the three *)
(* is ordered or compared but for equality, so their permutations are symmetric. *)
EXTENDS WebServer, TLC

Symmetry == Permutations(Workers) \cup Permutations(Clients) \cup Permutations(Fds)
=============================================================================
