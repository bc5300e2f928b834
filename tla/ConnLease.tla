----------------------------- MODULE ConnLease -----------------------------
(***************************************************************************)
(* What the database connection pool promises its users, whatever its      *)
(* locks and counters: a connection is free or lent to one thread, a       *)
(* thread is lent a free one at a time, and returns the one it was lent.   *)
(***************************************************************************)
CONSTANTS Threads, Conns, None

VARIABLES
  free,    \* connections nobody has
  lent     \* the connection each thread has, or None

leaseVars == <<free, lent>>

LeaseTypeOK ==
  /\ free \subseteq Conns
  /\ lent \in [Threads -> Conns \cup {None}]

Init ==
  /\ free = Conns
  /\ lent = [t \in Threads |-> None]

Lend(t) ==
  /\ lent[t] = None
  /\ \E c \in free : /\ lent' = [lent EXCEPT ![t] = c]
                     /\ free' = free \ {c}

Return(t) ==
  /\ lent[t] # None
  /\ free' = free \cup {lent[t]}
  /\ lent' = [lent EXCEPT ![t] = None]

Next == \E t \in Threads : Lend(t) \/ Return(t)

Spec == Init /\ [][Next]_leaseVars

-----------------------------------------------------------------------------

(* Two threads never talk over one connection, a lent one is not free, and none *)
(* gets lost: sql_connect_pool.cpp is used by all workers at once.              *)
Exclusive ==
  /\ \A s, t \in Threads : lent[s] # None /\ lent[s] = lent[t] => s = t
  /\ \A t \in Threads : lent[t] \notin free
  /\ \A c \in Conns : c \in free \/ \E t \in Threads : lent[t] = c
=============================================================================
