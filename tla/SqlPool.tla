------------------------------ MODULE SqlPool ------------------------------
(***************************************************************************)
(* Sql_Connection_Pool and Connection_RAII (sql_pool/sql_connect_pool):    *)
(* the list of free connections behind m_lock, counted by m_sem, and the   *)
(* threads that hold one from the constructor of a Connection_RAII to its  *)
(* destructor.                                                             *)
(*                                                                         *)
(* A critical section under m_lock is one action.  The size() that         *)
(* Get_sql_connect() reads without the lock, the sem_wait and the sem_post *)
(* are actions of their own.                                               *)
(***************************************************************************)
EXTENDS Integers, Sequences, FiniteSets

CONSTANTS
  Threads,   \* the threads that use the pool
  Conns,     \* the connections init() opens
  None       \* nullptr

ASSUME SqlAssumption ==
  /\ IsFiniteSet(Threads)
  /\ IsFiniteSet(Conns) /\ Conns # {}
  /\ None \notin Conns

VARIABLES
  m_conn_list,       \* the free connections
  m_sem,             \* value of the semaphore
  m_free_conn_num,
  m_cur_conn_num,
  pc,                \* each thread: out, wait, pop, use, null, post
  conn               \* the connection each thread holds

sqlVars == <<m_conn_list, m_sem, m_free_conn_num, m_cur_conn_num, pc, conn>>

SqlTypeOK ==
  /\ m_conn_list \in Seq(Conns)
  /\ m_sem \in Nat
  /\ m_free_conn_num \in Int /\ m_cur_conn_num \in Int
  /\ pc \in [Threads -> {"out", "wait", "pop", "use", "null", "post"}]
  /\ conn \in [Threads -> Conns \cup {None}]

Once(list) == \A i, j \in DOMAIN list : list[i] = list[j] => i = j

\* The lists init() may leave: every connection once.
Opened == {list \in [1..Cardinality(Conns) -> Conns] : Once(list)}

Init ==
  /\ m_conn_list \in Opened
  /\ m_sem = Len(m_conn_list)
  /\ m_free_conn_num = Len(m_conn_list)
  /\ m_cur_conn_num = 0
  /\ pc = [t \in Threads |-> "out"]
  /\ conn = [t \in Threads |-> None]

Goto(t, where) == pc' = [pc EXCEPT ![t] = where]

\* Get_sql_connect(): an empty list is no reason to wait, the caller gets nullptr.
GetChecks(t) ==
  /\ pc[t] = "out"
  /\ Goto(t, IF Len(m_conn_list) = 0 THEN "null" ELSE "wait")
  /\ UNCHANGED <<m_conn_list, m_sem, m_free_conn_num, m_cur_conn_num, conn>>

\* Mutant of GetWaits: the value is not waited for.
GetWaitsEarly(t) ==
  /\ pc[t] = "wait" /\ m_sem' = m_sem - 1
  /\ Goto(t, "pop")
  /\ UNCHANGED <<m_conn_list, m_free_conn_num, m_cur_conn_num, conn>>

\* Get_sql_connect(): m_sem.wait() returns.
GetWaits(t) ==
  /\ pc[t] = "wait"
  /\ m_sem > 0
  /\ m_sem' = m_sem - 1
  /\ Goto(t, "pop")
  /\ UNCHANGED <<m_conn_list, m_free_conn_num, m_cur_conn_num, conn>>

\* Mutant of GetPops: front() without pop_front().
GetPeeks(t) ==
  /\ pc[t] = "pop" /\ m_conn_list # <<>>
  /\ conn' = [conn EXCEPT ![t] = Head(m_conn_list)]
  /\ m_free_conn_num' = m_free_conn_num - 1 /\ m_cur_conn_num' = m_cur_conn_num + 1
  /\ Goto(t, "use")
  /\ UNCHANGED <<m_conn_list, m_sem>>

\* Get_sql_connect(): the critical section.
GetPops(t) ==
  /\ pc[t] = "pop"
  /\ m_conn_list # <<>>
  /\ conn' = [conn EXCEPT ![t] = Head(m_conn_list)]
  /\ m_conn_list' = Tail(m_conn_list)
  /\ m_free_conn_num' = m_free_conn_num - 1
  /\ m_cur_conn_num' = m_cur_conn_num + 1
  /\ Goto(t, "use")
  /\ UNCHANGED m_sem

\* Realse_sql_connect() of nullptr returns at once.
ReleaseNull(t) ==
  /\ pc[t] = "null"
  /\ Goto(t, "out")
  /\ UNCHANGED <<m_conn_list, m_sem, m_free_conn_num, m_cur_conn_num, conn>>

\* Mutant of Release: ++m_free_conn_num is forgotten.
ReleaseUncounted(t) ==
  /\ pc[t] = "use"
  /\ m_conn_list' = Append(m_conn_list, conn[t]) /\ conn' = [conn EXCEPT ![t] = None]
  /\ m_cur_conn_num' = m_cur_conn_num - 1
  /\ Goto(t, "post")
  /\ UNCHANGED <<m_free_conn_num, m_sem>>

\* Realse_sql_connect(): the critical section.
Release(t) ==
  /\ pc[t] = "use"
  /\ m_conn_list' = Append(m_conn_list, conn[t])
  /\ conn' = [conn EXCEPT ![t] = None]
  /\ m_free_conn_num' = m_free_conn_num + 1
  /\ m_cur_conn_num' = m_cur_conn_num - 1
  /\ Goto(t, "post")
  /\ UNCHANGED m_sem

\* Mutant of ReleasePosts: the post is forgotten.
ReleaseSilently(t) ==
  /\ pc[t] = "post"
  /\ Goto(t, "out")
  /\ UNCHANGED <<m_conn_list, m_sem, m_free_conn_num, m_cur_conn_num, conn>>

\* Realse_sql_connect(): m_sem.post().
ReleasePosts(t) ==
  /\ pc[t] = "post"
  /\ m_sem' = m_sem + 1
  /\ Goto(t, "out")
  /\ UNCHANGED <<m_conn_list, m_free_conn_num, m_cur_conn_num, conn>>

Get(t) == GetWaits(t) \/ GetPops(t)
Give(t) == ReleaseNull(t) \/ Release(t) \/ ReleasePosts(t)

Next == \E t \in Threads : GetChecks(t) \/ Get(t) \/ Give(t)

Spec == Init /\ [][Next]_sqlVars

(* A thread that can go on is scheduled, and Process() returns.  Nobody has to ask *)
(* for a connection, and of several threads in sem_wait any one may get on.        *)
FairSpec ==
  /\ Spec
  /\ \A t \in Threads : WF_sqlVars(Give(t)) /\ WF_sqlVars(GetPops(t))
  /\ WF_sqlVars(\E t \in Threads : GetWaits(t))

-----------------------------------------------------------------------------

At(where) == {t \in Threads : pc[t] = where}

(* Every free connection is paid for once: by the semaphore, by a thread that is past *)
(* sem_wait and has not popped yet, or by a post still owed.  Then front() is never   *)
(* called on an empty list, although the test for it is made long before, unlocked.   *)
SemCountsConns ==
  /\ Len(m_conn_list) = m_sem + Cardinality(At("pop")) + Cardinality(At("post"))
  /\ \A t \in Threads : pc[t] = "pop" => m_conn_list # <<>>

(* The two counters say what the list and the threads have.                           *)
CountersHonest ==
  /\ m_free_conn_num = Len(m_conn_list)
  /\ m_cur_conn_num = Cardinality(At("use"))
  /\ m_free_conn_num + m_cur_conn_num = Cardinality(Conns)

(* The pool implements the exclusive lease: a connection is free, or one thread has   *)
(* it, from the pop in Get_sql_connect() to the push in Realse_sql_connect().         *)
Lease == INSTANCE ConnLease WITH
           free <- {m_conn_list[i] : i \in 1..Len(m_conn_list)}, lent <- conn
LeaseImplemented == Lease!Spec

(* While a thread waits for a connection some thread gets one: no post is lost between *)
(* the unlock in Realse_sql_connect() and the sem_wait.                                *)
WaitersServed == (\E t \in Threads : pc[t] = "wait") ~> \E t \in Threads : pc[t] = "pop"

(* README.md:22: a thread can take a connection at any time.  It never goes on without *)
(* one, with which do_request() would call mysql_query(nullptr).                       *)
NeverRefused == \A t \in Threads : pc[t] # "null"
=============================================================================
