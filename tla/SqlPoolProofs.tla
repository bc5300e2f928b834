--------------------------- MODULE SqlPoolProofs ---------------------------
(***************************************************************************)
(* What holds of the connection pool for every number of threads and of    *)
(* connections.                                                            *)
(***************************************************************************)
EXTENDS SqlPool, FiniteSetTheorems, SequenceTheorems, TLAPS

Places == {"out", "wait", "pop", "use", "null", "post"}

\* How many threads are where, before and after one of them moves.
LEMMA Headcount == \A where : IsFiniteSet(At(where)) /\ Cardinality(At(where)) \in Nat
BY SqlAssumption, FS_Subset, FS_CardinalityType DEF At

LEMMA Moves ==
  ASSUME SqlTypeOK, NEW t \in Threads, NEW there \in Places, Goto(t, there), there # pc[t]
  PROVE  \A where \in Places :
           Cardinality(At(where))' = CASE where = pc[t] -> Cardinality(At(where)) - 1
                                       [] where = there -> Cardinality(At(where)) + 1
                                       [] OTHER -> Cardinality(At(where))
<1> TAKE where \in Places
<1>1. CASE where = pc[t]
  <2>1. t \in At(where) /\ At(where)' = At(where) \ {t}
    BY <1>1 DEF At, Goto, SqlTypeOK
  <2>2. QED
    BY <1>1, <2>1, Headcount, FS_RemoveElement
<1>2. CASE where = there
  <2>1. t \notin At(where) /\ At(where)' = At(where) \cup {t}
    BY <1>2 DEF At, Goto, SqlTypeOK
  <2>2. QED
    BY <1>2, <2>1, Headcount, FS_AddElement
<1>3. CASE where # pc[t] /\ where # there
  <2>1. At(where)' = At(where)
    BY <1>3 DEF At, Goto, SqlTypeOK
  <2>2. QED
    BY <1>3, <2>1
<1>4. QED
  BY <1>1, <1>2, <1>3

Free == {m_conn_list[i] : i \in 1..Len(m_conn_list)}

(* The inductive invariant: besides the counts, that the list holds nothing twice and *)
(* nothing a thread has, so that a pop takes a connection out of it for good.         *)
Holding == \A t \in Threads : conn[t] # None <=> pc[t] = "use"
FreeOnce == Once(m_conn_list) /\ \A t \in Threads : conn[t] \notin Free
SemCount == Len(m_conn_list) = m_sem + Cardinality(At("pop")) + Cardinality(At("post"))
SqlInv == SqlTypeOK /\ Holding /\ FreeOnce /\ SemCount /\ CountersHonest /\ Lease!Exclusive

LEMMA PoppingFindsOne == SqlInv => SemCountsConns
<1> SUFFICES ASSUME SqlInv, NEW t \in Threads, pc[t] = "pop" PROVE m_conn_list # <<>>
  BY DEF SqlInv, SemCount, SemCountsConns
<1>1. At("pop") # {}
  BY DEF At
<1>2. Cardinality(At("pop")) # 0
  BY <1>1, Headcount, FS_EmptySet
<1>3. Len(m_conn_list) # 0
  BY <1>2, Headcount DEF SqlInv, SqlTypeOK, SemCount
<1>4. QED
  BY <1>3

\* What a pop takes from the list and a push brings back.
LEMMA PopTakes ==
  ASSUME NEW list \in Seq(Conns), list # <<>>, Once(list)
  PROVE  /\ Head(list) \in Conns /\ Tail(list) \in Seq(Conns)
         /\ Len(Tail(list)) = Len(list) - 1
         /\ Once(Tail(list))
         /\ Head(list) \in {list[i] : i \in 1..Len(list)}
         /\ {Tail(list)[i] : i \in 1..Len(Tail(list))}
              = {list[i] : i \in 1..Len(list)} \ {Head(list)}
<1>1. /\ Head(list) \in Conns /\ Tail(list) \in Seq(Conns)
      /\ Len(list) \in Nat \ {0} /\ Len(Tail(list)) = Len(list) - 1
      /\ Head(list) = list[1]
  BY HeadTailProperties
<1>2. \A i \in 1..Len(Tail(list)) : i + 1 \in 1..Len(list) /\ Tail(list)[i] = list[i + 1]
  BY <1>1
<1>3. DOMAIN list = 1..Len(list) /\ DOMAIN Tail(list) = 1..Len(Tail(list))
  BY <1>1
<1>4. Once(Tail(list))
  BY <1>1, <1>2, <1>3 DEF Once
<1>5. \A i \in 1..Len(list) : i # 1 => i - 1 \in 1..Len(Tail(list)) /\ Tail(list)[i - 1] = list[i]
  BY <1>1
<1>6. \A i \in 1..Len(list) : i # 1 => list[i] # list[1]
  BY <1>1, <1>3 DEF Once
<1>7. {Tail(list)[i] : i \in 1..Len(Tail(list))} = {list[i] : i \in 1..Len(list)} \ {Head(list)}
  <2>1. ASSUME NEW i \in 1..Len(Tail(list))
        PROVE  Tail(list)[i] \in {list[j] : j \in 1..Len(list)} \ {Head(list)}
    BY <1>1, <1>2, <1>6
  <2>2. ASSUME NEW i \in 1..Len(list), list[i] # Head(list)
        PROVE  list[i] \in {Tail(list)[j] : j \in 1..Len(Tail(list))}
    BY <1>1, <1>5, <2>2
  <2>3. QED
    BY <2>1, <2>2
<1>8. 1 \in 1..Len(list)
  BY <1>1
<1>9. QED
  BY <1>1, <1>4, <1>7, <1>8

LEMMA PushBrings ==
  ASSUME NEW list \in Seq(Conns), NEW c \in Conns, Once(list),
         c \notin {list[i] : i \in 1..Len(list)}
  PROVE  /\ Append(list, c) \in Seq(Conns) /\ Len(Append(list, c)) = Len(list) + 1
         /\ Once(Append(list, c))
         /\ {Append(list, c)[i] : i \in 1..Len(Append(list, c))}
              = {list[i] : i \in 1..Len(list)} \cup {c}
<1> DEFINE l == Append(list, c)
<1>1. l \in Seq(Conns) /\ Len(l) = Len(list) + 1 /\ Len(list) \in Nat
  BY AppendProperties
<1>2. \A i \in 1..Len(list) : l[i] = list[i] /\ i \in 1..Len(l)
  BY AppendProperties
<1>3. l[Len(l)] = c /\ Len(l) \in 1..Len(l)
  BY <1>1, AppendProperties
<1>4. \A i \in 1..Len(l) : i = Len(l) \/ i \in 1..Len(list)
  BY <1>1
<1>5. Once(l)
  BY <1>1, <1>2, <1>3, <1>4 DEF Once
<1>6. {l[i] : i \in 1..Len(l)} = {list[i] : i \in 1..Len(list)} \cup {c}
  BY <1>2, <1>3, <1>4
<1>7. QED
  BY <1>1, <1>5, <1>6

-----------------------------------------------------------------------------
(* Every action keeps the invariant, and maps to a step of the lease or to none. *)

LeaseMoves == (\E t \in Threads : Lease!Lend(t) \/ Lease!Return(t)) \/ UNCHANGED <<Free, conn>>

\* Actions that touch neither the list nor what the threads hold.
LEMMA Untouched ==
  ASSUME SqlInv, UNCHANGED <<m_conn_list, conn>>
  PROVE  FreeOnce' /\ Lease!Exclusive' /\ UNCHANGED <<Free, conn>>
BY DEF SqlInv, FreeOnce, Once, Free, Lease!Exclusive

LEMMA Waiting ==
  ASSUME SqlInv, NEW t \in Threads,
         GetChecks(t) \/ GetWaits(t) \/ ReleaseNull(t) \/ ReleasePosts(t)
  PROVE  SqlInv' /\ UNCHANGED <<Free, conn>>
<1> USE DEF SqlInv
<1>1. /\ UNCHANGED <<m_conn_list, conn, m_free_conn_num, m_cur_conn_num>>
      /\ pc[t] \notin {"use"}
  BY DEF GetChecks, GetWaits, ReleaseNull, ReleasePosts
<1>2. FreeOnce' /\ Lease!Exclusive' /\ UNCHANGED <<Free, conn>>
  BY <1>1, Untouched
<1>3. PICK there \in Places :
        /\ Goto(t, there) /\ there # pc[t] /\ there # "use"
        /\ \/ pc[t] = "out" /\ there \in {"null", "wait"} /\ m_sem' = m_sem
           \/ pc[t] = "wait" /\ there = "pop" /\ m_sem > 0 /\ m_sem' = m_sem - 1
           \/ pc[t] = "null" /\ there = "out" /\ m_sem' = m_sem
           \/ pc[t] = "post" /\ there = "out" /\ m_sem' = m_sem + 1
  <2>1. CASE GetChecks(t)
    <3>1. CASE Len(m_conn_list) = 0
      BY <2>1, <3>1 DEF GetChecks, Places
    <3>2. CASE Len(m_conn_list) # 0
      BY <2>1, <3>2 DEF GetChecks, Places
    <3>3. QED
      BY <3>1, <3>2
  <2>2. CASE GetWaits(t)
    BY <2>2 DEF GetWaits, Places
  <2>3. CASE ReleaseNull(t)
    BY <2>3 DEF ReleaseNull, Places
  <2>4. CASE ReleasePosts(t)
    BY <2>4 DEF ReleasePosts, Places
  <2>5. QED
    BY <2>1, <2>2, <2>3, <2>4
<1>4. SqlTypeOK'
  BY <1>1, <1>3 DEF SqlTypeOK, Goto, Places
<1>5. Holding'
  BY <1>1, <1>3 DEF Holding, Goto, SqlTypeOK
<1>6. \A where \in Places :
        Cardinality(At(where))' = CASE where = pc[t] -> Cardinality(At(where)) - 1
                                    [] where = there -> Cardinality(At(where)) + 1
                                    [] OTHER -> Cardinality(At(where))
  BY <1>3, Moves
<1>7. /\ "pop" \in Places /\ "post" \in Places /\ "use" \in Places
      /\ Cardinality(At("pop")) \in Nat /\ Cardinality(At("post")) \in Nat
      /\ m_sem \in Nat /\ Len(m_conn_list) \in Nat
  BY Headcount DEF Places, SqlTypeOK
<1>8. SemCount'
  <2>1. Len(m_conn_list)' = Len(m_conn_list)
    BY <1>1
  <2>2. CASE pc[t] \in {"out", "null"}
    BY <1>3, <1>6, <1>7, <2>1, <2>2 DEF SemCount
  <2>3. CASE pc[t] = "wait"
    BY <1>3, <1>6, <1>7, <2>1, <2>3 DEF SemCount
  <2>4. CASE pc[t] = "post"
    BY <1>3, <1>6, <1>7, <2>1, <2>4 DEF SemCount
  <2>5. QED
    BY <1>3, <2>2, <2>3, <2>4
<1>9. CountersHonest'
  <2>1. Cardinality(At("use"))' = Cardinality(At("use"))
    BY <1>1, <1>3, <1>6, <1>7
  <2>2. QED
    BY <1>1, <2>1 DEF CountersHonest
<1>10. QED
  BY <1>2, <1>4, <1>5, <1>8, <1>9

LEMMA Popping ==
  ASSUME SqlInv, NEW t \in Threads, GetPops(t)
  PROVE  SqlInv' /\ Lease!Lend(t)
<1> USE DEF SqlInv
<1>1. /\ pc[t] = "pop" /\ m_conn_list # <<>> /\ Goto(t, "use") /\ m_sem' = m_sem
      /\ conn' = [conn EXCEPT ![t] = Head(m_conn_list)] /\ m_conn_list' = Tail(m_conn_list)
      /\ m_free_conn_num' = m_free_conn_num - 1 /\ m_cur_conn_num' = m_cur_conn_num + 1
  BY DEF GetPops
<1>2. /\ Head(m_conn_list) \in Conns /\ Tail(m_conn_list) \in Seq(Conns)
      /\ Len(m_conn_list') = Len(m_conn_list) - 1 /\ Once(m_conn_list)'
      /\ Head(m_conn_list) \in Free /\ Free' = Free \ {Head(m_conn_list)}
  BY <1>1, PopTakes DEF SqlTypeOK, FreeOnce, Free, Once
<1>3. conn[t] = None /\ None \notin Conns
  BY <1>1, SqlAssumption DEF Holding
<1>4. SqlTypeOK'
  BY <1>1, <1>2 DEF SqlTypeOK, Goto
<1>5. Holding'
  BY <1>1, <1>2, <1>3 DEF Holding, Goto, SqlTypeOK
<1>6. Lease!Lend(t)
  BY <1>1, <1>2, <1>3 DEF Lease!Lend, Free
<1>7. Free \subseteq Conns
  BY DEF Free, SqlTypeOK
<1>8. Lease!Exclusive'
  <2>1. \A s \in Threads : conn[s] # Head(m_conn_list)
    BY <1>2 DEF FreeOnce
  <2>2. (\A r, s \in Threads : conn[r] # None /\ conn[r] = conn[s] => r = s)'
    BY <1>1, <2>1 DEF Lease!Exclusive, SqlTypeOK
  <2>3. \A s \in Threads : conn'[s] \notin Free'
    BY <1>1, <1>2, <2>1 DEF FreeOnce, SqlTypeOK
  <2>4. \A c \in Conns : c \in Free \/ \E s \in Threads : conn[s] = c
    BY DEF Lease!Exclusive, Free
  <2>5. \A c \in Conns : c \in Free' \/ \E s \in Threads : conn'[s] = c
    BY <1>1, <1>2, <1>3, <2>4 DEF SqlTypeOK
  <2>6. QED
    BY <2>2, <2>3, <2>5 DEF Lease!Exclusive, Free
<1>9. FreeOnce'
  BY <1>2, <1>8 DEF FreeOnce, Lease!Exclusive, Free
<1>10. /\ Cardinality(At("pop"))' = Cardinality(At("pop")) - 1
       /\ Cardinality(At("post"))' = Cardinality(At("post"))
       /\ Cardinality(At("use"))' = Cardinality(At("use")) + 1
  BY <1>1, Moves DEF Places
<1>11. /\ Cardinality(At("pop")) \in Nat /\ Cardinality(At("post")) \in Nat
       /\ Cardinality(At("use")) \in Nat /\ m_sem \in Nat /\ Len(m_conn_list) \in Nat
  BY Headcount DEF SqlTypeOK
<1>12. SemCount' /\ CountersHonest'
  <2>1. SemCount'
    BY <1>1, <1>2, <1>10, <1>11 DEF SemCount
  <2>2. CountersHonest'
    BY <1>1, <1>2, <1>10, <1>11 DEF CountersHonest
  <2>3. QED
    BY <2>1, <2>2
<1>13. QED
  BY <1>4, <1>5, <1>6, <1>8, <1>9, <1>12

LEMMA Releasing ==
  ASSUME SqlInv, NEW t \in Threads, Release(t)
  PROVE  SqlInv' /\ Lease!Return(t)
<1> USE DEF SqlInv
<1>1. /\ pc[t] = "use" /\ Goto(t, "post") /\ m_sem' = m_sem
      /\ conn' = [conn EXCEPT ![t] = None] /\ m_conn_list' = Append(m_conn_list, conn[t])
      /\ m_free_conn_num' = m_free_conn_num + 1 /\ m_cur_conn_num' = m_cur_conn_num - 1
  BY DEF Release
<1>2. conn[t] # None /\ conn[t] \in Conns /\ conn[t] \notin Free /\ None \notin Conns
  BY <1>1, SqlAssumption DEF Holding, FreeOnce, SqlTypeOK
<1>3. /\ m_conn_list' \in Seq(Conns) /\ Len(m_conn_list') = Len(m_conn_list) + 1
      /\ Once(m_conn_list)' /\ Free' = Free \cup {conn[t]}
  BY <1>1, <1>2, PushBrings DEF SqlTypeOK, FreeOnce, Free, Once
<1>4. SqlTypeOK'
  BY <1>1, <1>3 DEF SqlTypeOK, Goto
<1>5. Holding'
  BY <1>1, <1>2 DEF Holding, Goto, SqlTypeOK
<1>6. Lease!Return(t)
  BY <1>1, <1>2, <1>3 DEF Lease!Return, Free
<1>7. Free \subseteq Conns
  BY DEF Free, SqlTypeOK
<1>8. Lease!Exclusive'
  <2>1. \A s \in Threads : s # t => conn[s] # conn[t]
    BY <1>1, <1>2 DEF Lease!Exclusive
  <2>2. (\A r, s \in Threads : conn[r] # None /\ conn[r] = conn[s] => r = s)'
    BY <1>1, <2>1 DEF Lease!Exclusive, SqlTypeOK
  <2>3. \A s \in Threads : conn'[s] \notin Free'
    BY <1>1, <1>2, <1>3, <1>7, <2>1 DEF FreeOnce, SqlTypeOK
  <2>4. \A c \in Conns : c \in Free \/ \E s \in Threads : conn[s] = c
    BY DEF Lease!Exclusive, Free
  <2>5. \A c \in Conns : c \in Free' \/ \E s \in Threads : conn'[s] = c
    BY <1>1, <1>3, <2>4 DEF SqlTypeOK
  <2>6. QED
    BY <2>2, <2>3, <2>5 DEF Lease!Exclusive, Free
<1>9. FreeOnce'
  BY <1>3, <1>8 DEF FreeOnce, Lease!Exclusive, Free
<1>10. /\ Cardinality(At("pop"))' = Cardinality(At("pop"))
       /\ Cardinality(At("post"))' = Cardinality(At("post")) + 1
       /\ Cardinality(At("use"))' = Cardinality(At("use")) - 1
  BY <1>1, Moves DEF Places
<1>11. /\ Cardinality(At("pop")) \in Nat /\ Cardinality(At("post")) \in Nat
       /\ Cardinality(At("use")) \in Nat /\ m_sem \in Nat /\ Len(m_conn_list) \in Nat
  BY Headcount DEF SqlTypeOK
<1>12. SemCount' /\ CountersHonest'
  <2>1. SemCount'
    BY <1>1, <1>3, <1>10, <1>11 DEF SemCount
  <2>2. CountersHonest'
    <3>1. m_free_conn_num = Len(m_conn_list) /\ m_cur_conn_num = Cardinality(At("use"))
      BY DEF CountersHonest
    <3>2. m_free_conn_num' = Len(m_conn_list') /\ m_cur_conn_num' = Cardinality(At("use"))'
      BY <1>1, <1>3, <1>10, <1>11, <3>1
    <3>3. m_free_conn_num' + m_cur_conn_num' = m_free_conn_num + m_cur_conn_num
      BY <1>1, <1>11, <3>1
    <3>4. QED
      BY <3>2, <3>3 DEF CountersHonest
  <2>3. QED
    BY <2>1, <2>2
<1>13. QED
  BY <1>4, <1>5, <1>6, <1>8, <1>9, <1>12

-----------------------------------------------------------------------------
(* The initial list: an injection between finite sets of one size is onto. *)

LEMMA EverythingOpened ==
  ASSUME NEW list \in Opened
  PROVE  /\ list \in Seq(Conns) /\ Len(list) = Cardinality(Conns)
         /\ {list[i] : i \in 1..Len(list)} = Conns
<1> DEFINE n == Cardinality(Conns)
<1>1. n \in Nat
  BY SqlAssumption, FS_CardinalityType
<1>2. list \in [1..n -> Conns] /\ DOMAIN list = 1..n /\ Once(list)
  BY DEF Opened
<1>3. list \in Seq(Conns) /\ Len(list) = n
  BY <1>1, <1>2
<1>4. Cardinality(1..n) = n
  BY <1>1, FS_Interval
<1>5. list \in Injection(1..n, Conns)
  BY <1>2 DEF Once, Injection, IsInjective
<1>6. list \in Surjection(1..n, Conns)
  BY <1>4, <1>5, SqlAssumption, FS_Injection
<1>7. \A c \in Conns : \E i \in 1..n : list[i] = c
  BY <1>6 DEF Surjection
<1>8. QED
  BY <1>2, <1>3, <1>7

LEMMA Starts == Init => SqlInv /\ Lease!Init
<1> SUFFICES ASSUME Init PROVE SqlInv /\ Lease!Init
  OBVIOUS
<1>1. m_conn_list \in Seq(Conns) /\ Len(m_conn_list) = Cardinality(Conns) /\ Free = Conns
  BY EverythingOpened DEF Init, Free
<1>2. \A where \in Places : where # "out" => At(where) = {}
  BY DEF Init, At
<1>3. Cardinality(At("pop")) = 0 /\ Cardinality(At("post")) = 0 /\ Cardinality(At("use")) = 0
  BY <1>2, FS_EmptySet DEF Places
<1>4. Cardinality(Conns) \in Nat
  BY SqlAssumption, FS_CardinalityType
<1>5. SqlTypeOK
  BY <1>1, <1>4 DEF Init, SqlTypeOK
<1>6. Holding
  BY DEF Init, Holding
<1>7. FreeOnce
  BY <1>1, SqlAssumption DEF Init, FreeOnce, Opened
<1>8. SemCount /\ CountersHonest
  BY <1>1, <1>3, <1>4 DEF Init, SemCount, CountersHonest
<1>9. Lease!Exclusive
  BY <1>1, SqlAssumption DEF Init, Lease!Exclusive, Free
<1>10. Lease!Init
  BY <1>1 DEF Init, Lease!Init, Free
<1>11. QED
  BY <1>5, <1>6, <1>7, <1>8, <1>9, <1>10 DEF SqlInv

LEMMA Steps ==
  ASSUME SqlInv, [Next]_sqlVars
  PROVE  SqlInv' /\ LeaseMoves
<1>1. CASE UNCHANGED sqlVars
  <2>1. UNCHANGED <<m_conn_list, m_sem, m_free_conn_num, m_cur_conn_num, pc, conn>>
    BY <1>1 DEF sqlVars
  <2>2. FreeOnce' /\ Lease!Exclusive' /\ UNCHANGED <<Free, conn>>
    BY <2>1, Untouched
  <2>3. SqlTypeOK' /\ Holding' /\ SemCount' /\ CountersHonest'
    BY <2>1 DEF SqlInv, SqlTypeOK, Holding, SemCount, CountersHonest, At
  <2>4. QED
    BY <2>2, <2>3 DEF SqlInv, LeaseMoves
<1>2. ASSUME NEW t \in Threads, GetChecks(t) \/ GetWaits(t) \/ ReleaseNull(t) \/ ReleasePosts(t)
      PROVE  SqlInv' /\ LeaseMoves
  BY <1>2, Waiting DEF LeaseMoves
<1>3. ASSUME NEW t \in Threads, GetPops(t) PROVE SqlInv' /\ LeaseMoves
  BY <1>3, Popping DEF LeaseMoves
<1>4. ASSUME NEW t \in Threads, Release(t) PROVE SqlInv' /\ LeaseMoves
  BY <1>4, Releasing DEF LeaseMoves
<1>5. QED
  BY <1>1, <1>2, <1>3, <1>4 DEF Next, Get, Give

LEMMA InvHolds == Spec => []SqlInv
<1>1. SqlInv /\ [Next]_sqlVars => SqlInv'
  BY Steps
<1>2. QED
  BY <1>1, Starts, PTL DEF Spec

(* The variables keep their types, in every interleaving.                            *)
THEOREM SqlTyping == Spec => []SqlTypeOK
<1>1. SqlInv => SqlTypeOK
  BY DEF SqlInv
<1>2. QED
  BY <1>1, InvHolds, PTL

(* The semaphore pays for every free connection exactly once, so that front() in      *)
(* Get_sql_connect() always finds one.                                                *)
THEOREM SemaphorePaysForConnections == Spec => []SemCountsConns
BY PoppingFindsOne, InvHolds, PTL

(* m_free_conn_num and m_cur_conn_num are what they say and add up to max_conn.       *)
THEOREM CountersAreHonest == Spec => []CountersHonest
<1>1. SqlInv => CountersHonest
  BY DEF SqlInv
<1>2. QED
  BY <1>1, InvHolds, PTL

(* The pool implements the exclusive lease: list, locks and counters together never   *)
(* give a connection to two threads and never lose one.                               *)
THEOREM PoolImplementsLease == Spec => LeaseImplemented
<1>1. Init => Lease!Init
  BY Starts
<1>2. SqlInv /\ [Next]_sqlVars => [Lease!Next]_(Lease!leaseVars)
  BY Steps DEF LeaseMoves, Lease!Next, Lease!leaseVars, Free
<1>3. QED
  BY <1>1, <1>2, InvHolds, PTL DEF Spec, LeaseImplemented, Lease!Spec

(* With a connection for every thread, Get_sql_connect() never returns nullptr: the   *)
(* unlocked size() is positive for a thread that holds nothing, whoever holds the     *)
(* rest.                                                                              *)
THEOREM OneEachNeverRefuses ==
  ASSUME Cardinality(Threads) <= Cardinality(Conns)
  PROVE  Spec => []NeverRefused
<1>1. Init => NeverRefused
  BY DEF Init, NeverRefused
<1>2. SqlInv /\ NeverRefused /\ [Next]_sqlVars => NeverRefused'
  <2> SUFFICES ASSUME SqlInv, NeverRefused, [Next]_sqlVars PROVE NeverRefused'
    OBVIOUS
  <2>1. ASSUME NEW t \in Threads, GetChecks(t) PROVE NeverRefused'
    <3>1. At("use") \subseteq Threads \ {t}
      BY <2>1 DEF At, GetChecks
    <3>2. IsFiniteSet(Threads \ {t}) /\ Cardinality(Threads \ {t}) = Cardinality(Threads) - 1
      BY SqlAssumption, FS_RemoveElement
    <3>3. Cardinality(At("use")) <= Cardinality(Threads) - 1
      BY <3>1, <3>2, FS_Subset
    <3>4. Len(m_conn_list) + Cardinality(At("use")) = Cardinality(Conns)
      BY DEF SqlInv, CountersHonest
    <3>5. /\ Cardinality(Threads) \in Nat /\ Cardinality(Conns) \in Nat
          /\ Cardinality(At("use")) \in Nat /\ Len(m_conn_list) \in Nat
      BY SqlAssumption, FS_CardinalityType, Headcount DEF SqlInv, SqlTypeOK
    <3>6. Len(m_conn_list) # 0
      BY <3>3, <3>4, <3>5
    <3>7. Goto(t, "wait")
      BY <2>1, <3>6 DEF GetChecks
    <3>8. QED
      BY <3>7 DEF Goto, NeverRefused, SqlInv, SqlTypeOK
  <2>2. ASSUME NEW t \in Threads, NEW there \in Places, there # "null", Goto(t, there)
        PROVE  NeverRefused'
    BY <2>2 DEF NeverRefused, Goto, SqlInv, SqlTypeOK
  <2>3. ASSUME NEW t \in Threads, Get(t) \/ Give(t) PROVE NeverRefused'
    BY <2>2, <2>3 DEF Get, Give, GetWaits, GetPops, ReleaseNull, Release, ReleasePosts, Places
  <2>4. CASE UNCHANGED sqlVars
    BY <2>4 DEF NeverRefused, sqlVars
  <2>5. QED
    BY <2>1, <2>3, <2>4 DEF Next
<1>3. QED
  BY <1>1, <1>2, InvHolds, PTL DEF Spec
-----------------------------------------------------------------------------
LeasePromise == Lease!LeaseTypeOK /\ Lease!Exclusive

(* The promise of the lease follows from its two operations alone, whatever implements *)
(* them: with the refinement above it is what sql_connect_pool.cpp gives its callers.  *)
THEOREM LeaseIsExclusive ==
  ASSUME None \notin Conns
  PROVE  Lease!Spec => []LeasePromise
<1> USE DEF LeasePromise, Lease!LeaseTypeOK, Lease!Exclusive, Free
<1>1. Lease!Init => LeasePromise
  BY DEF Lease!Init
<1>2. LeasePromise /\ [Lease!Next]_(Lease!leaseVars) => LeasePromise'
  <2> SUFFICES ASSUME LeasePromise, [Lease!Next]_(Lease!leaseVars)
               PROVE  LeasePromise'
    OBVIOUS
  <2>1. ASSUME NEW t \in Threads, Lease!Lend(t) PROVE LeasePromise'
    <3>1. PICK c \in Free : conn' = [conn EXCEPT ![t] = c] /\ Free' = Free \ {c}
      BY <2>1 DEF Lease!Lend
    <3>2. \A s \in Threads : conn[s] # c
      OBVIOUS
    <3>3. QED
      BY <2>1, <3>1, <3>2 DEF Lease!Lend
  <2>2. ASSUME NEW t \in Threads, Lease!Return(t) PROVE LeasePromise'
    BY <2>2 DEF Lease!Return
  <2>3. CASE UNCHANGED Lease!leaseVars
    BY <2>3 DEF Lease!leaseVars
  <2>4. QED
    BY <2>1, <2>2, <2>3 DEF Lease!Next
<1>3. QED
  BY <1>1, <1>2, PTL DEF Lease!Spec
=============================================================================
