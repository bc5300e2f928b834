-------------------------- MODULE ThreadPoolProofs --------------------------
(***************************************************************************)
(* The task queue for any number of workers, tasks and places.             *)
(*                                                                         *)
(* SemMatchesQueue is inductive once the types are known.  That a woken    *)
(* worker finds a task follows from it: the worker itself is one of those  *)
(* that hold a unit of the semaphore, so the queue is not empty.           *)
(***************************************************************************)
EXTENDS ThreadPool, FiniteSetTheorems, SequenceTheorems, TLAPS

LEMMA PoolTypingStep ==
  ASSUME PoolTypeOK, [Next]_poolVars
  PROVE  PoolTypeOK'
<1> USE DEF PoolTypeOK
<1>1. ASSUME NEW t \in Tasks, Push(t) PROVE PoolTypeOK'
  BY <1>1 DEF Push
<1>2. CASE Post
  BY <1>2 DEF Post
<1>3. ASSUME NEW w \in Workers, SemWait(w) PROVE PoolTypeOK'
  BY <1>3 DEF SemWait
<1>4. ASSUME NEW w \in Workers, Fetch(w) PROVE PoolTypeOK'
  <2>1. CASE queue = <<>>
    BY <1>4, <2>1 DEF Fetch
  <2>2. CASE queue # <<>>
    <3>1. Head(queue) \in Tasks /\ Tail(queue) \in Seq(Tasks)
      BY <2>2, HeadTailProperties
    <3>2. QED
      BY <1>4, <2>2, <3>1 DEF Fetch
  <2>3. QED
    BY <2>1, <2>2
<1>5. ASSUME NEW w \in Workers, Finish(w) PROVE PoolTypeOK'
  BY <1>5 DEF Finish
<1>6. CASE UNCHANGED poolVars
  BY <1>6 DEF poolVars
<1>7. QED
  BY <1>1, <1>2, <1>3, <1>4, <1>5, <1>6 DEF Next, Worker

(* The type invariant of the queue: append(), append_p() and run() keep every    *)
(* variable in its set; in particular the semaphore never goes below zero.       *)
THEOREM PoolTyping == Spec => []PoolTypeOK
<1>1. Init => PoolTypeOK
  BY DEF Init, PoolTypeOK
<1>2. PoolTypeOK /\ [Next]_poolVars => PoolTypeOK'
  BY PoolTypingStep
<1>3. QED
  BY <1>1, <1>2, PTL DEF Spec

(* How a worker that enters or leaves "woken" changes the number of woken workers. *)
LEMMA WokenIsFinite == IsFiniteSet(Woken) /\ Cardinality(Woken) \in Nat
BY PoolAssumption, FS_Subset, FS_CardinalityType DEF Woken

LEMMA Wakes ==
  ASSUME NEW w \in Workers, PoolTypeOK, stage[w] = "wait",
         stage' = [stage EXCEPT ![w] = "woken"]
  PROVE  Cardinality(Woken') = Cardinality(Woken) + 1
<1>1. Woken' = Woken \cup {w} /\ w \notin Woken
  BY DEF Woken, PoolTypeOK
<1>2. QED
  BY <1>1, WokenIsFinite, FS_AddElement

LEMMA Rests ==
  ASSUME NEW w \in Workers, PoolTypeOK, stage[w] = "woken",
         NEW s \in {"wait", "run"}, stage' = [stage EXCEPT ![w] = s]
  PROVE  Cardinality(Woken') = Cardinality(Woken) - 1
<1>1. Woken' = Woken \ {w} /\ w \in Woken
  BY DEF Woken, PoolTypeOK
<1>2. QED
  BY <1>1, WokenIsFinite, FS_RemoveElement

LEMMA WokenKept ==
  ASSUME NEW w \in Workers, PoolTypeOK, stage[w] = "run",
         stage' = [stage EXCEPT ![w] = "wait"]
  PROVE  Woken' = Woken
BY DEF Woken, PoolTypeOK

(* A worker that was woken finds the queue not empty. *)
LEMMA WokenFindsTask ==
  ASSUME PoolTypeOK, SemMatchesQueue, NEW w \in Workers, stage[w] = "woken"
  PROVE  queue # <<>>
<1>1. w \in Woken
  BY DEF Woken
<1>2. Cardinality(Woken) # 0
  BY <1>1, WokenIsFinite, FS_EmptySet
<1>3. Len(queue) > 0
  BY <1>2, WokenIsFinite DEF SemMatchesQueue, PoolTypeOK
<1>4. QED
  BY <1>3

PoolInv == PoolTypeOK /\ SemMatchesQueue /\ Len(queue) <= MaxTasks

LEMMA PoolInvHolds == Spec => []PoolInv
<1>1. Init => PoolInv
  <2> SUFFICES ASSUME Init PROVE PoolInv
    OBVIOUS
  <2>1. PoolTypeOK
    BY DEF Init, PoolTypeOK
  <2>2. Woken = {} /\ Cardinality(Woken) = 0
    BY FS_EmptySet DEF Init, Woken
  <2>3. QED
    BY <2>1, <2>2, PoolAssumption DEF Init, PoolInv, SemMatchesQueue
<1>2. PoolInv /\ PoolTypeOK' /\ [Next]_poolVars => PoolInv'
  <2> SUFFICES ASSUME PoolInv, PoolTypeOK', [Next]_poolVars
               PROVE  SemMatchesQueue' /\ (Len(queue) <= MaxTasks)'
    BY DEF PoolInv
  <2> USE WokenIsFinite, PoolAssumption DEF PoolInv
  <2>1. ASSUME NEW t \in Tasks, Push(t) PROVE SemMatchesQueue' /\ (Len(queue) <= MaxTasks)'
    <3>1. Woken' = Woken
      BY <2>1 DEF Push, Woken
    <3>2. Len(queue') = Len(queue) + 1 /\ Len(queue) < MaxTasks
      BY <2>1 DEF Push, PoolTypeOK, QueueFull
    <3>3. QED
      BY <2>1, <3>1, <3>2 DEF Push, SemMatchesQueue, PoolTypeOK
  <2>2. CASE Post
    <3>1. Woken' = Woken
      BY <2>2 DEF Post, Woken
    <3>2. QED
      BY <2>2, <3>1 DEF Post, SemMatchesQueue, PoolTypeOK
  <2>3. ASSUME NEW w \in Workers, SemWait(w) PROVE SemMatchesQueue' /\ (Len(queue) <= MaxTasks)'
    <3>1. Cardinality(Woken') = Cardinality(Woken) + 1
      BY <2>3, Wakes DEF SemWait
    <3>2. QED
      BY <2>3, <3>1 DEF SemWait, SemMatchesQueue, PoolTypeOK
  <2>4. ASSUME NEW w \in Workers, Fetch(w) PROVE SemMatchesQueue' /\ (Len(queue) <= MaxTasks)'
    <3>1. queue # <<>>
      BY <2>4, WokenFindsTask DEF Fetch
    <3>2. Cardinality(Woken') = Cardinality(Woken) - 1
      BY <2>4, <3>1, Rests DEF Fetch
    <3>3. Len(queue') = Len(queue) - 1
      BY <2>4, <3>1 DEF Fetch, PoolTypeOK
    <3>4. QED
      BY <2>4, <3>2, <3>3 DEF Fetch, SemMatchesQueue, PoolTypeOK
  <2>5. ASSUME NEW w \in Workers, Finish(w) PROVE SemMatchesQueue' /\ (Len(queue) <= MaxTasks)'
    <3>1. Woken' = Woken
      BY <2>5, WokenKept DEF Finish
    <3>2. QED
      BY <2>5, <3>1 DEF Finish, SemMatchesQueue
  <2>6. CASE UNCHANGED poolVars
    <3>1. Woken' = Woken
      BY <2>6 DEF poolVars, Woken
    <3>2. QED
      BY <2>6, <3>1 DEF poolVars, SemMatchesQueue
  <2>7. QED
    BY <2>1, <2>2, <2>3, <2>4, <2>5, <2>6 DEF Next, Worker
<1>3. QED
  BY <1>1, <1>2, PoolTyping, PTL DEF Spec

(* Every queued task is paid for by exactly one unit of the semaphore, wherever   *)
(* that unit is: no wake-up of a worker is lost and none is spurious.             *)
THEOREM SemaphoreMatchesQueue == Spec => []SemMatchesQueue
<1>1. PoolInv => SemMatchesQueue
  BY DEF PoolInv
<1>2. QED
  BY <1>1, PoolInvHolds, PTL

(* The queue stays within m_max_task_num, and run() never finds it empty after    *)
(* the semaphore let it through.                                                  *)
THEOREM QueueStaysInBounds == Spec => []QueueInBounds
<1>1. PoolInv => QueueInBounds
  BY WokenFindsTask DEF PoolInv, QueueInBounds
<1>2. QED
  BY <1>1, PoolInvHolds, PTL

\* Until append() has posted, no worker is on its way to the only task of the queue.
Unseen == poster = "post" /\ Len(queue) = 1 => \A w \in Workers : stage[w] # "woken"

LEMMA OwedTaskUnseen == Spec => []Unseen
<1>1. PoolInv => Unseen
  <2> SUFFICES ASSUME PoolInv, poster = "post", Len(queue) = 1, NEW w \in Workers, stage[w] = "woken"
               PROVE  FALSE
    BY DEF Unseen
  <2>1. w \in Woken
    BY DEF Woken
  <2>2. Cardinality(Woken) # 0
    BY <2>1, WokenIsFinite, FS_EmptySet
  <2>3. sem \in Nat /\ Cardinality(Woken) \in Nat
    BY WokenIsFinite DEF PoolInv, PoolTypeOK
  <2>4. 1 = sem + Cardinality(Woken) + 1
    BY DEF PoolInv, SemMatchesQueue
  <2>5. QED
    BY <2>2, <2>3, <2>4
<1>2. QED
  BY <1>1, PoolInvHolds, PTL
=============================================================================
