----------------------------- MODULE ThreadPool -----------------------------
(***************************************************************************)
(* The task queue of Thread_Pool<T> (thread_poll/thread_poll.h): a list of *)
(* task pointers behind m_locker, counted by the semaphore m_sem, with one *)
(* appending thread (the event loop) and m_thread_num detached workers.    *)
(*                                                                         *)
(* A critical section under m_locker is one action.  What happens outside  *)
(* it is an action of its own: the sem_post that follows a push, and the   *)
(* sem_wait that precedes a pop.                                           *)
(***************************************************************************)
EXTENDS Integers, Sequences, FiniteSets

CONSTANTS
  Tasks,      \* the task objects whose pointers may be appended
  Workers,    \* the worker threads created by the constructor
  MaxTasks,   \* m_max_task_num
  NoTask      \* a worker's task pointer before it fetched one

ASSUME PoolAssumption ==
  /\ IsFiniteSet(Workers)
  /\ MaxTasks \in Nat \ {0}    \* the constructor rejects max_task_num <= 0
  /\ NoTask \notin Tasks

VARIABLES
  queue,      \* m_task_queue
  sem,        \* value of m_sem
  poster,     \* the appending thread: "ready", or "post" inside append()
  stage,      \* each worker: in sem_wait, woken, or running a task
  task        \* the pointer each worker popped and works on

poolVars == <<queue, sem, poster, stage, task>>

PoolTypeOK ==
  /\ queue \in Seq(Tasks)
  /\ sem \in Nat
  /\ poster \in {"ready", "post"}
  /\ stage \in [Workers -> {"wait", "woken", "run"}]
  /\ task \in [Workers -> Tasks \cup {NoTask}]

Init ==
  /\ queue = <<>>
  /\ sem = 0
  /\ poster = "ready"
  /\ stage = [w \in Workers |-> "wait"]
  /\ task = [w \in Workers |-> NoTask]

\* Mutant of QueueFull: off by one.
QueueFullLate == Len(queue) > MaxTasks

QueueFull == Len(queue) >= MaxTasks

(* append() / append_p(), the critical section that accepts the task.  When the *)
(* queue is full they return false and change nothing.                          *)
Push(t) ==
  /\ poster = "ready"
  /\ ~QueueFull
  /\ queue' = Append(queue, t)
  /\ poster' = "post"
  /\ UNCHANGED <<sem, stage, task>>

\* Mutants of Post: posting twice, and not at all.
PostTwice == /\ poster = "post" /\ poster' = "ready" /\ sem' = sem + 2
             /\ UNCHANGED <<queue, stage, task>>
PostLost  == /\ poster = "post" /\ poster' = "ready"
             /\ UNCHANGED <<sem, queue, stage, task>>

(* m_sem.post() after the lock is released. *)
Post ==
  /\ poster = "post"
  /\ sem' = sem + 1
  /\ poster' = "ready"
  /\ UNCHANGED <<queue, stage, task>>

\* Mutant of SemWait: the wait is interrupted and counts as a success.
SemWaitEarly(w) == /\ stage[w] = "wait" /\ sem' = sem - 1
                   /\ stage' = [stage EXCEPT ![w] = "woken"]
                   /\ UNCHANGED <<queue, poster, task>>

(* run(): m_sem.wait() returns. *)
SemWait(w) ==
  /\ stage[w] = "wait"
  /\ sem > 0
  /\ sem' = sem - 1
  /\ stage' = [stage EXCEPT ![w] = "woken"]
  /\ UNCHANGED <<queue, poster, task>>

(* run(): the critical section, with its way back to sem_wait on an empty queue. *)
Fetch(w) ==
  /\ stage[w] = "woken"
  /\ IF queue = <<>>
       THEN /\ stage' = [stage EXCEPT ![w] = "wait"]
            /\ UNCHANGED <<queue, task>>
       ELSE /\ stage' = [stage EXCEPT ![w] = "run"]
            /\ task' = [task EXCEPT ![w] = Head(queue)]
            /\ queue' = Tail(queue)
  /\ UNCHANGED <<sem, poster>>

(* run(): the task's work is over, its pointer goes out of scope and the loop is *)
(* back at sem_wait.                                                             *)
Finish(w) ==
  /\ stage[w] = "run"
  /\ stage' = [stage EXCEPT ![w] = "wait"]
  /\ task' = [task EXCEPT ![w] = NoTask]
  /\ UNCHANGED <<queue, sem, poster>>

Worker(w) == SemWait(w) \/ Fetch(w) \/ Finish(w)

Next ==
  \/ \E t \in Tasks : Push(t)
  \/ Post
  \/ \E w \in Workers : Worker(w)

Spec == Init /\ [][Next]_poolVars

(* The appending thread is past the lock and will post; a worker that can run *)
(* is scheduled, and every task's work ends.  Nobody has to append.           *)
FairSpec ==
  /\ Spec
  /\ WF_poolVars(Post)
  /\ \A w \in Workers : WF_poolVars(Worker(w))

-----------------------------------------------------------------------------

Woken == {w \in Workers : stage[w] = "woken"}

(* Every queued task is paid for exactly once: by a unit of the semaphore, by a *)
(* worker that has consumed one and not popped yet, or by the post append()     *)
(* still owes.  A surplus would send workers to an empty queue, a deficit would *)
(* leave a task that no worker is ever woken for.                               *)
SemMatchesQueue ==
  Len(queue) = sem + Cardinality(Woken) + (IF poster = "post" THEN 1 ELSE 0)

(* The bound that append() checks under the lock holds at every moment, and a   *)
(* woken worker always finds a task: run()'s empty-queue branch is never taken. *)
QueueInBounds ==
  /\ Len(queue) <= MaxTasks
  /\ \A w \in Workers : stage[w] = "woken" => queue # <<>>

Queued(t) == \E i \in 1..Len(queue) : queue[i] = t
Runs(w, t) == stage[w] = "run" /\ task[w] = t

(* A task accepted by append() is eventually run by some worker: no wake-up is *)
(* lost between the unlock in append() and the sem_wait in run().              *)
AcceptedTaskRuns ==
  \A t \in Tasks : Queued(t) ~> \E w \in Workers : Runs(w, t)
=============================================================================
