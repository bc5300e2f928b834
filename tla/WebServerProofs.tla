-------------------------- MODULE WebServerProofs --------------------------
(***************************************************************************)
(* What holds of the server for every number of connections, descriptors,  *)
(* workers and queue places, in both event modes, even when the pool works *)
(* in the other mode than the server.                                      *)
(***************************************************************************)
EXTENDS WebServer, SequenceTheorems, TLAPS

PoolProofs == INSTANCE ThreadPoolProofs WITH Tasks <- Fds, NoTask <- None

USE DEF Accepting

-----------------------------------------------------------------------------
(* The server implements the task queue. *)

LEMMA PoolConstants == PoolProofs!PoolAssumption
<1>1. IsFiniteSet(Workers) /\ MaxTasks \in Nat \ {0} /\ None \notin Fds
  BY ServerAssumption
<1>2. QED
  BY <1>1 DEF IsFiniteSet, PoolProofs!IsFiniteSet

LEMMA LoopStepsPool ==
  ASSUME EventLoop, batch \subseteq Event
  PROVE  (\E f \in Fds : Pool!Push(f)) \/ Pool!Post \/ UNCHANGED poolVars
<1> USE DEF poolVars
<1>1. ASSUME NEW e \in batch, ReactorAppend(e)
      PROVE  (\E f \in Fds : Pool!Push(f)) \/ UNCHANGED poolVars
  BY <1>1 DEF ReactorAppend, Event
<1>2. ASSUME NEW e \in batch, ProactorRead(e)
      PROVE  (\E f \in Fds : Pool!Push(f)) \/ UNCHANGED poolVars
  BY <1>2 DEF ProactorRead, Event
<1>3. CASE AppendPosts
  BY <1>3 DEF AppendPosts
<1>4. ASSUME NEW e \in batch, DealClientData(e) \/ HangUp(e) \/ ProactorWrite(e)
      PROVE  UNCHANGED poolVars
  BY <1>4 DEF DealClientData, HangUp, ProactorWrite
<1>5. ASSUME \/ AcceptFails \/ Refuse \/ (\E f \in Fds : Accept(f)) \/ CountLoads
             \/ Register \/ SpinEnds \/ CbFun \/ DelTimer
      PROVE  UNCHANGED poolVars
  BY <1>5 DEF AcceptFails, Refuse, Accept, CountLoads, Register, SpinEnds, CbFun, DelTimer
<1>6. ASSUME NEW room \in SUBSET Fds, EpollWait(room) PROVE UNCHANGED poolVars
  BY <1>6 DEF EpollWait
<1>7. QED
  BY <1>1, <1>2, <1>3, <1>4, <1>5, <1>6 DEF EventLoop, LoopStep

LEMMA WorkerStepsPool ==
  ASSUME NEW w \in Workers, WorkerStep(w)
  PROVE  Pool!Worker(w) \/ UNCHANGED poolVars
BY DEF WorkerStep, Pool!Worker, poolVars, AwaitTask, FetchTask, WorkerReads, WorkerWrites,
       ReportFailure, ProcessIncomplete, ProcessRespond, ProcessClose, CloseUncounts,
       CloseForgets, CloseRearms, Done, Continue

LEMMA StepsPool ==
  ASSUME [Next]_vars, batch \subseteq Event
  PROVE  [Pool!Next]_poolVars
<1>1. CASE EventLoop
  BY <1>1, LoopStepsPool DEF Pool!Next
<1>2. ASSUME NEW w \in Workers, WorkerStep(w) PROVE [Pool!Next]_poolVars
  BY <1>2, WorkerStepsPool DEF Pool!Next
<1>3. ASSUME NEW c \in Clients, ClientStep(c) PROVE UNCHANGED poolVars
  BY <1>3 DEF ClientStep, Connect, Send, Fin, poolVars
<1>4. CASE EpollTimeout \/ UNCHANGED vars
  BY <1>4 DEF EpollTimeout, vars, poolVars
<1>5. QED
  BY <1>1, <1>2, <1>3, <1>4 DEF Next

LEMMA PoolNextSame ==
  ASSUME [Pool!Next]_poolVars
  PROVE  [PoolProofs!Next]_(PoolProofs!poolVars)
BY DEF Pool!Next, PoolProofs!Next, Pool!Push, PoolProofs!Push, Pool!QueueFull,
       PoolProofs!QueueFull, Pool!Post, PoolProofs!Post, Pool!Worker, PoolProofs!Worker,
       Pool!SemWait, PoolProofs!SemWait, Pool!Fetch, PoolProofs!Fetch, Pool!Finish,
       PoolProofs!Finish, PoolProofs!poolVars, poolVars

LEMMA PoolTypingKept ==
  ASSUME Pool!PoolTypeOK, [Pool!Next]_poolVars
  PROVE  Pool!PoolTypeOK'
<1>1. PoolProofs!PoolTypeOK
  BY DEF Pool!PoolTypeOK, PoolProofs!PoolTypeOK
<1>2. [PoolProofs!Next]_(PoolProofs!poolVars)
  BY PoolNextSame
<1>3. PoolProofs!PoolTypeOK'
  BY <1>1, <1>2, PoolConstants, PoolProofs!PoolTypingStep
<1>4. QED
  BY <1>3 DEF Pool!PoolTypeOK, PoolProofs!PoolTypeOK

-----------------------------------------------------------------------------
(* Types. *)

LEMMA UserFields ==
  ASSUME NEW u \in User
  PROVE  /\ \A s \in Fds, c \in Clients : [u EXCEPT !.m_sock = s, !.m_address = c] \in User
         /\ \A s \in Fds \cup {None} : [u EXCEPT !.m_sock = s] \in User
         /\ \A b \in {0, 1} : [u EXCEPT !.m_imprv = b] \in User
         /\ \A b \in {0, 1} : [u EXCEPT !.m_timer_trig = b] \in User
         /\ \A b \in {0, 1} : [u EXCEPT !.m_state = b] \in User
         /\ [u EXCEPT !.m_sock = None] \in User
         /\ \A r \in Requests \cup {None} : [u EXCEPT !.buf = r] \in User
         /\ [u EXCEPT !.buf = None] \in User
         /\ \A n \in 0..Windows : [u EXCEPT !.to_send = n] \in User
BY DEF User

\* What a worker assigns leaves the address alone.
LEMMA AddressFields ==
  ASSUME NEW u \in User
  PROVE  /\ \A s : [u EXCEPT !.m_sock = s].m_address = u.m_address
         /\ \A b : [u EXCEPT !.m_imprv = b].m_address = u.m_address
         /\ \A b : [u EXCEPT !.m_timer_trig = b].m_address = u.m_address
         /\ \A r : [u EXCEPT !.buf = r].m_address = u.m_address
         /\ \A n : [u EXCEPT !.to_send = n].m_address = u.m_address
BY DEF User

LEMMA ClearedTyped ==
  ASSUME NEW u \in User
  PROVE  Cleared(u) \in User
BY ServerAssumption DEF User, Cleared

LEMMA ParsedTyped ==
  ASSUME NEW u \in User
  PROVE  Parsed(u) \in User
BY DEF User, Parsed, Target

LEMMA PeerTyped ==
  ASSUME ServerTypeOK, NEW u \in User
  PROVE  Peer(u) \in Clients \cup {None}
BY DEF ServerTypeOK, User, Peer

LEMMA ReceivedTyped ==
  ASSUME ServerTypeOK, NEW u \in User, ReadSucceeds(u)
  PROVE  /\ Received(u) \in User
         /\ Drained(u) \in [Clients -> Requests \cup {None}]
<1>1. Peer(u) \in Clients /\ sent[Peer(u)] \in Requests \cup {None}
  BY PeerTyped DEF ReadSucceeds, ServerTypeOK
<1>2. Received(u) \in User
  <2>1. u.buf \in Requests \cup {None}
    BY DEF User
  <2>2. (IF sent[Peer(u)] = None THEN u.buf ELSE sent[Peer(u)]) \in Requests \cup {None}
    BY <1>1, <2>1
  <2>3. QED
    BY <2>2, UserFields DEF Received
<1>3. QED
  BY <1>1, <1>2 DEF Drained, ServerTypeOK

LEMMA OutcomesTyped ==
  ASSUME ServerTypeOK, NEW u \in User, NEW r \in WriteOutcomes(u)
  PROVE  r.user \in User /\ r.ok \in BOOLEAN /\ r.ev \in {"none", "in", "out"}
<1>1. Windows \in Nat \ {0} /\ u.to_send \in 0..Windows
  BY ServerAssumption DEF User
<1>2. CASE r = WriteEnds(u)
  <2>0. 0 \in 0..Windows
    BY <1>1
  <2>1. Cleared(u) \in User /\ [u EXCEPT !.to_send = 0] \in User
    BY <2>0, ClearedTyped, UserFields
  <2>2. CASE u.m_link \/ u.to_send = 0
    BY <1>2, <2>1, <2>2 DEF WriteEnds
  <2>3. CASE ~(u.m_link \/ u.to_send = 0)
    BY <1>2, <2>1, <2>3 DEF WriteEnds
  <2>4. QED
    BY <2>2, <2>3
<1>3. CASE r = WriteFails(u)
  BY <1>3 DEF WriteFails
<1>4. ASSUME NEW left \in 1..(u.to_send - 1), r = WriteStalls(u, left)
      PROVE  r.user \in User /\ r.ok \in BOOLEAN /\ r.ev \in {"none", "in", "out"}
  <2>0. left \in 0..Windows
    BY <1>1
  <2>1. [u EXCEPT !.to_send = left] \in User
    BY <2>0, UserFields
  <2>2. QED
    BY <1>4, <2>1 DEF WriteStalls
<1>5. QED
  BY <1>2, <1>3, <1>4 DEF WriteOutcomes

LEMMA ModTyped ==
  ASSUME ServerTypeOK, NEW s \in Fds \cup {None}, NEW ev \in {"in", "out"}
  PROVE  Mod_fd(s, ev) \in [Fds -> {"none", "off", "in", "out"}]
BY DEF ServerTypeOK, Mod_fd

LEMMA RearmedTyped ==
  ASSUME ServerTypeOK, NEW u \in User, NEW ev \in {"none", "in", "out"}
  PROVE  Rearmed(u, ev) \in [Fds -> {"none", "off", "in", "out"}]
BY ModTyped DEF ServerTypeOK, Rearmed, User

LEMMA RemoveTyped ==
  ASSUME ServerTypeOK, NEW s \in Fds, Remove_fd(s)
  PROVE  /\ conn' \in [Clients -> {"new", "open", "fin", "gone"}]
         /\ backlog' \in Seq(Clients)
         /\ sent' \in [Clients -> Requests \cup {None}]
         /\ sock' \in [Fds -> Clients \cup {None}]
         /\ interest' \in [Fds -> {"none", "off", "in", "out"}]
BY DEF ServerTypeOK, Remove_fd

LEMMA ReadyTyped == ServerTypeOK => \A room : Ready(room) \subseteq Event
BY DEF ServerTypeOK, Ready, ReadyFds, EventOf, Event

LEMMA AddressKept ==
  ASSUME NEW u \in User
  PROVE  /\ Cleared(u).m_address = u.m_address
         /\ Parsed(u).m_address = u.m_address
         /\ Received(u).m_address = u.m_address
         /\ \A r \in WriteOutcomes(u) : r.user.m_address = u.m_address
<1>1. Cleared(u).m_address = u.m_address
  BY DEF Cleared
<1>2. Parsed(u).m_address = u.m_address /\ Received(u).m_address = u.m_address
  BY DEF Parsed, Received, User
<1>3. ASSUME NEW r \in WriteOutcomes(u) PROVE r.user.m_address = u.m_address
  BY <1>1, <1>3 DEF WriteOutcomes, WriteEnds, WriteFails, WriteStalls, User
<1>4. QED
  BY <1>1, <1>2, <1>3

-----------------------------------------------------------------------------
(* The type invariant.  It is not inductive alone: an action that works on the     *)
(* loop's descriptor or on a worker's task needs to know that there is one.        *)

Placed == LoopPlaced /\ WorkerPlaced /\ RegisterKnows

LEMMA LoopTyping ==
  ASSUME TypeOK, Placed, EventLoop
  PROVE  ServerTypeOK' /\ Placed'
<1> USE DEF TypeOK, ServerTypeOK, Placed, LoopPlaced, WorkerPlaced, RegisterKnows,
            netVars, timerVars, workVars, poolVars
<1>1. ASSUME NEW room \in SUBSET Fds, EpollWait(room) PROVE ServerTypeOK' /\ Placed'
  BY <1>1, ReadyTyped DEF EpollWait
<1>2. ASSUME NEW e \in batch, DealClientData(e) PROVE ServerTypeOK' /\ Placed'
  BY <1>2 DEF DealClientData, Take
<1>3. ASSUME NEW e \in batch, HangUp(e) PROVE ServerTypeOK' /\ Placed'
  BY <1>3 DEF HangUp, Take, Event
<1>4. ASSUME NEW e \in batch, ReactorAppend(e) PROVE ServerTypeOK' /\ Placed'
  <2>1. e.fd \in Fds
    BY <1>4 DEF ReactorAppend, Event, Take
  <2>2. m_users' \in [Fds -> User]
    <3>1. m_users[e.fd] \in User
      BY <2>1
    <3>2. CASE UNCHANGED m_users
      BY <3>2
    <3>3. ASSUME NEW b \in {0, 1}, m_users' = [m_users EXCEPT ![e.fd].m_state = b]
          PROVE  m_users' \in [Fds -> User]
      <4>1. [m_users[e.fd] EXCEPT !.m_state = b] \in User
        BY <3>1, UserFields
      <4>2. QED
        BY <2>1, <3>3, <4>1
    <3>4. QED
      BY <1>4, <3>2, <3>3 DEF ReactorAppend
  <2>3. QED
    BY <1>4, <2>1, <2>2 DEF ReactorAppend, Take, Pool!Push
<1>5. ASSUME NEW e \in batch, ProactorRead(e) PROVE ServerTypeOK' /\ Placed'
  <2>1. e.fd \in Fds /\ m_users[e.fd] \in User
    BY <1>5 DEF ProactorRead, Event, Take
  <2>2. m_users' \in [Fds -> User] /\ sent' \in [Clients -> Requests \cup {None}]
    BY <1>5, <2>1, ReceivedTyped DEF ProactorRead
  <2>3. QED
    BY <1>5, <2>1, <2>2 DEF ProactorRead, Take, Pool!Push
<1>6. ASSUME NEW e \in batch, ProactorWrite(e) PROVE ServerTypeOK' /\ Placed'
  <2>1. e.fd \in Fds /\ m_users[e.fd] \in User
    BY <1>6 DEF ProactorWrite, Event, Take
  <2>2. m_users' \in [Fds -> User] /\ interest' \in [Fds -> {"none", "off", "in", "out"}]
    <3>1. PICK r \in WriteOutcomes(m_users[e.fd]) :
                 /\ m_users' = [m_users EXCEPT ![e.fd] = r.user]
                 /\ interest' = Rearmed(m_users[e.fd], r.ev)
      BY <1>6 DEF ProactorWrite
    <3>2. r.user \in User /\ r.ev \in {"none", "in", "out"}
      BY <2>1, OutcomesTyped
    <3>3. QED
      BY <2>1, <3>1, <3>2, RearmedTyped
  <2>3. QED
    BY <1>6, <2>1, <2>2 DEF ProactorWrite, Take
<1>7. CASE AcceptFails
  BY <1>7 DEF AcceptFails
<1>8. CASE Refuse
  BY <1>8 DEF Refuse
<1>9. ASSUME NEW f \in Fds, Accept(f) PROVE ServerTypeOK' /\ Placed'
  <2>1. Head(backlog) \in Clients /\ Tail(backlog) \in Seq(Clients)
    BY <1>9, HeadTailProperties DEF Accept
  <2>2. m_users' = [m_users EXCEPT ![f] = [@ EXCEPT !.m_sock = f, !.m_address = Head(backlog)]]
    BY <1>9 DEF Accept, User
  <2>3. m_users' \in [Fds -> User] /\ m_users'[f].m_address = Head(backlog)
    <3>1. [m_users[f] EXCEPT !.m_sock = f, !.m_address = Head(backlog)] \in User
      BY <2>1, UserFields
    <3>2. QED
      BY <2>2, <3>1 DEF User
  <2>4. QED
    BY <1>9, <2>1, <2>3 DEF Accept
<1>10. CASE Register
  BY <1>10, ClearedTyped DEF Register
<1>11. CASE AppendPosts
  BY <1>11 DEF AppendPosts, Pool!Post
<1>12. CASE SpinEnds
  <2>1. mfd \in Fds /\ m_users[mfd] \in User
    BY <1>12 DEF SpinEnds
  <2>2. m_users' \in [Fds -> User]
    BY <1>12, <2>1, UserFields DEF SpinEnds
  <2>3. QED
    BY <1>12, <2>1, <2>2 DEF SpinEnds
<1>13. CASE CbFun
  BY <1>13, RemoveTyped DEF CbFun
<1>14. CASE DelTimer
  <2>1. mfd \in Fds /\ m_users[mfd] \in User
    BY <1>14 DEF DelTimer
  <2>2. [m_users[mfd] EXCEPT !.m_timer_trig = 0, !.m_imprv = 0] \in User
    BY <2>1 DEF User
  <2>3. m_users' \in [Fds -> User]
    BY <1>14, <2>1, <2>2 DEF DelTimer
  <2>4. QED
    BY <1>14, <2>1, <2>3 DEF DelTimer
<1>15. CASE CountLoads
  BY <1>15 DEF CountLoads
<1>16. QED
  BY <1>1, <1>2, <1>3, <1>4, <1>5, <1>6, <1>7, <1>8, <1>9, <1>10, <1>11, <1>12, <1>13, <1>14, <1>15
     DEF EventLoop, LoopStep

\* A worker changes one object and leaves its address alone.
LEMMA UserChanges ==
  ASSUME TypeOK, Placed, NEW f \in Fds, NEW v \in User,
         v.m_address = m_users[f].m_address,
         m_users' = [m_users EXCEPT ![f] = v], mpc' = mpc, mfd' = mfd
  PROVE  m_users' \in [Fds -> User] /\ RegisterKnows' /\ LoopPlaced'
BY DEF TypeOK, ServerTypeOK, Placed, RegisterKnows, LoopPlaced

LEMMA WorkerMoves ==
  ASSUME TypeOK, Placed, NEW w \in Workers, job[w] # "idle",
         Done(w) \/ \E next \in {"process", "trig", "uncount", "unsock", "rearm"} : Continue(w, next)
  PROVE  /\ job' \in [Workers -> {"idle", "io", "process", "trig", "uncount", "unsock", "rearm"}]
         /\ WorkerPlaced'
<1> USE DEF TypeOK, ServerTypeOK, Placed, WorkerPlaced, poolVars, Pool!PoolTypeOK
<1>1. CASE Done(w)
  BY <1>1 DEF Done, Pool!Finish
<1>2. ASSUME NEW next \in {"process", "trig", "uncount", "unsock", "rearm"}, Continue(w, next)
      PROVE  /\ job' \in [Workers -> {"idle", "io", "process", "trig", "uncount", "unsock", "rearm"}]
             /\ WorkerPlaced'
  BY <1>2 DEF Continue
<1>3. QED
  BY <1>1, <1>2

LEMMA WorkerTyping ==
  ASSUME TypeOK, Placed, NEW w \in Workers, WorkerStep(w)
  PROVE  ServerTypeOK' /\ Placed'
<1> DEFINE f == task[w]
           u == m_users[f]
<1> USE DEF netVars, timerVars, loopVars, workVars
<1>1. CASE AwaitTask(w)
  BY <1>1 DEF AwaitTask, Pool!SemWait, TypeOK, ServerTypeOK, Placed, LoopPlaced, WorkerPlaced,
              RegisterKnows
<1>2. CASE FetchTask(w)
  <2> USE DEF TypeOK, ServerTypeOK, Placed, LoopPlaced, WorkerPlaced, RegisterKnows
  <2>1. CASE queue = <<>>
    BY <1>2, <2>1 DEF FetchTask, Pool!Fetch
  <2>2. CASE queue # <<>>
    <3>1. Head(queue) \in Fds /\ task' = [task EXCEPT ![w] = Head(queue)]
      BY <1>2, <2>2, HeadTailProperties DEF FetchTask, Pool!Fetch, Pool!PoolTypeOK
    <3>2. task' \in [Workers -> Fds \cup {None}] /\ task'[w] \in Fds
      BY <3>1 DEF Pool!PoolTypeOK
    <3>3. QED
      BY <1>2, <2>2, <3>1, <3>2 DEF FetchTask, Pool!PoolTypeOK
  <2>3. QED
    BY <2>1, <2>2
<1>3. ASSUME job[w] # "idle" PROVE f \in Fds /\ u \in User
  BY <1>3 DEF TypeOK, ServerTypeOK, Placed, WorkerPlaced
<1>4. CASE WorkerReads(w)
  <2>1. f \in Fds /\ u \in User /\ job[w] # "idle"
    BY <1>3, <1>4 DEF WorkerReads
  <2>2. WorkerPlaced' /\ job' \in [Workers -> {"idle", "io", "process", "trig", "uncount", "unsock", "rearm"}]
    BY <1>4, <2>1, WorkerMoves DEF WorkerReads
  <2>3. PICK v \in User : v.m_address = u.m_address /\ m_users' = [m_users EXCEPT ![f] = v]
                          /\ sent' \in [Clients -> Requests \cup {None}]
    <3>1. CASE ReadSucceeds(u)
      <4>1. Received(u) \in User /\ Drained(u) \in [Clients -> Requests \cup {None}]
        BY <2>1, <3>1, ReceivedTyped DEF TypeOK
      <4>2. [Received(u) EXCEPT !.m_imprv = 1] \in User
        BY <4>1, UserFields
      <4>3. [Received(u) EXCEPT !.m_imprv = 1].m_address = u.m_address
        BY <2>1, <4>1, AddressKept DEF User
      <4>4. m_users' = [m_users EXCEPT ![f] = [Received(u) EXCEPT !.m_imprv = 1]] /\ sent' = Drained(u)
        BY <1>4, <2>1, <3>1 DEF WorkerReads, TypeOK, ServerTypeOK
      <4>5. QED
        BY <4>1, <4>2, <4>3, <4>4
    <3>2. CASE ~ReadSucceeds(u)
      <4>1. [u EXCEPT !.m_imprv = 1] \in User /\ [u EXCEPT !.m_imprv = 1].m_address = u.m_address
        BY <2>1, UserFields, AddressFields
      <4>2. m_users' = [m_users EXCEPT ![f] = [u EXCEPT !.m_imprv = 1]] /\ sent' = sent
        BY <1>4, <2>1, <3>2 DEF WorkerReads, TypeOK, ServerTypeOK
      <4>3. QED
        BY <4>1, <4>2 DEF TypeOK, ServerTypeOK
    <3>3. QED
      BY <3>1, <3>2
  <2>4. m_users' \in [Fds -> User] /\ RegisterKnows' /\ LoopPlaced'
    BY <1>4, <2>1, <2>3, UserChanges DEF WorkerReads
  <2>5. QED
    BY <1>4, <2>2, <2>3, <2>4 DEF WorkerReads, Placed, TypeOK, ServerTypeOK
<1>5. CASE WorkerWrites(w)
  <2>1. f \in Fds /\ u \in User /\ job[w] # "idle"
    BY <1>3, <1>5 DEF WorkerWrites
  <2>2. WorkerPlaced' /\ job' \in [Workers -> {"idle", "io", "process", "trig", "uncount", "unsock", "rearm"}]
    BY <1>5, <2>1, WorkerMoves DEF WorkerWrites
  <2>3. PICK r \in WriteOutcomes(u) :
              /\ m_users' = [m_users EXCEPT ![f] = [r.user EXCEPT !.m_imprv = 1]]
              /\ interest' = Rearmed(u, r.ev)
    BY <1>5 DEF WorkerWrites
  <2>4. r.user \in User /\ r.ev \in {"none", "in", "out"} /\ r.user.m_address = u.m_address
    BY <2>1, OutcomesTyped, AddressKept DEF TypeOK
  <2>5. [r.user EXCEPT !.m_imprv = 1] \in User /\ [r.user EXCEPT !.m_imprv = 1].m_address = u.m_address
    BY <2>4, UserFields, AddressFields
  <2>6. m_users' \in [Fds -> User] /\ RegisterKnows' /\ LoopPlaced'
    BY <1>5, <2>1, <2>3, <2>5, UserChanges DEF WorkerWrites
  <2>7. interest' \in [Fds -> {"none", "off", "in", "out"}]
    BY <2>1, <2>3, <2>4, RearmedTyped DEF TypeOK
  <2>8. QED
    BY <1>5, <2>2, <2>6, <2>7 DEF WorkerWrites, Placed, TypeOK, ServerTypeOK
<1>6. CASE ReportFailure(w)
  <2>1. f \in Fds /\ u \in User /\ job[w] # "idle"
    BY <1>3, <1>6 DEF ReportFailure
  <2>2. WorkerPlaced' /\ job' \in [Workers -> {"idle", "io", "process", "trig", "uncount", "unsock", "rearm"}]
    BY <1>6, <2>1, WorkerMoves DEF ReportFailure
  <2>3. [u EXCEPT !.m_timer_trig = 1] \in User /\ [u EXCEPT !.m_timer_trig = 1].m_address = u.m_address
    BY <2>1, UserFields, AddressFields
  <2>4. m_users' \in [Fds -> User] /\ RegisterKnows' /\ LoopPlaced'
    BY <1>6, <2>1, <2>3, UserChanges DEF ReportFailure
  <2>5. QED
    BY <1>6, <2>2, <2>4 DEF ReportFailure, Placed, TypeOK, ServerTypeOK
<1>7. CASE ProcessIncomplete(w)
  <2>1. f \in Fds /\ u \in User /\ job[w] # "idle" /\ u.m_sock \in Fds \cup {None}
    BY <1>3, <1>7 DEF ProcessIncomplete, User
  <2>2. WorkerPlaced' /\ job' \in [Workers -> {"idle", "io", "process", "trig", "uncount", "unsock", "rearm"}]
    BY <1>7, <2>1, WorkerMoves DEF ProcessIncomplete
  <2>3. [u EXCEPT !.buf = None] \in User /\ [u EXCEPT !.buf = None].m_address = u.m_address
    BY <2>1, UserFields, AddressFields
  <2>4. m_users' \in [Fds -> User] /\ RegisterKnows' /\ LoopPlaced'
    BY <1>7, <2>1, <2>3, UserChanges DEF ProcessIncomplete
  <2>5. interest' \in [Fds -> {"none", "off", "in", "out"}]
    BY <1>7, <2>1, ModTyped DEF ProcessIncomplete, TypeOK
  <2>6. QED
    BY <1>7, <2>2, <2>4, <2>5 DEF ProcessIncomplete, Placed, TypeOK, ServerTypeOK
<1>8. CASE ProcessRespond(w)
  <2>1. f \in Fds /\ u \in User /\ job[w] # "idle" /\ u.m_sock \in Fds \cup {None}
    BY <1>3, <1>8 DEF ProcessRespond, User
  <2>2. WorkerPlaced' /\ job' \in [Workers -> {"idle", "io", "process", "trig", "uncount", "unsock", "rearm"}]
    BY <1>8, <2>1, WorkerMoves DEF ProcessRespond
  <2>3. Windows \in 0..Windows
    BY ServerAssumption
  <2>4. /\ [Parsed(u) EXCEPT !.to_send = Windows] \in User
        /\ [Parsed(u) EXCEPT !.to_send = Windows].m_address = u.m_address
    <3>1. Parsed(u) \in User /\ Parsed(u).m_address = u.m_address
      BY <2>1, ParsedTyped, AddressKept
    <3>2. QED
      BY <2>3, <3>1, UserFields, AddressFields
  <2>5. m_users' \in [Fds -> User] /\ RegisterKnows' /\ LoopPlaced'
    BY <1>8, <2>1, <2>4, UserChanges DEF ProcessRespond
  <2>6. interest' \in [Fds -> {"none", "off", "in", "out"}]
    BY <1>8, <2>1, ModTyped DEF ProcessRespond, TypeOK
  <2>7. QED
    BY <1>8, <2>2, <2>5, <2>6 DEF ProcessRespond, Placed, TypeOK, ServerTypeOK
<1>9. CASE ProcessClose(w)
  <2>1. f \in Fds /\ u \in User /\ job[w] # "idle" /\ u.m_sock \in Fds \cup {None}
    BY <1>3, <1>9 DEF ProcessClose, User
  <2>2. WorkerPlaced' /\ job' \in [Workers -> {"idle", "io", "process", "trig", "uncount", "unsock", "rearm"}]
    BY <1>9, <2>1, WorkerMoves DEF ProcessClose
  <2>3. Parsed(u) \in User /\ Parsed(u).m_address = u.m_address
    BY <2>1, ParsedTyped, AddressKept
  <2>4. m_users' \in [Fds -> User] /\ RegisterKnows' /\ LoopPlaced'
    BY <1>9, <2>1, <2>3, UserChanges DEF ProcessClose
  <2>5. CASE u.m_sock = None
    BY <1>9, <2>2, <2>4, <2>5 DEF ProcessClose, Placed, TypeOK, ServerTypeOK
  <2>6. CASE u.m_sock # None
    <3>1. Remove_fd(u.m_sock) /\ u.m_sock \in Fds
      BY <1>9, <2>1, <2>6 DEF ProcessClose
    <3>2. wreg' \in [Workers -> Int]
      BY <1>9, <2>6 DEF ProcessClose, TypeOK, ServerTypeOK
    <3>3. QED
      BY <1>9, <2>2, <2>4, <3>1, <3>2, RemoveTyped DEF ProcessClose, Placed, TypeOK, ServerTypeOK
  <2>7. QED
    BY <2>5, <2>6
<1>10. CASE CloseUncounts(w)
  <2>1. job[w] # "idle"
    BY <1>10 DEF CloseUncounts
  <2>2. WorkerPlaced' /\ job' \in [Workers -> {"idle", "io", "process", "trig", "uncount", "unsock", "rearm"}]
    BY <1>10, <2>1, WorkerMoves DEF CloseUncounts
  <2>3. wreg[w] \in Int /\ wreg' \in [Workers -> Int] /\ m_user_count' \in Int
    BY <1>10 DEF CloseUncounts, TypeOK, ServerTypeOK
  <2>4. QED
    BY <1>10, <2>2, <2>3 DEF CloseUncounts, Placed, LoopPlaced, RegisterKnows, TypeOK, ServerTypeOK
<1>11. CASE CloseForgets(w)
  <2>1. f \in Fds /\ u \in User /\ job[w] # "idle"
    BY <1>3, <1>11 DEF CloseForgets
  <2>2. WorkerPlaced' /\ job' \in [Workers -> {"idle", "io", "process", "trig", "uncount", "unsock", "rearm"}]
    BY <1>11, <2>1, WorkerMoves DEF CloseForgets
  <2>3. [u EXCEPT !.m_sock = None] \in User /\ [u EXCEPT !.m_sock = None].m_address = u.m_address
    BY <2>1, UserFields, AddressFields
  <2>4. m_users' \in [Fds -> User] /\ RegisterKnows' /\ LoopPlaced'
    BY <1>11, <2>1, <2>3, UserChanges DEF CloseForgets
  <2>5. QED
    BY <1>11, <2>2, <2>4 DEF CloseForgets, Placed, TypeOK, ServerTypeOK
<1>12. CASE CloseRearms(w)
  <2>1. f \in Fds /\ job[w] # "idle" /\ u.m_sock \in Fds \cup {None}
    BY <1>3, <1>12 DEF CloseRearms, User
  <2>2. WorkerPlaced' /\ job' \in [Workers -> {"idle", "io", "process", "trig", "uncount", "unsock", "rearm"}]
    BY <1>12, <2>1, WorkerMoves DEF CloseRearms
  <2>3. interest' \in [Fds -> {"none", "off", "in", "out"}]
    BY <1>12, <2>1, ModTyped DEF CloseRearms, TypeOK
  <2>4. QED
    BY <1>12, <2>2, <2>3 DEF CloseRearms, Placed, LoopPlaced, RegisterKnows, TypeOK, ServerTypeOK
<1>13. QED
  BY <1>1, <1>2, <1>4, <1>5, <1>6, <1>7, <1>8, <1>9, <1>10, <1>11, <1>12 DEF WorkerStep

LEMMA ClientTyping ==
  ASSUME TypeOK, Placed, NEW c \in Clients, ClientStep(c)
  PROVE  ServerTypeOK' /\ Placed'
<1> USE DEF TypeOK, ServerTypeOK, Placed, LoopPlaced, WorkerPlaced, RegisterKnows,
            netVars, timerVars, loopVars, workVars, poolVars
<1>1. CASE Connect(c)
  <2>1. backlog' \in Seq(Clients)
    BY <1>1, AppendProperties DEF Connect
  <2>2. QED
    BY <1>1, <2>1 DEF Connect
<1>2. ASSUME NEW r \in Requests, Send(c, r) PROVE ServerTypeOK' /\ Placed'
  BY <1>2 DEF Send
<1>3. CASE Fin(c)
  BY <1>3 DEF Fin
<1>4. QED
  BY <1>1, <1>2, <1>3 DEF ClientStep

LEMMA TypingKept ==
  ASSUME TypeOK, Placed, [Next]_vars
  PROVE  TypeOK' /\ Placed'
<1>1. ServerTypeOK' /\ Placed'
  <2>1. CASE EpollTimeout \/ UNCHANGED vars
    BY <2>1 DEF EpollTimeout, vars, TypeOK, ServerTypeOK, Placed, LoopPlaced, WorkerPlaced,
                RegisterKnows, netVars, timerVars, loopVars, workVars, poolVars
  <2>2. QED
    BY <2>1, LoopTyping, WorkerTyping, ClientTyping DEF Next
<1>2. batch \subseteq Event /\ Pool!PoolTypeOK
  BY DEF TypeOK, ServerTypeOK
<1>3. Pool!PoolTypeOK'
  BY <1>2, StepsPool, PoolTypingKept
<1>4. QED
  BY <1>1, <1>3 DEF TypeOK

LEMMA TypingStarts == Init => TypeOK /\ Placed
<1> SUFFICES ASSUME Init PROVE TypeOK /\ Placed
  OBVIOUS
<1>1. m_users \in [Fds -> User]
  BY ServerAssumption DEF Init, Cleared, User
<1>2. ServerTypeOK
  BY <1>1, ServerAssumption DEF Init, ServerTypeOK
<1>3. Pool!PoolTypeOK
  BY DEF Init, Pool!Init, Pool!PoolTypeOK
<1>4. Placed
  BY DEF Init, Placed, LoopPlaced, WorkerPlaced, RegisterKnows
<1>5. QED
  BY <1>2, <1>3, <1>4 DEF TypeOK

LEMMA PlacedHolds == Spec => [](TypeOK /\ Placed)
<1>1. (TypeOK /\ Placed) /\ [Next]_vars => (TypeOK /\ Placed)'
  BY TypingKept
<1>2. QED
  BY <1>1, TypingStarts, PTL DEF Spec

(* Whatever the threads and the clients do, in either event mode and even when the *)
(* pool works in the other one than the server, every variable keeps its type: no  *)
(* worker ever runs without a task and the loop never acts on no descriptor.       *)
THEOREM ServerTyping == Spec => []TypeOK
BY PlacedHolds, PTL

(* The event loop and the workers use the task queue as its specification allows,  *)
(* and for nothing else: Push only by deal_read() and deal_write(), one Post for   *)
(* each, and SemWait, Fetch, Finish in that order by every worker.                 *)
THEOREM ServerImplementsPool == Spec => PoolImplemented
<1>1. Init => Pool!Init
  BY DEF Init
<1>2. TypeOK /\ [Next]_vars => [Pool!Next]_(Pool!poolVars)
  BY StepsPool DEF TypeOK, ServerTypeOK, poolVars, Pool!poolVars
<1>3. QED
  BY <1>1, <1>2, ServerTyping, PTL DEF Spec, PoolImplemented, Pool!Spec

(* So the queue of the running server is within its bound at every moment, and a   *)
(* worker whose sem_wait returned finds a task in it.                              *)
THEOREM ServerQueueInBounds == Spec => []Pool!QueueInBounds
<1>1. Init => PoolProofs!Init
  BY DEF Init, Pool!Init, PoolProofs!Init
<1>2. TypeOK /\ [Next]_vars => [PoolProofs!Next]_(PoolProofs!poolVars)
  <2> SUFFICES ASSUME TypeOK, [Next]_vars PROVE [PoolProofs!Next]_(PoolProofs!poolVars)
    OBVIOUS
  <2>1. [Pool!Next]_poolVars
    BY StepsPool DEF TypeOK, ServerTypeOK
  <2>2. QED
    BY <2>1, PoolNextSame
<1>3. PoolProofs!Spec => []PoolProofs!QueueInBounds
  BY PoolConstants, PoolProofs!QueueStaysInBounds
<1>4. PoolProofs!QueueInBounds => Pool!QueueInBounds
  BY DEF Pool!QueueInBounds, PoolProofs!QueueInBounds
<1>5. Spec => PoolProofs!Spec
  BY <1>1, <1>2, ServerTyping, PTL DEF Spec, PoolProofs!Spec
<1>6. QED
  BY <1>3, <1>4, <1>5, PTL

-----------------------------------------------------------------------------
(* The timers.  TimerPointerLive speaks of the events of a batch, which may be old: *)
(* what keeps it is that a timer is bound to one descriptor only, that a batch has  *)
(* one event of a descriptor, and that a descriptor epoll can report has its timer. *)

\* While the loop works for the event of mfd.
Working == \/ mpc \in {"spin", "del", "uncount", "failDel", "failUncount"}
           \/ mpc = "post" /\ ServerMode = 0

Registering(c) == Accepting /\ m_users[mfd].m_address = c
Bound(c) == \E f \in Fds : m_users_timer[f] = c

\* A timer is stored under one descriptor.
OneBinding ==
  \A f, g \in Fds : m_users_timer[f] # None /\ m_users_timer[f] = m_users_timer[g] => f = g

\* A connection comes out of the backlog once, before it is bound to a timer.
ComesOnce ==
  /\ \A i, j \in 1..Len(backlog) : backlog[i] = backlog[j] => i = j
  /\ \A i \in 1..Len(backlog) : conn[backlog[i]] # "new" /\ ~Registering(backlog[i])
  /\ \A i \in 1..Len(backlog) : ~Bound(backlog[i])
  /\ \A c \in Clients : conn[c] = "new" => ~Bound(c) /\ ~Registering(c)
  /\ Accepting => ~Bound(m_users[mfd].m_address)

\* The loop has at most one event of a descriptor, the one it works for included.
OneEvent ==
  /\ \A d, e \in batch : d.fd = e.fd => d = e
  /\ Working => \A e \in batch : e.fd # mfd

\* What is registered with epoll has its timer, but for the connection being accepted.
WatchedHasTimer ==
  \A f \in Fds : interest[f] # "none" /\ ~(Accepting /\ mfd = f)
                   => m_users_timer[f] \in timers

WorkHasTimer ==
  /\ \A e \in batch : e.fd # Listen => m_users_timer[e.fd] \in timers
  /\ Working => m_users_timer[mfd] \in timers
  /\ mpc \in {"uncount", "failUncount"} => interest[mfd] = "none"

TimerInv == OneBinding /\ ComesOnce /\ OneEvent /\ WatchedHasTimer /\ WorkHasTimer

\* Steps that neither register nor bind a connection.
LEMMA BindingsKept ==
  ASSUME TypeOK, OneBinding, ComesOnce, UNCHANGED <<m_users_timer, backlog>>,
         \A c \in Clients : conn'[c] = "new" => conn[c] = "new",
         Accepting' => /\ Accepting /\ mfd' = mfd
                       /\ m_users'[mfd].m_address = m_users[mfd].m_address
  PROVE  OneBinding' /\ ComesOnce'
<1>1. \A i \in 1..Len(backlog) : backlog[i] \in Clients
  BY DEF TypeOK, ServerTypeOK
<1>2. \A c : Registering(c)' => Registering(c)
  BY DEF Registering
<1>3. \A c : Bound(c)' <=> Bound(c)
  BY DEF Bound
<1>4. OneBinding'
  BY DEF OneBinding
<1>5. ComesOnce'
  BY <1>1, <1>2, <1>3 DEF ComesOnce
<1>6. QED
  BY <1>4, <1>5

\* Neither Mod_fd() nor Remove_fd() brings a registration back.
LEMMA ModQuiet ==
  ASSUME ServerTypeOK, NEW s \in Fds \cup {None}, NEW ev, NEW f \in Fds, Mod_fd(s, ev)[f] # "none"
  PROVE  interest[f] # "none"
BY DEF ServerTypeOK, Mod_fd

LEMMA RemoveQuiet ==
  ASSUME ServerTypeOK, NEW s \in Fds, Remove_fd(s)
  PROVE  /\ \A f \in Fds : interest'[f] # "none" => f # s /\ interest[f] # "none"
         /\ \A c \in Clients : conn'[c] = "new" => conn[c] = "new"
         /\ interest'[s] = "none" /\ backlog' = backlog
BY DEF ServerTypeOK, Remove_fd

\* A worker leaves the loop, the timers and the addresses alone, and arms no
\* registration that was deleted.
LEMMA WorkerQuiet ==
  ASSUME TypeOK, Placed, NEW w \in Workers, WorkerStep(w)
  PROVE  /\ UNCHANGED <<m_users_timer, timers, mpc, mfd, batch, backlog>>
         /\ \A f \in Fds : interest'[f] # "none" => interest[f] # "none"
         /\ \A f \in Fds : m_users'[f].m_address = m_users[f].m_address
         /\ \A c \in Clients : conn'[c] = "new" => conn[c] = "new"
<1> DEFINE Quiet ==
             /\ UNCHANGED <<m_users_timer, timers, mpc, mfd, batch, backlog>>
             /\ \A g \in Fds : interest'[g] # "none" => interest[g] # "none"
             /\ \A g \in Fds : m_users'[g].m_address = m_users[g].m_address
             /\ \A c \in Clients : conn'[c] = "new" => conn[c] = "new"
           f == task[w]
           u == m_users[f]
<1> USE DEF netVars, timerVars, loopVars
<1>1. CASE AwaitTask(w) \/ FetchTask(w) \/ CloseUncounts(w)
  BY <1>1 DEF AwaitTask, FetchTask, CloseUncounts
<1>2. ASSUME job[w] # "idle" PROVE f \in Fds /\ u \in User /\ u.m_sock \in Fds \cup {None}
  BY <1>2 DEF TypeOK, ServerTypeOK, Placed, WorkerPlaced, User
<1>3. ASSUME f \in Fds, NEW v, v.m_address = u.m_address, m_users' = [m_users EXCEPT ![f] = v]
      PROVE  \A g \in Fds : m_users'[g].m_address = m_users[g].m_address
  BY <1>3 DEF TypeOK, ServerTypeOK
<1>4. CASE WorkerReads(w)
  <2>1. f \in Fds /\ u \in User
    BY <1>2, <1>4 DEF WorkerReads
  <2>2. ReadSucceeds(u) => Received(u) \in User /\ Received(u).m_address = u.m_address
    BY <2>1, ReceivedTyped, AddressKept DEF TypeOK
  <2>3. PICK v : v.m_address = u.m_address /\ m_users' = [m_users EXCEPT ![f] = v]
    <3>1. CASE ReadSucceeds(u)
      <4>1. m_users' = [m_users EXCEPT ![f] = [Received(u) EXCEPT !.m_imprv = 1]]
        BY <1>4, <2>1, <3>1 DEF WorkerReads, TypeOK, ServerTypeOK
      <4>2. [Received(u) EXCEPT !.m_imprv = 1].m_address = u.m_address
        BY <2>2, <3>1, AddressFields
      <4>3. QED
        BY <4>1, <4>2
    <3>2. CASE ~ReadSucceeds(u)
      <4>1. m_users' = [m_users EXCEPT ![f] = [u EXCEPT !.m_imprv = 1]]
        BY <1>4, <2>1, <3>2 DEF WorkerReads, TypeOK, ServerTypeOK
      <4>2. [u EXCEPT !.m_imprv = 1].m_address = u.m_address
        BY <2>1, AddressFields
      <4>3. QED
        BY <4>1, <4>2
    <3>3. QED
      BY <3>1, <3>2
  <2>4. \A g \in Fds : m_users'[g].m_address = m_users[g].m_address
    BY <1>3, <2>1, <2>3
  <2>5. QED
    BY <1>4, <2>4 DEF WorkerReads
<1>5. CASE WorkerWrites(w)
  <2>1. f \in Fds /\ u \in User /\ u.m_sock \in Fds \cup {None}
    BY <1>2, <1>5 DEF WorkerWrites
  <2>2. PICK r \in WriteOutcomes(u) :
              /\ m_users' = [m_users EXCEPT ![f] = [r.user EXCEPT !.m_imprv = 1]]
              /\ interest' = Rearmed(u, r.ev)
    BY <1>5 DEF WorkerWrites
  <2>3. r.user \in User /\ r.user.m_address = u.m_address
    BY <2>1, <2>2, OutcomesTyped, AddressKept DEF TypeOK
  <2>4. [r.user EXCEPT !.m_imprv = 1].m_address = u.m_address
    BY <2>3, AddressFields
  <2>5. \A g \in Fds : m_users'[g].m_address = m_users[g].m_address
    BY <1>3, <2>1, <2>2, <2>4
  <2>6. \A g \in Fds : interest'[g] # "none" => interest[g] # "none"
    BY <2>1, <2>2, ModQuiet DEF Rearmed, TypeOK
  <2>7. QED
    BY <1>5, <2>5, <2>6 DEF WorkerWrites
<1>6. CASE ReportFailure(w) \/ CloseForgets(w)
  <2>1. f \in Fds /\ u \in User
    BY <1>2, <1>6 DEF ReportFailure, CloseForgets
  <2>2. \A g \in Fds : m_users'[g].m_address = m_users[g].m_address
    <3>1. CASE ReportFailure(w)
      <4>1. m_users' = [m_users EXCEPT ![f] = [u EXCEPT !.m_timer_trig = 1]]
        BY <3>1 DEF ReportFailure
      <4>2. QED
        BY <1>3, <2>1, <4>1, AddressFields
    <3>2. CASE CloseForgets(w)
      <4>1. m_users' = [m_users EXCEPT ![f] = [u EXCEPT !.m_sock = None]]
        BY <3>2 DEF CloseForgets
      <4>2. QED
        BY <1>3, <2>1, <4>1, AddressFields
    <3>3. QED
      BY <1>6, <3>1, <3>2
  <2>3. QED
    BY <1>6, <2>2 DEF ReportFailure, CloseForgets
<1>7. CASE ProcessIncomplete(w)
  <2>1. f \in Fds /\ u \in User /\ u.m_sock \in Fds \cup {None}
    BY <1>2, <1>7 DEF ProcessIncomplete
  <2>2. m_users' = [m_users EXCEPT ![f] = [u EXCEPT !.buf = None]]
    BY <1>7 DEF ProcessIncomplete
  <2>3. \A g \in Fds : m_users'[g].m_address = m_users[g].m_address
    BY <1>3, <2>1, <2>2, AddressFields
  <2>4. \A g \in Fds : interest'[g] # "none" => interest[g] # "none"
    BY <1>7, <2>1, ModQuiet DEF ProcessIncomplete, TypeOK
  <2>5. QED
    BY <1>7, <2>3, <2>4 DEF ProcessIncomplete
<1>8. CASE ProcessRespond(w)
  <2>1. f \in Fds /\ u \in User /\ u.m_sock \in Fds \cup {None}
    BY <1>2, <1>8 DEF ProcessRespond
  <2>2. m_users' = [m_users EXCEPT ![f] = [Parsed(u) EXCEPT !.to_send = Windows]]
    BY <1>8, <2>1 DEF ProcessRespond, TypeOK, ServerTypeOK
  <2>3. [Parsed(u) EXCEPT !.to_send = Windows].m_address = u.m_address
    <3>1. Parsed(u) \in User /\ Parsed(u).m_address = u.m_address
      BY <2>1, ParsedTyped, AddressKept
    <3>2. QED
      BY <3>1, AddressFields
  <2>4. \A g \in Fds : m_users'[g].m_address = m_users[g].m_address
    BY <1>3, <2>1, <2>2, <2>3
  <2>5. \A g \in Fds : interest'[g] # "none" => interest[g] # "none"
    BY <1>8, <2>1, ModQuiet DEF ProcessRespond, TypeOK
  <2>6. QED
    BY <1>8, <2>4, <2>5 DEF ProcessRespond
<1>9. CASE ProcessClose(w)
  <2>1. f \in Fds /\ u \in User /\ u.m_sock \in Fds \cup {None}
    BY <1>2, <1>9 DEF ProcessClose
  <2>2. m_users' = [m_users EXCEPT ![f] = Parsed(u)]
    BY <1>9, <2>1 DEF ProcessClose, TypeOK, ServerTypeOK
  <2>3. \A g \in Fds : m_users'[g].m_address = m_users[g].m_address
    BY <1>3, <2>1, <2>2, AddressKept
  <2>4. CASE u.m_sock = None
    BY <1>9, <2>3, <2>4 DEF ProcessClose
  <2>5. CASE u.m_sock # None
    <3>1. Remove_fd(u.m_sock) /\ u.m_sock \in Fds
      BY <1>9, <2>1, <2>5 DEF ProcessClose
    <3>2. QED
      BY <1>9, <2>3, <3>1, RemoveQuiet DEF ProcessClose, TypeOK
  <2>6. QED
    BY <2>4, <2>5
<1>10. CASE CloseRearms(w)
  <2>1. f \in Fds /\ u.m_sock \in Fds \cup {None}
    BY <1>2, <1>10 DEF CloseRearms
  <2>2. \A g \in Fds : interest'[g] # "none" => interest[g] # "none"
    BY <1>10, <2>1, ModQuiet DEF CloseRearms, TypeOK
  <2>3. QED
    BY <1>10, <2>2 DEF CloseRearms
<1>11. QED
  BY <1>1, <1>4, <1>5, <1>6, <1>7, <1>8, <1>9, <1>10 DEF WorkerStep

LEMMA QuietStep ==
  ASSUME TypeOK, Placed, TimerInv,
         UNCHANGED <<m_users_timer, timers, mpc, mfd, batch, backlog>>,
         \A f \in Fds : interest'[f] # "none" => interest[f] # "none",
         \A f \in Fds : m_users'[f].m_address = m_users[f].m_address,
         \A c \in Clients : conn'[c] = "new" => conn[c] = "new"
  PROVE  TimerInv'
<1>1. Accepting => mfd \in Fds
  BY DEF Placed, LoopPlaced
<1>2. OneBinding' /\ ComesOnce'
  BY <1>1, BindingsKept DEF TimerInv
<1>3. OneEvent' /\ WatchedHasTimer' 
  BY DEF TimerInv, OneEvent, WatchedHasTimer, Working
<1>4. mpc \in {"uncount", "failUncount"} => mfd \in Fds /\ interest'[mfd] = "none"
  BY DEF Placed, LoopPlaced, TimerInv, WorkHasTimer, TypeOK, ServerTypeOK
<1>5. WorkHasTimer'
  BY <1>4 DEF TimerInv, WorkHasTimer, Working
<1>6. QED
  BY <1>2, <1>3, <1>5 DEF TimerInv

\* The loop takes an event, and perhaps goes to work for it.
LEMMA TakeStep ==
  ASSUME TypeOK, Placed, TimerInv, NEW e \in batch, Take(e),
         UNCHANGED <<m_users_timer, timers, backlog, conn>>,
         mpc' \notin {"count", "register", "uncount", "failUncount"},
         Working' => e.fd \in Fds /\ mfd' = e.fd,
         \A f \in Fds : interest'[f] # "none" => interest[f] # "none"
  PROVE  TimerInv'
<1> USE DEF Take
<1>1. OneBinding' /\ ComesOnce'
  BY BindingsKept DEF TimerInv
<1>2. OneEvent'
  BY DEF TimerInv, OneEvent
<1>3. WatchedHasTimer'
  BY DEF TimerInv, WatchedHasTimer
<1>4. WorkHasTimer'
  BY ServerAssumption DEF TimerInv, WorkHasTimer
<1>5. QED
  BY <1>1, <1>2, <1>3, <1>4 DEF TimerInv

\* The loop goes on without an event: it keeps its descriptor or works for none.
LEMMA MoveStep ==
  ASSUME TypeOK, Placed, TimerInv,
         UNCHANGED <<m_users_timer, timers, backlog, batch, conn, interest>>,
         ~Accepting,
         mpc' \notin {"count", "register", "uncount", "failUncount"},
         Working' => Working /\ mfd' = mfd
  PROVE  TimerInv'
<1>1. OneBinding' /\ ComesOnce'
  BY BindingsKept DEF TimerInv
<1>2. OneEvent' /\ WatchedHasTimer' /\ WorkHasTimer'
  BY DEF TimerInv, OneEvent, WatchedHasTimer, WorkHasTimer
<1>3. QED
  BY <1>1, <1>2 DEF TimerInv

\* accept() takes the connection out of the backlog.
LEMMA HeadComesOnce ==
  ASSUME TypeOK, ComesOnce, backlog # <<>>, backlog' = Tail(backlog)
  PROVE  /\ Head(backlog) \in Clients /\ Tail(backlog) \in Seq(Clients)
         /\ ~Bound(Head(backlog)) /\ ~Registering(Head(backlog)) /\ conn[Head(backlog)] # "new"
         /\ \A i \in 1..Len(backlog') : /\ i + 1 \in 1..Len(backlog)
                                       /\ backlog'[i] = backlog[i + 1]
                                       /\ backlog'[i] # Head(backlog)
<1>1. backlog \in Seq(Clients) /\ Len(backlog) \in Nat /\ Len(backlog) > 0
  BY DEF TypeOK, ServerTypeOK
<1>2. Head(backlog) = backlog[1] /\ Len(backlog') = Len(backlog) - 1
  BY <1>1, HeadTailProperties
<1>3. \A i \in 1..Len(backlog') : i + 1 \in 1..Len(backlog) /\ backlog'[i] = backlog[i + 1]
  BY <1>1, <1>2
<1>4. 1 \in 1..Len(backlog) /\ \A i \in 1..Len(backlog') : i + 1 # 1
  BY <1>1, <1>2
<1>5. \A i \in 1..Len(backlog') : backlog'[i] # Head(backlog)
  BY <1>2, <1>3, <1>4 DEF ComesOnce
<1>6. QED
  BY <1>1, <1>2, <1>3, <1>4, <1>5, HeadTailProperties DEF ComesOnce

LEMMA LoopTimers ==
  ASSUME TypeOK, Placed, TimerInv, EventLoop
  PROVE  TimerInv'
<1> USE DEF netVars, timerVars, workVars, poolVars
<1>1. ASSUME NEW room \in SUBSET Fds, EpollWait(room) PROVE TimerInv'
  <2>1. /\ UNCHANGED <<m_users_timer, timers, backlog, conn, mpc, mfd>> /\ mpc = "loop"
        /\ batch' = Ready(room)
        /\ \A f \in Fds : interest'[f] # "none" => interest[f] # "none"
    BY <1>1 DEF EpollWait, ReadyFds
  <2>2. OneBinding' /\ ComesOnce'
    BY <2>1, BindingsKept DEF TimerInv
  <2>3. \A e \in Ready(room) : \/ e = [fd |-> Listen, ev |-> "in"]
                               \/ e.fd \in ReadyFds(room) /\ e = EventOf(e.fd)
    <3>1. ASSUME NEW e \in Ready(room), e # [fd |-> Listen, ev |-> "in"]
          PROVE  e.fd \in ReadyFds(room) /\ e = EventOf(e.fd)
      <4>1. PICK f \in ReadyFds(room) : e = EventOf(f)
        BY <3>1 DEF Ready
      <4>2. e.fd = f
        BY <4>1 DEF EventOf
      <4>3. QED
        BY <4>1, <4>2
    <3>2. QED
      BY <3>1
  <2>4. \A f \in ReadyFds(room) : f # Listen /\ f \in Fds /\ interest[f] # "none"
    BY ServerAssumption DEF ReadyFds
  <2>5. OneEvent'
    BY <2>1, <2>3, <2>4 DEF OneEvent, Working
  <2>6. WatchedHasTimer'
    BY <2>1 DEF WatchedHasTimer, TimerInv
  <2>7. \A e \in Ready(room) : e.fd # Listen => m_users_timer[e.fd] \in timers
    BY <2>1, <2>3, <2>4 DEF WatchedHasTimer, TimerInv
  <2>8. WorkHasTimer'
    BY <2>1, <2>7 DEF WorkHasTimer, Working
  <2>9. QED
    BY <2>2, <2>5, <2>6, <2>8 DEF TimerInv
<1>2. ASSUME NEW e \in batch, DealClientData(e) PROVE TimerInv'
  <2>1. ~Working'
    BY <1>2 DEF DealClientData, Working
  <2>2. QED
    BY <1>2, <2>1, TakeStep DEF DealClientData
<1>3. ASSUME NEW e \in batch, HangUp(e) PROVE TimerInv'
  <2>1. e.fd \in Fds
    BY <1>3 DEF HangUp, TypeOK, ServerTypeOK, Event
  <2>2. QED
    BY <1>3, <2>1, TakeStep DEF HangUp
<1>4. ASSUME NEW e \in batch, ReactorAppend(e) PROVE TimerInv'
  <2>1. e.fd \in Fds /\ mpc' \in {"spin", "post"}
    BY <1>4 DEF ReactorAppend, TypeOK, ServerTypeOK, Event
  <2>2. QED
    BY <1>4, <2>1, TakeStep DEF ReactorAppend
<1>5. ASSUME NEW e \in batch, ProactorRead(e) PROVE TimerInv'
  <2>1. e.fd \in Fds
    BY <1>5 DEF ProactorRead, TypeOK, ServerTypeOK, Event
  <2>2. CASE ReadSucceeds(m_users[e.fd])
    <3>1. mpc' \in {"loop", "post"} /\ ServerMode = 1
      BY <1>5, <2>2 DEF ProactorRead, Take
    <3>2. ~Working'
      BY <3>1 DEF Working
    <3>3. QED
      BY <1>5, <3>1, <3>2, TakeStep DEF ProactorRead
  <2>3. CASE ~ReadSucceeds(m_users[e.fd])
    BY <1>5, <2>1, <2>3, TakeStep DEF ProactorRead
  <2>4. QED
    BY <2>2, <2>3
<1>6. ASSUME NEW e \in batch, ProactorWrite(e) PROVE TimerInv'
  <2>1. e.fd \in Fds /\ m_users[e.fd] \in User /\ m_users[e.fd].m_sock \in Fds \cup {None}
    BY <1>6 DEF ProactorWrite, TypeOK, ServerTypeOK, Event, User
  <2>2. PICK r \in WriteOutcomes(m_users[e.fd]) :
              /\ interest' = Rearmed(m_users[e.fd], r.ev)
              /\ IF r.ok THEN UNCHANGED <<mpc, mfd>> ELSE mpc' = "del" /\ mfd' = e.fd
    BY <1>6 DEF ProactorWrite
  <2>3. \A f \in Fds : interest'[f] # "none" => interest[f] # "none"
    BY <2>1, <2>2, ModQuiet DEF Rearmed, TypeOK
  <2>4. mpc' \in {"loop", "del"} /\ (Working' => mfd' = e.fd)
    BY <1>6, <2>2 DEF ProactorWrite, Take, Working
  <2>5. QED
    BY <1>6, <2>1, <2>3, <2>4, TakeStep DEF ProactorWrite
<1>7. CASE AcceptFails
  BY <1>7, MoveStep DEF AcceptFails, Working
<1>8. CASE Refuse
  <2>1. /\ backlog # <<>> /\ backlog' = Tail(backlog) /\ mpc = "accept" /\ mpc' = "loop"
        /\ conn' = [conn EXCEPT ![Head(backlog)] = "gone"]
        /\ UNCHANGED <<m_users_timer, timers, interest, mfd, batch, m_users>>
    BY <1>8 DEF Refuse
  <2>2. OneBinding'
    BY <2>1 DEF OneBinding, TimerInv
  <2>3. ComesOnce'
    <3>1. \A c : Bound(c)' <=> Bound(c)
      BY <2>1 DEF Bound
    <3>2. \A c : ~Registering(c)'
      BY <2>1 DEF Registering
    <3>3. conn \in [Clients -> {"new", "open", "fin", "gone"}]
      BY DEF TypeOK, ServerTypeOK
    <3>4. \A i \in 1..Len(backlog') : /\ i + 1 \in 1..Len(backlog) /\ backlog'[i] = backlog[i + 1]
                                      /\ backlog'[i] # Head(backlog) /\ backlog'[i] \in Clients
      BY <2>1, HeadComesOnce DEF TimerInv, TypeOK, ServerTypeOK
    <3>5. (\A i, j \in 1..Len(backlog) : backlog[i] = backlog[j] => i = j)'
      BY <3>4 DEF TimerInv, ComesOnce
    <3>6. (\A i \in 1..Len(backlog) : conn[backlog[i]] # "new")'
      BY <2>1, <3>3, <3>4 DEF TimerInv, ComesOnce
    <3>7. (\A i \in 1..Len(backlog) : ~Bound(backlog[i]))'
      BY <3>1, <3>4 DEF TimerInv, ComesOnce
    <3>8. (\A c \in Clients : conn[c] = "new" => ~Bound(c))'
      BY <2>1, <3>1, <3>3 DEF TimerInv, ComesOnce
    <3>9. QED
      BY <2>1, <3>2, <3>5, <3>6, <3>7, <3>8 DEF ComesOnce
  <2>4. OneEvent' /\ WatchedHasTimer' /\ WorkHasTimer'
    BY <2>1 DEF OneEvent, WatchedHasTimer, WorkHasTimer, Working, TimerInv
  <2>5. QED
    BY <2>2, <2>3, <2>4 DEF TimerInv
<1>9. ASSUME NEW f \in Fds, Accept(f) PROVE TimerInv'
  <2>1. /\ backlog # <<>> /\ backlog' = Tail(backlog)
        /\ mpc = "accept" /\ mpc' = "count" /\ mfd' = f
        /\ interest' = [interest EXCEPT ![f] = "in"]
        /\ UNCHANGED <<conn, m_users_timer, timers, batch>>
    BY <1>9 DEF Accept
  <2>2. m_users'[f].m_address = Head(backlog)
    <3>1. m_users' = [m_users EXCEPT ![f] = [@ EXCEPT !.m_sock = f, !.m_address = Head(backlog)]]
      BY <1>9 DEF Accept, User
    <3>2. QED
      BY <3>1 DEF TypeOK, ServerTypeOK, User
  <2>3. OneBinding'
    BY <2>1 DEF OneBinding, TimerInv
  <2>4. ComesOnce'
    <3>1. \A c : Bound(c)' <=> Bound(c)
      BY <2>1 DEF Bound
    <3>2. \A c : Registering(c)' <=> c = Head(backlog)
      BY <2>1, <2>2 DEF Registering
    <3>3. QED
      BY <2>1, <2>2, <3>1, <3>2, HeadComesOnce DEF TimerInv, ComesOnce
  <2>5. OneEvent' /\ WatchedHasTimer' /\ WorkHasTimer'
    BY <2>1 DEF OneEvent, WatchedHasTimer, WorkHasTimer, Working, TimerInv
  <2>6. QED
    BY <2>3, <2>4, <2>5 DEF TimerInv
<1>10. CASE Register
  <2> DEFINE c == m_users[mfd].m_address
  <2>1. /\ mpc = "register" /\ mfd \in Fds /\ c \in Clients
        /\ m_users_timer' = [m_users_timer EXCEPT ![mfd] = c]
        /\ timers' = timers \cup {c} /\ mpc' \in {"loop", "accept"}
        /\ UNCHANGED <<conn, backlog, interest, batch>>
    BY <1>10 DEF Register, Placed, LoopPlaced, RegisterKnows
  <2>2. ~Bound(c) /\ c # None /\ m_users_timer \in [Fds -> Clients \cup {None}]
    BY <2>1, ServerAssumption DEF TimerInv, ComesOnce, TypeOK, ServerTypeOK
  <2>3. OneBinding'
    BY <2>1, <2>2 DEF OneBinding, TimerInv, Bound
  <2>4. ComesOnce'
    <3>1. \A d : Bound(d)' => Bound(d) \/ Registering(d)
      BY <2>1, <2>2 DEF Bound, Registering
    <3>2. \A d : ~Registering(d)'
      BY <2>1 DEF Registering
    <3>3. QED
      BY <2>1, <3>1, <3>2 DEF TimerInv, ComesOnce
  <2>5. OneEvent' /\ WatchedHasTimer'
    BY <2>1, <2>2 DEF OneEvent, WatchedHasTimer, Working, TimerInv
  <2>6. WorkHasTimer'
    <3>1. \A e \in batch : e.fd # Listen => e.fd \in Fds
      BY DEF TypeOK, ServerTypeOK, Event
    <3>2. QED
      BY <2>1, <2>2, <3>1 DEF WorkHasTimer, Working, TimerInv
  <2>7. QED
    BY <2>3, <2>4, <2>5, <2>6 DEF TimerInv
<1>11. CASE AppendPosts
  <2>1. /\ mpc = "post" /\ mpc' = IF ServerMode = 0 THEN "spin" ELSE "loop"
        /\ UNCHANGED <<m_users_timer, timers, backlog, batch, conn, interest, mfd>>
    BY <1>11 DEF AppendPosts
  <2>2. QED
    BY <2>1, MoveStep DEF Working
<1>12. CASE SpinEnds
  <2>1. /\ mpc = "spin" /\ ((mpc' = "failDel" /\ mfd' = mfd) \/ mpc' = "loop")
        /\ UNCHANGED <<m_users_timer, timers, backlog, batch, conn, interest>>
    BY <1>12 DEF SpinEnds
  <2>2. QED
    BY <2>1, MoveStep DEF Working
<1>13. CASE CbFun
  <2>1. /\ mpc \in {"del", "failDel"} /\ mpc' \in {"uncount", "failUncount"} /\ mfd \in Fds
        /\ Remove_fd(mfd)
        /\ UNCHANGED <<m_users_timer, timers, mfd, batch, m_users>>
    BY <1>13 DEF CbFun, Placed, LoopPlaced
  <2>2. OneBinding' /\ ComesOnce'
    BY <2>1, RemoveQuiet, BindingsKept DEF TimerInv, TypeOK
  <2>3. OneEvent' /\ WatchedHasTimer' /\ WorkHasTimer'
    BY <2>1, RemoveQuiet DEF OneEvent, WatchedHasTimer, WorkHasTimer, Working, TimerInv, TypeOK
  <2>4. QED
    BY <2>2, <2>3 DEF TimerInv
<1>14. CASE DelTimer
  <2>1. /\ mpc \in {"uncount", "failUncount"} /\ mpc' = "loop" /\ mfd \in Fds
        /\ timers' = timers \ {m_users_timer[mfd]}
        /\ UNCHANGED <<conn, backlog, interest, m_users_timer, batch>>
    BY <1>14 DEF DelTimer, Placed, LoopPlaced
  <2>2. OneBinding' /\ ComesOnce'
    BY <2>1, BindingsKept DEF TimerInv
  <2>3. \A g \in Fds : g # mfd /\ m_users_timer[g] \in timers => m_users_timer[g] \in timers'
    BY <2>1, ServerAssumption DEF TimerInv, OneBinding, TypeOK, ServerTypeOK
  <2>4. interest[mfd] = "none" /\ \A e \in batch : e.fd # mfd
    BY <2>1 DEF TimerInv, WorkHasTimer, OneEvent, Working
  <2>5. \A e \in batch : e.fd # Listen => e.fd \in Fds
    BY DEF TypeOK, ServerTypeOK, Event
  <2>6. OneEvent' /\ WatchedHasTimer' /\ WorkHasTimer'
    BY <2>1, <2>3, <2>4, <2>5 DEF OneEvent, WatchedHasTimer, WorkHasTimer, Working, TimerInv
  <2>7. QED
    BY <2>2, <2>6 DEF TimerInv
<1>15. CASE CountLoads
  <2>1. /\ mpc = "count" /\ mpc' = "register"
        /\ UNCHANGED <<m_users_timer, timers, backlog, batch, conn, interest, mfd, m_users>>
    BY <1>15 DEF CountLoads
  <2>2. OneBinding' /\ ComesOnce'
    BY <2>1, BindingsKept DEF TimerInv
  <2>3. OneEvent' /\ WatchedHasTimer' /\ WorkHasTimer'
    BY <2>1 DEF OneEvent, WatchedHasTimer, WorkHasTimer, Working, TimerInv
  <2>4. QED
    BY <2>2, <2>3 DEF TimerInv
<1>16. QED
  BY <1>1, <1>2, <1>3, <1>4, <1>5, <1>6, <1>7, <1>8, <1>9, <1>10, <1>11, <1>12, <1>13, <1>14, <1>15
     DEF EventLoop, LoopStep

LEMMA ClientTimers ==
  ASSUME TypeOK, Placed, TimerInv, NEW c \in Clients, ClientStep(c)
  PROVE  TimerInv'
<1> USE DEF netVars, timerVars, loopVars
<1>1. CASE Connect(c)
  <2>1. /\ conn[c] = "new" /\ conn' = [conn EXCEPT ![c] = "open"]
        /\ backlog' = Append(backlog, c)
        /\ UNCHANGED <<interest, m_users, m_users_timer, timers, mpc, mfd, batch>>
    BY <1>1 DEF Connect
  <2>2. backlog \in Seq(Clients) /\ conn \in [Clients -> {"new", "open", "fin", "gone"}]
    BY DEF TypeOK, ServerTypeOK
  <2>3. \A i \in 1..Len(backlog') : IF i = Len(backlog) + 1 THEN backlog'[i] = c
                                    ELSE i \in 1..Len(backlog) /\ backlog'[i] = backlog[i]
    BY <2>1, <2>2, AppendProperties
  <2>4. \A i \in 1..Len(backlog) : backlog[i] # c
    BY <2>1 DEF TimerInv, ComesOnce
  <2>5. (\A d : Bound(d)' <=> Bound(d)) /\ \A d : Registering(d)' <=> Registering(d)
    BY <2>1 DEF Bound, Registering
  <2>6. ~Bound(c) /\ ~Registering(c)
    BY <2>1 DEF TimerInv, ComesOnce
  <2>7. ComesOnce'
    <3>1. (\A i, j \in 1..Len(backlog) : backlog[i] = backlog[j] => i = j)'
      BY <2>3, <2>4 DEF TimerInv, ComesOnce
    <3>2. (\A i \in 1..Len(backlog) : conn[backlog[i]] # "new" /\ ~Registering(backlog[i]))'
      <4>1. \A i \in 1..Len(backlog) : backlog[i] \in Clients
        BY <2>2
      <4>2. \A i \in 1..Len(backlog') : conn'[backlog'[i]] # "new"
        BY <2>1, <2>2, <2>3, <2>4, <4>1 DEF TimerInv, ComesOnce
      <4>3. (\A i \in 1..Len(backlog) : ~Registering(backlog[i]))'
        BY <2>1, <2>3, <2>6 DEF TimerInv, ComesOnce, Registering
      <4>4. QED
        BY <4>2, <4>3
    <3>3. (\A i \in 1..Len(backlog) : ~Bound(backlog[i]))'
      BY <2>3, <2>5, <2>6 DEF TimerInv, ComesOnce
    <3>4. (\A d \in Clients : conn[d] = "new" => ~Bound(d) /\ ~Registering(d))'
      BY <2>1, <2>2, <2>5 DEF TimerInv, ComesOnce
    <3>5. (Accepting => ~Bound(m_users[mfd].m_address))'
      BY <2>1, <2>5 DEF TimerInv, ComesOnce
    <3>6. QED
      BY <3>1, <3>2, <3>3, <3>4, <3>5 DEF ComesOnce
  <2>8. OneBinding' /\ OneEvent' /\ WatchedHasTimer' /\ WorkHasTimer'
    BY <2>1 DEF OneBinding, OneEvent, WatchedHasTimer, WorkHasTimer, Working, TimerInv
  <2>9. QED
    BY <2>7, <2>8 DEF TimerInv
<1>2. ASSUME NEW r \in Requests, Send(c, r) PROVE TimerInv'
  BY <1>2, QuietStep DEF Send
<1>3. CASE Fin(c)
  <2>1. \A d \in Clients : conn'[d] = "new" => conn[d] = "new"
    BY <1>3 DEF Fin, TypeOK, ServerTypeOK
  <2>2. QED
    BY <1>3, <2>1, QuietStep DEF Fin
<1>4. QED
  BY <1>1, <1>2, <1>3 DEF ClientStep

LEMMA TimersKept ==
  ASSUME TypeOK, Placed, TimerInv, [Next]_vars
  PROVE  TimerInv'
<1>1. CASE EpollTimeout \/ UNCHANGED vars
  BY <1>1, QuietStep DEF EpollTimeout, vars, netVars, timerVars, loopVars
<1>2. ASSUME NEW w \in Workers, WorkerStep(w) PROVE TimerInv'
  BY <1>2, WorkerQuiet, QuietStep
<1>3. QED
  BY <1>1, <1>2, LoopTimers, ClientTimers DEF Next

LEMMA TimersStart == Init => TimerInv
BY ServerAssumption DEF Init, TimerInv, OneBinding, ComesOnce, OneEvent, WatchedHasTimer,
                        WorkHasTimer, Working, Bound, Registering

(* The event loop never follows a timer pointer that was deleted: not for an event *)
(* epoll_wait returned before other events of the batch closed connections, not    *)
(* when a descriptor was closed by a worker or given to a new connection meanwhile, *)
(* and whichever mode the pool works in.                                            *)
THEOREM TimerPointersLive == Spec => []TimerPointerLive
<1>1. TypeOK /\ Placed /\ TimerInv /\ [Next]_vars => TimerInv'
  BY TimersKept
<1>2. TimerInv => TimerPointerLive
  BY DEF TimerInv, WorkHasTimer, Working, TimerPointerLive
<1>3. QED
  BY <1>1, <1>2, TimersStart, PlacedHolds, PTL DEF Spec
=============================================================================
