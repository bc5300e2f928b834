--------------------------- MODULE HandoverProofs ---------------------------
(***************************************************************************)
(* Who owns what while a connection goes from hand to hand in the server:  *)
(* its timer, its place in the user count, and in the reactor the task the *)
(* loop waits for, for every number of connections, descriptors and        *)
(* workers.                                                                *)
(***************************************************************************)
EXTENDS WebServerProofs, FiniteSetTheorems

USE DEF Accepting

-----------------------------------------------------------------------------
(* Every connection has its timer. *)

\* The connection whose timer Register() is about to make is in its object, unless a worker
\* has closed it by now; and DelTimer deletes the timer of nobody.
Owned ==
  /\ ConnectionHasTimer
  /\ Accepting => sock[mfd] \in {m_users[mfd].m_address, None}
  /\ mpc \in {"uncount", "failUncount"} => sock[mfd] = None

\* A worker at most closes a descriptor.
LEMMA WorkerCloses ==
  ASSUME TypeOK, Placed, NEW w \in Workers, WorkerStep(w), NEW f \in Fds
  PROVE  sock'[f] \in {sock[f], None}
<1> USE DEF netVars
<1>1. CASE ProcessClose(w)
  <2>1. sock' = sock \/ Remove_fd(m_users[task[w]].m_sock)
    BY <1>1 DEF ProcessClose
  <2>2. QED
    BY <2>1 DEF Remove_fd, TypeOK, ServerTypeOK
<1>2. CASE ~ProcessClose(w)
  <2>1. sock' = sock
    BY <1>2 DEF WorkerStep, AwaitTask, FetchTask, WorkerReads, WorkerWrites, ReportFailure,
                ProcessIncomplete, ProcessRespond, CloseUncounts, CloseForgets, CloseRearms
  <2>2. QED
    BY <2>1
<1>3. QED
  BY <1>1, <1>2

LEMMA OwnedByWorkers ==
  ASSUME TypeOK, Placed, Owned, NEW w \in Workers, WorkerStep(w)
  PROVE  Owned'
<1>1. /\ UNCHANGED <<m_users_timer, timers, mpc, mfd>>
      /\ \A f \in Fds : m_users'[f].m_address = m_users[f].m_address
      /\ \A f \in Fds : sock'[f] \in {sock[f], None}
  BY WorkerQuiet, WorkerCloses
<1>2. Accepting \/ mpc \in {"uncount", "failUncount"} => mfd \in Fds
  BY DEF Placed, LoopPlaced
<1>3. QED
  BY <1>1, <1>2 DEF Owned, ConnectionHasTimer

\* The loop goes on without opening, closing or binding anything.
LEMMA OwnedMoves ==
  ASSUME Owned, UNCHANGED <<m_users_timer, timers, sock>>, ~Accepting,
         mpc' \notin {"count", "register", "uncount", "failUncount"}
  PROVE  Owned'
BY DEF Owned, ConnectionHasTimer

LEMMA OwnedByLoop ==
  ASSUME TypeOK, Placed, TimerInv, Owned, EventLoop
  PROVE  Owned'
<1> USE DEF netVars, timerVars
<1>1. ASSUME NEW f \in Fds, Accept(f) PROVE Owned'
  <2>1. /\ mpc = "accept" /\ mpc' = "count" /\ mfd' = f
        /\ sock' = [sock EXCEPT ![f] = Head(backlog)]
        /\ UNCHANGED <<m_users_timer, timers>>
    BY <1>1 DEF Accept
  <2>2. m_users'[f].m_address = Head(backlog)
    <3>1. m_users' = [m_users EXCEPT ![f] = [@ EXCEPT !.m_sock = f, !.m_address = Head(backlog)]]
      BY <1>1 DEF Accept, User
    <3>2. QED
      BY <3>1 DEF TypeOK, ServerTypeOK, User
  <2>3. QED
    BY <2>1, <2>2 DEF Owned, ConnectionHasTimer, TypeOK, ServerTypeOK
<1>2. CASE Register
  <2> DEFINE c == m_users[mfd].m_address
  <2>1. /\ mpc = "register" /\ mfd \in Fds /\ c \in Clients
        /\ m_users_timer' = [m_users_timer EXCEPT ![mfd] = c]
        /\ timers' = timers \cup {c} /\ mpc' \in {"loop", "accept"} /\ sock' = sock
    BY <1>2 DEF Register, Placed, LoopPlaced, RegisterKnows
  <2>2. sock[mfd] \in {c, None}
    BY <2>1 DEF Owned
  <2>3. QED
    BY <2>1, <2>2 DEF Owned, ConnectionHasTimer, TypeOK, ServerTypeOK
<1>3. CASE CbFun
  <2>1. /\ mpc \in {"del", "failDel"} /\ mpc' \in {"uncount", "failUncount"} /\ mfd' = mfd
        /\ mfd \in Fds /\ sock' = [sock EXCEPT ![mfd] = None]
        /\ UNCHANGED <<m_users_timer, timers>>
    BY <1>3 DEF CbFun, Remove_fd, Placed, LoopPlaced
  <2>2. QED
    BY <2>1 DEF Owned, ConnectionHasTimer, TypeOK, ServerTypeOK
<1>4. CASE DelTimer
  <2>1. /\ mpc \in {"uncount", "failUncount"} /\ mpc' = "loop" /\ mfd \in Fds
        /\ timers' = timers \ {m_users_timer[mfd]} /\ sock' = sock
        /\ m_users_timer' = m_users_timer
    BY <1>4 DEF DelTimer, Placed, LoopPlaced
  <2>2. \A f \in Fds : sock[f] # None => m_users_timer[f] = sock[f] /\ sock[f] \in timers /\ f # mfd
    BY <2>1 DEF Owned, ConnectionHasTimer
  <2>3. \A f \in Fds : sock[f] # None => m_users_timer[f] # m_users_timer[mfd]
    BY <2>1, <2>2 DEF TimerInv, OneBinding
  <2>4. QED
    BY <2>1, <2>2, <2>3 DEF Owned, ConnectionHasTimer
<1>5. CASE \/ \E room \in SUBSET Fds : EpollWait(room)
           \/ AcceptFails \/ Refuse \/ AppendPosts \/ SpinEnds
           \/ \E e \in batch : DealClientData(e) \/ HangUp(e) \/ ReactorAppend(e)
                               \/ ProactorRead(e) \/ ProactorWrite(e)
  <2>1. /\ UNCHANGED <<m_users_timer, timers, sock>> /\ ~Accepting
        /\ mpc' \notin {"count", "register", "uncount", "failUncount"}
    BY <1>5 DEF EpollWait, AcceptFails, Refuse, AppendPosts, SpinEnds, DealClientData, HangUp,
                ReactorAppend, ProactorRead, ProactorWrite, Take
  <2>2. QED
    BY <2>1, OwnedMoves
<1>6. CASE CountLoads
  <2>1. /\ mpc = "count" /\ mpc' = "register" /\ mfd \in Fds
        /\ UNCHANGED <<m_users, m_users_timer, timers, sock, mfd>>
    BY <1>6 DEF CountLoads, Placed, LoopPlaced
  <2>2. QED
    BY <2>1 DEF Owned, ConnectionHasTimer
<1>7. QED
  BY <1>1, <1>2, <1>3, <1>4, <1>5, <1>6 DEF EventLoop, LoopStep

LEMMA OwnedKept ==
  ASSUME TypeOK, Placed, TimerInv, Owned, [Next]_vars
  PROVE  Owned'
<1>1. CASE EpollTimeout \/ UNCHANGED vars \/ \E c \in Clients : ClientStep(c)
  <2>1. UNCHANGED <<m_users, m_users_timer, timers, sock, mpc, mfd>>
    BY <1>1 DEF EpollTimeout, vars, netVars, timerVars, loopVars, ClientStep, Connect, Send, Fin
  <2>2. QED
    BY <2>1 DEF Owned, ConnectionHasTimer
<1>2. QED
  BY <1>1, OwnedByLoop, OwnedByWorkers DEF Next

\* What the server's proofs have shown so far.
LEMMA ServerInv == Spec => [](TypeOK /\ Placed /\ TimerInv)
<1>1. TypeOK /\ Placed /\ TimerInv /\ [Next]_vars => TimerInv'
  BY TimersKept
<1>2. QED
  BY <1>1, TimersStart, PlacedHolds, PTL DEF Spec

(* Every connection the loop knows has its own timer in the list, under its own        *)
(* descriptor, whoever closed what was open under that descriptor before: cb_fun(), or *)
(* Close_connect() in a worker at any moment.                                          *)
THEOREM ConnectionsHaveTimers == Spec => []ConnectionHasTimer
<1>1. Init => Owned
  BY DEF Init, Owned, ConnectionHasTimer
<1>2. TypeOK /\ Placed /\ TimerInv /\ Owned /\ [Next]_vars => Owned'
  BY OwnedKept
<1>3. Owned => ConnectionHasTimer
  BY DEF Owned
<1>4. QED
  BY <1>1, <1>2, <1>3, ServerInv, PTL DEF Spec

-----------------------------------------------------------------------------
(* The user count, when no request makes a worker close a connection. *)

\* What a missing file would leave behind.
NoMiss ==
  /\ \A f \in Fds : m_users[f].buf # "miss" /\ m_users[f].url # "miss"
  /\ \A c \in Clients : sent[c] # "miss"
  /\ \A w \in Workers : job[w] \notin {"uncount", "unsock", "rearm"}

\* What the loop may close is open: it is registered, or has an event of this batch, or the
\* loop works for it.
OpenAtWork ==
  /\ \A f \in Fds : interest[f] # "none" => sock[f] # None
  /\ \A e \in batch : e.fd # Listen => sock[e.fd] # None
  /\ mpc \in {"spin", "del", "failDel"} \/ (mpc = "post" /\ ServerMode = 0) => sock[mfd] # None

Open == {f \in Fds : sock[f] # None}

CountInv ==
  /\ NoMiss /\ OpenAtWork /\ UsersCounted
  /\ mpc \in {"register", "uncount", "failUncount"} => mreg = m_user_count

LEMMA BufFields ==
  ASSUME NEW u \in User
  PROVE  /\ \A s : [u EXCEPT !.m_sock = s].buf = u.buf /\ [u EXCEPT !.m_sock = s].url = u.url
         /\ \A s, a : [u EXCEPT !.m_sock = s, !.m_address = a].buf = u.buf
         /\ \A s, a : [u EXCEPT !.m_sock = s, !.m_address = a].url = u.url
         /\ \A b : [u EXCEPT !.m_imprv = b].buf = u.buf /\ [u EXCEPT !.m_imprv = b].url = u.url
         /\ \A b : [u EXCEPT !.m_timer_trig = b].buf = u.buf /\ [u EXCEPT !.m_timer_trig = b].url = u.url
         /\ \A b, d : [u EXCEPT !.m_timer_trig = b, !.m_imprv = d].buf = u.buf
         /\ \A b, d : [u EXCEPT !.m_timer_trig = b, !.m_imprv = d].url = u.url
         /\ \A b : [u EXCEPT !.m_state = b].buf = u.buf /\ [u EXCEPT !.m_state = b].url = u.url
         /\ \A b : [u EXCEPT !.buf = b].buf = b /\ [u EXCEPT !.buf = b].url = u.url
         /\ \A n : [u EXCEPT !.to_send = n].buf = u.buf /\ [u EXCEPT !.to_send = n].url = u.url
BY DEF User

\* The methods of an object bring no missing file into it.
Clean(u) == u.buf # "miss" /\ u.url # "miss"

LEMMA StaysClean ==
  ASSUME TypeOK, NoMiss, NEW u \in User, Clean(u)
  PROVE  /\ Clean(Cleared(u)) /\ Clean(Parsed(u))
         /\ ReadSucceeds(u) => Clean(Received(u))
         /\ \A r \in WriteOutcomes(u) : Clean(r.user)
         /\ u.buf # "miss" => Target(u) # "miss"
<1>1. None # "miss"
  BY ServerAssumption DEF RequestKinds
<1>2. Clean(Cleared(u))
  BY <1>1 DEF Cleared, Clean
<1>3. Target(u) # "miss"
  BY DEF Target, Clean
<1>4. Clean(Parsed(u))
  BY <1>1, <1>3 DEF Parsed, Clean, User
<1>5. ASSUME ReadSucceeds(u) PROVE Clean(Received(u))
  <2>1. Peer(u) \in Clients
    BY <1>5, PeerTyped DEF ReadSucceeds, TypeOK
  <2>2. sent[Peer(u)] # "miss"
    BY <2>1 DEF NoMiss
  <2>3. QED
    BY <2>2 DEF Received, Clean, User
<1>6. ASSUME NEW r \in WriteOutcomes(u) PROVE Clean(r.user)
  <2>1. \A n : Clean([u EXCEPT !.to_send = n])
    BY BufFields DEF Clean
  <2>2. QED
    BY <1>2, <1>6, <2>1 DEF WriteOutcomes, WriteEnds, WriteFails, WriteStalls
<1>7. QED
  BY <1>2, <1>3, <1>4, <1>5, <1>6

\* A step that changes one object at most, drains one connection at most, and sends a
\* worker on its way.
LEMMA CleanStep ==
  ASSUME TypeOK, NoMiss,
         m_users' = m_users \/ \E f \in Fds : \E v : Clean(v) /\ m_users' = [m_users EXCEPT ![f] = v],
         \A c \in Clients : sent'[c] \in {sent[c], None},
         job' = job \/ \E w \in Workers, next \in {"idle", "io", "process", "trig"} :
                         job' = [job EXCEPT ![w] = next]
  PROVE  NoMiss'
<1>1. None # "miss"
  BY ServerAssumption DEF RequestKinds
<1>2. \A f \in Fds : Clean(m_users'[f])
  BY DEF NoMiss, Clean, TypeOK, ServerTypeOK
<1>3. \A w \in Workers : job'[w] \notin {"uncount", "unsock", "rearm"}
  BY DEF NoMiss, TypeOK, ServerTypeOK
<1>4. QED
  BY <1>1, <1>2, <1>3 DEF NoMiss, Clean

LEMMA DoneIdle ==
  ASSUME NEW w
  PROVE  /\ Done(w) => job' = [job EXCEPT ![w] = "idle"]
         /\ \A next : Continue(w, next) => job' = [job EXCEPT ![w] = next]
BY DEF Done, Continue

\* A worker closes nothing, then.
LEMMA WorkerKeepsOpen ==
  ASSUME TypeOK, Placed, NoMiss, NEW w \in Workers, WorkerStep(w)
  PROVE  NoMiss' /\ UNCHANGED <<sock, m_user_count, mreg>>
<1> DEFINE f == task[w]
           u == m_users[f]
           Kept == NoMiss' /\ UNCHANGED <<sock, m_user_count, mreg>>
<1> USE DEF netVars, timerVars, loopVars
<1>1. ASSUME job[w] # "idle" PROVE f \in Fds /\ u \in User /\ Clean(u)
  BY <1>1 DEF TypeOK, ServerTypeOK, Placed, WorkerPlaced, NoMiss, Clean
<1>2. CASE AwaitTask(w)
  BY <1>2, CleanStep DEF AwaitTask, workVars
<1>3. CASE FetchTask(w)
  <2>1. job' = job \/ \E next \in {"io", "process"} : job' = [job EXCEPT ![w] = next]
    <3>1. CASE queue = <<>>
      <4>1. job' = [job EXCEPT ![w] = job[w]]
        BY <1>3, <3>1 DEF FetchTask
      <4>2. QED
        BY <4>1 DEF TypeOK, ServerTypeOK
    <3>2. CASE queue # <<>>
      BY <1>3, <3>2 DEF FetchTask
    <3>3. QED
      BY <3>1, <3>2
  <2>2. QED
    BY <1>3, <2>1, CleanStep DEF FetchTask
<1>4. CASE WorkerReads(w)
  <2>1. f \in Fds /\ u \in User /\ Clean(u)
    BY <1>1, <1>4 DEF WorkerReads
  <2>2. CASE ReadSucceeds(u)
    <3>1. /\ m_users' = [m_users EXCEPT ![f] = [Received(u) EXCEPT !.m_imprv = 1]]
          /\ sent' = Drained(u) /\ job' = [job EXCEPT ![w] = "process"]
      BY <1>4, <2>1, <2>2, DoneIdle DEF WorkerReads, TypeOK, ServerTypeOK
    <3>2. Clean([Received(u) EXCEPT !.m_imprv = 1])
      BY <2>1, <2>2, StaysClean, ReceivedTyped, BufFields DEF Clean, TypeOK
    <3>3. \A c \in Clients : sent'[c] \in {sent[c], None}
      BY <3>1 DEF Drained, TypeOK, ServerTypeOK
    <3>4. QED
      BY <1>4, <2>1, <3>1, <3>2, <3>3, CleanStep DEF WorkerReads
  <2>3. CASE ~ReadSucceeds(u)
    <3>1. /\ m_users' = [m_users EXCEPT ![f] = [u EXCEPT !.m_imprv = 1]]
          /\ sent' = sent /\ job' = [job EXCEPT ![w] = "trig"]
      BY <1>4, <2>1, <2>3, DoneIdle DEF WorkerReads, TypeOK, ServerTypeOK
    <3>2. Clean([u EXCEPT !.m_imprv = 1])
      BY <2>1, BufFields DEF Clean
    <3>3. QED
      BY <1>4, <2>1, <3>1, <3>2, CleanStep DEF WorkerReads
  <2>4. QED
    BY <2>2, <2>3
<1>5. CASE WorkerWrites(w)
  <2>1. f \in Fds /\ u \in User /\ Clean(u)
    BY <1>1, <1>5 DEF WorkerWrites
  <2>2. PICK r \in WriteOutcomes(u) :
              /\ m_users' = [m_users EXCEPT ![f] = [r.user EXCEPT !.m_imprv = 1]]
              /\ IF r.ok THEN Done(w) ELSE Continue(w, "trig")
    BY <1>5 DEF WorkerWrites
  <2>3. Clean([r.user EXCEPT !.m_imprv = 1])
    BY <2>1, OutcomesTyped, StaysClean, BufFields DEF Clean, TypeOK
  <2>4. \E next \in {"idle", "trig"} : job' = [job EXCEPT ![w] = next]
    BY <2>2, DoneIdle
  <2>5. QED
    BY <1>5, <2>1, <2>2, <2>3, <2>4, CleanStep DEF WorkerWrites
<1>6. CASE ReportFailure(w)
  <2>1. f \in Fds /\ u \in User /\ Clean(u)
    BY <1>1, <1>6 DEF ReportFailure
  <2>2. /\ m_users' = [m_users EXCEPT ![f] = [u EXCEPT !.m_timer_trig = 1]]
        /\ job' = [job EXCEPT ![w] = "idle"]
    BY <1>6, DoneIdle DEF ReportFailure
  <2>3. Clean([u EXCEPT !.m_timer_trig = 1])
    BY <2>1, BufFields DEF Clean
  <2>4. QED
    BY <1>6, <2>1, <2>2, <2>3, CleanStep DEF ReportFailure
<1>7. CASE ProcessIncomplete(w)
  <2>1. f \in Fds /\ u \in User /\ Clean(u)
    BY <1>1, <1>7 DEF ProcessIncomplete
  <2>2. /\ m_users' = [m_users EXCEPT ![f] = [u EXCEPT !.buf = None]]
        /\ job' = [job EXCEPT ![w] = "idle"]
    BY <1>7, DoneIdle DEF ProcessIncomplete
  <2>3. Clean([u EXCEPT !.buf = None])
    BY <2>1, BufFields, ServerAssumption DEF Clean, RequestKinds
  <2>4. QED
    BY <1>7, <2>1, <2>2, <2>3, CleanStep DEF ProcessIncomplete
<1>8. CASE ProcessRespond(w)
  <2>1. f \in Fds /\ u \in User /\ Clean(u)
    BY <1>1, <1>8 DEF ProcessRespond
  <2>2. /\ m_users' = [m_users EXCEPT ![f] = [Parsed(u) EXCEPT !.to_send = Windows]]
        /\ job' = [job EXCEPT ![w] = "idle"]
    BY <1>8, <2>1, DoneIdle DEF ProcessRespond, TypeOK, ServerTypeOK
  <2>3. Clean([Parsed(u) EXCEPT !.to_send = Windows])
    BY <2>1, StaysClean, ParsedTyped, BufFields DEF Clean
  <2>4. QED
    BY <1>8, <2>1, <2>2, <2>3, CleanStep DEF ProcessRespond
<1>9. ~ProcessClose(w)
  BY <1>1, StaysClean DEF ProcessClose, Clean
<1>10. ~CloseUncounts(w) /\ ~CloseForgets(w) /\ ~CloseRearms(w)
  BY DEF CloseUncounts, CloseForgets, CloseRearms, NoMiss
<1>11. QED
  BY <1>2, <1>3, <1>4, <1>5, <1>6, <1>7, <1>8, <1>9, <1>10 DEF WorkerStep

LEMMA CountByWorkers ==
  ASSUME TypeOK, Placed, CountInv, NEW w \in Workers, WorkerStep(w)
  PROVE  CountInv'
<1>1. NoMiss' /\ UNCHANGED <<sock, m_user_count, mreg>>
  BY WorkerKeepsOpen DEF CountInv
<1>2. /\ UNCHANGED <<mpc, mfd, batch>>
      /\ \A f \in Fds : interest'[f] # "none" => interest[f] # "none"
  BY WorkerQuiet
<1>3. QED
  BY <1>1, <1>2 DEF CountInv, OpenAtWork, UsersCounted

\* The loop, too, keeps objects and data clean.
LEMMA LoopStaysClean ==
  ASSUME TypeOK, Placed, NoMiss, EventLoop
  PROVE  NoMiss'
<1> USE DEF netVars, workVars, TypeOK, ServerTypeOK
<1>1. ASSUME NEW f \in Fds PROVE m_users[f] \in User /\ Clean(m_users[f])
  BY DEF NoMiss, Clean
<1>2. CASE \/ \E room \in SUBSET Fds : EpollWait(room)
           \/ AcceptFails \/ AppendPosts \/ CbFun \/ Refuse \/ CountLoads
           \/ \E e \in batch : DealClientData(e) \/ HangUp(e)
  <2>1. m_users' = m_users /\ job' = job
    BY <1>2 DEF EpollWait, AcceptFails, AppendPosts, CbFun, Refuse, CountLoads, DealClientData, HangUp
  <2>2. \A c \in Clients : sent'[c] \in {sent[c], None}
    BY <1>2 DEF EpollWait, AcceptFails, AppendPosts, CbFun, Refuse, CountLoads, DealClientData,
                HangUp, Remove_fd
  <2>3. QED
    BY <2>1, <2>2, CleanStep
<1>3. ASSUME NEW e \in batch, ReactorAppend(e) PROVE NoMiss'
  <2>1. e.fd \in Fds /\ sent' = sent /\ job' = job
    BY <1>3 DEF ReactorAppend, Event
  <2>2. m_users' = m_users \/ \E b \in {0, 1} : m_users' = [m_users EXCEPT ![e.fd] = [m_users[e.fd] EXCEPT !.m_state = b]]
    BY <1>3 DEF ReactorAppend
  <2>3. \A b \in {0, 1} : Clean([m_users[e.fd] EXCEPT !.m_state = b])
    BY <1>1, <2>1, BufFields DEF Clean
  <2>4. QED
    BY <2>1, <2>2, <2>3, CleanStep
<1>4. ASSUME NEW e \in batch, ProactorRead(e) PROVE NoMiss'
  <2>1. e.fd \in Fds /\ job' = job
    BY <1>4 DEF ProactorRead, Event
  <2>2. CASE ReadSucceeds(m_users[e.fd])
    <3>1. /\ m_users' = [m_users EXCEPT ![e.fd] = Received(m_users[e.fd])]
          /\ sent' = Drained(m_users[e.fd])
      BY <1>4, <2>1, <2>2 DEF ProactorRead
    <3>2. \A c \in Clients : sent'[c] \in {sent[c], None}
      BY <3>1 DEF Drained
    <3>3. Clean(Received(m_users[e.fd]))
      BY <1>1, <2>1, <2>2, StaysClean
    <3>4. QED
      BY <2>1, <3>1, <3>2, <3>3, CleanStep
  <2>3. CASE ~ReadSucceeds(m_users[e.fd])
    BY <1>4, <2>1, <2>3, CleanStep DEF ProactorRead
  <2>4. QED
    BY <2>2, <2>3
<1>5. ASSUME NEW e \in batch, ProactorWrite(e) PROVE NoMiss'
  <2>1. e.fd \in Fds /\ job' = job /\ sent' = sent
    BY <1>5 DEF ProactorWrite, Event
  <2>2. PICK r \in WriteOutcomes(m_users[e.fd]) : m_users' = [m_users EXCEPT ![e.fd] = r.user]
    BY <1>5 DEF ProactorWrite
  <2>3. Clean(r.user)
    BY <1>1, <2>1, StaysClean
  <2>4. QED
    BY <2>1, <2>2, <2>3, CleanStep
<1>6. ASSUME NEW f \in Fds, Accept(f) PROVE NoMiss'
  <2>1. /\ m_users' = [m_users EXCEPT ![f] = [m_users[f] EXCEPT !.m_sock = f, !.m_address = Head(backlog)]]
        /\ sent' = sent /\ job' = job
    BY <1>6 DEF Accept
  <2>2. Clean([m_users[f] EXCEPT !.m_sock = f, !.m_address = Head(backlog)])
    BY <1>1, BufFields DEF Clean
  <2>3. QED
    BY <2>1, <2>2, CleanStep
<1>7. CASE Register
  <2>1. /\ m_users' = [m_users EXCEPT ![mfd] = Cleared(m_users[mfd])] /\ mfd \in Fds
        /\ sent' = sent /\ job' = job
    BY <1>7 DEF Register, Placed, LoopPlaced
  <2>2. Clean(Cleared(m_users[mfd]))
    BY <1>1, <2>1, StaysClean
  <2>3. QED
    BY <2>1, <2>2, CleanStep
<1>8. CASE SpinEnds
  <2>1. /\ m_users' = m_users \/ m_users' = [m_users EXCEPT ![mfd] = [m_users[mfd] EXCEPT !.m_imprv = 0]]
        /\ sent' = sent /\ job' = job /\ mfd \in Fds
    BY <1>8 DEF SpinEnds, Placed, LoopPlaced
  <2>2. Clean([m_users[mfd] EXCEPT !.m_imprv = 0])
    BY <1>1, <2>1, BufFields DEF Clean
  <2>3. QED
    BY <2>1, <2>2, CleanStep
<1>9. CASE DelTimer
  <2>1. /\ \/ m_users' = m_users
           \/ m_users' = [m_users EXCEPT ![mfd] = [m_users[mfd] EXCEPT !.m_timer_trig = 0, !.m_imprv = 0]]
        /\ sent' = sent /\ job' = job /\ mfd \in Fds
    BY <1>9 DEF DelTimer, Placed, LoopPlaced
  <2>2. Clean([m_users[mfd] EXCEPT !.m_timer_trig = 0, !.m_imprv = 0])
    BY <1>1, <2>1, BufFields DEF Clean
  <2>3. QED
    BY <2>1, <2>2, CleanStep
<1>10. QED
  BY <1>2, <1>3, <1>4, <1>5, <1>6, <1>7, <1>8, <1>9 DEF EventLoop, LoopStep

\* The loop goes on without opening or closing anything.
LEMMA CountMoves ==
  ASSUME CountInv, NoMiss', UNCHANGED <<sock, m_user_count>>,
         mpc \notin {"count", "register", "uncount", "failUncount"},
         mpc' \notin {"count", "register", "uncount", "failUncount"},
         \A f \in Fds : interest'[f] # "none" => interest[f] # "none",
         \A e \in batch' : e.fd # Listen => sock[e.fd] # None,
         mpc' \in {"spin", "del", "failDel"} \/ (mpc' = "post" /\ ServerMode = 0) => sock[mfd'] # None
  PROVE  CountInv'
BY DEF CountInv, OpenAtWork, UsersCounted

LEMMA CountByLoop ==
  ASSUME IsFiniteSet(Fds), TypeOK, Placed, TimerInv, CountInv, EventLoop
  PROVE  CountInv'
<1> USE DEF netVars
<1>1. NoMiss'
  BY LoopStaysClean DEF CountInv
<1>2. IsFiniteSet(Open) /\ Cardinality(Open) \in Nat /\ m_user_count \in Int
  <2>1. Open \in SUBSET Fds
    BY DEF Open
  <2>2. QED
    BY <2>1, FS_Subset, FS_CardinalityType DEF TypeOK, ServerTypeOK
<1>3. m_user_count = Cardinality(Open) - (IF Accepting THEN 1 ELSE 0)
                       + (IF mpc \in {"uncount", "failUncount"} THEN 1 ELSE 0)
  BY DEF CountInv, UsersCounted, Open
<1>4. UsersCounted' <=> m_user_count' = Cardinality(Open') - (IF Accepting' THEN 1 ELSE 0)
                                          + (IF mpc' \in {"uncount", "failUncount"} THEN 1 ELSE 0)
  BY DEF UsersCounted, Open
<1>5. \A e \in batch : e \in Event /\ (e.fd # Listen => e.fd \in Fds /\ sock[e.fd] # None)
  BY DEF TypeOK, ServerTypeOK, Event, CountInv, OpenAtWork
<1>6. ASSUME NEW room \in SUBSET Fds, EpollWait(room) PROVE CountInv'
  <2>1. /\ UNCHANGED <<sock, m_user_count, mpc, mfd>> /\ mpc = "loop" /\ batch' = Ready(room)
        /\ \A f \in Fds : interest'[f] # "none" => interest[f] # "none"
    BY <1>6 DEF EpollWait, ReadyFds
  <2>2. \A f \in ReadyFds(room) : sock[f] # None
    BY DEF ReadyFds, CountInv, OpenAtWork
  <2>3. \A e \in Ready(room) : e.fd # Listen => sock[e.fd] # None
    BY <2>2 DEF Ready, EventOf
  <2>4. QED
    BY <1>1, <2>1, <2>3, CountMoves
<1>7. ASSUME NEW e \in batch, DealClientData(e) \/ HangUp(e) \/ ReactorAppend(e) PROVE CountInv'
  <2>1. /\ UNCHANGED <<sock, m_user_count, interest>> /\ mpc = "loop" /\ batch' \subseteq batch
        /\ mpc' \in {"accept", "del", "spin", "post"}
        /\ mpc' # "accept" => e.fd # Listen /\ mfd' = e.fd
    BY <1>7 DEF DealClientData, HangUp, ReactorAppend, Take
  <2>2. QED
    BY <1>1, <1>5, <2>1, CountMoves
<1>8. ASSUME NEW e \in batch, ProactorRead(e) PROVE CountInv'
  <2>1. /\ UNCHANGED <<sock, m_user_count, interest>> /\ mpc = "loop" /\ batch' \subseteq batch
        /\ ServerMode = 1 /\ e.fd # Listen
        /\ mpc' \in {"loop", "post"} \/ (mpc' = "del" /\ mfd' = e.fd)
    BY <1>8 DEF ProactorRead, Take
  <2>2. QED
    BY <1>1, <1>5, <2>1, CountMoves
<1>9. ASSUME NEW e \in batch, ProactorWrite(e) PROVE CountInv'
  <2>1. e.fd \in Fds /\ m_users[e.fd] \in User /\ m_users[e.fd].m_sock \in Fds \cup {None}
    BY <1>9 DEF ProactorWrite, TypeOK, ServerTypeOK, Event, User
  <2>2. PICK r \in WriteOutcomes(m_users[e.fd]) :
              /\ interest' = Rearmed(m_users[e.fd], r.ev)
              /\ IF r.ok THEN UNCHANGED <<mpc, mfd>> ELSE mpc' = "del" /\ mfd' = e.fd
    BY <1>9 DEF ProactorWrite
  <2>3. \A f \in Fds : interest'[f] # "none" => interest[f] # "none"
    BY <2>1, <2>2, ModQuiet DEF Rearmed, TypeOK
  <2>4. /\ UNCHANGED <<sock, m_user_count>> /\ mpc = "loop" /\ batch' \subseteq batch /\ e.fd # Listen
        /\ mpc' = "loop" \/ (mpc' = "del" /\ mfd' = e.fd)
    BY <1>9, <2>2 DEF ProactorWrite, Take
  <2>5. QED
    BY <1>1, <1>5, <2>3, <2>4, CountMoves
<1>10. CASE AcceptFails \/ Refuse \/ AppendPosts \/ SpinEnds
  <2>1. /\ UNCHANGED <<sock, m_user_count, interest, batch>>
        /\ mpc \in {"accept", "post", "spin"} /\ mpc' \in {"loop", "spin", "failDel"}
        /\ mpc' = "failDel" => mfd' = mfd /\ mpc = "spin"
        /\ mpc' = "spin" => mfd' = mfd /\ mpc = "post" /\ ServerMode = 0
    BY <1>10 DEF AcceptFails, Refuse, AppendPosts, SpinEnds
  <2>2. mpc' \in {"spin", "failDel"} => sock[mfd'] # None
    BY <2>1 DEF CountInv, OpenAtWork
  <2>3. QED
    BY <1>1, <1>5, <2>1, <2>2, CountMoves
<1>11. ASSUME NEW f \in Fds, Accept(f) PROVE CountInv'
  <2>1. /\ mpc = "accept" /\ mpc' = "count" /\ m_user_count' = m_user_count
        /\ sock[f] = None /\ sock' = [sock EXCEPT ![f] = Head(backlog)] /\ batch' = batch
        /\ interest' = [interest EXCEPT ![f] = "in"]
    BY <1>11 DEF Accept
  <2>2. Head(backlog) # None
    BY <1>11, HeadComesOnce, ServerAssumption DEF Accept, TimerInv
  <2>3. Open' = Open \cup {f} /\ f \notin Open
    BY <2>1, <2>2 DEF Open, TypeOK, ServerTypeOK
  <2>4. Cardinality(Open') = Cardinality(Open) + 1
    BY <1>2, <2>3, FS_AddElement
  <2>5. UsersCounted'
    BY <1>2, <1>3, <1>4, <2>1, <2>4
  <2>6. OpenAtWork'
    BY <1>5, <2>1, <2>2 DEF CountInv, OpenAtWork, TypeOK, ServerTypeOK
  <2>7. QED
    BY <1>1, <2>1, <2>5, <2>6 DEF CountInv
<1>12. CASE Register
  <2>1. /\ mpc = "register" /\ mpc' \in {"loop", "accept"} /\ m_user_count' = mreg + 1
        /\ UNCHANGED <<sock, interest, batch>> /\ mreg = m_user_count
    BY <1>12 DEF Register, CountInv
  <2>2. UsersCounted' /\ OpenAtWork'
    BY <1>2, <1>3, <1>4, <2>1 DEF Open, OpenAtWork, CountInv
  <2>3. QED
    BY <1>1, <2>1, <2>2 DEF CountInv
<1>13. CASE CbFun
  <2>1. /\ mpc \in {"del", "failDel"} /\ mpc' \in {"uncount", "failUncount"} /\ mfd \in Fds
        /\ mreg' = m_user_count /\ m_user_count' = m_user_count /\ batch' = batch /\ mfd' = mfd
        /\ Remove_fd(mfd)
    BY <1>13 DEF CbFun, Placed, LoopPlaced
  <2>2. sock' = [sock EXCEPT ![mfd] = None] /\ interest' = [interest EXCEPT ![mfd] = "none"]
    BY <2>1 DEF Remove_fd
  <2>3. sock[mfd] # None /\ \A e \in batch : e.fd # mfd
    BY <2>1 DEF CountInv, OpenAtWork, TimerInv, OneEvent, Working
  <2>4. Open' = Open \ {mfd} /\ mfd \in Open
    BY <2>1, <2>2, <2>3 DEF Open, TypeOK, ServerTypeOK
  <2>5. Cardinality(Open') = Cardinality(Open) - 1
    BY <1>2, <2>4, FS_RemoveElement
  <2>6. UsersCounted'
    BY <1>2, <1>3, <1>4, <2>1, <2>5
  <2>7. OpenAtWork'
    BY <1>5, <2>1, <2>2, <2>3 DEF CountInv, OpenAtWork, TypeOK, ServerTypeOK
  <2>8. QED
    BY <1>1, <2>1, <2>6, <2>7 DEF CountInv
<1>14. CASE DelTimer
  <2>1. /\ mpc \in {"uncount", "failUncount"} /\ mpc' = "loop" /\ m_user_count' = mreg - 1
        /\ UNCHANGED <<sock, interest, batch>> /\ mreg = m_user_count
    BY <1>14 DEF DelTimer, CountInv
  <2>2. UsersCounted' /\ OpenAtWork'
    BY <1>2, <1>3, <1>4, <2>1 DEF Open, OpenAtWork, CountInv
  <2>3. QED
    BY <1>1, <2>1, <2>2 DEF CountInv
<1>15. CASE CountLoads
  <2>1. /\ mpc = "count" /\ mpc' = "register" /\ mreg' = m_user_count /\ m_user_count' = m_user_count
        /\ UNCHANGED <<sock, interest, batch>>
    BY <1>15 DEF CountLoads
  <2>2. UsersCounted' /\ OpenAtWork'
    BY <2>1 DEF UsersCounted, OpenAtWork, CountInv
  <2>3. QED
    BY <1>1, <2>1, <2>2 DEF CountInv
<1>16. QED
  BY <1>6, <1>7, <1>8, <1>9, <1>10, <1>11, <1>12, <1>13, <1>14, <1>15 DEF EventLoop, LoopStep

LEMMA CountKept ==
  ASSUME IsFiniteSet(Fds), "miss" \notin Requests, TypeOK, Placed, TimerInv, CountInv, [Next]_vars
  PROVE  CountInv'
<1> USE DEF netVars, timerVars, loopVars, workVars, vars
<1>1. CASE EpollTimeout \/ UNCHANGED vars
  BY <1>1 DEF EpollTimeout, CountInv, NoMiss, OpenAtWork, UsersCounted
<1>2. ASSUME NEW c \in Clients, ClientStep(c) PROVE CountInv'
  <2>1. UNCHANGED <<sock, interest, m_users, m_user_count, mpc, mfd, mreg, batch, job>>
    BY <1>2 DEF ClientStep, Connect, Send, Fin
  <2>2. \A d \in Clients : sent'[d] = sent[d] \/ sent'[d] \in Requests
    BY <1>2 DEF ClientStep, Connect, Send, Fin, TypeOK, ServerTypeOK
  <2>3. QED
    BY <2>1, <2>2 DEF CountInv, NoMiss, OpenAtWork, UsersCounted
<1>3. QED
  BY <1>1, <1>2, CountByLoop, CountByWorkers DEF Next

LEMMA CountHolds ==
  ASSUME IsFiniteSet(Fds), "miss" \notin Requests
  PROVE  Spec => []CountInv
<1>1. Init => CountInv
  <2> SUFFICES ASSUME Init PROVE CountInv
    OBVIOUS
  <2>1. {f \in Fds : sock[f] # None} = {}
    BY DEF Init
  <2>2. UsersCounted
    <3>1. Cardinality({}) = 0
      BY FS_EmptySet
    <3>2. Cardinality({f \in Fds : sock[f] # None}) = 0
      BY <2>1, <3>1
    <3>3. m_user_count = 0 /\ mpc = "loop"
      BY DEF Init
    <3>4. QED
      BY <3>2, <3>3 DEF UsersCounted
  <2>3. NoMiss /\ OpenAtWork
    BY ServerAssumption DEF Init, Cleared, NoMiss, OpenAtWork, RequestKinds
  <2>4. QED
    BY <2>2, <2>3 DEF Init, CountInv
<1>2. TypeOK /\ Placed /\ TimerInv /\ CountInv /\ [Next]_vars => CountInv'
  BY CountKept
<1>3. QED
  BY <1>1, <1>2, ServerInv, PTL DEF Spec

(* When only the loop closes connections, because no request asks for a missing file,  *)
(* m_user_count is the number of open connections at every moment but those between    *)
(* accept() or close() and the store: the limit of MAX_FD is held exactly.             *)
THEOREM UsersAreCounted ==
  ASSUME IsFiniteSet(Fds), "miss" \notin Requests
  PROVE  Spec => []UsersCounted
<1>1. CountInv => UsersCounted
  BY DEF CountInv
<1>2. Spec => []CountInv
  BY CountHolds
<1>3. QED
  BY <1>1, <1>2, PTL

-----------------------------------------------------------------------------
(* The handshake of the reactor. *)

Idle(f) == m_users[f].m_imprv = 0
NoIo == \A w \in Workers : job[w] # "io"

\* What the loop waits for while it spins: its task is queued, one worker has it, or
\* m_imprv is set.
Waiting ==
  \/ queue = <<mfd>> /\ NoIo /\ Idle(mfd)
  \/ /\ queue = <<>> /\ Idle(mfd)
     /\ \E w \in Workers : /\ job[w] = "io" /\ task[w] = mfd
                           /\ \A v \in Workers : job[v] = "io" => v = w
  \/ queue = <<>> /\ NoIo /\ ~Idle(mfd)

\* Handshake, and what makes it inductive: until append() has posted, no worker can have
\* taken the task.
HandInv ==
  /\ \A f \in Fds : ~Idle(f) => f = mfd /\ mpc \in {"spin", "failDel", "failUncount"}
  /\ mpc = "post" <=> poster = "post"
  /\ mpc = "post" => queue = <<mfd>> /\ NoIo
  /\ mpc = "spin" => Waiting
  /\ mpc \notin {"post", "spin"} => queue = <<>> /\ NoIo

\* Before append() posts, no worker is on its way to the task.
Untaken == poster = "post" /\ Len(queue) = 1 => \A w \in Workers : stage[w] # "woken"

LEMMA HandInvIsHandshake ==
  ASSUME TypeOK, Placed, ServerMode = 0, HandInv
  PROVE  Handshake
<1>1. \A f \in Fds : m_users[f].m_imprv \in {0, 1}
  BY DEF TypeOK, ServerTypeOK, User
<1>2. mpc \in {"post", "spin"} => mfd \in Fds
  BY DEF Placed, LoopPlaced
<1>3. NoIo => {w \in Workers : job[w] = "io"} = {}
  BY DEF NoIo
<1>4. ASSUME NEW w \in Workers, job[w] = "io", \A v \in Workers : job[v] = "io" => v = w
      PROVE  {v \in Workers : job[v] = "io"} = {w}
  BY <1>4
<1>5. \A f \in Fds : m_users[f].m_imprv = 1 => f = mfd /\ mpc \in {"spin", "failDel", "failUncount"}
  BY DEF HandInv, Idle
<1>6. CASE mpc = "post"
  BY <1>1, <1>2, <1>3, <1>5, <1>6 DEF HandInv, Idle, Handshake
<1>7. CASE mpc = "spin"
  <2>1. Waiting /\ mfd \in Fds
    BY <1>2, <1>7 DEF HandInv
  <2>2. CASE queue = <<mfd>> /\ NoIo /\ Idle(mfd)
    BY <1>3, <1>5, <1>7, <2>1, <2>2 DEF Idle, Handshake
  <2>3. CASE queue = <<>> /\ Idle(mfd)
    <3>1. CASE NoIo /\ ~Idle(mfd)
      BY <2>3, <3>1
    <3>2. ASSUME NEW w \in Workers, job[w] = "io", task[w] = mfd,
                 \A v \in Workers : job[v] = "io" => v = w
          PROVE  Handshake
      <4>1. {v \in Workers : job[v] = "io"} = {w}
        BY <1>4, <3>2
      <4>2. QED
        BY <1>5, <1>7, <2>1, <2>3, <3>2, <4>1 DEF Idle, Handshake
    <3>3. QED
      BY <2>1, <2>3, <3>1, <3>2 DEF Waiting
  <2>4. CASE queue = <<>> /\ NoIo /\ ~Idle(mfd)
    BY <1>1, <1>3, <1>5, <1>7, <2>1, <2>4 DEF Idle, Handshake
  <2>5. QED
    BY <2>1, <2>2, <2>3, <2>4 DEF Waiting
<1>8. CASE mpc \notin {"post", "spin"}
  BY <1>5, <1>8 DEF HandInv, NoIo, Handshake
<1>9. QED
  BY <1>6, <1>7, <1>8

\* Fields of an object that m_imprv does not depend on.
LEMMA ImprvFields ==
  ASSUME NEW u \in User
  PROVE  /\ \A s, c : [u EXCEPT !.m_sock = s, !.m_address = c].m_imprv = u.m_imprv
         /\ \A s : [u EXCEPT !.m_sock = s].m_imprv = u.m_imprv
         /\ \A b : [u EXCEPT !.m_timer_trig = b].m_imprv = u.m_imprv
         /\ \A b : [u EXCEPT !.m_state = b].m_imprv = u.m_imprv
         /\ \A r : [u EXCEPT !.buf = r].m_imprv = u.m_imprv
         /\ \A n : [u EXCEPT !.to_send = n].m_imprv = u.m_imprv
         /\ \A b : [u EXCEPT !.m_imprv = b].m_imprv = b
         /\ \A b, c : [u EXCEPT !.m_timer_trig = b, !.m_imprv = c].m_imprv = c
         /\ Parsed(u).m_imprv = u.m_imprv
         /\ Cleared(u).m_imprv = 0
BY DEF User, Parsed, Cleared

\* What the worker's jobs come to for the handshake: doing the I/O and answering, or
\* anything else.
LEMMA IoAnswers ==
  ASSUME TypeOK, Placed, NEW w \in Workers, WorkerReads(w) \/ WorkerWrites(w)
  PROVE  /\ job[w] = "io" /\ task[w] \in Fds
         /\ \A f \in Fds : m_users'[f].m_imprv = IF f = task[w] THEN 1 ELSE m_users[f].m_imprv
         /\ \E next \in {"process", "trig", "idle"} : job' = [job EXCEPT ![w] = next]
         /\ UNCHANGED <<queue, poster, mpc, mfd>>
<1> DEFINE f == task[w]
           u == m_users[f]
<1> USE DEF TypeOK, ServerTypeOK
<1>1. job[w] = "io" /\ f \in Fds /\ u \in User
  BY DEF WorkerReads, WorkerWrites, Placed, WorkerPlaced
<1>2. /\ \E next \in {"process", "trig", "idle"} : job' = [job EXCEPT ![w] = next]
      /\ UNCHANGED <<queue, poster, mpc, mfd>>
  BY DEF WorkerReads, WorkerWrites, Continue, Done, Pool!Finish, poolVars, loopVars
<1>3. \E v \in User : m_users' = [m_users EXCEPT ![f] = [v EXCEPT !.m_imprv = 1]]
  <2>1. CASE WorkerReads(w)
    <3>1. CASE ReadSucceeds(u)
      <4>1. Received(u) \in User
        BY <1>1, <3>1, ReceivedTyped
      <4>2. m_users' = [m_users EXCEPT ![f] = [Received(u) EXCEPT !.m_imprv = 1]]
        BY <1>1, <2>1, <3>1 DEF WorkerReads
      <4>3. QED
        BY <4>1, <4>2
    <3>2. CASE ~ReadSucceeds(u)
      <4>1. m_users' = [m_users EXCEPT ![f] = [u EXCEPT !.m_imprv = 1]]
        BY <1>1, <2>1, <3>2 DEF WorkerReads
      <4>2. QED
        BY <1>1, <4>1
    <3>3. QED
      BY <3>1, <3>2
  <2>2. CASE WorkerWrites(w)
    <3>1. PICK r \in WriteOutcomes(u) : m_users' = [m_users EXCEPT ![f] = [r.user EXCEPT !.m_imprv = 1]]
      BY <2>2 DEF WorkerWrites
    <3>2. r.user \in User
      BY <1>1, OutcomesTyped
    <3>3. QED
      BY <3>1, <3>2
  <2>3. QED
    BY <2>1, <2>2
<1>4. PICK v \in User : m_users' = [m_users EXCEPT ![f] = [v EXCEPT !.m_imprv = 1]]
  BY <1>3
<1>5. [v EXCEPT !.m_imprv = 1].m_imprv = 1
  BY DEF User
<1>6. \A g \in Fds : m_users'[g].m_imprv = IF g = f THEN 1 ELSE m_users[g].m_imprv
  BY <1>1, <1>4, <1>5
<1>7. QED
  BY <1>1, <1>2, <1>6

LEMMA OtherJobs ==
  ASSUME TypeOK, Placed, NEW w \in Workers,
         \/ ReportFailure(w) \/ ProcessIncomplete(w) \/ ProcessRespond(w)
         \/ ProcessClose(w) \/ CloseUncounts(w) \/ CloseForgets(w) \/ CloseRearms(w)
  PROVE  /\ job[w] # "io"
         /\ \A f \in Fds : m_users'[f].m_imprv = m_users[f].m_imprv
         /\ \E next \in {"uncount", "unsock", "rearm", "idle"} : job' = [job EXCEPT ![w] = next]
         /\ \A v \in Workers \ {w} : task'[v] = task[v]
         /\ UNCHANGED <<queue, poster, mpc, mfd>>
<1> DEFINE f == task[w]
           u == m_users[f]
<1> USE DEF TypeOK, ServerTypeOK
<1>1. job[w] # "io" /\ f \in Fds /\ u \in User
  BY DEF Placed, WorkerPlaced, ReportFailure, ProcessIncomplete, ProcessRespond, ProcessClose,
         CloseUncounts, CloseForgets, CloseRearms
<1>2. UNCHANGED <<mpc, mfd>>
  BY DEF ReportFailure, ProcessIncomplete, ProcessRespond, ProcessClose, CloseUncounts,
         CloseForgets, CloseRearms, loopVars
<1>3. Done(w) \/ \E next \in {"uncount", "unsock", "rearm"} : Continue(w, next)
  BY DEF ReportFailure, ProcessIncomplete, ProcessRespond, ProcessClose, CloseUncounts,
         CloseForgets, CloseRearms
<1>4. /\ \E next \in {"uncount", "unsock", "rearm", "idle"} : job' = [job EXCEPT ![w] = next]
      /\ \A v \in Workers \ {w} : task'[v] = task[v]
      /\ UNCHANGED <<queue, poster>>
  BY <1>3 DEF Done, Continue, Pool!Finish, poolVars, Pool!PoolTypeOK
<1>5. \A v \in User : v.m_imprv = u.m_imprv /\ m_users' = [m_users EXCEPT ![f] = v]
                        => \A g \in Fds : m_users'[g].m_imprv = m_users[g].m_imprv
  BY <1>1
<1>6. m_users' = m_users \/ \E v \in User : v.m_imprv = u.m_imprv /\ m_users' = [m_users EXCEPT ![f] = v]
  <2>1. CASE ReportFailure(w)
    <3>1. m_users' = [m_users EXCEPT ![f] = [u EXCEPT !.m_timer_trig = 1]]
      BY <1>1, <2>1 DEF ReportFailure
    <3>2. [u EXCEPT !.m_timer_trig = 1] \in User /\ [u EXCEPT !.m_timer_trig = 1].m_imprv = u.m_imprv
      BY <1>1 DEF User
    <3>3. QED
      BY <3>1, <3>2
  <2>2. CASE ProcessIncomplete(w)
    <3>1. m_users' = [m_users EXCEPT ![f] = [u EXCEPT !.buf = None]]
      BY <1>1, <2>2 DEF ProcessIncomplete
    <3>2. [u EXCEPT !.buf = None] \in User /\ [u EXCEPT !.buf = None].m_imprv = u.m_imprv
      BY <1>1 DEF User
    <3>3. QED
      BY <3>1, <3>2
  <2>3. CASE ProcessRespond(w)
    <3>1. Parsed(u) \in User /\ Windows \in 0..Windows
      BY <1>1, ParsedTyped, ServerAssumption
    <3>2. /\ [Parsed(u) EXCEPT !.to_send = Windows] \in User
          /\ [Parsed(u) EXCEPT !.to_send = Windows].m_imprv = u.m_imprv
      <4>1. Parsed(u).m_imprv = u.m_imprv
        BY <1>1, ImprvFields
      <4>2. QED
        BY <3>1, <4>1 DEF User
    <3>3. m_users' = [m_users EXCEPT ![f] = [Parsed(u) EXCEPT !.to_send = Windows]]
      BY <1>1, <2>3 DEF ProcessRespond
    <3>4. QED
      BY <3>2, <3>3
  <2>4. CASE ProcessClose(w)
    <3>1. m_users' = [m_users EXCEPT ![f] = Parsed(u)]
      BY <1>1, <2>4 DEF ProcessClose
    <3>2. QED
      BY <1>1, <3>1, ImprvFields, ParsedTyped
  <2>5. CASE CloseUncounts(w) \/ CloseRearms(w)
    BY <2>5 DEF CloseUncounts, CloseRearms
  <2>6. CASE CloseForgets(w)
    BY <1>1, <2>6, ImprvFields, UserFields DEF CloseForgets
  <2>7. QED
    BY <2>1, <2>2, <2>3, <2>4, <2>5, <2>6
<1>7. QED
  BY <1>1, <1>2, <1>4, <1>5, <1>6

LEMMA HandByWorkers ==
  ASSUME TypeOK, Placed, PoolMode = 0, Untaken, HandInv, NEW w \in Workers, WorkerStep(w)
  PROVE  HandInv'
<1> USE DEF TypeOK, ServerTypeOK, Idle, NoIo
<1>0. mpc = "post" \/ mpc = "spin" => mfd \in Fds \/ mpc = "post"
  BY DEF Placed, LoopPlaced
<1>1. CASE AwaitTask(w)
  BY <1>1 DEF AwaitTask, Pool!SemWait, loopVars, workVars, HandInv, Waiting
<1>2. CASE FetchTask(w)
  <2>1. /\ stage[w] = "woken"
        /\ UNCHANGED <<m_users, mpc, mfd, poster>>
    BY <1>2 DEF FetchTask, Pool!Fetch, loopVars
  <2>2. CASE queue = <<>>
    <3>1. UNCHANGED <<queue, task, job>>
      BY <1>2, <2>2 DEF FetchTask, Pool!Fetch
    <3>2. QED
      BY <2>1, <3>1 DEF HandInv, Waiting
  <2>3. CASE queue # <<>>
    <3>1. /\ job' = [job EXCEPT ![w] = "io"] /\ queue' = Tail(queue)
          /\ task' = [task EXCEPT ![w] = Head(queue)]
      BY <1>2, <2>3 DEF FetchTask, Pool!Fetch
    <3>2. mpc # "post"
      <4>1. mpc = "post" => poster = "post" /\ Len(queue) = 1
        BY DEF HandInv
      <4>2. QED
        BY <2>1, <4>1 DEF Untaken
    <3>3. mpc = "spin" /\ mfd \in Fds
      BY <1>0, <2>3, <3>2 DEF HandInv
    <3>4. queue = <<mfd>> /\ NoIo /\ Idle(mfd)
      BY <2>3, <3>3 DEF HandInv, Waiting
    <3>5. Head(queue) = mfd /\ Tail(queue) = <<>>
      BY <3>4
    <3>6. /\ job'[w] = "io" /\ task'[w] = mfd
          /\ \A v \in Workers : job'[v] = "io" => v = w
      BY <3>1, <3>4, <3>5 DEF Pool!PoolTypeOK
    <3>7. Waiting'
      BY <2>1, <3>1, <3>4, <3>5, <3>6 DEF Waiting
    <3>8. QED
      BY <2>1, <3>2, <3>3, <3>7 DEF HandInv
  <2>4. QED
    BY <2>2, <2>3
<1>3. CASE WorkerReads(w) \/ WorkerWrites(w)
  <2>1. /\ job[w] = "io" /\ task[w] \in Fds
        /\ \A f \in Fds : m_users'[f].m_imprv = IF f = task[w] THEN 1 ELSE m_users[f].m_imprv
        /\ \E next \in {"process", "trig", "idle"} : job' = [job EXCEPT ![w] = next]
        /\ UNCHANGED <<queue, poster, mpc, mfd>>
    BY <1>3, IoAnswers
  <2>2. ~NoIo /\ mpc = "spin"
    BY <2>1 DEF HandInv
  <2>2a. task[w] = mfd /\ queue = <<>> /\ \A v \in Workers : job[v] = "io" => v = w
    BY <2>1, <2>2 DEF HandInv, Waiting
  <2>3. NoIo' /\ ~Idle(mfd)'
    BY <2>1, <2>2a
  <2>4. Waiting'
    BY <2>1, <2>2a, <2>3 DEF Waiting
  <2>5. \A f \in Fds : ~Idle(f)' => f = mfd
    BY <2>1, <2>2a DEF HandInv
  <2>6. QED
    BY <2>1, <2>2, <2>4, <2>5 DEF HandInv
<1>4. CASE \/ ReportFailure(w) \/ ProcessIncomplete(w) \/ ProcessRespond(w)
           \/ ProcessClose(w) \/ CloseUncounts(w) \/ CloseForgets(w) \/ CloseRearms(w)
  <2>1. /\ job[w] # "io"
        /\ \A f \in Fds : m_users'[f].m_imprv = m_users[f].m_imprv
        /\ \E next \in {"uncount", "unsock", "rearm", "idle"} : job' = [job EXCEPT ![w] = next]
        /\ \A v \in Workers \ {w} : task'[v] = task[v]
        /\ UNCHANGED <<queue, poster, mpc, mfd>>
    BY <1>4, OtherJobs
  <2>2. \A v \in Workers : job'[v] = "io" <=> job[v] = "io"
    BY <2>1
  <2>3. mpc = "spin" => mfd \in Fds
    BY DEF Placed, LoopPlaced
  <2>4. Waiting /\ mpc = "spin" => Waiting'
    BY <2>1, <2>2, <2>3 DEF Waiting
  <2>5. QED
    BY <2>1, <2>2, <2>4 DEF HandInv
<1>5. QED
  BY <1>1, <1>2, <1>3, <1>4 DEF WorkerStep

LEMMA HandByLoop ==
  ASSUME TypeOK, Placed, ServerMode = 0, HandInv, EventLoop
  PROVE  HandInv'
<1> USE DEF TypeOK, ServerTypeOK, Idle, NoIo, workVars, poolVars
<1>1. \A f \in Fds : m_users[f] \in User /\ m_users[f].m_imprv \in {0, 1}
  BY DEF User
<1>2. CASE \/ (\E room \in SUBSET Fds : EpollWait(room)) \/ AcceptFails \/ Refuse
           \/ \E e \in batch : DealClientData(e) \/ HangUp(e)
  <2>1. /\ UNCHANGED <<m_users, job, queue, poster>> /\ mpc \in {"loop", "accept"}
        /\ mpc' \in {"loop", "accept", "del"}
    BY <1>2 DEF EpollWait, AcceptFails, Refuse, DealClientData, HangUp, Take
  <2>2. QED
    BY <2>1 DEF HandInv
<1>3. ASSUME NEW f \in Fds, Accept(f) PROVE HandInv'
  <2>1. /\ m_users' = [m_users EXCEPT ![f] = [m_users[f] EXCEPT !.m_sock = f, !.m_address = Head(backlog)]]
        /\ UNCHANGED <<job, queue, poster>> /\ mpc = "accept" /\ mpc' = "count"
    BY <1>3 DEF Accept
  <2>2. \A g \in Fds : m_users'[g].m_imprv = m_users[g].m_imprv
    BY <1>1, <2>1, ImprvFields
  <2>3. QED
    BY <2>1, <2>2 DEF HandInv
<1>4. CASE Register
  <2>1. /\ m_users' = [m_users EXCEPT ![mfd] = Cleared(m_users[mfd])] /\ mfd \in Fds
        /\ UNCHANGED <<job, queue, poster>> /\ mpc = "register" /\ mpc' \in {"loop", "accept"}
    BY <1>4 DEF Register, Placed, LoopPlaced
  <2>2. \A g \in Fds : m_users'[g].m_imprv \in {m_users[g].m_imprv, 0}
    BY <1>1, <2>1, ImprvFields
  <2>3. QED
    BY <2>1, <2>2 DEF HandInv
<1>5. ASSUME NEW e \in batch, ReactorAppend(e) PROVE HandInv'
  <2>1. e.fd \in Fds /\ mpc = "loop" /\ mfd' = e.fd /\ job' = job
    BY <1>5 DEF ReactorAppend, Take, Event
  <2>2. queue = <<>> /\ NoIo /\ \A f \in Fds : Idle(f)
    BY <1>1, <2>1 DEF HandInv
  <2>3. ~Pool!QueueFull
    BY <2>2, ServerAssumption DEF Pool!QueueFull
  <2>4. /\ Pool!Push(e.fd) /\ mpc' = "post"
        /\ \E b \in {0, 1} : m_users' = [m_users EXCEPT ![e.fd] = [m_users[e.fd] EXCEPT !.m_state = b]]
    BY <1>5, <2>3 DEF ReactorAppend
  <2>5. \A g \in Fds : m_users'[g].m_imprv = m_users[g].m_imprv
    BY <1>1, <2>1, <2>4, ImprvFields
  <2>6. queue' = <<e.fd>> /\ poster' = "post"
    BY <2>2, <2>4 DEF Pool!Push
  <2>7. QED
    BY <2>1, <2>2, <2>4, <2>5, <2>6 DEF HandInv
<1>6. CASE \E e \in batch : ProactorRead(e) \/ ProactorWrite(e)
  BY <1>6 DEF ProactorRead, ProactorWrite
<1>7. CASE AppendPosts
  <2>1. /\ UNCHANGED <<m_users, mfd, job, queue>> /\ mpc = "post" /\ mpc' = "spin"
        /\ poster' = "ready"
    BY <1>7 DEF AppendPosts, Pool!Post
  <2>2. mfd \in Fds
    BY <2>1 DEF Placed, LoopPlaced
  <2>3. queue = <<mfd>> /\ NoIo /\ \A f \in Fds : Idle(f)
    BY <1>1, <2>1 DEF HandInv
  <2>4. Waiting'
    BY <2>1, <2>2, <2>3 DEF Waiting
  <2>5. QED
    BY <2>1, <2>3, <2>4 DEF HandInv
<1>8. CASE SpinEnds
  <2>1. /\ mpc = "spin" /\ mfd \in Fds /\ m_users[mfd].m_imprv = 1
        /\ UNCHANGED <<job, queue, poster>>
    BY <1>8 DEF SpinEnds, Placed, LoopPlaced
  <2>2. queue = <<>> /\ NoIo /\ \A f \in Fds : ~Idle(f) => f = mfd
    BY <2>1 DEF HandInv, Waiting
  <2>3. CASE mpc' = "failDel" /\ UNCHANGED <<m_users, mfd>>
    BY <2>1, <2>2, <2>3 DEF HandInv
  <2>4. CASE mpc' = "loop" /\ m_users' = [m_users EXCEPT ![mfd] = [m_users[mfd] EXCEPT !.m_imprv = 0]]
    <3>1. \A g \in Fds : m_users'[g].m_imprv = 0
      BY <1>1, <2>1, <2>2, <2>4, ImprvFields
    <3>2. QED
      BY <2>1, <2>2, <2>4, <3>1 DEF HandInv
  <2>5. QED
    BY <1>8, <2>3, <2>4 DEF SpinEnds
<1>9. CASE CbFun
  <2>1. /\ UNCHANGED <<m_users, mfd, job, queue, poster>> /\ mpc \in {"del", "failDel"}
        /\ mpc' = IF mpc = "del" THEN "uncount" ELSE "failUncount"
    BY <1>9 DEF CbFun
  <2>2. QED
    BY <2>1 DEF HandInv
<1>10. CASE DelTimer
  <2>1. /\ mpc \in {"uncount", "failUncount"} /\ mpc' = "loop" /\ mfd \in Fds
        /\ UNCHANGED <<job, queue, poster>>
        /\ m_users' = IF mpc = "uncount" THEN m_users
             ELSE [m_users EXCEPT ![mfd] = [m_users[mfd] EXCEPT !.m_timer_trig = 0, !.m_imprv = 0]]
    BY <1>10 DEF DelTimer, Placed, LoopPlaced
  <2>2. \A g \in Fds : m_users'[g].m_imprv = 0
    BY <1>1, <2>1, ImprvFields DEF HandInv
  <2>3. QED
    BY <2>1, <2>2 DEF HandInv
<1>11. CASE CountLoads
  <2>1. UNCHANGED <<m_users, job, queue, poster>> /\ mpc = "count" /\ mpc' = "register"
    BY <1>11 DEF CountLoads
  <2>2. QED
    BY <2>1 DEF HandInv
<1>12. QED
  BY <1>2, <1>3, <1>4, <1>5, <1>6, <1>7, <1>8, <1>9, <1>10, <1>11 DEF EventLoop, LoopStep

\* What the proofs of the pool know of it.
LEMMA PostedUntaken == Spec => []Untaken
<1>1. Init => PoolProofs!Init
  BY DEF Init, Pool!Init, PoolProofs!Init
<1>2. TypeOK /\ [Next]_vars => [PoolProofs!Next]_(PoolProofs!poolVars)
  <2> SUFFICES ASSUME TypeOK, [Next]_vars PROVE [PoolProofs!Next]_(PoolProofs!poolVars)
    OBVIOUS
  <2>1. [Pool!Next]_poolVars
    BY StepsPool DEF TypeOK, ServerTypeOK
  <2>2. QED
    BY <2>1, PoolNextSame
<1>3. PoolProofs!Spec => []PoolProofs!Unseen
  BY PoolConstants, PoolProofs!OwedTaskUnseen
<1>4. PoolProofs!Unseen => Untaken
  BY DEF PoolProofs!Unseen, Untaken
<1>5. Spec => PoolProofs!Spec
  BY <1>1, <1>2, ServerTyping, PTL DEF Spec, PoolProofs!Spec
<1>6. QED
  BY <1>3, <1>4, <1>5, PTL

(* In reactor mode over a pool in reactor mode the loop and the workers hand each other  *)
(* one task at a time, for every number of workers and descriptors: no answer is lost    *)
(* and none is left over to end a later wait before its time.                            *)
THEOREM HandshakeHolds ==
  ASSUME ServerMode = 0, PoolMode = 0
  PROVE  Spec => []Handshake
<1>1. Init => HandInv
  <2> SUFFICES ASSUME Init PROVE HandInv
    OBVIOUS
  <2>1. \A f \in Fds : Idle(f)
    BY DEF Init, Cleared, Idle
  <2>2. queue = <<>> /\ poster = "ready" /\ NoIo /\ mpc = "loop"
    BY DEF Init, Pool!Init, NoIo
  <2>3. QED
    BY <2>1, <2>2 DEF HandInv
<1>2. TypeOK /\ Placed /\ Untaken /\ HandInv /\ [Next]_vars => HandInv'
  <2> SUFFICES ASSUME TypeOK, Placed, Untaken, HandInv, [Next]_vars PROVE HandInv'
    OBVIOUS
  <2>1. CASE EpollTimeout \/ UNCHANGED vars \/ \E c \in Clients : ClientStep(c)
    <3>1. UNCHANGED <<m_users, mpc, mfd, job, queue, poster, task>>
      BY <2>1 DEF EpollTimeout, vars, loopVars, workVars, poolVars, ClientStep, Connect, Send, Fin
    <3>2. QED
      BY <3>1 DEF HandInv, Idle, NoIo, Waiting
  <2>2. QED
    BY <2>1, HandByLoop, HandByWorkers DEF Next
<1>3. TypeOK /\ Placed /\ HandInv => Handshake
  BY HandInvIsHandshake
<1>4. QED
  BY <1>1, <1>2, <1>3, PlacedHolds, PostedUntaken, PTL DEF Spec

-----------------------------------------------------------------------------
(* The proactor hands a connection on, when no request makes a worker close one and    *)
(* the queue has room for every connection there can be.                               *)

Armed(f) == interest[f] \in {"in", "out"} /\ ~Closing(f)
Reported(f) == \E e \in batch : e.fd = f
Queued(f) == \E i \in 1..Len(queue) : queue[i] = f
Worked(f) == \E w \in Workers : task[w] = f

\* Nothing but h holds the connection under f.
HeldBy(f, h) ==
  /\ Armed(f) <=> h = "epoll"
  /\ Reported(f) <=> h = "batch"
  /\ Queued(f) <=> h = "queue"
  /\ Worked(f) <=> h = "worker"
  /\ Closing(f) <=> h = "loop"

\* One holder has an open connection, nobody a descriptor that is not open.
Held(f) ==
  IF sock[f] = None
    THEN HeldBy(f, "nobody")
    ELSE /\ \E h \in {"epoll", "batch", "queue", "worker", "loop"} : HeldBy(f, h)
         /\ m_users[f].m_sock = f /\ interest[f] # "none"

QueuedOnce == \A i, j \in 1..Len(queue) : queue[i] = queue[j] => i = j
WorkedOnce == \A v, w \in Workers : task[v] = task[w] /\ task[v] # None => v = w

\* A worker has a task while it runs, and only processes.
WorkersProcess ==
  \A w \in Workers : /\ stage[w] # "run" => task[w] = None
                     /\ job[w] \in {"idle", "process"}

LoopNeverWaits == mpc \notin {"spin", "failDel", "failUncount"}

OnceInv ==
  /\ \A f \in Fds : Held(f)
  /\ QueuedOnce /\ WorkedOnce /\ WorkersProcess /\ LoopNeverWaits
  /\ Cardinality(Open) <= MaxFd

LEMMA OnceIsOneHolder ==
  ASSUME TypeOK, TimerInv, OnceInv, NEW f \in Fds, sock[f] # None
  PROVE  Cardinality(Holders(f)) = 1
<1>1. PICK h \in {"epoll", "batch", "queue", "worker", "loop"} : HeldBy(f, h)
  BY DEF OnceInv, Held
<1> DEFINE ES == {interest[f]} \cap (IF Closing(f) THEN {} ELSE {"in", "out"})
           BS == {b \in batch : b.fd = f}
           QS == {n \in 1..Len(queue) : queue[n] = f}
           WS == {v \in Workers : task[v] = f}
           LS == IF Closing(f) THEN {mpc} ELSE {}
<1>2. f # None
  BY ServerAssumption
<1>3. /\ h # "epoll" => ES = {}
      /\ h # "batch" => BS = {}
      /\ h # "queue" => QS = {}
      /\ h # "worker" => WS = {}
      /\ h # "loop" => LS = {}
  BY <1>1 DEF HeldBy, Armed, Reported, Queued, Worked
<1>4. /\ h = "epoll" => \E x : ES = {x}
      /\ h = "loop" => \E x : LS = {x}
  BY <1>1 DEF HeldBy, Armed
<1>5. h = "batch" => \E x : BS = {x}
  <2> SUFFICES ASSUME h = "batch" PROVE \E x : BS = {x}
    OBVIOUS
  <2>1. PICK e \in batch : e.fd = f
    BY <1>1 DEF HeldBy, Reported
  <2>2. \A b \in BS : b = e
    BY <2>1 DEF TimerInv, OneEvent
  <2>3. BS = {e}
    BY <2>1, <2>2
  <2>4. QED
    BY <2>3
<1>6. h = "queue" => \E x : QS = {x}
  <2> SUFFICES ASSUME h = "queue" PROVE \E x : QS = {x}
    OBVIOUS
  <2>1. PICK i \in 1..Len(queue) : queue[i] = f
    BY <1>1 DEF HeldBy, Queued
  <2>2. \A n \in QS : n = i
    BY <2>1 DEF OnceInv, QueuedOnce
  <2>3. QS = {i}
    BY <2>1, <2>2
  <2>4. QED
    BY <2>3
<1>7. h = "worker" => \E x : WS = {x}
  <2> SUFFICES ASSUME h = "worker" PROVE \E x : WS = {x}
    OBVIOUS
  <2>1. PICK w \in Workers : task[w] = f
    BY <1>1 DEF HeldBy, Worked
  <2>2. \A v \in WS : v = w
    BY <1>2, <2>1 DEF OnceInv, WorkedOnce
  <2>3. WS = {w}
    BY <2>1, <2>2
  <2>4. QED
    BY <2>3
<1>8. Holders(f) = {<<"epoll", ev>> : ev \in ES} \cup {<<"batch", e.ev>> : e \in BS}
                     \cup {<<"queue", i>> : i \in QS} \cup {<<"worker", w>> : w \in WS}
                     \cup {<<"loop", m>> : m \in LS}
  BY DEF Holders
<1> HIDE DEF ES, BS, QS, WS, LS
<1>9. \E x : Holders(f) = {x}
  <2>1. CASE h = "epoll"
    <3>1. PICK x : ES = {x}
      BY <1>4, <2>1
    <3>2. Holders(f) = {<<"epoll", x>>}
      BY <1>3, <1>8, <2>1, <3>1
    <3>3. QED
      BY <3>2
  <2>2. CASE h = "batch"
    <3>1. PICK x : BS = {x}
      BY <1>5, <2>2
    <3>2. Holders(f) = {<<"batch", x.ev>>}
      BY <1>3, <1>8, <2>2, <3>1
    <3>3. QED
      BY <3>2
  <2>3. CASE h = "queue"
    <3>1. PICK x : QS = {x}
      BY <1>6, <2>3
    <3>2. Holders(f) = {<<"queue", x>>}
      BY <1>3, <1>8, <2>3, <3>1
    <3>3. QED
      BY <3>2
  <2>4. CASE h = "worker"
    <3>1. PICK x : WS = {x}
      BY <1>7, <2>4
    <3>2. Holders(f) = {<<"worker", x>>}
      BY <1>3, <1>8, <2>4, <3>1
    <3>3. QED
      BY <3>2
  <2>5. CASE h = "loop"
    <3>1. PICK x : LS = {x}
      BY <1>4, <2>5
    <3>2. Holders(f) = {<<"loop", x>>}
      BY <1>3, <1>8, <2>5, <3>1
    <3>3. QED
      BY <3>2
  <2>6. QED
    BY <2>1, <2>2, <2>3, <2>4, <2>5
<1>10. QED
  BY <1>9, FS_Singleton

\* The methods of an object leave its descriptor alone.
LEMMA SockFields ==
  ASSUME NEW u \in User
  PROVE  /\ Cleared(u).m_sock = u.m_sock
         /\ Parsed(u).m_sock = u.m_sock
         /\ Received(u).m_sock = u.m_sock
         /\ \A r \in WriteOutcomes(u) : r.user.m_sock = u.m_sock
         /\ \A b : [u EXCEPT !.buf = b].m_sock = u.m_sock
         /\ \A n : [u EXCEPT !.to_send = n].m_sock = u.m_sock
         /\ \A s, a : [u EXCEPT !.m_sock = s, !.m_address = a].m_sock = s
<1>1. Cleared(u).m_sock = u.m_sock
  BY DEF Cleared
<1>2. Parsed(u).m_sock = u.m_sock /\ Received(u).m_sock = u.m_sock
  BY DEF Parsed, Received, User
<1>3. ASSUME NEW r \in WriteOutcomes(u) PROVE r.user.m_sock = u.m_sock
  BY <1>1, <1>3 DEF WriteOutcomes, WriteEnds, WriteFails, WriteStalls, User
<1>4. QED
  BY <1>1, <1>2, <1>3 DEF User

\* The numbers up to k are k.
LEMMA CountUpTo == ASSUME NEW k \in Nat PROVE Cardinality(1..k) = k
<1>1. 1 \in Int /\ k \in Int /\ (1 > k => k = 0)
  OBVIOUS
<1>2. Cardinality(1..k) = IF 1 > k THEN 0 ELSE k - 1 + 1
  BY <1>1, FS_Interval
<1>3. QED
  BY <1>1, <1>2

\* As many tasks are queued as there are connections in the queue.
LEMMA RoomInQueue ==
  ASSUME IsFiniteSet(Fds), MaxFd <= MaxTasks \/ Cardinality(Fds) <= MaxTasks,
         TypeOK, OnceInv, NEW f \in Fds, sock[f] # None, ~Queued(f)
  PROVE  ~Pool!QueueFull
<1> DEFINE T == Open \ {f}
           n == Len(queue)
<1>1. queue \in Seq(Fds) /\ n \in Nat
  BY DEF TypeOK, Pool!PoolTypeOK
<1>2. \A i \in 1..n : queue[i] \in T
  <2> SUFFICES ASSUME NEW i \in 1..n PROVE queue[i] \in T
    OBVIOUS
  <2>1. queue[i] \in Fds /\ queue[i] # f /\ Queued(queue[i])
    BY <1>1 DEF Queued
  <2>2. sock[queue[i]] # None
    BY <2>1 DEF OnceInv, Held, HeldBy
  <2>3. QED
    BY <2>1, <2>2 DEF Open
<1>3. IsFiniteSet(Open) /\ Cardinality(Open) \in Nat /\ Cardinality(Open) <= Cardinality(Fds)
  BY FS_Subset, FS_CardinalityType DEF Open
<1>4. IsFiniteSet(T) /\ Cardinality(T) = Cardinality(Open) - 1
  BY <1>3, FS_RemoveElement DEF Open
<1>5. queue \in Injection(1..n, T)
  <2>1. queue \in [1..n -> T]
    BY <1>1, <1>2
  <2>2. \A i, j \in 1..n : queue[i] = queue[j] => i = j
    BY DEF OnceInv, QueuedOnce
  <2> HIDE DEF n, T
  <2>3. QED
    BY <2>1, <2>2 DEF Injection, IsInjective
<1>6. Cardinality(1..n) = n
  <2> HIDE DEF n
  <2>1. QED
    BY <1>1, CountUpTo
<1>7. n <= Cardinality(Open) - 1
  BY <1>4, <1>5, <1>6, FS_Injection
<1>8. Cardinality(Open) <= MaxTasks /\ MaxTasks \in Nat
  BY <1>3, FS_CardinalityType, ServerAssumption DEF OnceInv
<1>9. QED
  BY <1>1, <1>3, <1>7, <1>8 DEF Pool!QueueFull

\* A step that leaves alone who holds g.
Untouched(g) ==
  /\ sock'[g] = sock[g] /\ (interest[g] # "none" => interest'[g] # "none")
  /\ m_users'[g].m_sock = m_users[g].m_sock
  /\ Armed(g)' <=> Armed(g)
  /\ Reported(g)' <=> Reported(g)
  /\ Queued(g)' <=> Queued(g)
  /\ Worked(g)' <=> Worked(g)
  /\ Closing(g)' <=> Closing(g)

LEMMA HeldUntouched == ASSUME NEW g \in Fds, Held(g), Untouched(g) PROVE Held(g)'
<1>1. \A h : HeldBy(g, h) => HeldBy(g, h)'
  BY DEF Untouched, HeldBy
<1>2. QED
  BY <1>1 DEF Untouched, Held

\* Who takes a task: the head of the queue goes to a worker that has none.
LEMMA TaskTaken ==
  ASSUME TypeOK, Placed, OnceInv, NEW w \in Workers, Pool!Fetch(w), queue # <<>>,
         NEW f, f = Head(queue)
  PROVE  /\ QueuedOnce' /\ WorkedOnce' /\ f \in Fds
         /\ Queued(f) /\ ~Queued(f)' /\ Worked(f)'
         /\ \A g \in Fds : g # f => (Queued(g)' <=> Queued(g)) /\ (Worked(g)' <=> Worked(g))
<1>1. /\ queue \in Seq(Fds) /\ queue' = Tail(queue) /\ task' = [task EXCEPT ![w] = f]
      /\ task \in [Workers -> Fds \cup {None}] /\ stage[w] = "woken"
  BY DEF Pool!Fetch, TypeOK, Pool!PoolTypeOK
<1>2. /\ Len(queue) \in Nat /\ Len(queue) > 0 /\ f = queue[1] /\ f \in Fds
      /\ Len(queue') = Len(queue) - 1 /\ \A i \in 1..Len(queue') : queue'[i] = queue[i + 1]
  BY <1>1, HeadTailProperties
<1>3. task[w] = None
  BY <1>1 DEF OnceInv, WorkersProcess
<1>4. QueuedOnce'
  <2>1. \A i, j \in 1..Len(queue') : /\ i + 1 \in 1..Len(queue) /\ j + 1 \in 1..Len(queue)
                                     /\ i + 1 = j + 1 => i = j
    BY <1>2
  <2>2. QED
    BY <1>2, <2>1 DEF OnceInv, QueuedOnce
<1>5. Queued(f) /\ ~Queued(f)'
  <2>1. 1 \in 1..Len(queue)
    BY <1>2
  <2>2. \A i \in 1..Len(queue') : i + 1 \in 1..Len(queue) /\ i + 1 # 1
    BY <1>2
  <2>3. \A i \in 1..Len(queue') : queue'[i] # f
    BY <1>2, <2>1, <2>2 DEF OnceInv, QueuedOnce
  <2>4. QED
    BY <1>2, <2>1, <2>3 DEF Queued
<1>6. ~Worked(f)
  BY <1>2, <1>5 DEF OnceInv, Held, HeldBy
<1>7. WorkedOnce'
  BY <1>1, <1>2, <1>6 DEF OnceInv, WorkedOnce, Worked
<1>8. Worked(f)'
  BY <1>1, <1>2 DEF Worked
<1>9. ASSUME NEW g \in Fds, g # f PROVE Queued(g)' <=> Queued(g)
  <2>1. ASSUME NEW i \in 1..Len(queue), queue[i] = g PROVE Queued(g)'
    <3>1. i # 1 /\ i - 1 \in 1..Len(queue') /\ (i - 1) + 1 = i
      BY <1>2, <1>9, <2>1
    <3>2. queue'[i - 1] = g
      BY <1>2, <2>1, <3>1
    <3>3. QED
      BY <3>1, <3>2 DEF Queued
  <2>2. ASSUME NEW i \in 1..Len(queue'), queue'[i] = g PROVE Queued(g)
    <3>1. i + 1 \in 1..Len(queue) /\ queue[i + 1] = g
      BY <1>2, <2>2
    <3>2. QED
      BY <3>1 DEF Queued
  <2>3. QED
    BY <2>1, <2>2 DEF Queued
<1>10. ASSUME NEW g \in Fds, g # f PROVE Worked(g)' <=> Worked(g)
  BY <1>1, <1>3, <1>10, ServerAssumption DEF Worked
<1>11. QED
  BY <1>2, <1>4, <1>5, <1>7, <1>8, <1>9, <1>10

\* A worker that is done with its task has none.
LEMMA TaskLeft ==
  ASSUME TypeOK, OnceInv, NEW w \in Workers, NEW f \in Fds, f = task[w], Done(w)
  PROVE  /\ QueuedOnce' /\ WorkedOnce' /\ WorkersProcess'
         /\ ~Worked(f)'
         /\ \A g \in Fds : (Queued(g)' <=> Queued(g)) /\ (g # f => (Worked(g)' <=> Worked(g)))
<1>1. /\ queue' = queue /\ task' = [task EXCEPT ![w] = None] /\ job' = [job EXCEPT ![w] = "idle"]
      /\ stage' = [stage EXCEPT ![w] = "wait"]
      /\ task \in [Workers -> Fds \cup {None}]
      /\ DOMAIN stage = Workers /\ DOMAIN job = Workers
  BY DEF Done, Pool!Finish, TypeOK, ServerTypeOK, Pool!PoolTypeOK
<1>2. None \notin Fds
  BY ServerAssumption
<1>3. QueuedOnce' /\ \A g \in Fds : Queued(g)' <=> Queued(g)
  BY <1>1 DEF OnceInv, QueuedOnce, Queued
<1>4. WorkedOnce'
  BY <1>1 DEF OnceInv, WorkedOnce
<1>5. WorkersProcess'
  <2>1. /\ stage \in [Workers -> {"wait", "woken", "run"}]
        /\ job \in [Workers -> {"idle", "io", "process", "trig", "uncount", "unsock", "rearm"}]
    BY DEF TypeOK, ServerTypeOK, Pool!PoolTypeOK
  <2>2. QED
    BY <1>1, <2>1 DEF OnceInv, WorkersProcess
<1>6. ~Worked(f)'
  BY <1>1, <1>2 DEF OnceInv, WorkedOnce, Worked
<1>7. ASSUME NEW g \in Fds, g # f PROVE Worked(g)' <=> Worked(g)
  BY <1>1, <1>2, <1>7 DEF Worked
<1>8. QED
  BY <1>3, <1>4, <1>5, <1>6, <1>7

LEMMA OnceByWorkers ==
  ASSUME PoolMode = 1, TypeOK, Placed, CountInv, OnceInv, NEW w \in Workers, WorkerStep(w)
  PROVE  OnceInv'
<1> DEFINE t == task[w]
<1>1. /\ UNCHANGED <<mpc, mfd, batch, sock>>
      /\ \A g \in Fds : interest'[g] # "none" => interest[g] # "none"
  BY WorkerQuiet, WorkerKeepsOpen DEF CountInv
<1>2. /\ \A g \in Fds : (Closing(g)' <=> Closing(g)) /\ (Reported(g)' <=> Reported(g))
      /\ LoopNeverWaits' /\ Open' = Open /\ Cardinality(Open') <= MaxFd
  BY <1>1 DEF Closing, Reported, OnceInv, LoopNeverWaits, Open
<1>3. CASE AwaitTask(w)
  <2>1. /\ UNCHANGED <<interest, m_users, queue, task, job>>
        /\ stage[w] = "wait" /\ stage' = [stage EXCEPT ![w] = "woken"]
    BY <1>3 DEF AwaitTask, netVars, workVars, Pool!SemWait
  <2>2. \A g \in Fds : Untouched(g)
    BY <1>1, <1>2, <2>1 DEF Untouched, Armed, Queued, Worked
  <2>3. WorkersProcess'
    BY <2>1 DEF OnceInv, WorkersProcess, TypeOK, Pool!PoolTypeOK
  <2>4. QueuedOnce' /\ WorkedOnce'
    BY <2>1 DEF OnceInv, QueuedOnce, WorkedOnce
  <2>5. QED
    BY <1>2, <2>2, <2>3, <2>4, HeldUntouched DEF OnceInv
<1>4. CASE FetchTask(w)
  <2>1. /\ UNCHANGED <<interest, m_users>> /\ stage[w] = "woken" /\ Pool!Fetch(w)
        /\ job' = [job EXCEPT ![w] = IF queue = <<>> THEN @ ELSE "process"]
    BY <1>4 DEF FetchTask, netVars, Pool!Fetch
  <2>2. CASE queue = <<>>
    <3>1. UNCHANGED <<queue, task>> /\ stage' = [stage EXCEPT ![w] = "wait"]
      BY <2>1, <2>2 DEF Pool!Fetch
    <3>2. \A g \in Fds : Untouched(g)
      BY <1>1, <1>2, <2>1, <3>1 DEF Untouched, Armed, Queued, Worked
    <3>3. WorkersProcess'
      BY <2>1, <2>2, <3>1 DEF OnceInv, WorkersProcess, TypeOK, ServerTypeOK, Pool!PoolTypeOK
    <3>4. QueuedOnce' /\ WorkedOnce'
      BY <3>1 DEF OnceInv, QueuedOnce, WorkedOnce
    <3>5. QED
      BY <1>2, <3>2, <3>3, <3>4, HeldUntouched DEF OnceInv
  <2>3. CASE queue # <<>>
    <3>0. PICK h : h = Head(queue)
      OBVIOUS
    <3>1. /\ QueuedOnce' /\ WorkedOnce' /\ h \in Fds
          /\ Queued(h) /\ ~Queued(h)' /\ Worked(h)'
          /\ \A g \in Fds : g # h => (Queued(g)' <=> Queued(g)) /\ (Worked(g)' <=> Worked(g))
      BY <2>1, <2>3, <3>0, TaskTaken
    <3>2. HeldBy(h, "queue") /\ sock[h] # None
      BY <3>1 DEF OnceInv, Held, HeldBy
    <3>3. Held(h)'
      <4>1. HeldBy(h, "worker")'
        BY <1>1, <1>2, <2>1, <3>1, <3>2 DEF HeldBy, Armed
      <4>2. QED
        BY <1>1, <2>1, <3>1, <3>2, <4>1 DEF OnceInv, Held
    <3>4. \A g \in Fds : g # h => Untouched(g)
      BY <1>1, <1>2, <2>1, <3>1 DEF Untouched, Armed
    <3>5. WorkersProcess'
      <4>1. stage' = [stage EXCEPT ![w] = "run"] /\ job' = [job EXCEPT ![w] = "process"]
              /\ \A v \in Workers : v # w => task'[v] = task[v]
        BY <2>1, <2>3 DEF Pool!Fetch, TypeOK, Pool!PoolTypeOK
      <4>2. QED
        BY <4>1 DEF OnceInv, WorkersProcess, TypeOK, ServerTypeOK, Pool!PoolTypeOK
    <3>6. QED
      BY <1>2, <3>1, <3>3, <3>4, <3>5, HeldUntouched DEF OnceInv
  <2>4. QED
    BY <2>2, <2>3
<1>5. ASSUME job[w] = "process", NEW ev \in {"in", "out"}, NEW f, f = t, NEW v, v.m_sock = m_users[f].m_sock,
             m_users' = [m_users EXCEPT ![f] = v], interest' = Mod_fd(m_users[f].m_sock, ev), Done(w)
      PROVE  OnceInv'
  <2>1. f \in Fds
    BY <1>5 DEF Placed, WorkerPlaced
  <2>2. HeldBy(f, "worker") /\ sock[f] # None /\ m_users[f].m_sock = f /\ interest[f] # "none"
    <3>1. Worked(f)
      BY <1>5 DEF Worked
    <3>2. QED
      BY <2>1, <3>1 DEF OnceInv, Held, HeldBy
  <2>3. interest' = [interest EXCEPT ![f] = ev] /\ f # None
    BY <1>5, <2>1, <2>2, ServerAssumption DEF Mod_fd
  <2>4. /\ QueuedOnce' /\ WorkedOnce' /\ WorkersProcess' /\ ~Worked(f)'
        /\ \A g \in Fds : (Queued(g)' <=> Queued(g)) /\ (g # f => (Worked(g)' <=> Worked(g)))
    BY <1>5, <2>1, TaskLeft
  <2>5. /\ interest'[f] = ev /\ \A g \in Fds : g # f => interest'[g] = interest[g]
        /\ \A g \in Fds : m_users'[g].m_sock = m_users[g].m_sock
    BY <1>5, <2>1, <2>3 DEF TypeOK, ServerTypeOK
  <2>6. Held(f)'
    <3>1. HeldBy(f, "epoll")'
      BY <1>2, <2>1, <2>2, <2>4, <2>5 DEF HeldBy, Armed
    <3>2. QED
      BY <1>1, <2>1, <2>2, <2>5, <3>1 DEF Held
  <2>7. \A g \in Fds : g # f => Untouched(g)
    BY <1>1, <1>2, <2>4, <2>5 DEF Untouched, Armed
  <2>8. QED
    BY <1>2, <2>1, <2>4, <2>6, <2>7, HeldUntouched DEF OnceInv
<1>6. CASE ProcessIncomplete(w)
  <2>1. t \in Fds /\ m_users[t] \in User
    BY <1>6 DEF ProcessIncomplete, Placed, WorkerPlaced, TypeOK, ServerTypeOK
  <2>2. m_users' = [m_users EXCEPT ![t] = [m_users[t] EXCEPT !.buf = None]]
    BY <1>6 DEF ProcessIncomplete
  <2>3. [m_users[t] EXCEPT !.buf = None].m_sock = m_users[t].m_sock
    BY <2>1, SockFields
  <2>4. job[w] = "process" /\ interest' = Mod_fd(m_users[t].m_sock, "in") /\ Done(w)
    BY <1>6 DEF ProcessIncomplete
  <2> HIDE DEF t
  <2>5. QED
    BY <1>5, <2>2, <2>3, <2>4
<1>7. CASE ProcessRespond(w)
  <2>1. t \in Fds /\ m_users[t] \in User
    BY <1>7 DEF ProcessRespond, Placed, WorkerPlaced, TypeOK, ServerTypeOK
  <2>2. m_users' = [m_users EXCEPT ![t] = [Parsed(m_users[t]) EXCEPT !.to_send = Windows]]
    BY <1>7, <2>1 DEF ProcessRespond, TypeOK, ServerTypeOK
  <2>3. [Parsed(m_users[t]) EXCEPT !.to_send = Windows].m_sock = m_users[t].m_sock
    BY <2>1, SockFields, ParsedTyped
  <2>4. job[w] = "process" /\ interest' = Mod_fd(m_users[t].m_sock, "out") /\ Done(w)
    BY <1>7 DEF ProcessRespond
  <2> HIDE DEF t
  <2>5. QED
    BY <1>5, <2>2, <2>3, <2>4
<1>8. ~ProcessClose(w)
  <2> SUFFICES ASSUME ProcessClose(w) PROVE FALSE
    OBVIOUS
  <2>1. t \in Fds /\ m_users[t] \in User /\ Clean(m_users[t])
    BY DEF ProcessClose, Placed, WorkerPlaced, TypeOK, ServerTypeOK, CountInv, NoMiss, Clean
  <2>2. Target(m_users[t]) # "miss"
    BY <2>1, StaysClean DEF Clean, CountInv
  <2>3. QED
    BY <2>2 DEF ProcessClose
<1>9. job[w] \in {"idle", "process"}
  BY DEF OnceInv, WorkersProcess
<1>10. QED
  BY <1>3, <1>4, <1>6, <1>7, <1>8, <1>9
     DEF WorkerStep, WorkerReads, WorkerWrites, ReportFailure, CloseUncounts, CloseForgets, CloseRearms

LEMMA TasksKept ==
  ASSUME OnceInv, UNCHANGED <<queue, task>>, stage' = stage, job' = job
  PROVE  /\ QueuedOnce' /\ WorkedOnce' /\ WorkersProcess'
         /\ \A g \in Fds : (Queued(g)' <=> Queued(g)) /\ (Worked(g)' <=> Worked(g))
BY DEF OnceInv, QueuedOnce, WorkedOnce, WorkersProcess, Queued, Worked

\* The task that is appended becomes the last.
LEMMA TaskQueued ==
  ASSUME TypeOK, OnceInv, NEW f \in Fds, ~Queued(f), Pool!Push(f), job' = job
  PROVE  /\ QueuedOnce' /\ WorkedOnce' /\ WorkersProcess' /\ Queued(f)'
         /\ \A g \in Fds : (g # f => (Queued(g)' <=> Queued(g))) /\ (Worked(g)' <=> Worked(g))
<1>1. queue \in Seq(Fds) /\ queue' = Append(queue, f) /\ UNCHANGED <<stage, task>> /\ Len(queue) \in Nat
  BY DEF Pool!Push, TypeOK, Pool!PoolTypeOK
<1>2. /\ Len(queue') = Len(queue) + 1 /\ queue'[Len(queue) + 1] = f
      /\ \A i \in 1..Len(queue) : queue'[i] = queue[i]
  BY <1>1, AppendProperties
<1>3. \A i \in 1..Len(queue') : i \in 1..Len(queue) \/ i = Len(queue) + 1
  BY <1>1, <1>2
<1>4. Len(queue) + 1 \in 1..Len(queue') /\ \A i \in 1..Len(queue) : i \in 1..Len(queue')
  BY <1>1, <1>2
<1>5. QueuedOnce'
  <2>1. \A i \in 1..Len(queue) : queue'[i] # f
    BY <1>2 DEF Queued
  <2>2. \A i, j \in 1..Len(queue) : queue'[i] = queue'[j] => i = j
    BY <1>2 DEF OnceInv, QueuedOnce
  <2>3. QED
    BY <1>2, <1>3, <2>1, <2>2 DEF QueuedOnce
<1>6. Queued(f)'
  BY <1>2, <1>4 DEF Queued
<1>7. \A g \in Fds : g # f => (Queued(g)' <=> Queued(g))
  BY <1>2, <1>3, <1>4 DEF Queued
<1>8. WorkedOnce' /\ WorkersProcess' /\ \A g \in Fds : Worked(g)' <=> Worked(g)
  BY <1>1 DEF OnceInv, WorkedOnce, WorkersProcess, Worked
<1>9. QED
  BY <1>5, <1>6, <1>7, <1>8

\* The loop has the one event of the descriptor it turns to.
LEMMA EventHolds ==
  ASSUME TypeOK, TimerInv, CountInv, OnceInv, NEW e \in batch, Take(e), e.fd # Listen
  PROVE  /\ e.fd \in Fds /\ sock[e.fd] # None /\ m_users[e.fd].m_sock = e.fd /\ interest[e.fd] # "none"
         /\ HeldBy(e.fd, "batch") /\ ~Reported(e.fd)'
         /\ \A g \in Fds : g # e.fd => (Reported(g)' <=> Reported(g))
         /\ \A g \in Fds : ~Closing(g)
<1>1. e.fd \in Fds /\ sock[e.fd] # None
  BY DEF TypeOK, ServerTypeOK, Event, CountInv, OpenAtWork
<1>2. Reported(e.fd)
  BY DEF Reported
<1>3. HeldBy(e.fd, "batch") /\ m_users[e.fd].m_sock = e.fd /\ interest[e.fd] # "none"
  BY <1>1, <1>2 DEF OnceInv, Held, HeldBy
<1>4. batch' = batch \ {e} /\ mpc = "loop"
  BY DEF Take
<1>5. \A d \in batch : d.fd = e.fd => d = e
  BY DEF TimerInv, OneEvent
<1>6. ASSUME NEW f, f = e.fd PROVE ~Reported(f)'
  BY <1>4, <1>5, <1>6 DEF Reported
<1>7. ASSUME NEW f, f = e.fd, NEW g \in Fds, g # f PROVE Reported(g)' <=> Reported(g)
  BY <1>4, <1>7 DEF Reported
<1>8. \A g \in Fds : ~Closing(g)
  BY <1>4 DEF Closing
<1>9. QED
  BY <1>1, <1>3, <1>6, <1>7, <1>8

\* A step that hands over f alone.
LEMMA HandedOver ==
  ASSUME OnceInv, NEW f \in Fds, Held(f)', \A g \in Fds : g # f => Untouched(g),
         QueuedOnce', WorkedOnce', WorkersProcess', LoopNeverWaits', Cardinality(Open') <= MaxFd
  PROVE  OnceInv'
BY HeldUntouched DEF OnceInv

\* A step that hands over nothing.
LEMMA NothingHanded ==
  ASSUME OnceInv, \A g \in Fds : Untouched(g), UNCHANGED <<queue, task, stage, job, sock>>, LoopNeverWaits'
  PROVE  OnceInv'
<1>1. Open' = Open /\ Cardinality(Open') <= MaxFd
  BY DEF Open, OnceInv
<1>2. QED
  BY <1>1, HeldUntouched, TasksKept DEF OnceInv

LEMMA WriteArms ==
  ASSUME NEW u, NEW r \in WriteOutcomes(u), r.ok
  PROVE  r.ev \in {"in", "out"}
BY DEF WriteOutcomes, WriteEnds, WriteFails, WriteStalls

LEMMA OnceByLoop ==
  ASSUME IsFiniteSet(Fds), MaxFd <= MaxTasks \/ Cardinality(Fds) <= MaxTasks, ServerMode = 1,
         TypeOK, Placed, TimerInv, CountInv, OnceInv, EventLoop
  PROVE  OnceInv'
<1> USE DEF netVars, workVars, poolVars
<1>1. ASSUME NEW room \in SUBSET Fds, EpollWait(room) PROVE OnceInv'
  <2>1. /\ mpc = "loop" /\ batch = {} /\ batch' = Ready(room)
        /\ interest' = [g \in Fds |-> IF g \in ReadyFds(room) THEN "off" ELSE interest[g]]
        /\ UNCHANGED <<sock, m_users, mpc, mfd, queue, task, stage, job>>
    BY <1>1 DEF EpollWait
  <2>2. \A g : ~Closing(g) /\ ~Closing(g)' /\ ~Reported(g)
    BY <2>1 DEF Closing, Reported
  <2>3. \A g \in Fds : Reported(g)' <=> g \in ReadyFds(room)
    <3>1. Listen \notin Fds
      BY ServerAssumption
    <3>2. \A g : EventOf(g).fd = g
      BY DEF EventOf
    <3>3. batch' = {EventOf(g) : g \in ReadyFds(room)} \cup (IF backlog # << >> THEN {[fd |-> Listen, ev |-> "in"]} ELSE {})
      BY <2>1 DEF Ready
    <3>4. QED
      BY <3>1, <3>2, <3>3 DEF Reported
  <2>4. /\ QueuedOnce' /\ WorkedOnce' /\ WorkersProcess'
        /\ \A g \in Fds : (Queued(g)' <=> Queued(g)) /\ (Worked(g)' <=> Worked(g))
    BY <2>1, TasksKept
  <2>5. ASSUME NEW g \in Fds PROVE Held(g)'
    <3>1. CASE g \in ReadyFds(room)
      <4>1. Armed(g)
        BY <2>2, <3>1 DEF ReadyFds, Armed
      <4>2. sock[g] # None /\ HeldBy(g, "epoll") /\ m_users[g].m_sock = g
        BY <4>1 DEF OnceInv, Held, HeldBy
      <4>3. interest'[g] = "off" /\ ~Armed(g)' /\ Reported(g)'
        BY <2>1, <2>3, <3>1 DEF Armed
      <4>4. HeldBy(g, "batch")'
        BY <2>2, <2>4, <4>2, <4>3 DEF HeldBy
      <4>5. QED
        BY <2>1, <4>2, <4>3, <4>4 DEF Held
    <3>2. CASE g \notin ReadyFds(room)
      <4>1. Untouched(g)
        BY <2>1, <2>2, <2>3, <2>4, <3>2 DEF Untouched, Armed
      <4>2. QED
        BY <4>1, HeldUntouched DEF OnceInv
    <3>3. QED
      BY <3>1, <3>2
  <2>6. LoopNeverWaits' /\ Open' = Open
    BY <2>1 DEF OnceInv, LoopNeverWaits, Open
  <2>7. QED
    BY <2>4, <2>5, <2>6 DEF OnceInv
<1>2. ASSUME NEW e \in batch, DealClientData(e) PROVE OnceInv'
  <2>1. /\ mpc = "loop" /\ mpc' = "accept" /\ mfd' = mfd /\ e.fd = Listen /\ batch' = batch \ {e}
        /\ UNCHANGED <<sock, interest, m_users, queue, task, stage, job>>
    BY <1>2 DEF DealClientData, Take
  <2>2. \A g \in Fds : Reported(g)' <=> Reported(g)
    BY <2>1, ServerAssumption DEF Reported
  <2>3. \A g \in Fds : Untouched(g)
    BY <2>1, <2>2, TasksKept DEF Untouched, Armed, Closing
  <2>4. QED
    BY <2>1, <2>3, NothingHanded DEF LoopNeverWaits
<1>3. ASSUME NEW e \in batch, NEW f \in Fds, f = e.fd, Take(e), mpc' = "del", mfd' = f,
             UNCHANGED <<sock, queue, task, stage, job>>,
             \A g \in Fds : g # f => interest'[g] = interest[g],
             interest'[f] # "none", \A g \in Fds : m_users'[g].m_sock = m_users[g].m_sock
      PROVE  OnceInv'
  <2>1. /\ sock[f] # None /\ m_users[f].m_sock = f /\ HeldBy(f, "batch") /\ ~Reported(f)'
        /\ \A g \in Fds : g # f => (Reported(g)' <=> Reported(g))
        /\ \A g \in Fds : ~Closing(g)
    <3>1. e.fd # Listen
      BY <1>3, ServerAssumption
    <3>2. ~Reported(f)'
      BY <1>3, <3>1, EventHolds, Zenon
    <3>3. QED
      BY <1>3, <3>1, <3>2, EventHolds
  <2>2. Closing(f)' /\ ~Armed(f)' /\ \A g \in Fds : g # f => ~Closing(g)'
    BY <1>3 DEF Closing, Armed
  <2>3. HeldBy(f, "loop")'
    BY <1>3, <2>1, <2>2, TasksKept DEF HeldBy
  <2>4. Held(f)'
    BY <1>3, <2>1, <2>3 DEF Held
  <2>5. \A g \in Fds : g # f => Untouched(g)
    BY <1>3, <2>1, <2>2, TasksKept DEF Untouched, Armed
  <2>6. LoopNeverWaits' /\ Open' = Open
    BY <1>3 DEF LoopNeverWaits, Open
  <2>7. QED
    BY <1>3, <2>4, <2>5, <2>6, TasksKept, HandedOver DEF OnceInv
<1>4. ASSUME NEW e \in batch, HangUp(e) PROVE OnceInv'
  <2>1. PICK f \in Fds : f = e.fd
    BY <1>4 DEF HangUp, TypeOK, ServerTypeOK, Event
  <2>2. Take(e) /\ mpc' = "del" /\ mfd' = f /\ UNCHANGED <<sock, interest, m_users, queue, task, stage, job>>
    BY <1>4, <2>1 DEF HangUp
  <2>3. interest[f] # "none"
    BY <1>4, <2>1, <2>2, EventHolds DEF HangUp
  <2>4. QED
    BY <1>3, <2>1, <2>2, <2>3
<1>5. ASSUME NEW e \in batch, ProactorRead(e) PROVE OnceInv'
  <2>1. PICK f \in Fds : f = e.fd
    BY <1>5 DEF ProactorRead, TypeOK, ServerTypeOK, Event
  <2>2. /\ sock[f] # None /\ m_users[f].m_sock = f /\ interest[f] # "none" /\ HeldBy(f, "batch")
        /\ \A g \in Fds : ~Closing(g)
    BY <1>5, <2>1, EventHolds DEF ProactorRead
  <2>3. Take(e) /\ UNCHANGED <<sock, interest, job>>
    BY <1>5 DEF ProactorRead
  <2>4. CASE ReadSucceeds(m_users[f])
    <3>1. ~Queued(f)
      BY <2>2 DEF HeldBy
    <3>2. ~Pool!QueueFull
      BY <2>2, <3>1, RoomInQueue
    <3>3. /\ mpc' = "post" /\ Pool!Push(f) /\ mfd' = mfd
          /\ m_users' = [m_users EXCEPT ![f] = Received(m_users[f])]
      BY <1>5, <2>1, <2>4, <3>2 DEF ProactorRead
    <3>4. \A g \in Fds : m_users'[g].m_sock = m_users[g].m_sock
      <4>1. m_users[f] \in User
        BY DEF TypeOK, ServerTypeOK
      <4>2. Received(m_users[f]).m_sock = m_users[f].m_sock
        BY <4>1, SockFields
      <4>3. QED
        BY <3>3, <4>2 DEF TypeOK, ServerTypeOK
    <3>5. /\ QueuedOnce' /\ WorkedOnce' /\ WorkersProcess' /\ Queued(f)'
          /\ \A g \in Fds : (g # f => (Queued(g)' <=> Queued(g))) /\ (Worked(g)' <=> Worked(g))
      BY <2>3, <3>1, <3>3, TaskQueued
    <3>6. ~Reported(f)' /\ \A g \in Fds : g # f => (Reported(g)' <=> Reported(g))
      <4>1. e.fd # Listen
        BY <2>1, ServerAssumption
      <4>2. ~Reported(f)'
        BY <2>1, <2>3, <4>1, EventHolds, Zenon
      <4>3. QED
        BY <2>1, <2>3, <4>1, <4>2, EventHolds
    <3>7. \A g \in Fds : ~Closing(g)' /\ (Armed(g)' <=> Armed(g))
      BY <2>2, <2>3, <3>3 DEF Closing, Armed
    <3>8. HeldBy(f, "queue")'
      BY <2>2, <3>5, <3>6, <3>7 DEF HeldBy
    <3>9. Held(f)'
      BY <2>2, <2>3, <3>4, <3>8 DEF Held
    <3>10. \A g \in Fds : g # f => Untouched(g)
      BY <2>2, <2>3, <3>4, <3>5, <3>6, <3>7 DEF Untouched
    <3>11. LoopNeverWaits' /\ Open' = Open
      BY <2>3, <3>3 DEF LoopNeverWaits, Open
    <3>12. QED
      BY <3>5, <3>9, <3>10, <3>11, HandedOver DEF OnceInv
  <2>5. CASE ~ReadSucceeds(m_users[f])
    <3>1. mpc' = "del" /\ mfd' = f /\ UNCHANGED <<m_users, queue, task, stage>>
      BY <1>5, <2>1, <2>5 DEF ProactorRead
    <3>2. QED
      BY <1>3, <2>1, <2>2, <2>3, <3>1
  <2>6. QED
    BY <2>4, <2>5
<1>6. ASSUME NEW e \in batch, ProactorWrite(e) PROVE OnceInv'
  <2>1. PICK f \in Fds : f = e.fd
    BY <1>6 DEF ProactorWrite, TypeOK, ServerTypeOK, Event
  <2>2. /\ sock[f] # None /\ m_users[f].m_sock = f /\ interest[f] # "none" /\ HeldBy(f, "batch")
        /\ \A g \in Fds : ~Closing(g)
    BY <1>6, <2>1, EventHolds DEF ProactorWrite
  <2>3. Take(e) /\ UNCHANGED <<sock, queue, task, stage, job>>
    BY <1>6 DEF ProactorWrite
  <2>4. PICK r \in WriteOutcomes(m_users[f]) :
          /\ m_users' = [m_users EXCEPT ![f] = r.user]
          /\ interest' = Rearmed(m_users[f], r.ev)
          /\ IF r.ok THEN UNCHANGED <<mpc, mfd>> ELSE mpc' = "del" /\ mfd' = f
    BY <1>6, <2>1 DEF ProactorWrite
  <2>5. m_users[f] \in User
    BY DEF TypeOK, ServerTypeOK
  <2>6. \A g \in Fds : m_users'[g].m_sock = m_users[g].m_sock
    BY <2>4, <2>5, SockFields DEF TypeOK, ServerTypeOK
  <2>7. interest' = IF r.ev = "none" THEN interest ELSE [interest EXCEPT ![f] = r.ev]
    BY <2>2, <2>4, ServerAssumption DEF Rearmed, Mod_fd
  <2>8. r.ev \in {"none", "in", "out"}
    BY <2>5, OutcomesTyped DEF TypeOK
  <2>9. interest'[f] # "none" /\ \A g \in Fds : g # f => interest'[g] = interest[g]
    BY <2>2, <2>7, <2>8 DEF TypeOK, ServerTypeOK
  <2>10. CASE ~r.ok
    BY <1>3, <2>1, <2>3, <2>4, <2>6, <2>9, <2>10
  <2>11. CASE r.ok
    <3>1. mpc' = mpc /\ mfd' = mfd /\ mpc = "loop"
      BY <2>3, <2>4, <2>11 DEF Take
    <3>2. interest'[f] \in {"in", "out"}
      BY <2>7, <2>11, WriteArms DEF TypeOK, ServerTypeOK
    <3>3. ~Reported(f)' /\ \A g \in Fds : g # f => (Reported(g)' <=> Reported(g))
      <4>1. e.fd # Listen
        BY <2>1, ServerAssumption
      <4>2. ~Reported(f)'
        BY <2>1, <2>3, <4>1, EventHolds, Zenon
      <4>3. QED
        BY <2>1, <2>3, <4>1, <4>2, EventHolds
    <3>4. \A g \in Fds : ~Closing(g)'
      BY <2>2, <3>1 DEF Closing
    <3>5. HeldBy(f, "epoll")'
      BY <2>2, <2>3, <3>2, <3>3, <3>4, TasksKept DEF HeldBy, Armed
    <3>6. Held(f)'
      BY <2>2, <2>3, <2>6, <2>9, <3>5 DEF Held
    <3>7. \A g \in Fds : g # f => Untouched(g)
      BY <2>2, <2>3, <2>6, <2>9, <3>3, <3>4, TasksKept DEF Untouched, Armed
    <3>8. LoopNeverWaits' /\ Open' = Open
      BY <2>3, <3>1 DEF LoopNeverWaits, Open
    <3>9. QED
      BY <2>3, <3>6, <3>7, <3>8, TasksKept, HandedOver DEF OnceInv
  <2>12. QED
    BY <2>10, <2>11
<1>7. CASE AcceptFails \/ Refuse \/ CountLoads \/ Register \/ AppendPosts \/ DelTimer
  <2>1. /\ UNCHANGED <<sock, interest, batch, queue, task, stage, job>>
        /\ mpc \notin {"del", "failDel"} /\ mpc' \in {"loop", "accept", "register"}
    BY <1>7 DEF AcceptFails, CountLoads, Refuse, Register, AppendPosts, DelTimer, Pool!Post
  <2>2. \A g \in Fds : m_users'[g].m_sock = m_users[g].m_sock
    <3>1. CASE UNCHANGED m_users
      BY <3>1
    <3>2. CASE Register
      <4>1. mfd \in Fds /\ m_users[mfd] \in User /\ m_users' = [m_users EXCEPT ![mfd] = Cleared(m_users[mfd])]
        BY <3>2 DEF Register, Placed, LoopPlaced, TypeOK, ServerTypeOK
      <4>2. Cleared(m_users[mfd]).m_sock = m_users[mfd].m_sock
        BY <4>1, SockFields
      <4>3. QED
        BY <4>1, <4>2 DEF TypeOK, ServerTypeOK
    <3>3. CASE DelTimer
      <4>1. mpc # "failUncount"
        BY DEF OnceInv, LoopNeverWaits
      <4>2. QED
        BY <3>3, <4>1 DEF DelTimer
    <3>4. QED
      BY <1>7, <3>1, <3>2, <3>3 DEF AcceptFails, Refuse, CountLoads, AppendPosts
  <2>3. \A g \in Fds : Untouched(g)
    BY <2>1, <2>2, TasksKept DEF Untouched, Armed, Closing, Reported
  <2>4. QED
    BY <2>1, <2>3, NothingHanded DEF LoopNeverWaits
<1>8. ASSUME NEW f \in Fds, Accept(f) PROVE OnceInv'
  <2>1. /\ mpc = "accept" /\ mpc' = "count" /\ m_user_count < MaxFd
        /\ sock[f] = None /\ sock' = [sock EXCEPT ![f] = Head(backlog)]
        /\ interest' = [interest EXCEPT ![f] = "in"]
        /\ UNCHANGED <<batch, queue, task, stage, job>>
    <3>1. m_user_count \in Int
      BY DEF TypeOK, ServerTypeOK
    <3>2. ~(m_user_count >= MaxFd)
      BY <1>8 DEF Accept, LimitReached
    <3>3. MaxFd \in Int
      BY ServerAssumption
    <3>4. m_user_count < MaxFd
      BY <3>1, <3>2, <3>3
    <3>5. QED
      BY <1>8, <3>4 DEF Accept
  <2>1a. m_users' = [m_users EXCEPT ![f] = [m_users[f] EXCEPT !.m_sock = f, !.m_address = Head(backlog)]]
    <3>1. m_users' = [m_users EXCEPT ![f].m_sock = f, ![f].m_address = Head(backlog)]
      BY <1>8 DEF Accept
    <3>2. m_users[f] \in User /\ m_users \in [Fds -> User]
      BY DEF TypeOK, ServerTypeOK
    <3>3. QED
      BY <3>1, <3>2
  <2>2. Head(backlog) # None
    BY <1>8, HeadComesOnce, ServerAssumption DEF Accept, TimerInv
  <2>3. /\ sock'[f] # None /\ interest'[f] = "in" /\ m_users'[f].m_sock = f
        /\ \A g \in Fds : g # f => sock'[g] = sock[g] /\ interest'[g] = interest[g]
                                     /\ m_users'[g].m_sock = m_users[g].m_sock
    <3>1. m_users[f] \in User
      BY DEF TypeOK, ServerTypeOK
    <3>2. [m_users[f] EXCEPT !.m_sock = f, !.m_address = Head(backlog)].m_sock = f
      BY <3>1, SockFields
    <3>3. QED
      BY <2>1, <2>1a, <2>2, <3>2 DEF TypeOK, ServerTypeOK
  <2>4. \A g \in Fds : ~Closing(g) /\ ~Closing(g)'
    BY <2>1 DEF Closing
  <2>5. \A g \in Fds : Reported(g)' <=> Reported(g)
    BY <2>1 DEF Reported
  <2>6. HeldBy(f, "nobody")
    BY <2>1 DEF OnceInv, Held
  <2>7. HeldBy(f, "epoll")'
    BY <2>1, <2>3, <2>4, <2>5, <2>6, TasksKept DEF HeldBy, Armed
  <2>8. Held(f)'
    BY <2>3, <2>7 DEF Held
  <2>9. \A g \in Fds : g # f => Untouched(g)
    BY <2>1, <2>3, <2>4, <2>5, TasksKept DEF Untouched, Armed
  <2>10. Cardinality(Open') <= MaxFd
    <3>1. Open' = Open \cup {f} /\ f \notin Open /\ Open \in SUBSET Fds
      BY <2>1, <2>2 DEF Open, TypeOK, ServerTypeOK
    <3>2. IsFiniteSet(Open) /\ Cardinality(Open) \in Nat
      BY <3>1, FS_Subset, FS_CardinalityType
    <3>3. Cardinality(Open') = Cardinality(Open) + 1
      BY <3>1, <3>2, FS_AddElement
    <3>4. m_user_count = Cardinality(Open)
      BY <2>1, <3>2 DEF CountInv, UsersCounted, Open
    <3>5. QED
      BY <2>1, <3>2, <3>3, <3>4, ServerAssumption
  <2>11. QED
    BY <2>1, <2>8, <2>9, <2>10, TasksKept, HandedOver DEF LoopNeverWaits
<1>9. CASE CbFun
  <2>1. PICK f \in Fds : f = mfd
    BY <1>9 DEF CbFun, Placed, LoopPlaced
  <2>2. /\ mpc \in {"del", "failDel"} /\ mpc' \in {"uncount", "failUncount"} /\ (mpc = "del" => mpc' = "uncount")
        /\ sock' = [sock EXCEPT ![f] = None] /\ interest' = [interest EXCEPT ![f] = "none"]
        /\ UNCHANGED <<m_users, mfd, batch, queue, task, stage, job>>
    BY <1>9, <2>1 DEF CbFun, Remove_fd
  <2>3. Closing(f) /\ (\A g \in Fds : ~Closing(g)') /\ (\A g \in Fds : g # f => ~Closing(g))
    BY <2>1, <2>2 DEF Closing
  <2>4. HeldBy(f, "loop")
    BY <2>3 DEF OnceInv, Held, HeldBy
  <2>5. /\ sock'[f] = None /\ interest'[f] = "none"
        /\ \A g \in Fds : g # f => sock'[g] = sock[g] /\ interest'[g] = interest[g]
    BY <2>2 DEF TypeOK, ServerTypeOK
  <2>6. \A g \in Fds : Reported(g)' <=> Reported(g)
    BY <2>2 DEF Reported
  <2>7. HeldBy(f, "nobody")'
    BY <2>2, <2>3, <2>4, <2>5, <2>6, TasksKept DEF HeldBy, Armed
  <2>8. Held(f)'
    BY <2>5, <2>7 DEF Held
  <2>9. \A g \in Fds : g # f => Untouched(g)
    BY <2>2, <2>3, <2>5, <2>6, TasksKept DEF Untouched, Armed
  <2>10. LoopNeverWaits'
    BY <2>2 DEF OnceInv, LoopNeverWaits
  <2>11. Cardinality(Open') <= MaxFd
    <3>1. Open' \in SUBSET Open /\ Open \in SUBSET Fds
      BY <2>2 DEF Open, TypeOK, ServerTypeOK
    <3>2. IsFiniteSet(Open)
      BY <3>1, FS_Subset
    <3>3. Cardinality(Open') <= Cardinality(Open)
      BY <3>1, <3>2, FS_Subset
    <3>4. Cardinality(Open') \in Nat /\ Cardinality(Open) \in Nat
      BY <3>1, <3>2, FS_Subset, FS_CardinalityType
    <3>5. QED
      BY <3>3, <3>4, ServerAssumption DEF OnceInv
  <2>12. QED
    BY <2>2, <2>8, <2>9, <2>10, <2>11, TasksKept, HandedOver
<1>10. ~SpinEnds /\ \A e \in batch : ~ReactorAppend(e)
  BY DEF OnceInv, LoopNeverWaits, SpinEnds, ReactorAppend
<1>11. QED
  BY <1>1, <1>2, <1>4, <1>5, <1>6, <1>7, <1>8, <1>9, <1>10 DEF EventLoop, LoopStep

LEMMA OnceKept ==
  ASSUME IsFiniteSet(Fds), MaxFd <= MaxTasks \/ Cardinality(Fds) <= MaxTasks,
         ServerMode = 1, PoolMode = 1, TypeOK, Placed, TimerInv, CountInv, OnceInv, [Next]_vars
  PROVE  OnceInv'
<1>1. CASE EpollTimeout \/ UNCHANGED vars \/ \E c \in Clients : ClientStep(c)
  <2>1. /\ UNCHANGED <<sock, interest, m_users, mpc, mfd, batch, job>>
        /\ UNCHANGED <<queue, task, stage>>
    BY <1>1 DEF EpollTimeout, vars, netVars, loopVars, workVars, poolVars, ClientStep, Connect, Send, Fin
  <2>2. \A g \in Fds : Untouched(g)
    BY <2>1, TasksKept DEF Untouched, Armed, Closing, Reported
  <2>3. QED
    BY <2>1, <2>2, NothingHanded DEF OnceInv, LoopNeverWaits
<1>2. QED
  BY <1>1, OnceByLoop, OnceByWorkers DEF Next

(* In proactor mode an open connection has one holder at every moment: epoll with the  *)
(* registration that EPOLLONESHOT disarms, the batch of epoll_wait(), the task queue,   *)
(* one worker, or the loop that is closing it.  It takes a queue with room for every    *)
(* connection (deal_read() drops the event of one that append_p() refuses, and then     *)
(* nobody has it), and no request for a file that is not there (process() closes that   *)
(* connection in the worker, while the loop may still come to close it).                *)
THEOREM OneHolds ==
  ASSUME IsFiniteSet(Fds), "miss" \notin Requests, ServerMode = 1, PoolMode = 1,
         MaxFd <= MaxTasks \/ Cardinality(Fds) <= MaxTasks
  PROVE  Spec => []OneHolder
<1>1. Init => OnceInv
  <2> SUFFICES ASSUME Init PROVE OnceInv
    OBVIOUS
  <2>1. /\ queue = <<>> /\ task = [w \in Workers |-> None] /\ batch = {} /\ mpc = "loop"
        /\ interest = [f \in Fds |-> "none"] /\ sock = [f \in Fds |-> None]
        /\ job = [w \in Workers |-> "idle"]
    BY DEF Init, Pool!Init
  <2>2. QueuedOnce /\ WorkedOnce /\ WorkersProcess /\ LoopNeverWaits
    BY <2>1 DEF QueuedOnce, WorkedOnce, WorkersProcess, LoopNeverWaits
  <2>3. ASSUME NEW f \in Fds PROVE Held(f)
    <3>1. f # None
      BY ServerAssumption
    <3>2. QED
      BY <2>1, <3>1 DEF Held, HeldBy, Armed, Reported, Queued, Worked, Closing
  <2>4. Cardinality(Open) <= MaxFd
    <3>1. Open = {}
      BY <2>1 DEF Open
    <3>2. Cardinality(Open) = 0
      BY <3>1, FS_EmptySet
    <3>3. QED
      BY <3>2, ServerAssumption
  <2>5. QED
    BY <2>2, <2>3, <2>4 DEF OnceInv
<1>2. TypeOK /\ Placed /\ TimerInv /\ CountInv /\ OnceInv /\ [Next]_vars => OnceInv'
  BY OnceKept
<1>3. TypeOK /\ TimerInv /\ OnceInv => OneHolder
  BY OnceIsOneHolder DEF OneHolder
<1>4. Spec => []CountInv
  BY CountHolds
<1>5. QED
  BY <1>1, <1>2, <1>3, <1>4, ServerInv, PTL DEF Spec
=============================================================================
