----------------------------- MODULE WebServer -----------------------------
(***************************************************************************)
(* The server at work: the event loop of webserver.cpp, the workers of     *)
(* thread_poll.h running the Http_Connect methods, the one-shot epoll      *)
(* registrations they hand a connection over with, and the timers that own *)
(* the right to close it.  The task queue is module ThreadPool.            *)
(*                                                                         *)
(* Both event modes are here: reactor (ServerMode = 0), where a worker     *)
(* does the I/O while the loop spins on m_imprv, and proactor              *)
(* (ServerMode = 1), where the loop does it.  A client is one TCP          *)
(* connection; its requests are abstracted to what Process() does with     *)
(* them.                                                                   *)
(***************************************************************************)
EXTENDS Integers, Sequences, FiniteSets

CONSTANTS
  Fds,         \* descriptors accept() may return
  Clients,     \* connections; each opens once
  Workers,     \* threads of the pool
  MaxTasks,    \* capacity of the task queue
  MaxFd,       \* MAX_FD, the limit on m_user_count
  ServerMode,  \* WebServer::m_actor_mod: 0 reactor, 1 proactor
  PoolMode,    \* Thread_Pool::m_actor_mod, which no constructor sets
  ListenTrig,  \* m_listen_trig, never set either: 0 one accept(), else a loop
  Requests,    \* kinds of data a client may send, see RequestKinds
  Windows,     \* writev calls a response takes at most
  Listen,      \* m_listen_fd
  None         \* -1, nullptr, nothing

\* part: an incomplete request; get: one whose connection ends with the response;
\* keep: one with keep-alive; miss: a missing file; big: more than the read buffer.
RequestKinds == {"part", "get", "keep", "miss", "big"}

ASSUME ServerAssumption ==
  /\ IsFiniteSet(Workers)
  /\ MaxTasks \in Nat \ {0}
  /\ MaxFd \in Nat \ {0}
  /\ ServerMode \in {0, 1} /\ PoolMode \in {0, 1} /\ ListenTrig \in {0, 1}
  /\ Requests \subseteq RequestKinds
  /\ Windows \in Nat \ {0}
  /\ Listen \notin Fds
  /\ None \notin Fds \cup Clients \cup RequestKinds \cup {"ok"}

VARIABLES
  (* the network and the kernel *)
  conn,           \* each connection: new, open, fin (the client closed), gone
  backlog,        \* connections waiting for accept()
  sent,           \* data of each connection the server has not read
  sock,           \* the connection open under each descriptor
  interest,       \* its epoll registration: none, off (one-shot used up), in, out
  (* the arrays indexed by descriptor *)
  m_users,        \* the Http_Connect objects
  m_users_timer,  \* the timer pointers; a timer is named after its connection
  timers,         \* the timers in the list, that is the allocated ones
  m_user_count,
  (* the event loop *)
  mpc, mfd,       \* where it is, and the descriptor it works on
  batch,          \* events of this epoll_wait not handled yet
  mreg,           \* its register in a ++ or -- of m_user_count
  (* the workers *)
  job, wreg,
  (* the task queue *)
  queue, sem, poster, stage, task

netVars == <<conn, backlog, sent, sock, interest>>
timerVars == <<m_users_timer, timers>>
loopVars == <<mpc, mfd, batch, mreg>>
workVars == <<job, wreg>>
poolVars == <<queue, sem, poster, stage, task>>
vars == <<netVars, m_users, timerVars, m_user_count, loopVars, workVars, poolVars>>

Pool == INSTANCE ThreadPool WITH Tasks <- Fds, NoTask <- None

User == [m_sock : Fds \cup {None}, m_address : Clients \cup {None}, m_imprv : {0, 1}, m_timer_trig : {0, 1},
         m_state : {0, 1}, buf : Requests \cup {None}, url : {"ok", "miss", None},
         m_link : BOOLEAN, to_send : 0..Windows]

Event == [fd : Fds \cup {Listen}, ev : {"in", "out", "hup"}]

ServerTypeOK ==
  /\ conn \in [Clients -> {"new", "open", "fin", "gone"}]
  /\ backlog \in Seq(Clients)
  /\ sent \in [Clients -> Requests \cup {None}]
  /\ sock \in [Fds -> Clients \cup {None}]
  /\ interest \in [Fds -> {"none", "off", "in", "out"}]
  /\ m_users \in [Fds -> User]
  /\ m_users_timer \in [Fds -> Clients \cup {None}]
  /\ timers \subseteq Clients
  /\ m_user_count \in Int
  /\ mpc \in {"loop", "accept", "count", "register", "post", "spin",
              "del", "uncount", "failDel", "failUncount"}
  /\ mfd \in Fds \cup {None}
  /\ batch \subseteq Event
  /\ mreg \in Int
  /\ job \in [Workers -> {"idle", "io", "process", "trig", "uncount", "unsock", "rearm"}]
  /\ wreg \in [Workers -> Int]

TypeOK == ServerTypeOK /\ Pool!PoolTypeOK

\* init(): what a connection starts with and what a keep-alive response resets.
Cleared(u) ==
  [m_sock |-> u.m_sock, m_address |-> u.m_address, m_imprv |-> 0, m_timer_trig |-> 0,
   m_state |-> 0, buf |-> None, url |-> None, m_link |-> FALSE, to_send |-> 0]

Init ==
  /\ conn = [c \in Clients |-> "new"]
  /\ backlog = <<>>
  /\ sent = [c \in Clients |-> None]
  /\ sock = [f \in Fds |-> None]
  /\ interest = [f \in Fds |-> "none"]
  /\ m_users = [f \in Fds |-> Cleared([m_sock |-> None, m_address |-> None])]
  /\ m_users_timer = [f \in Fds |-> None]
  /\ timers = {}
  /\ m_user_count = 0
  /\ mpc = "loop" /\ mfd = None /\ batch = {} /\ mreg = 0
  /\ job = [w \in Workers |-> "idle"]
  /\ wreg = [w \in Workers |-> 0]
  /\ Pool!Init

-----------------------------------------------------------------------------
(* The clients.  They are free to do nothing. *)

Connect(c) ==
  /\ conn[c] = "new"
  /\ conn' = [conn EXCEPT ![c] = "open"]
  /\ backlog' = Append(backlog, c)
  /\ UNCHANGED <<sent, sock, interest, m_users, timerVars, m_user_count, loopVars, workVars, poolVars>>

Send(c, r) ==
  /\ conn[c] = "open" /\ sent[c] = None
  /\ sent' = [sent EXCEPT ![c] = r]
  /\ UNCHANGED <<conn, backlog, sock, interest, m_users, timerVars, m_user_count, loopVars, workVars, poolVars>>

Fin(c) ==
  /\ conn[c] = "open"
  /\ conn' = [conn EXCEPT ![c] = "fin"]
  /\ UNCHANGED <<backlog, sent, sock, interest, m_users, timerVars, m_user_count, loopVars, workVars, poolVars>>

-----------------------------------------------------------------------------
(* Kernel services and the I/O methods of Http_Connect. *)

\* Mod_fd(): epoll_ctl(MOD) fails, unnoticed, on -1 and on what is not registered.
Mod_fd(s, ev) ==
  IF s # None /\ interest[s] # "none" THEN [interest EXCEPT ![s] = ev] ELSE interest

\* epoll_ctl(DEL) and close(), both without effect on a closed descriptor.
Remove_fd(s) ==
  /\ interest' = [interest EXCEPT ![s] = "none"]
  /\ sock' = [sock EXCEPT ![s] = None]
  /\ conn' = [c \in Clients |-> IF c = sock[s] THEN "gone" ELSE conn[c]]
  /\ sent' = [c \in Clients |-> IF c = sock[s] THEN None ELSE sent[c]]
  /\ UNCHANGED backlog

\* The connection the object's m_sock reaches.
Peer(u) == IF u.m_sock = None THEN None ELSE sock[u.m_sock]

\* Read_once() returns true: recv ran into EAGAIN before an error, the end of the
\* stream or the end of the buffer.
ReadSucceeds(u) ==
  /\ Peer(u) # None
  /\ conn[Peer(u)] = "open"
  /\ sent[Peer(u)] # "big"

Received(u) == [u EXCEPT !.buf = IF sent[Peer(u)] = None THEN @ ELSE sent[Peer(u)]]

Drained(u) == [sent EXCEPT ![Peer(u)] = None]

\* What Write() can come to: its result, the Mod_fd it made, the object it leaves.
WriteFails(u) == [ok |-> FALSE, ev |-> "none", user |-> u]
WriteStalls(u, left) == [ok |-> TRUE, ev |-> "out", user |-> [u EXCEPT !.to_send = left]]
\* Mutant of WriteEnds: the connection is kept whatever m_link says.
WriteEndsOpen(u) == [ok |-> TRUE, ev |-> "in", user |-> Cleared(u)]
WriteEnds(u) ==
  IF u.m_link \/ u.to_send = 0
    THEN [ok |-> TRUE, ev |-> "in", user |-> Cleared(u)]
    ELSE [ok |-> FALSE, ev |-> "in", user |-> [u EXCEPT !.to_send = 0]]

\* Nothing to send ends at once.  Otherwise writev fails on a closed descriptor, may
\* fail towards a client that is gone, stops at EAGAIN after a part, or sends it all.
WriteOutcomes(u) ==
  CASE u.to_send = 0    -> {WriteEnds(u)}
    [] Peer(u) = None   -> {WriteFails(u)}
    [] OTHER -> {WriteEnds(u)} \cup {WriteStalls(u, left) : left \in 1..(u.to_send - 1)}
                  \cup (IF conn[Peer(u)] = "fin" THEN {WriteFails(u)} ELSE {})

Rearmed(u, ev) == IF ev = "none" THEN interest ELSE Mod_fd(u.m_sock, ev)

-----------------------------------------------------------------------------
(* The event loop. *)

\* Mutant of ReadyFds: EPOLLONESHOT forgotten.
ReadyAgain(room) ==
  {f \in Fds : \/ interest[f] # "none" /\ (conn[sock[f]] = "fin" \/ sent[sock[f]] # None)
               \/ interest[f] = "out" /\ f \in room}

\* room: the descriptors with room to send.  A client that does not read leaves none.
ReadyFds(room) ==
  {f \in Fds : \/ interest[f] \in {"in", "out"} /\ conn[sock[f]] = "fin"
               \/ interest[f] = "in" /\ sent[sock[f]] # None
               \/ interest[f] = "out" /\ f \in room}

\* RDHUP is looked at before IN and OUT.
EventOf(f) == [fd |-> f, ev |-> IF conn[sock[f]] = "fin" THEN "hup" ELSE interest[f]]

Ready(room) ==
  {EventOf(f) : f \in ReadyFds(room)}
    \cup {e \in {[fd |-> Listen, ev |-> "in"]} : backlog # <<>>}

\* epoll_wait: every ready event is taken and its registration disarmed.
EpollWait(room) ==
  /\ mpc = "loop" /\ batch = {}
  /\ Ready(room) # {}
  /\ batch' = Ready(room)
  /\ interest' = [f \in Fds |-> IF f \in ReadyFds(room) THEN "off" ELSE interest[f]]
  /\ UNCHANGED <<conn, backlog, sent, sock, m_users, timerVars, m_user_count,
                 mpc, mfd, mreg, workVars, poolVars>>

\* epoll_wait times out after 3 ms and is called again.
EpollTimeout ==
  /\ mpc = "loop" /\ batch = {} /\ Ready({}) = {}
  /\ UNCHANGED vars

\* The loop goes on to the event e.
Take(e) ==
  /\ mpc = "loop"
  /\ e \in batch
  /\ batch' = batch \ {e}

DealClientData(e) ==
  /\ Take(e)
  /\ e.fd = Listen
  /\ mpc' = "accept"
  /\ UNCHANGED <<netVars, m_users, timerVars, m_user_count, mfd, mreg, workVars, poolVars>>

\* accept() finds no connection, or no descriptor for it.
AcceptFails ==
  /\ mpc = "accept"
  /\ backlog = <<>> \/ \A f \in Fds : sock[f] # None
  /\ mpc' = "loop"
  /\ UNCHANGED <<netVars, m_users, timerVars, m_user_count, mfd, batch, mreg, workVars, poolVars>>

LimitReached == m_user_count >= MaxFd

\* accept() and, over the limit, close().
Refuse ==
  /\ mpc = "accept"
  /\ backlog # <<>> /\ \E f \in Fds : sock[f] = None
  /\ LimitReached
  /\ conn' = [conn EXCEPT ![Head(backlog)] = "gone"]
  /\ sent' = [sent EXCEPT ![Head(backlog)] = None]
  /\ backlog' = Tail(backlog)
  /\ mpc' = "loop"
  /\ UNCHANGED <<sock, interest, m_users, timerVars, m_user_count, mfd, batch, mreg, workVars, poolVars>>

\* accept(), the test of the limit, and Init() up to m_user_count++.  Other files of the
\* process come and go, so the new descriptor may be any that is not a connection's.
Accept(f) ==
  /\ mpc = "accept"
  /\ backlog # <<>> /\ sock[f] = None
  /\ ~LimitReached
  /\ sock' = [sock EXCEPT ![f] = Head(backlog)]
  /\ backlog' = Tail(backlog)
  /\ m_users' = [m_users EXCEPT ![f].m_sock = f, ![f].m_address = Head(backlog)]
  /\ interest' = [interest EXCEPT ![f] = "in"]
  /\ mfd' = f
  /\ mpc' = "count"
  /\ UNCHANGED <<conn, sent, timerVars, m_user_count, batch, mreg, workVars, poolVars>>

\* Init(): the load in m_user_count++.
CountLoads ==
  /\ mpc = "count"
  /\ mreg' = m_user_count
  /\ mpc' = "register"
  /\ UNCHANGED <<netVars, m_users, timerVars, m_user_count, mfd, batch, workVars, poolVars>>

\* Mutant of Register: the timer never reaches the list.
RegisterUnlisted ==
  /\ mpc = "register"
  /\ m_user_count' = mreg + 1
  /\ m_users' = [m_users EXCEPT ![mfd] = Cleared(@)]
  /\ m_users_timer' = [m_users_timer EXCEPT ![mfd] = m_users[mfd].m_address]
  /\ mpc' = "loop" /\ mfd' = None /\ mreg' = 0
  /\ UNCHANGED <<netVars, timers, batch, workVars, poolVars>>

\* The rest of Init() and of timer().
Register ==
  LET c == m_users[mfd].m_address IN
  /\ mpc = "register"
  /\ m_user_count' = mreg + 1
  /\ m_users' = [m_users EXCEPT ![mfd] = Cleared(@)]
  /\ m_users_timer' = [m_users_timer EXCEPT ![mfd] = c]
  /\ timers' = timers \cup {c}
  /\ mpc' = IF ListenTrig = 0 THEN "loop" ELSE "accept"
  /\ mfd' = None /\ mreg' = 0
  /\ UNCHANGED <<netVars, batch, workVars, poolVars>>

HangUp(e) ==
  /\ Take(e)
  /\ e.fd # Listen /\ e.ev = "hup"
  /\ mfd' = e.fd
  /\ mpc' = "del"
  /\ UNCHANGED <<netVars, m_users, timerVars, m_user_count, mreg, workVars, poolVars>>

\* deal_read() and deal_write() of the reactor, to the unlock in append().  A full queue
\* rejects the task, and the loop spins all the same.
ReactorAppend(e) ==
  /\ Take(e)
  /\ ServerMode = 0
  /\ e.fd # Listen /\ e.ev # "hup"
  /\ mfd' = e.fd
  /\ IF Pool!QueueFull
       THEN /\ mpc' = "spin"
            /\ UNCHANGED <<m_users, poolVars>>
       ELSE /\ Pool!Push(e.fd)
            /\ m_users' = [m_users EXCEPT ![e.fd].m_state = IF e.ev = "in" THEN 0 ELSE 1]
            /\ mpc' = "post"
  /\ UNCHANGED <<netVars, timerVars, m_user_count, mreg, workVars>>

\* deal_read() of the proactor, to the unlock in append_p(), whose rejection goes unnoticed.
ProactorRead(e) ==
  /\ Take(e)
  /\ ServerMode = 1
  /\ e.fd # Listen /\ e.ev = "in"
  /\ IF ReadSucceeds(m_users[e.fd])
       THEN /\ m_users' = [m_users EXCEPT ![e.fd] = Received(@)]
            /\ sent' = Drained(m_users[e.fd])
            /\ IF Pool!QueueFull
                 THEN mpc' = "loop" /\ UNCHANGED poolVars
                 ELSE mpc' = "post" /\ Pool!Push(e.fd)
            /\ UNCHANGED mfd
       ELSE /\ mpc' = "del" /\ mfd' = e.fd
            /\ UNCHANGED <<m_users, sent, poolVars>>
  /\ UNCHANGED <<conn, backlog, sock, interest, timerVars, m_user_count, mreg, workVars>>

\* Mutant of AppendPosts: two posts for one task.
AppendPostsTwice ==
  /\ mpc = "post"
  /\ Pool!PostTwice
  /\ mpc' = IF ServerMode = 0 THEN "spin" ELSE "loop"
  /\ UNCHANGED <<netVars, m_users, timerVars, m_user_count, mfd, batch, mreg, workVars>>

\* The semaphore's post at the end of append() and append_p().
AppendPosts ==
  /\ mpc = "post"
  /\ Pool!Post
  /\ mpc' = IF ServerMode = 0 THEN "spin" ELSE "loop"
  /\ UNCHANGED <<netVars, m_users, timerVars, m_user_count, mfd, batch, mreg, workVars>>

\* deal_write() of the proactor.
ProactorWrite(e) ==
  /\ Take(e)
  /\ ServerMode = 1
  /\ e.fd # Listen /\ e.ev = "out"
  /\ \E r \in WriteOutcomes(m_users[e.fd]) :
       /\ m_users' = [m_users EXCEPT ![e.fd] = r.user]
       /\ interest' = Rearmed(m_users[e.fd], r.ev)
       /\ IF r.ok THEN UNCHANGED <<mpc, mfd>> ELSE mpc' = "del" /\ mfd' = e.fd
  /\ UNCHANGED <<conn, backlog, sent, sock, timerVars, m_user_count, mreg, workVars, poolVars>>

\* Mutants of SpinEnds: m_imprv is not reset; a failure only deletes the timer.
SpinEndsKeeping ==
  /\ mpc = "spin" /\ m_users[mfd].m_imprv = 1
  /\ IF m_users[mfd].m_timer_trig = 1 THEN mpc' = "failDel" /\ UNCHANGED mfd
                                     ELSE mpc' = "loop" /\ mfd' = None
  /\ UNCHANGED <<netVars, m_users, timerVars, m_user_count, batch, mreg, workVars, poolVars>>
SpinEndsOpen ==
  /\ mpc = "spin" /\ m_users[mfd].m_imprv = 1
  /\ m_users' = [m_users EXCEPT ![mfd].m_imprv = 0, ![mfd].m_timer_trig = 0]
  /\ mpc' = "loop" /\ mfd' = None
  /\ timers' = IF m_users[mfd].m_timer_trig = 1 THEN timers \ {m_users_timer[mfd]} ELSE timers
  /\ UNCHANGED <<netVars, m_users_timer, m_user_count, batch, mreg, workVars, poolVars>>

\* The reactor's busy wait sees m_imprv set, and looks at m_timer_trig.
SpinEnds ==
  /\ mpc = "spin"
  /\ m_users[mfd].m_imprv = 1
  /\ IF m_users[mfd].m_timer_trig = 1
       THEN mpc' = "failDel" /\ UNCHANGED <<m_users, mfd>>
       ELSE /\ mpc' = "loop" /\ mfd' = None
            /\ m_users' = [m_users EXCEPT ![mfd].m_imprv = 0]
  /\ UNCHANGED <<netVars, timerVars, m_user_count, batch, mreg, workVars, poolVars>>

\* del_timer(): cb_fun() up to the load in m_user_count--.
CbFun ==
  /\ mpc \in {"del", "failDel"}
  /\ Remove_fd(mfd)
  /\ mreg' = m_user_count
  /\ mpc' = IF mpc = "del" THEN "uncount" ELSE "failUncount"
  /\ UNCHANGED <<m_users, timerVars, m_user_count, mfd, batch, workVars, poolVars>>

\* Mutant of DelTimer: the connection is uncounted by cb_fun() and by Close_connect().
DelTimerTwice ==
  /\ mpc \in {"uncount", "failUncount"}
  /\ m_user_count' = mreg - 2
  /\ timers' = timers \ {m_users_timer[mfd]}
  /\ mpc' = "loop" /\ mfd' = None /\ mreg' = 0
  /\ UNCHANGED <<netVars, m_users, m_users_timer, batch, workVars, poolVars>>

\* The rest of cb_fun(), Del_timer() and, after a failed read or write, the flags.
DelTimer ==
  /\ mpc \in {"uncount", "failUncount"}
  /\ m_user_count' = mreg - 1
  /\ timers' = timers \ {m_users_timer[mfd]}
  /\ m_users' = IF mpc = "uncount" THEN m_users
                  ELSE [m_users EXCEPT ![mfd].m_timer_trig = 0, ![mfd].m_imprv = 0]
  /\ mpc' = "loop" /\ mfd' = None /\ mreg' = 0
  /\ UNCHANGED <<netVars, m_users_timer, batch, workVars, poolVars>>

\* The loop from one epoll_wait to the next.
LoopStep ==
  \/ \E e \in batch : \/ DealClientData(e) \/ HangUp(e) \/ ReactorAppend(e)
                      \/ ProactorRead(e) \/ ProactorWrite(e)
  \/ AcceptFails \/ Refuse \/ (\E f \in Fds : Accept(f)) \/ CountLoads \/ Register
  \/ AppendPosts \/ SpinEnds \/ CbFun \/ DelTimer

EventLoop == LoopStep \/ \E room \in SUBSET Fds : EpollWait(room)

-----------------------------------------------------------------------------
(* The workers: Thread_Pool::run() and the Http_Connect methods it calls. *)

AwaitTask(w) ==
  /\ Pool!SemWait(w)
  /\ UNCHANGED <<netVars, m_users, timerVars, m_user_count, loopVars, workVars>>

FetchTask(w) ==
  /\ Pool!Fetch(w)
  /\ job' = [job EXCEPT ![w] = IF queue = <<>> THEN @ ELSE IF PoolMode = 0 THEN "io" ELSE "process"]
  /\ UNCHANGED <<netVars, m_users, timerVars, m_user_count, loopVars, wreg>>

\* The worker has no more to do for its task.
Done(w) == Pool!Finish(w) /\ job' = [job EXCEPT ![w] = "idle"]
Continue(w, next) == job' = [job EXCEPT ![w] = next] /\ UNCHANGED poolVars

\* Mutant of WorkerReads: a failed read does not answer the loop.
WorkerReadsSilently(w) ==
  LET f == task[w] IN
  /\ job[w] = "io" /\ m_users[f].m_state = 0
  /\ IF ReadSucceeds(m_users[f])
       THEN /\ m_users' = [m_users EXCEPT ![f] = [Received(@) EXCEPT !.m_imprv = 1]]
            /\ sent' = Drained(m_users[f])
            /\ Continue(w, "process")
       ELSE UNCHANGED <<m_users, sent>> /\ Continue(w, "trig")
  /\ UNCHANGED <<conn, backlog, sock, interest, timerVars, m_user_count, loopVars, wreg>>

\* Read_once() in a worker, and m_imprv = 1 in either case.
WorkerReads(w) ==
  LET f == task[w] IN
  /\ job[w] = "io" /\ m_users[f].m_state = 0
  /\ IF ReadSucceeds(m_users[f])
       THEN /\ m_users' = [m_users EXCEPT ![f] = [Received(@) EXCEPT !.m_imprv = 1]]
            /\ sent' = Drained(m_users[f])
            /\ Continue(w, "process")
       ELSE /\ m_users' = [m_users EXCEPT ![f].m_imprv = 1]
            /\ UNCHANGED sent
            /\ Continue(w, "trig")
  /\ UNCHANGED <<conn, backlog, sock, interest, timerVars, m_user_count, loopVars, wreg>>

\* Write() in a worker, and m_imprv = 1 in either case.
WorkerWrites(w) ==
  LET f == task[w] IN
  /\ job[w] = "io" /\ m_users[f].m_state = 1
  /\ \E r \in WriteOutcomes(m_users[f]) :
       /\ m_users' = [m_users EXCEPT ![f] = [r.user EXCEPT !.m_imprv = 1]]
       /\ interest' = Rearmed(m_users[f], r.ev)
       /\ IF r.ok THEN Done(w) ELSE Continue(w, "trig")
  /\ UNCHANGED <<conn, backlog, sent, sock, timerVars, m_user_count, loopVars, wreg>>

\* After a failure, m_timer_trig = 1: m_imprv is set already.
ReportFailure(w) ==
  /\ job[w] = "trig"
  /\ m_users' = [m_users EXCEPT ![task[w]].m_timer_trig = 1]
  /\ Done(w)
  /\ UNCHANGED <<netVars, timerVars, m_user_count, loopVars, wreg>>

\* process_read() stops at NO_REQUEST.
Incomplete(u) == u.buf \in {None, "part"}

\* The file do_request() looks for.  m_url keeps its value until init().
Target(u) == IF u.url # None THEN u.url ELSE IF u.buf = "miss" THEN "miss" ELSE "ok"

Parsed(u) == [u EXCEPT !.buf = None, !.url = Target(u), !.m_link = @ \/ u.buf = "keep"]

\* Mutant of ProcessIncomplete: no Mod_fd before the return.
ProcessIncompleteSilently(w) ==
  LET f == task[w] IN
  /\ job[w] = "process" /\ Incomplete(m_users[f])
  /\ m_users' = [m_users EXCEPT ![f].buf = None]
  /\ Done(w)
  /\ UNCHANGED <<netVars, timerVars, m_user_count, loopVars, wreg>>

\* Process(): the request needs more data.
ProcessIncomplete(w) ==
  LET f == task[w] IN
  /\ job[w] = "process" /\ Incomplete(m_users[f])
  /\ m_users' = [m_users EXCEPT ![f].buf = None]
  /\ interest' = Mod_fd(m_users[f].m_sock, "in")
  /\ Done(w)
  /\ UNCHANGED <<conn, backlog, sent, sock, timerVars, m_user_count, loopVars, wreg>>

\* Process(): process_write() builds the response.
ProcessRespond(w) ==
  LET f == task[w] IN
  /\ job[w] = "process" /\ ~Incomplete(m_users[f]) /\ Target(m_users[f]) = "ok"
  /\ m_users' = [m_users EXCEPT ![f] = [Parsed(@) EXCEPT !.to_send = Windows]]
  /\ interest' = Mod_fd(m_users[f].m_sock, "out")
  /\ Done(w)
  /\ UNCHANGED <<conn, backlog, sent, sock, timerVars, m_user_count, loopVars, wreg>>

\* Process(): process_write() has no response for it, and Close_connect() runs up to the
\* load in m_user_count--.  On an object closed before it does nothing.
ProcessClose(w) ==
  LET f == task[w] s == m_users[f].m_sock IN
  /\ job[w] = "process" /\ ~Incomplete(m_users[f]) /\ Target(m_users[f]) = "miss"
  /\ m_users' = [m_users EXCEPT ![f] = Parsed(@)]
  /\ IF s = None
       THEN Continue(w, "rearm") /\ UNCHANGED <<netVars, wreg>>
       ELSE /\ Remove_fd(s)
            /\ wreg' = [wreg EXCEPT ![w] = m_user_count]
            /\ Continue(w, "uncount")
  /\ UNCHANGED <<timerVars, m_user_count, loopVars>>

\* Close_connect(): the store in m_user_count--.
CloseUncounts(w) ==
  /\ job[w] = "uncount"
  /\ m_user_count' = wreg[w] - 1
  /\ wreg' = [wreg EXCEPT ![w] = 0]
  /\ Continue(w, "unsock")
  /\ UNCHANGED <<netVars, m_users, timerVars, loopVars>>

\* Close_connect(): m_sock = -1.
CloseForgets(w) ==
  /\ job[w] = "unsock"
  /\ m_users' = [m_users EXCEPT ![task[w]].m_sock = None]
  /\ Continue(w, "rearm")
  /\ UNCHANGED <<netVars, timerVars, m_user_count, loopVars, wreg>>

\* Process() goes on after Close_connect() and reads m_sock again for its last Mod_fd.
\* That is -1, unless the loop has accepted on the object meanwhile: then the new
\* connection is registered for EPOLLOUT, wherever it is.
CloseRearms(w) ==
  /\ job[w] = "rearm"
  /\ interest' = Mod_fd(m_users[task[w]].m_sock, "out")
  /\ Done(w)
  /\ UNCHANGED <<conn, backlog, sent, sock, m_users, timerVars, m_user_count, loopVars, wreg>>

WorkerStep(w) ==
  \/ AwaitTask(w) \/ FetchTask(w)
  \/ WorkerReads(w) \/ WorkerWrites(w) \/ ReportFailure(w)
  \/ ProcessIncomplete(w) \/ ProcessRespond(w) \/ ProcessClose(w)
  \/ CloseUncounts(w) \/ CloseForgets(w) \/ CloseRearms(w)

-----------------------------------------------------------------------------

ClientStep(c) == Connect(c) \/ (\E r \in Requests : Send(c, r)) \/ Fin(c)

Next ==
  \/ EventLoop
  \/ EpollTimeout
  \/ \E w \in Workers : WorkerStep(w)
  \/ \E c \in Clients : ClientStep(c)

Spec == Init /\ [][Next]_vars

(* The loop never sleeps for longer than epoll_wait's timeout and no thread of   *)
(* the process is starved by the scheduler.  Clients owe nothing.                *)
ThreadsRun ==
  /\ WF_vars(LoopStep \/ EpollWait({}))
  /\ \A w \in Workers : WF_vars(WorkerStep(w))

\* epoll_wait reports that there is room to send on f.
Writable(f) == interest[f] = "out" /\ \E room \in SUBSET Fds : f \in room /\ EpollWait(room)

(* A client reads what it is sent: a connection that waits for EPOLLOUT does not *)
(* wait for ever.                                                                *)
ClientsRead == \A f \in Fds : SF_vars(Writable(f))

FairSpec == Spec /\ ThreadsRun
DrainedSpec == FairSpec /\ ClientsRead

-----------------------------------------------------------------------------
(* Properties. *)

\* A connection is being accepted.
Accepting == mpc \in {"count", "register"}

\* Where the loop works on a descriptor, and a worker on a task.
LoopPlaced ==
  \/ mpc \in {"count", "register", "spin", "del", "uncount", "failDel", "failUncount"}
  \/ mpc = "post" /\ ServerMode = 0
  => mfd \in Fds
WorkerPlaced == \A w \in Workers : job[w] # "idle" => task[w] \in Fds
RegisterKnows == Accepting => m_users[mfd].m_address \in Clients

(* del_timer(), adjust_timer() and Adjust_timer() dereference the timer pointer of    *)
(* the event's descriptor without knowing whether the timer still exists.  It does    *)
(* for every event of a batch, however long ago epoll_wait returned it, and until the *)
(* loop has deleted it itself.                                                        *)
TimerPointerLive ==
  /\ \A e \in batch : e.fd # Listen => m_users_timer[e.fd] \in timers
  /\ mpc \in {"spin", "del", "uncount", "failDel", "failUncount"} => m_users_timer[mfd] \in timers

(* Reactor: the loop and the workers pass each other one task at a time.  While the   *)
(* loop posts or spins, exactly one of these holds: the task is queued, one worker    *)
(* does its I/O, m_imprv is set.  At any other time the queue is empty, nobody does   *)
(* I/O, and no m_imprv is left over to end a later wait before its time.              *)
Handshake ==
  /\ \A f \in Fds : m_users[f].m_imprv = 1 => f = mfd /\ mpc \in {"spin", "failDel", "failUncount"}
  /\ IF mpc \in {"post", "spin"}
       THEN LET done == m_users[mfd].m_imprv = 1
                io == {w \in Workers : job[w] = "io"}
            IN \/ queue = <<mfd>> /\ io = {} /\ ~done
               \/ queue = <<>> /\ (\E w \in Workers : io = {w} /\ task[w] = mfd) /\ ~done
               \/ queue = <<>> /\ io = {} /\ done
       ELSE queue = <<>> /\ \A w \in Workers : job[w] # "io"

Closing(f) == mfd = f /\ mpc \in {"del", "failDel"}

(* Who may touch a connection: the loop through an armed registration, with an event  *)
(* of it or about to close it, the queue and the workers with a pointer to its object.*)
Holders(f) ==
  {<<"epoll", ev>> : ev \in {interest[f]} \cap (IF Closing(f) THEN {} ELSE {"in", "out"})}
    \cup {<<"batch", e.ev>> : e \in {b \in batch : b.fd = f}}
    \cup {<<"queue", i>> : i \in {n \in 1..Len(queue) : queue[n] = f}}
    \cup {<<"worker", w>> : w \in {v \in Workers : task[v] = f}}
    \cup {<<"loop", m>> : m \in IF Closing(f) THEN {mpc} ELSE {}}

(* One-shot registration hands a connection from one holder to the next: an open      *)
(* connection is never held twice, and never by nobody, which would leave it open and *)
(* silent for ever.                                                                   *)
OneHolder == \A f \in Fds : sock[f] # None => Cardinality(Holders(f)) = 1

(* README.md:50: a timer is bound to every connection.  Every connection the loop      *)
(* knows has its own timer in the list, under its own descriptor.  (The list may also *)
(* keep timers of connections that a worker has closed.)                              *)
ConnectionHasTimer ==
  \A f \in Fds : sock[f] # None /\ ~(Accepting /\ mfd = f)
                   => m_users_timer[f] = sock[f] /\ sock[f] \in timers

(* webserver.h:61: one user object per http connection.  The object of an open        *)
(* connection works on that connection's descriptor.                                  *)
UserOfConnection == \A f \in Fds : sock[f] # None => m_users[f].m_sock = f

(* webserver.cpp:216: when a worker failed to read or write, the loop deletes the     *)
(* timer.  So a failure is never reported for a descriptor the loop has finished with.*)
FailureSeen ==
  \A f \in Fds : m_users[f].m_timer_trig = 1
                   => mfd = f /\ mpc \in {"spin", "failDel", "failUncount"}

(* The loop and the workers use the task queue as module ThreadPool has it: every     *)
(* step of the server is a step of the queue or leaves it alone.                      *)
PoolImplemented == Pool!Spec

(* http_connect.cpp:265, webserver.cpp:151: m_user_count, which the limit is held      *)
(* against, is the number of open connections, but for the one the loop is about to   *)
(* count or uncount, whoever ended the connections; as long as no worker closes one   *)
(* (a worker counts without a lock, and updates get lost).                             *)
UsersCounted ==
  m_user_count = Cardinality({f \in Fds : sock[f] # None})
                   - (IF Accepting THEN 1 ELSE 0)
                   + (IF mpc \in {"uncount", "failUncount"} THEN 1 ELSE 0)

(* Reactor: the busy wait ends. *)
SpinReturns == mpc = "spin" ~> mpc # "spin"

Accepted(c) == \E f \in Fds : sock[f] = c

(* An accepted connection that its client has closed, or on which it has sent a       *)
(* complete request without keep-alive, is closed by the server: in the second case    *)
(* after the response, which the client reads.                                         *)
Concluded ==
  \A c \in Clients : (Accepted(c) /\ (conn[c] = "fin" \/ sent[c] = "get")) ~> conn[c] = "gone"
=============================================================================
