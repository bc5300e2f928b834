# TinyWebServer_Study in TLA+

A model of the web server in this repository: its event loop, its thread pool, the one-shot
epoll registrations that hand a connection from thread to thread, the request parser, the
response writer, the accounts, the timers, the database connection pool and the log. TLC checks
the models on small instances; TLAPS proves all their safety properties for every instance.

Run a model with `tlc -config <run>.cfg <module>.tla`, check a proof with `tlapm <module>.tla`.
`PROJECT.json` lists the runs, what each definition models, the hazards and the theorems.

## The system

One thread, the *event loop* (`webserver.cpp`), waits in `epoll_wait` and handles accepts,
closes, reads and writes. A pool of detached *workers* (`thread_poll/thread_poll.h`) takes
pointers to `Http_Connect` objects from a queue. There are two event modes: in the *reactor*
(`-a 0`) a worker does the I/O and the loop spins on two flags of the object until it has; in
the *proactor* (`-a 1`) the loop does the I/O and a worker only processes the request.

| part | state | operations | correct when |
|---|---|---|---|
| task queue (`thread_poll.h`) | `m_task_queue`, `m_sem`, `m_locker` | `append`, `append_p`, `run` | every accepted task is run, no wake-up is lost or in excess, the bound holds |
| event loop (`webserver.cpp`) | `m_users`, `m_users_timer`, the epoll set | `Event_loop`, `Deal_client_data`, `timer`, `del_timer`, `deal_read`, `deal_write` | every event is handled on a live connection with a live timer, the loop never stops |
| HTTP connection (`http_connect.cpp`) | socket, buffers, `m_imprv`, `m_timer_trig`, `m_state`, `m_user_count` | `Init`, `Read_once`, `Process`, `Write`, `Close_connect` | one thread at a time has a connection, none is left open and silent, complete requests are answered |
| request parser (`http_connect.cpp`) | `m_check_state`, indices | `parse_*`, `process_read` | the verdict does not depend on how the bytes arrived |
| response (`http_connect.cpp`) | `m_write_buf`, `m_iv`, byte counts | `add_*`, `process_write`, `Write` | the bytes sent are the response, whatever `writev` takes at a time |
| accounts (`do_request`) | the map `users`, the database | register, login | a name is registered once, map and table agree |
| timer list (`timer/timers.cpp`) | list pointers, `m_expire` | `Add_timer`, `Del_timer`, `Adjust_timer`, `tick` | one linked list of the live timers, sorted; `tick` closes what is due |
| signals (`timers.cpp`, `webserver.cpp`) | `m_pipe`, the alarm | `Sig_handler`, `deal_signal`, `Timer_handler` | `tick` is called every `TIMESLOT` |
| database pool (`sql_pool/`) | `m_conn_list`, `m_sem`, two counters | `Get_sql_connect`, `Realse_sql_connect`, `Connection_RAII` | a connection has one user, none is lost, a waiting thread gets one |
| log (`log/`) | the open file, line count, queue | `Write_log`, `Push`, `Pop`, `Write_async` | no line is lost or doubled, files keep to a day and a size |
| lock wrappers, configuration, `main` | | | |

They interact through the queue of object pointers, through the objects' plain `int` flags,
through epoll (whoever arms a registration gives the connection away), through the counter
`m_user_count` and through descriptors, which the kernel reuses as soon as they are closed.
What is hard about it: the flags, the counter and `m_sock` are shared without a lock;
semaphores are posted and waited for outside the critical sections they belong to; a worker may
close a connection behind the loop's back; and full queues and empty pools are handled in places
that a test hardly reaches.

## Modules

| module | what it is |
|---|---|
| `ThreadPool` | the task queue by itself |
| `WebServer` | event loop, workers, connections, epoll, timers as owners; contains `ThreadPool` as `Pool` |
| `ConnLease` | abstract: a connection is free or lent to one thread |
| `SqlPool` | the connection pool, shown to implement `ConnLease` |
| `HttpParse` | the request parser: `Read_once`, `process_read` and the `parse_` functions on the text of requests |
| `HttpWrite` | the response: `process_write`, the windows of `Write`, `mmap` and `unmap` |
| `HttpConn` | `HttpParse` and `HttpWrite` on one `Http_Connect` object, joined by `Process` and `init` |
| `Users` | registration and login over the shared map and the table |
| `TimerList` | `Sort_Timer_Lst`, pointer by pointer |
| `LogQueue` | `Write_log`, `Block_queue`, `Write_async` |
| `ThreadPoolProofs`, `SqlPoolProofs` (and `ConnLease`), `UsersProofs`, `TimerListProofs`, `LogQueueProofs` | theorems about the module of that name |
| `WebServerProofs`, `HandoverProofs` | theorems about `WebServer`: types, the queue inside it, live timers; then who owns and holds what |
| `HttpConnProofs` | theorems about `HttpWrite` alone, and about `HttpConn`: the writer inside it, and the parser's verdict |
| `MC*` | symmetry sets for TLC; in `MCHttpConn` the requests |

Definitions that begin with "Mutant of" are wrong on purpose; no specification uses them. They
are what the properties are known to catch.

### How the models read

A critical section is one action. Outside critical sections the grain is one access to state
that another thread can see in between: `sem_post` after the unlock, `sem_wait` before the lock,
the load and the store of `m_user_count++`, `close()` and `m_sock = -1`, `m_imprv = 1` and
`m_timer_trig = 1`. A stretch that touches only what its thread owns is part of its neighbour.
The CMake file asks for no optimisation, so plain loads and stores are made in program order and
the loop's busy wait reads the flag again each time; with an optimising compiler the flag could
be read once, and the reactor would then spin for ever. The models do not include that.

`ThreadPool`. `queue` is `m_task_queue`, `sem` the semaphore. `Push` is the critical section of
`append` and `append_p`, `Post` the `sem_post` behind it. A worker is in `sem_wait`, `woken` or
running.

`WebServer`. `mpc` says where the loop is, `batch` holds what the last `epoll_wait` returned (in any
order: epoll promises none), `job` says where each worker is. `interest[f]` is the registration of a
descriptor: `"off"` is a one-shot registration used up. `conn`, `sent`, `sock` and `backlog` are the
kernel's and the clients' side: a client may send a request, one at a time, and close. A request is
a kind: `part` incomplete, `get`, `keep` with keep-alive, `miss` for a missing file (the one case
where `process_write` has no response), `big` for more than the read buffer holds. `url` and
`m_link` are kept as the code keeps them, until `init()`. A response takes up to `Windows` writes,
each of which may stop at EAGAIN; `room` in `EpollWait` is the set of descriptors whose send buffer
has room, any set at any time. `Accept` ends before the load of `m_user_count++`, so that a worker
may decrement between the test of the limit and `CountLoads`. `Close_connect()` in a worker is four
steps, `ProcessClose` (`close()`), `CloseUncounts`, `CloseForgets` (`m_sock = -1`) and
`CloseRearms`: `Process()` does not return after it but reads `m_sock` once more for its last
`Mod_fd` (`http_connect.cpp:148`). That is -1 and has no effect, unless the loop has accepted on the
same object meanwhile; then it registers the new connection for EPOLLOUT, wherever that connection
is. `mreg` and `wreg` are the registers of a `++` or `--` of `m_user_count`. Where two handlers have
the same text (`deal_read` and `deal_write` of the reactor, the `append`s, the two loops of
`Deal_client_data`) one action stands for both, and `PROJECT.json` names the lines of one of them.
`ServerMode` and `PoolMode` are two constants because the code has two variables:
`WebServer::m_actor_mod`, which the command line sets, and `Thread_Pool::m_actor_mod`, which nothing
sets. `ListenTrig` is another variable that is never set. The timers here are only their existence;
their order and time are `TimerList`'s. `tick` is not an action of `WebServer`: `alarm()` is called
only by `Timer_handler`, which runs only after a SIGALRM came through a pipe that is never created.

`HttpParse`. `WebServer` has kinds of requests and asks who holds a connection; `HttpParse` has
their text and asks what the parser makes of it. A request is a request line, header lines and a
body; a symbol of its text is a whole line without its end, a CR, an LF or one byte of the body.
Whatever a line says is read by the parser only when its end is there, so that nothing is lost by
taking it whole, and a piece may end between any two symbols. `request` and `sent` are the
client's side, the other variables are the object's, with the code's names; `m_read_buf` holds
what has been read, so that `m_read_idx` is its length. `parse_line()` zeroes line ends, and so do
the actions. A round of the loop of `process_read()` is an action; `LineOpen` and `LineBad` are the
two ways in which it returns `NO_REQUEST`. `Init()` sets `trig_mod = 1`, so that `Read_once()` is
always its edge-triggered half: `ReadAll` and `ReadFails` are its ends, and both are possible when the
buffer has just been filled (the client may have more to send by the next `recv`, or the
0 bytes asked for give a 0). `Terminated` is the zero that `parse_content()` stores behind the body
(line 391). When the buffer is full to its last byte it falls one byte behind it, on the lowest byte of
`m_read_idx`, which is 0 at `READ_BUFF_SIZE` = 2048: nothing changes. A request of method
`"NOPATH"` is one whose url is `http://` and a host without a `/`; the parser follows a null pointer
(`pc = "crashed"`).

`HttpWrite`. A byte of the response is a pair of buffer and offset. `m_iv` are the two windows;
`wire` is what the kernel has taken. A call of `writev()` takes any number of the bytes it is
offered, and the lines 625 to 655 behind it belong to the same action. `wpc = "ready"` is a
response that waits for EPOLLOUT. Of the `add_` functions only the number of bytes counts.
`maps` counts mappings of files, `m_file_address` is 0, -1 for `MAP_FAILED` or the size of the file
mapped; a file does not change while it is sent. The model forgets `m_iv` with `init()`; the code
keeps it, and `process_write()` sets what is used of it.

`HttpConn`. An object serves one connection after another, so that what `init()` forgets to reset is
there for the next. `Respond` is `process_write()` with any answer that `do_request()` may come to
for the verdict, `Send` joins the end of `Write()` with `init()` or with the end of the connection,
`HangUp` is the client's close as the loop sees it.

`Users`. `users` is the map, `table` what the database has committed. `res` is the result of
`mysql_query()`. A worker is before `find`, before the query, before `insert`, or inside it:
`m_lock` is a member of the object, so that it keeps no other worker out. A `find` during an
`insert` may answer anything, and two `insert`s at once leave a map of which nothing is known
(`torn`). `raced` are the names that were registered by two at once. `Stops` empties everything
but the table, wherever the workers are; `Starts` is `Init_mysql_result()`. Whether the table has a
unique key is not in the repository: a statement may fail or not.

`SqlPool`. One thread holds one connection at a time, as `Connection_RAII` has it. The unlocked
`size()` at the start of `Get_sql_connect` is an action of its own (`GetChecks`).

`TimerList`. Only the event loop uses the list, so a method is one action. `list` has
`m_head`, `m_tail` and every timer's `m_next` and `m_pre`, each assignment of the code in order.
The walks along `m_next` are two recursive functions, `First`, which stops at the first timer of a
set, and `Passed`, which collects what a walk has passed.
`tick` is modelled as the class offers it, and the clock may be set back. `m_actor_mod` is
a variable here, chosen at the start: the two modes call the list differently.

`LogQueue`. A line is its thread and its number. `printed` has for every line the files that were
open when `fputs` was given it, so that a line printed twice shows. Whether the log is asynchronous is chosen at the start,
since `Log_write` goes by `m_log_write`, which nothing sets. Formatting, `fflush` and a failing `fopen` are left
out, and so is the static buffer of `localtime`: the day of a line is the day it was begun.

## Runs

Passing:

| run | instance | shows |
|---|---|---|
| `pool` | 2 tasks, 3 workers, capacity 3 | `SemMatchesQueue`, `QueueInBounds`, `AcceptedTaskRuns` |
| `proactor` | 2 clients, 2 descriptors, 2 workers, an accept loop, no `miss`, room in the queue for every descriptor | `OneHolder`, `UsersCounted`, `PoolImplemented`, `Concluded` |
| `reactor` | 2 clients, 2 descriptors, 2 workers, one accept per event | `Handshake`, `ConnectionHasTimer`, `TimerPointerLive` |
| `reactor_live` | the same with a queue of one, requests that fail, a limit of one connection | `SpinReturns` |
| `sql` | 4 threads, 3 connections in every order | `SemCountsConns`, `CountersHonest`, `LeaseImplemented`, `WaitersServed` |
| `http` | one object, 8 requests with and without body, keep-alive and errors, any cuts, a read buffer of 13 symbols, headers of 1 or 3 bytes, files of 0, 1 or 2 | `VerdictRight`, `ResponseInOrder`, `MappingsReleased`, `RequestConcluded` |
| `users` | 2 workers, 2 names, 2 passwords, a table of 3 rows, restarts at any point | `AcceptedCanLogin`, `RegisteredOnce`, `LoginIsSaved` |
| `timers` | 4 timers, timeout 2, clock up to 5 and back, both modes | `ListLinked`, `Ascending`, `TickClosesDue` |
| `log` | 2 threads, 3 lines each, files of 2 lines, queue of 1, one midnight, synchronous and asynchronous | `QueueHolds`, `FileBounded`, `QueuedIsTaken` |

The type invariant of each module is checked in one of the runs.

Violated, each by what the code does (`findings` in `PROJECT.json` quotes the line that says
otherwise):

| run | property | what happens |
|---|---|---|
| `v_failure` | `FailureSeen` | the loop looks between `m_imprv = 1` and `m_timer_trig = 1` (`thread_poll.h:128`) and misses a failure |
| `v_shared` | `UserOfConnection` | the descriptor is accepted again before `m_sock = -1` (`http_connect.cpp:266`), and the new connection's object loses its socket |
| `v_body` | `BodyConcluded` | a body comes in two pieces: the loop condition of `process_read()` (`http_connect.cpp:158`) calls `parse_line()`, `m_check_idx` moves over the first piece, and the body is never complete |

The passing runs show where these defects end. `OneHolder` and `Concluded` are checked without
`miss`, the request that makes a worker close a connection: with it a new connection may share its
object with the old one, as `v_shared` shows, and nobody may be left to serve it.
`ConnectionHasTimer`, `Handshake` and `TimerPointerLive` hold in spite of it. `UsersCounted` is
checked without `miss`, too. `RequestConcluded` is about requests of which no piece ended inside
the body, as `v_body` shows why.

The models show a few more things of the code that are no runs of their own, either because the
step is not reached in this build or because a look at the code is enough:

* `tick()` writes through a null `m_head` when it has closed the last connection: the test at
  `timers.cpp:163` is inverted. `TimerList` has this (`crashed`); the timer properties are about
  the states before.
* A clock that is set back unsorts the timer list, since `Adjust_timer()` looks ahead only
  (`timers.h:53` relies on timers being extended only). `Ascending` and `TickClosesDue` end
  there (`setBack`); `ListLinked` does not.
* In reactor mode `deal_read` and `deal_write` call `Adjust_timer()` without a new `m_expire`; the
  comments at `webserver.cpp:213` and `256` say the timer is extended.
* `Thread_Pool::m_actor_mod` is never set. If it is not the server's mode, the reactor spins for
  ever; `SpinReturns` is about a pool in the server's mode.
* `m_user_count` loses updates, so that the limit is not exact: in `reactor_live` a client may be
  turned away with no connection open.
* A request that a full queue rejects (`webserver.cpp:233` ignores the result) is dropped and its
  connection stays open and silent: with `MaxTasks = 1` TLC finds `Concluded` violated in the
  proactor. With less room than that, nothing here says that a connection is served.
* `GET http://host HTTP/1.1`: the first `strchr()` (`http_connect.cpp:330`) finds no `/`, and
  `strncasecmp()` at line 332 is given the null pointer; the test for null comes at line 337.
  The server ends, which `Over` counts as the end of the request.
* `Close_connect()` in a worker (`http_connect.cpp:146`) leaves the timer in the list; the
  descriptor's next connection overwrites the pointer to it. `ConnectionHasTimer` is the direction
  that holds.
* Between `Full()` and `Push()` (`log.cpp:122`) another thread may fill the queue; `Push()` refuses,
  nobody looks, and the line is lost (`refused` in `QueueHolds`).
* A header cut twice: the length of the first window is reduced by everything sent so far
  (`http_connect.cpp:637`), so that the second stop inside the header leaves it too short. Bytes of
  the header are skipped, and with one window `writev()` may be offered nothing for ever. The kernel
  has to stop twice inside some hundred bytes for it; `ResponseInOrder` and `Over` name the case
  (`headCuts`).
* An empty file: `mmap()` fails, `process_write()` falls through to `default`, and the connection is
  closed with `m_file_address = MAP_FAILED`, which `init()` leaves. The next response on that object
  prints it (`http_connect.cpp:611`). With a file, the same output reads the mapping up to a zero
  byte, which is behind the end of it if the file fills its last page; this is not in the model.
* A client that hangs up while its response waits for EPOLLOUT leaves the mapping behind: the loop
  does not call `unmap()`. `MappingsReleased` counts exactly those.
* A request that just fills the read buffer is read and then refused, since `recv()` is asked for 0
  bytes and its 0 is taken for the end of the connection.
* A line that ends in LF alone is `LINE_BAD`, for which `process_read()` returns `NO_REQUEST`: the
  client waits. The request `eol = "LF"` of the `http` run is never answered.
* A name whose INSERT statement failed is in the map and can log in until the server is started
  again. The comment at `http_connect.cpp:460` says that a login finds the name in the table;
  `LoginIsSaved` leaves these names out (`unsaved`) and shows that there are no others.
* A name that two workers register at once (`raced`) may be in the table twice or be told a
  success with a password it cannot use, and two `insert`s at once leave a map of
  which nothing is known (`torn`). The properties of `Users` are about the names and the
  states before.
* An empty connection pool gives `nullptr` to `do_request`, which does not look (`NeverRefused`).
* A line begun before midnight may be printed to the next day's file, or switch the log back.

### Bounds

`Fds`, `Clients`, `Workers`: two connections and two workers are the least for which a
descriptor is reused while the old connection is still being worked on, a batch has several
events, and two tasks run at once. `MaxFd`, the limit on `m_user_count`, is out of the way but in
`reactor_live`. `Windows = 2`: a response that stalls and one that does not. `MaxTasks`: large
enough not to be full in `proactor`, 1 where it is to be full. `MaxTime`, `LinesEach` and `MaxDay`
cap the clock, the lines and the days; the clock passes the timeout twice, and the lines suffice
to rotate the file in several places and to fill the queue. In `http` the buffer of 13 symbols is
filled exactly by one request and exceeded by another; bodies of 2 and 3 bytes can be cut once and
twice; a header of 3 bytes can be cut twice, a file of 2 bytes once; `MaxLost` caps what hang-ups
leak. In `users` two of everything make two workers meet on one name and on two, and three rows a
name registered twice with another beside it. Nothing else is capped: state
spaces are finite because clients open once and tasks belong to descriptors.

Deadlock is not checked where the system may stop: in `timers` (a null pointer was followed), in
`http` (the server has crashed, or waits for a client that need not go on)
and in `log` (all lines of a synchronous log are written).

### Fairness

Weak fairness of each worker and of the loop: `epoll_wait` has a timeout of 3 ms, a critical section
ends, and the scheduler starves no thread. In the queue, of several threads in `sem_wait` any may be
the next, so `SqlPool` asks only that *some* waiter goes on. A condition variable may wake up by
itself but owes it to nobody: `SpuriousWakeup` is not fair. The clock and threads that might log or
ask for a connection owe nothing, and clients need neither send nor close, so that every liveness
property is about work already begun. Two properties need more of the clients, `Concluded` and
`RequestConcluded`: that they read what they are sent. `DrainedSpec`, the specification of
`proactor`, says so as `ClientsRead`: a descriptor that asks for EPOLLOUT again and again gets it.
Without it `Concluded` is false, since a response to a client that never reads waits for ever, and
no timer ends it. `SpinReturns` does not need it. In `HttpConn` reading, parsing, responding and
sending go on; the clients read, so that EPOLLOUT comes, and it means that there is room, so that
`writev()` takes at least a byte before the next EAGAIN (`Stalls` only after a write), and a
response that stalls again and again still ends.

## Proofs

Assumed are only the named `ASSUME`s of the modules: finite sets, positive capacities, null
values that differ from real ones.

* `ThreadPoolProofs`: `PoolTypeOK` is inductive. `SemMatchesQueue` is inductive on top of it:
  each action moves one unit from the semaphore to the woken workers to the running ones, or from
  the owed post to the semaphore. `QueueInBounds` follows: a woken worker makes the
  sum positive, hence the queue non-empty.
* `WebServerProofs`: `TypeOK` is not inductive alone: the loop needs to know that it is at work
  on a descriptor wherever it uses one and a worker that its task is one (`Placed`).
  With it each action of the server is matched with the action of the queue it contains, which
  gives `ServerImplementsPool`, and by that the queue's theorems carry over
  (`ServerQueueInBounds`).
* `TimerPointersLive` is the server's main result: every timer the loop follows exists. The
  invariant behind it (`TimerInv`) says why: one connection is open under one descriptor only
  (`OneBinding`), a connection comes out of the backlog once (`ComesOnce`), a batch has one event
  per descriptor (`OneEvent`), a registered descriptor has a timer (`WatchedHasTimer`), and so has
  whatever a worker or the loop is at work on (`WorkHasTimer`). A worker may close the connection, but only the
  loop deletes a timer, and it does so once per event.
* `HandoverProofs` builds on these for the three relations between the loop and the workers.
  `ConnectionHasTimer` becomes inductive with what lies between `accept()` and `timer()` (the
  object knows the connection, or a worker has closed it again) and between `close()` and
  `Del_timer()` (the descriptor is closed, so that nobody's timer is deleted): `Owned`.
  `UsersCounted` is proved for a finite set of descriptors and no `miss`, without which a worker
  closes a connection and the relation is lost. `CountInv` adds that a descriptor at work is open
  and that the loop's register holds the count. `Handshake` is proved for `ServerMode = PoolMode = 0`:
  `HandInv` adds that the loop posts exactly when `append()` owes a post, and from the
  pool's proofs that until then no worker is on its way to the only task (`OwedTaskUnseen`).
* `OneHolder` (`OneHolds`) is proved for the proactor in the same module. `OnceInv` says of every
  descriptor which of the five places has it: epoll with an armed registration, the batch, the
  queue, a worker, or the loop that closes it, and that the other four do not (`Held`); that the
  queue has no task twice and two workers never the same (`QueuedOnce`, `WorkedOnce`); and that
  the loop never waits for a worker. One premise is the same as that of the run: no `miss`, with
  which a worker closes a connection that the loop may be about to close. The other is room:
  `MaxFd <= MaxTasks`, or no more descriptors than places. The code does not ensure it by itself:
  `MAX_FD` is 65536 and the queue has 10000 places, so it is the limit of descriptors that the
  process is given (usually 1024) that keeps a queue from filling. Where it is full the event is
  dropped, nobody holds the connection, and `OneHolder` is false, as it should be.
* `SqlPoolProofs`: `SemCountsConns` as in the queue; the counters; and the refinement of
  `ConnLease`, which needs that the list has no connection twice and none that is lent. With as
  many connections as threads, which the defaults (8 and 8) are, the list is non-empty whenever a
  thread asks (`OneEachNeverRefuses`), by counting. That the lease is exclusive
  (`LeaseIsExclusive`) follows from its two operations.
* `HttpConnProofs`, first part, the writer alone: the invariant `WriteInv` ties the windows to the
  bytes still due: what is on the wire and what is to be sent make the response (`Balance`), the
  windows have one of four shapes according to how much of the header has gone (`Shapes`), an
  idle writer is fresh, and a mapping exists exactly while a file is pending (`Mapped`).
  `ResponseInOrder` follows for headers and files of any size and every sequence of partial
  writes; the premise `headCuts < 2` is where `Shapes` would break.
* `HttpConnProofs`, second part, the connection: `ParseTypeOK` needs that the client has sent at
  least what was read (`SentOK`). Every step of the connection is one of the writer or leaves it
  alone (`ConnectionWrites`), for which the invariant says that a response begins only while the
  writer is idle (`ParserFirst`); the writer's theorems carry over.
* `HttpConnProofs`, third part, the verdict: `VerdictRight` speaks only of the moment of the answer.
  The invariant behind it (`VerdictInv`) says how far the parser is and what it knows there: behind
  `m_start_line` the buffer is the text as it was sent, and the byte before is no CR that a new LF
  could be taken with (`Unparsed`), although everything in front of it has been zeroed; and the
  parser is at the start, behind `k` headers with just what those say in `m_link` and
  `m_content_len` (`AtHeader`), or in the body (`InBody`). A request with LF ends never leaves the
  start. The lemmas say what each round of `process_read()` finds at such a place: that
  `parse_line()` stops at the end of the next line and nowhere before, even if a piece ended between
  its CR and its LF.
* `UsersProofs`: the invariant is about one name at a time: for a name that no two register at once,
  one worker at most is between `find` and the end of `insert` (`Single`), the table has at most one
  row of it (`Once`), while it is being registered neither map nor answers have it (`AtWork`), and
  otherwise map and table agree (`Settled`) and keep what was told (`Kept`). The three properties
  are consequences.
* `TimerListProofs`: a list of `n` timers is a function `s` that gives them in their order, with
  `None` at `n + 1` (`Lists`). `Linked` says that head, tail, `m_next` and `m_pre` show it, `Ordered`
  that it ascends. The walks are recursive along the pointers, which is no use to a prover; `FirstIs`
  and `PassedIs` prove once that on a linked list they find the first place of `s` that is in the
  set (`Halt`) and the timers before it. Then each method is an operation on `s`: `Add_timer` puts a
  timer in behind the `k`-th, `Del_timer` takes the `k`-th out, `Adjust_timer` both, `tick` drops the
  first `j - 1` (`PutIn`, `TakeOut`, `From`), in every case of head, tail and middle. `IsListOf` adds
  that a timer outside the list points nowhere, which makes the recursion of the walks well founded. The inductive invariant `TimerInv` has this of the
  allocated timers and, until the clock is set back, that they ascend and none is later than
  `now + Timeout`; the last is why `Adjust_timer` may look ahead only. `ListLinked`, `Ascending` and
  `TickClosesDue` follow for any number of timers.
* `LogQueueProofs`: `LogTypeOK` is inductive with what a thread has in hand (`InHand`). For
  `QueueHolds` the invariant `WhereInv` says of every line which of five places has it, from the
  moment it is begun, or that it was refused (`Lies`), and that no place has it twice; every step
  moves at most one line. `FileBounded` needs an account (`FileBalance`): the lines printed to the
  open file and those counted and still in flight are at most those counted since the
  file was opened and a slack of what can be in flight at all, and a file that is closed
  stays where this left it.

Only model-checked: the six liveness properties (`AcceptedTaskRuns`, `Concluded`, `SpinReturns`,
`WaitersServed`, `RequestConcluded`, `QueuedIsTaken`), which are out of TLAPS's reach.

## Not modelled

Signals and the alarm: unreachable in this build. Destructors and `Destroy_pool`: they run after the
loop has ended. Configuration and the lock wrappers: straight-line code, one library call each. The
pages that `do_request` chooses from the url, the wording of headers, the SQL text. Clients that
send a request before they have the response to the last: `init()` throws it away
(`http_connect.cpp:589`). A POST without a body that asks to log in: `m_string` is then what the last
request left, or null.

## Plan

Done, in this order: `ThreadPool`, `WebServer`, their proofs, `SqlPool` with `ConnLease` and its
proofs, `TimerList`, `LogQueue`, `HttpWrite`, `HttpParse`, `HttpConn`, `Users` and their proofs.

The theorems now state every invariant and action property that the passing runs check.

Next:

1. `WebServer` keeps the set `timers`, `TimerList` the list: an abstract specification of the timers
   (a set with expiry times, of which `tick` closes what is due) that both implement.
2. An abstract specification of the log (every line is printed at most once), implemented by
   `LogQueue`.
3. The safety half of `Concluded` for the reactor.
