------------------------------ MODULE LogQueue ------------------------------
(***************************************************************************)
(* The log (log/log.cpp, log/log.h) and its Block_queue                    *)
(* (log/block_queue.h): threads call Write_log(), which hands a line to    *)
(* the thread of Write_async() through a bounded queue, or prints it.      *)
(*                                                                         *)
(* A critical section, of the log's lock or of the queue's, is one action. *)
(* The formatting of a line in m_buff, which one critical section begins   *)
(* and ends, leaves nothing to model.                                      *)
(***************************************************************************)
EXTENDS Integers, Sequences, FiniteSets

CONSTANTS
  Writers,    \* threads that log
  MaxLines,   \* m_max_lines, the lines of a file
  MaxQueue,   \* max_queue_size of an asynchronous log
  LinesEach,  \* bound: lines a thread logs
  MaxDay,     \* bound: days that pass
  None        \* no line

ASSUME LogAssumption ==
  /\ IsFiniteSet(Writers)
  /\ MaxLines \in Nat \ {0}
  /\ MaxQueue \in Nat \ {0} /\ LinesEach \in Nat /\ MaxDay \in Nat

VARIABLES
  today,          \* the date
  m_lines_count,
  m_today,        \* the date of the last rotation
  m_fp,           \* the open file: its date and number
  m_qu,           \* the queue
  printed,        \* the file each fputs() of a line went to
  pc,             \* each thread: idle, count, full, push, print
  begun,          \* the lines each thread began; it works on the last
  my_tm,          \* the date it gave that line
  async,          \* the thread of Write_async(): none, pop, cond, print
  a_log,          \* the line it popped
  refused,        \* lines that Push() did not take, which nobody notices
  m_is_async      \* Log_write() goes by m_log_write, which nothing sets

logVars == <<today, m_lines_count, m_today, m_fp, m_qu, printed, pc, begun, my_tm, async, a_log, refused, m_is_async>>

Line == [by : Writers, n : 1..LinesEach]
File == [day : 0..MaxDay, part : Nat]

LogTypeOK ==
  /\ today \in 0..MaxDay /\ m_today \in 0..MaxDay
  /\ m_lines_count \in Nat
  /\ m_fp \in File
  /\ m_qu \in Seq(Line)
  /\ printed \in [Line -> Seq(File)]
  /\ pc \in [Writers -> {"idle", "count", "full", "push", "print"}]
  /\ begun \in [Writers -> 0..LinesEach]
  /\ my_tm \in [Writers -> 0..MaxDay]
  /\ async \in {"none", "pop", "cond", "print"}
  /\ a_log \in Line \cup {None}
  /\ refused \subseteq Line
  /\ m_is_async \in BOOLEAN

\* Log_write() and Init(): the first file of the day, and perhaps the asynchronous thread.
Init ==
  /\ today = 0 /\ m_today = 0
  /\ m_lines_count = 0
  /\ m_fp = [day |-> 0, part |-> 0]
  /\ m_qu = <<>> /\ printed = [l \in Line |-> <<>>]
  /\ pc = [w \in Writers |-> "idle"]
  /\ begun = [w \in Writers |-> 0]
  /\ my_tm = [w \in Writers |-> 0]
  /\ m_is_async \in BOOLEAN
  /\ async = (IF m_is_async THEN "pop" ELSE "none")
  /\ a_log = None /\ refused = {}

Goto(w, where) == pc' = [pc EXCEPT ![w] = where]

\* The line thread w works on.
Mine(w) == [by |-> w, n |-> begun[w]]

Midnight ==
  /\ today < MaxDay
  /\ today' = today + 1
  /\ UNCHANGED <<m_lines_count, m_today, m_fp, m_qu, printed, pc, begun, my_tm, async, a_log, refused, m_is_async>>

\* Write_log() looks at the clock before it takes the lock.
Write_log(w) ==
  /\ pc[w] = "idle" /\ begun[w] < LinesEach
  /\ begun' = [begun EXCEPT ![w] = @ + 1]
  /\ my_tm' = [my_tm EXCEPT ![w] = today]
  /\ Goto(w, "count")
  /\ UNCHANGED <<today, m_lines_count, m_today, m_fp, m_qu, printed, async, a_log, refused, m_is_async>>

\* Mutant of Rotates: the day alone.
RotatesDaily(w) == m_today # my_tm[w]

Rotates(w) == m_today # my_tm[w] \/ (m_lines_count + 1) % MaxLines = 0

\* Mutant of CountLine: the full file is closed and none opened.
CountCloses(w) ==
  /\ pc[w] = "count"
  /\ m_lines_count' = m_lines_count + 1
  /\ m_fp' = IF Rotates(w) THEN None ELSE m_fp
  /\ Goto(w, IF m_is_async THEN "full" ELSE "print")
  /\ UNCHANGED <<today, m_today, m_qu, printed, begun, my_tm, async, a_log, refused, m_is_async>>

\* The first critical section: count the line, open another file.
CountLine(w) ==
  /\ pc[w] = "count"
  /\ m_lines_count' = IF m_today # my_tm[w] THEN 0 ELSE m_lines_count + 1
  /\ m_today' = my_tm[w]
  /\ m_fp' = IF Rotates(w)
               THEN [day |-> my_tm[w], part |-> m_lines_count' \div MaxLines]
               ELSE m_fp
  /\ Goto(w, IF m_is_async THEN "full" ELSE "print")
  /\ UNCHANGED <<today, m_qu, printed, begun, my_tm, async, a_log, refused, m_is_async>>

QueueIsFull == Len(m_qu) >= MaxQueue

\* Full(), which lets go of the queue's lock again.
TestFull(w) ==
  /\ pc[w] = "full"
  /\ Goto(w, IF QueueIsFull THEN "print" ELSE "push")
  /\ UNCHANGED <<today, m_lines_count, m_today, m_fp, m_qu, printed, begun, my_tm, async, a_log, refused, m_is_async>>

\* Mutants of Push: it does not look again; it forgets the signal.
PushBlindly(w) ==
  /\ pc[w] = "push"
  /\ m_qu' = Append(m_qu, Mine(w)) /\ async' = IF async = "cond" THEN "pop" ELSE async
  /\ Goto(w, "idle")
  /\ UNCHANGED <<today, m_lines_count, m_today, m_fp, printed, begun, my_tm, a_log, refused, m_is_async>>
PushSilently(w) ==
  /\ pc[w] = "push"
  /\ m_qu' = IF QueueIsFull THEN m_qu ELSE Append(m_qu, Mine(w))
  /\ Goto(w, "idle")
  /\ UNCHANGED <<today, m_lines_count, m_today, m_fp, printed, begun, my_tm, async, a_log, refused, m_is_async>>

\* Push(), with the signal.  A full queue refuses the line, and nobody looks at that.
Push(w) ==
  /\ pc[w] = "push"
  /\ IF QueueIsFull
       THEN refused' = refused \cup {Mine(w)} /\ UNCHANGED <<m_qu, async>>
       ELSE /\ m_qu' = Append(m_qu, Mine(w))
            /\ async' = IF async = "cond" THEN "pop" ELSE async
            /\ UNCHANGED refused
  /\ Goto(w, "idle")
  /\ UNCHANGED <<today, m_lines_count, m_today, m_fp, printed, begun, my_tm, a_log, m_is_async>>

\* fputs() into the file that is open by now.
Fputs(line) == printed' = [printed EXCEPT ![line] = Append(@, m_fp)]

\* Write_log() of a synchronous log, or with a full queue.
PrintLine(w) ==
  /\ pc[w] = "print"
  /\ Fputs(Mine(w))
  /\ Goto(w, "idle")
  /\ UNCHANGED <<today, m_lines_count, m_today, m_fp, m_qu, begun, my_tm, async, a_log, refused, m_is_async>>

\* Pop(): wait on the condition or take the first line.
Pop ==
  /\ async = "pop"
  /\ IF m_qu = <<>>
       THEN async' = "cond" /\ UNCHANGED <<m_qu, a_log>>
       ELSE async' = "print" /\ a_log' = Head(m_qu) /\ m_qu' = Tail(m_qu)
  /\ UNCHANGED <<today, m_lines_count, m_today, m_fp, printed, pc, begun, my_tm, refused, m_is_async>>

\* pthread_cond_wait() may return without a signal.
SpuriousWakeup ==
  /\ async = "cond"
  /\ async' = "pop"
  /\ UNCHANGED <<today, m_lines_count, m_today, m_fp, m_qu, printed, pc, begun, my_tm, a_log, refused, m_is_async>>

\* Write_async() prints and goes back to Pop().
Write_async ==
  /\ async = "print"
  /\ Fputs(a_log)
  /\ a_log' = None /\ async' = "pop"
  /\ UNCHANGED <<today, m_lines_count, m_today, m_fp, m_qu, pc, begun, my_tm, refused, m_is_async>>

Writing(w) == CountLine(w) \/ TestFull(w) \/ Push(w) \/ PrintLine(w)

Next ==
  \/ Midnight
  \/ \E w \in Writers : Write_log(w) \/ Writing(w)
  \/ Pop \/ SpuriousWakeup \/ Write_async

Spec == Init /\ [][Next]_logVars

(* A thread inside Write_log() goes on, and so does the asynchronous one, unless it   *)
(* waits on the condition.  Nobody has to log, and no wake-up comes by itself.        *)
FairSpec ==
  /\ Spec
  /\ \A w \in Writers : WF_logVars(Writing(w))
  /\ WF_logVars(Pop \/ Write_async)

-----------------------------------------------------------------------------

\* Where the line l is.
Whereabouts(l) ==
  {<<"thread", w>> : w \in {v \in Writers : Mine(v) = l /\ pc[v] # "idle"}}
    \cup {<<"async", a>> : a \in {async} \cap (IF a_log = l THEN {"print"} ELSE {})}
    \cup {<<"queue", i>> : i \in {j \in 1..Len(m_qu) : m_qu[j] = l}}
    \cup {<<"file", i>> : i \in 1..Len(printed[l])}

(* README.md:53: a line goes to the queue, or to the file when the queue is full.     *)
(* The queue stays within its size, and every line that a thread has begun is in one   *)
(* place, printed once in the end, whatever the threads do and whatever files are      *)
(* opened meanwhile; but for a line that Push() refuses because another thread has     *)
(* filled the queue since Full(), which is nowhere.  A synchronous log loses none.     *)
QueueHolds ==
  /\ Len(m_qu) <= MaxQueue
  /\ \A l \in Line :
       l.n <= begun[l.by] => Cardinality(Whereabouts(l)) = IF l \in refused THEN 0 ELSE 1
  /\ ~m_is_async => refused = {}

(* While lines are queued the asynchronous thread takes one: no signal is lost between *)
(* Pop()'s look at an empty queue and its wait.                                       *)
QueuedIsTaken == m_qu # <<>> ~> async = "print"

\* Each time that a line was printed into the file f.
PrintsTo(f) ==
  UNION {{<<l, i>> : i \in {j \in 1..Len(printed[l]) : printed[l][j] = f}} : l \in Line}

(* log.h:59: a file takes m_max_lines lines.  Lines counted before a rotation and     *)
(* printed after it may add to that: one of every other thread, those in the queue,   *)
(* and the one in the asynchronous thread's hands.  (After midnight a thread that is  *)
(* late may open the first file of the day before once more.)                         *)
FileBounded ==
  today = 0 =>
    \A l \in Line : \A i \in 1..Len(printed[l]) :
      Cardinality(PrintsTo(printed[l][i]))
        <= MaxLines + Cardinality(Writers) - 1 + (IF m_is_async THEN MaxQueue + 1 ELSE 0)
=============================================================================
