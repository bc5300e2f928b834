--------------------------- MODULE LogQueueProofs ---------------------------
(***************************************************************************)
(* What holds of the log for every number of threads, lines and days and   *)
(* every size of the queue and of a file.                                  *)
(***************************************************************************)
EXTENDS LogQueue, FiniteSetTheorems, SequenceTheorems, TLAPS

-----------------------------------------------------------------------------
(* What a thread has in hand. *)

\* A thread that is in Write_log() has begun a line, the asynchronous one that prints has
\* taken one, and a synchronous log has neither queue nor thread.
InHand ==
  /\ \A w \in Writers : pc[w] # "idle" => begun[w] # 0
  /\ async = "print" => a_log \in Line
  /\ m_is_async <=> async # "none"
  /\ ~m_is_async => /\ m_qu = <<>> /\ refused = {}
                    /\ \A w \in Writers : pc[w] \notin {"full", "push"}

TypeInv == LogTypeOK /\ InHand

LEMMA Quotients ==
  ASSUME NEW c \in Nat
  PROVE  /\ c % MaxLines \in 0..(MaxLines - 1)
         /\ c \div MaxLines \in Nat
         /\ (c + 1) % MaxLines = 0 => (c + 1) \div MaxLines = (c \div MaxLines) + 1
         /\ (c + 1) % MaxLines # 0 => /\ (c + 1) \div MaxLines = c \div MaxLines
                                      /\ (c + 1) % MaxLines = (c % MaxLines) + 1
         /\ 0 % MaxLines = 0 /\ 0 \div MaxLines = 0
<1>1. MaxLines \in Nat \ {0}
  BY LogAssumption
<1>2. c % MaxLines \in 0..(MaxLines - 1)
  BY <1>1
<1>3. c \div MaxLines \in Int /\ c \div MaxLines >= 0
  <2>1. c \div MaxLines \in Int
    BY <1>1
  <2>2. c \div MaxLines >= 0
    BY <1>1
  <2>3. QED
    BY <2>1, <2>2
<1>4. (c + 1) % MaxLines = 0 => (c + 1) \div MaxLines = (c \div MaxLines) + 1
  BY <1>1
<1>5. (c + 1) % MaxLines # 0 => /\ (c + 1) \div MaxLines = c \div MaxLines
                                /\ (c + 1) % MaxLines = (c % MaxLines) + 1
  BY <1>1
<1>6. 0 % MaxLines = 0 /\ 0 \div MaxLines = 0
  BY <1>1
<1>7. QED
  BY <1>2, <1>3, <1>4, <1>5, <1>6

\* The line of a thread, and what is known of a line by its two fields.
LEMMA Lines ==
  ASSUME NEW w \in Writers, NEW n \in 1..LinesEach
  PROVE  /\ [by |-> w, n |-> n] \in Line
         /\ \A l \in Line : l = [by |-> w, n |-> n] <=> l.by = w /\ l.n = n
         /\ \A l \in Line : l.by \in Writers /\ l.n \in 1..LinesEach
BY DEF Line

LEMMA MineIsLine ==
  ASSUME TypeInv, NEW w \in Writers, pc[w] # "idle"
  PROVE  Mine(w) \in Line /\ begun[w] \in 1..LinesEach
<1>1. begun[w] \in 1..LinesEach
  BY LogAssumption DEF TypeInv, LogTypeOK, InHand
<1>2. QED
  BY <1>1, Lines DEF Mine

LEMMA PrintsTyped ==
  ASSUME TypeInv, NEW l \in Line, Fputs(l)
  PROVE  /\ printed' \in [Line -> Seq(File)]
         /\ printed'[l] = Append(printed[l], m_fp)
         /\ \A k \in Line : k # l => printed'[k] = printed[k]
<1>1. printed[l] \in Seq(File) /\ m_fp \in File /\ printed \in [Line -> Seq(File)]
  BY DEF TypeInv, LogTypeOK
<1>2. Append(printed[l], m_fp) \in Seq(File)
  BY <1>1
<1>3. printed' = [printed EXCEPT ![l] = Append(printed[l], m_fp)]
  BY DEF Fputs
<1>4. QED
  BY <1>1, <1>2, <1>3

LEMMA TypeKept == ASSUME TypeInv, [Next]_logVars PROVE TypeInv'
<1> USE DEF TypeInv, LogTypeOK, InHand
<1>1. CASE Midnight
  BY <1>1, LogAssumption DEF Midnight
<1>2. ASSUME NEW w \in Writers, Write_log(w) PROVE TypeInv'
  <2>1. begun[w] + 1 \in 1..LinesEach
    BY <1>2, LogAssumption DEF Write_log
  <2>2. QED
    BY <1>2, <2>1 DEF Write_log, Goto
<1>3. ASSUME NEW w \in Writers, CountLine(w) PROVE TypeInv'
  <2>1. m_lines_count' \in Nat
    BY <1>3 DEF CountLine
  <2>2. m_lines_count' \div MaxLines \in Nat
    BY <2>1, Quotients
  <2>3. m_fp' \in File
    BY <1>3, <2>2 DEF CountLine, File
  <2>4. QED
    BY <1>3, <2>1, <2>3 DEF CountLine, Goto
<1>4. ASSUME NEW w \in Writers, TestFull(w) PROVE TypeInv'
  BY <1>4 DEF TestFull, Goto
<1>5. ASSUME NEW w \in Writers, Push(w) PROVE TypeInv'
  <2>1. pc[w] = "push" /\ Mine(w) \in Line /\ m_is_async
    BY <1>5, MineIsLine DEF Push
  <2>2. Append(m_qu, Mine(w)) \in Seq(Line)
    BY <2>1
  <2>3. QED
    BY <1>5, <2>1, <2>2 DEF Push, Goto
<1>6. ASSUME NEW w \in Writers, PrintLine(w) PROVE TypeInv'
  <2>1. Mine(w) \in Line
    BY <1>6, MineIsLine DEF PrintLine
  <2>2. printed' \in [Line -> Seq(File)]
    BY <1>6, <2>1, PrintsTyped DEF PrintLine
  <2>3. QED
    BY <1>6, <2>2 DEF PrintLine, Goto
<1>7. CASE Pop
  <2>1. m_qu # <<>> => Head(m_qu) \in Line /\ Tail(m_qu) \in Seq(Line)
    BY HeadTailProperties
  <2>2. QED
    BY <1>7, <2>1 DEF Pop
<1>8. CASE SpuriousWakeup
  BY <1>8 DEF SpuriousWakeup
<1>9. CASE Write_async
  <2>1. printed' \in [Line -> Seq(File)]
    BY <1>9, PrintsTyped DEF Write_async
  <2>2. QED
    BY <1>9, <2>1 DEF Write_async
<1>10. CASE UNCHANGED logVars
  BY <1>10 DEF logVars
<1>11. QED
  BY <1>1, <1>2, <1>3, <1>4, <1>5, <1>6, <1>7, <1>8, <1>9, <1>10 DEF Next, Writing

LEMMA TypeStarts == Init => TypeInv
<1> SUFFICES ASSUME Init PROVE TypeInv
  OBVIOUS
<1>1. m_fp \in File /\ 0 \in 0..MaxDay /\ 0 \in 0..LinesEach
  BY LogAssumption DEF Init, File
<1>2. <<>> \in Seq(Line) /\ <<>> \in Seq(File)
  OBVIOUS
<1>3. QED
  BY <1>1, <1>2 DEF Init, TypeInv, LogTypeOK, InHand

LEMMA TypeHolds == Spec => []TypeInv
BY TypeStarts, TypeKept, PTL DEF Spec

(* A line that is printed, queued or taken is one that a thread has begun, and a file  *)
(* has a date and a number, for every number of threads.                               *)
THEOREM LogTyped == Spec => []LogTypeOK
BY TypeHolds, PTL DEF TypeInv

-----------------------------------------------------------------------------
(* Where a line is. *)

InThread(l) == begun[l.by] = l.n /\ pc[l.by] # "idle"
InAsync(l) == async = "print" /\ a_log = l
Queued(l) == \E i \in 1..Len(m_qu) : m_qu[i] = l
Printed(l) == Len(printed[l]) = 1

\* The line is in place h and in no other.
LiesIn(l, h) ==
  /\ InThread(l) <=> h = "thread"
  /\ InAsync(l) <=> h = "async"
  /\ Queued(l) <=> h = "queue"
  /\ Printed(l) <=> h = "file"
  /\ l \in refused <=> h = "refused"

\* A line is in one place from the moment a thread begins it, and nowhere before.
Lies(l) ==
  IF l.n <= begun[l.by]
    THEN \E h \in {"thread", "async", "queue", "file", "refused"} : LiesIn(l, h)
    ELSE LiesIn(l, "nowhere")

NoneTwice ==
  /\ \A l \in Line : Len(printed[l]) <= 1
  /\ \A i, j \in 1..Len(m_qu) : m_qu[i] = m_qu[j] => i = j

WhereInv == (\A l \in Line : Lies(l)) /\ NoneTwice /\ Len(m_qu) <= MaxQueue

LEMMA LiesOnce ==
  ASSUME TypeInv, WhereInv, NEW l \in Line, l.n <= begun[l.by]
  PROVE  Cardinality(Whereabouts(l)) = IF l \in refused THEN 0 ELSE 1
<1>1. PICK h \in {"thread", "async", "queue", "file", "refused"} : LiesIn(l, h)
  BY DEF WhereInv, Lies
<1> DEFINE WS == {v \in Writers : Mine(v) = l /\ pc[v] # "idle"}
           AS == {async} \cap (IF a_log = l THEN {"print"} ELSE {})
           QS == {j \in 1..Len(m_qu) : m_qu[j] = l}
           FS == 1..Len(printed[l])
<1>2. l.by \in Writers /\ \A v \in Writers : Mine(v) = l <=> v = l.by /\ begun[v] = l.n
  BY DEF Line, Mine
<1>3. WS = IF h = "thread" THEN {l.by} ELSE {}
  BY <1>1, <1>2 DEF LiesIn, InThread
<1>4. AS = IF h = "async" THEN {"print"} ELSE {}
  BY <1>1 DEF LiesIn, InAsync
<1>5. h # "queue" => QS = {}
  BY <1>1 DEF LiesIn, Queued
<1>6. h = "queue" => \E i : QS = {i}
  <2> SUFFICES ASSUME h = "queue" PROVE \E i : QS = {i}
    OBVIOUS
  <2>1. PICK i \in 1..Len(m_qu) : m_qu[i] = l
    BY <1>1 DEF LiesIn, Queued
  <2>2. \A j \in QS : j = i
    BY <2>1 DEF WhereInv, NoneTwice
  <2>3. QS = {i}
    BY <2>1, <2>2
  <2>4. QED
    BY <2>3
<1>7. FS = IF h = "file" THEN {1} ELSE {}
  <2>1. Len(printed[l]) \in {0, 1}
    <3>1. printed[l] \in Seq(File)
      BY DEF TypeInv, LogTypeOK
    <3>2. Len(printed[l]) \in Nat /\ Len(printed[l]) <= 1
      BY <3>1 DEF WhereInv, NoneTwice
    <3>3. \A n \in Nat : n <= 1 => n \in {0, 1}
      OBVIOUS
    <3>4. QED
      BY <3>2, <3>3
  <2>2. Len(printed[l]) = 1 <=> h = "file"
    BY <1>1 DEF LiesIn, Printed
  <2>3. QED
    BY <2>1, <2>2
<1>8. l \in refused <=> h = "refused"
  BY <1>1 DEF LiesIn
<1>9. Whereabouts(l) = {<<"thread", w>> : w \in WS} \cup {<<"async", a>> : a \in AS}
                         \cup {<<"queue", i>> : i \in QS} \cup {<<"file", i>> : i \in FS}
  BY DEF Whereabouts
<1> HIDE DEF WS, AS, QS, FS
<1>10. CASE h = "refused"
  <2>1. Whereabouts(l) = {}
    BY <1>3, <1>4, <1>5, <1>7, <1>9, <1>10
  <2>2. QED
    BY <1>8, <1>10, <2>1, FS_EmptySet
<1>11. CASE h # "refused"
  <2>1. \E x : Whereabouts(l) = {x}
    <3>1. CASE h = "thread"
      <4>1. Whereabouts(l) = {<<"thread", l.by>>}
        BY <1>3, <1>4, <1>5, <1>7, <1>9, <3>1
      <4>2. QED
        BY <4>1
    <3>2. CASE h = "async"
      <4>1. Whereabouts(l) = {<<"async", "print">>}
        BY <1>3, <1>4, <1>5, <1>7, <1>9, <3>2
      <4>2. QED
        BY <4>1
    <3>3. CASE h = "queue"
      <4>1. PICK i : QS = {i}
        BY <1>6, <3>3
      <4>2. Whereabouts(l) = {<<"queue", i>>}
        BY <1>3, <1>4, <1>7, <1>9, <3>3, <4>1
      <4>3. QED
        BY <4>2
    <3>4. CASE h = "file"
      <4>1. Whereabouts(l) = {<<"file", 1>>}
        BY <1>3, <1>4, <1>5, <1>7, <1>9, <3>4
      <4>2. QED
        BY <4>1
    <3>5. QED
      BY <1>11, <3>1, <3>2, <3>3, <3>4
  <2>2. QED
    BY <1>8, <1>11, <2>1, FS_Singleton
<1>12. QED
  BY <1>10, <1>11

-----------------------------------------------------------------------------
(* Every step moves one line at most. *)

\* A step that leaves l where it is.
Unmoved(l) ==
  /\ l.n <= begun'[l.by] <=> l.n <= begun[l.by]
  /\ InThread(l)' <=> InThread(l)
  /\ InAsync(l)' <=> InAsync(l)
  /\ Queued(l)' <=> Queued(l)
  /\ Printed(l)' <=> Printed(l)
  /\ l \in refused' <=> l \in refused

LEMMA UnmovedLies ==
  ASSUME NEW l \in Line, Lies(l), Unmoved(l)
  PROVE  Lies(l)'
BY DEF Lies, LiesIn, Unmoved

\* What a line keeps when its thread goes on and the rest stays.
LEMMA ThreadGoes ==
  ASSUME TypeInv, NEW w \in Writers, NEW where, Goto(w, where), UNCHANGED begun, pc[w] # "idle"
  PROVE  \A l \in Line : InThread(l)' <=> IF where = "idle" /\ l = Mine(w) THEN FALSE ELSE InThread(l)
<1>1. pc' = [pc EXCEPT ![w] = where] /\ pc \in [Writers -> {"idle", "count", "full", "push", "print"}]
  BY DEF Goto, TypeInv, LogTypeOK
<1>2. \A l \in Line : l.by \in Writers /\ (l = Mine(w) <=> l.by = w /\ begun[w] = l.n)
  BY DEF Line, Mine
<1>3. QED
  BY <1>1, <1>2 DEF InThread

LEMMA WhereKept == ASSUME TypeInv, WhereInv, [Next]_logVars PROVE WhereInv'
<1> USE DEF WhereInv
<1>1. ASSUME UNCHANGED <<m_qu, printed, begun, a_log, refused>>, async' # "print", async # "print",
             \A l \in Line : InThread(l)' <=> InThread(l)
      PROVE  WhereInv'
  <2>1. \A l \in Line : Unmoved(l)
    BY <1>1 DEF Unmoved, InAsync, Queued, Printed
  <2>2. QED
    BY <1>1, <2>1, UnmovedLies DEF NoneTwice
<1>2. ASSUME UNCHANGED <<m_qu, printed, begun, a_log, refused, async>>,
             \A l \in Line : InThread(l)' <=> InThread(l)
      PROVE  WhereInv'
  <2>1. \A l \in Line : Unmoved(l)
    BY <1>2 DEF Unmoved, InAsync, Queued, Printed
  <2>2. QED
    BY <1>2, <2>1, UnmovedLies DEF NoneTwice
<1>3. CASE Midnight
  BY <1>2, <1>3 DEF Midnight, InThread
<1>4. ASSUME NEW w \in Writers, Write_log(w) PROVE WhereInv'
  <2>1. /\ pc[w] = "idle" /\ pc' = [pc EXCEPT ![w] = "count"] /\ begun' = [begun EXCEPT ![w] = begun[w] + 1]
        /\ UNCHANGED <<m_qu, printed, a_log, refused, async>>
    BY <1>4 DEF Write_log, Goto
  <2>2. begun \in [Writers -> 0..LinesEach] /\ pc \in [Writers -> {"idle", "count", "full", "push", "print"}]
    BY DEF TypeInv, LogTypeOK
  <2>3. ASSUME NEW l \in Line PROVE Lies(l)'
    <3>1. l.by \in Writers /\ l.n \in Nat
      BY DEF Line
    <3>2. (InAsync(l)' <=> InAsync(l)) /\ (Queued(l)' <=> Queued(l)) /\ (Printed(l)' <=> Printed(l))
      BY <2>1 DEF InAsync, Queued, Printed
    <3>3. CASE l.by = w /\ l.n = begun[w] + 1
      <4>1. begun'[l.by] = l.n /\ pc'[l.by] = "count" /\ ~(l.n <= begun[l.by])
        BY <2>1, <2>2, <3>1, <3>3
      <4>2. LiesIn(l, "nowhere")
        BY <4>1 DEF Lies
      <4>3. LiesIn(l, "thread")'
        BY <2>1, <3>2, <4>1, <4>2 DEF LiesIn, InThread
      <4>4. l.n <= begun'[l.by]
        BY <3>1, <4>1
      <4>5. QED
        BY <4>3, <4>4 DEF Lies
    <3>4. CASE l.by = w /\ l.n # begun[w] + 1
      <4>1. begun'[l.by] = begun[w] + 1 /\ pc[l.by] = "idle"
        BY <2>1, <2>2, <3>1, <3>4
      <4>2. l.n <= begun'[l.by] <=> l.n <= begun[l.by]
        BY <2>2, <3>1, <3>4, <4>1
      <4>3. ~InThread(l) /\ ~InThread(l)'
        BY <3>4, <4>1 DEF InThread
      <4>4. Unmoved(l)
        BY <2>1, <3>2, <4>2, <4>3 DEF Unmoved
      <4>5. QED
        BY <4>4, UnmovedLies
    <3>5. CASE l.by # w
      <4>1. begun'[l.by] = begun[l.by] /\ pc'[l.by] = pc[l.by]
        BY <2>1, <2>2, <3>1, <3>5
      <4>2. Unmoved(l)
        BY <2>1, <3>2, <4>1 DEF Unmoved, InThread
      <4>3. QED
        BY <4>2, UnmovedLies
    <3>6. QED
      BY <3>3, <3>4, <3>5
  <2>4. QED
    BY <2>1, <2>3 DEF NoneTwice
<1>5. ASSUME NEW w \in Writers, CountLine(w) PROVE WhereInv'
  <2>1. PICK where \in {"full", "print"} : Goto(w, where)
    BY <1>5 DEF CountLine
  <2>2. \A l \in Line : InThread(l)' <=> InThread(l)
    BY <1>5, <2>1, ThreadGoes DEF CountLine
  <2>3. QED
    BY <1>2, <1>5, <2>2 DEF CountLine
<1>6. ASSUME NEW w \in Writers, TestFull(w) PROVE WhereInv'
  <2>1. PICK where \in {"push", "print"} : Goto(w, where)
    BY <1>6 DEF TestFull
  <2>2. \A l \in Line : InThread(l)' <=> InThread(l)
    BY <1>6, <2>1, ThreadGoes DEF TestFull
  <2>3. QED
    BY <1>2, <1>6, <2>2 DEF TestFull
<1>7. ASSUME NEW w \in Writers, Push(w) PROVE WhereInv'
  <2>1. Mine(w) \in Line /\ pc[w] = "push" /\ Goto(w, "idle") /\ UNCHANGED <<printed, begun, a_log>>
    BY <1>7, MineIsLine DEF Push
  <2>1a. PICK m \in Line : m = Mine(w)
    BY <2>1
  <2>2. \A l \in Line : InThread(l)' <=> IF l = m THEN FALSE ELSE InThread(l)
    BY <2>1, <2>1a, ThreadGoes
  <2>3. /\ m.n <= begun[m.by] /\ InThread(m) /\ m_qu \in Seq(Line)
    <3>1. begun[w] <= begun[w]
      BY <2>1, MineIsLine
    <3>2. QED
      BY <2>1, <2>1a, <3>1 DEF Mine, InThread, TypeInv, LogTypeOK
  <2>4. LiesIn(m, "thread")
    BY <2>1, <2>3 DEF Lies, LiesIn
  <2>5. \A l \in Line : (Printed(l)' <=> Printed(l)) /\ (InAsync(l)' <=> InAsync(l))
    BY <1>7, <2>1 DEF Push, Printed, InAsync
  <2>6. CASE QueueIsFull
    <3>1. refused' = refused \cup {m} /\ m_qu' = m_qu
      BY <1>7, <2>1a, <2>6 DEF Push
    <3>2. \A l \in Line : Queued(l)' <=> Queued(l)
      BY <3>1 DEF Queued
    <3>3. LiesIn(m, "refused")'
      BY <2>1, <2>2, <2>4, <2>5, <3>1, <3>2 DEF LiesIn
    <3>4. Lies(m)'
      BY <2>1, <2>3, <3>3 DEF Lies
    <3>5. \A l \in Line : l # m => Unmoved(l)
      BY <2>1, <2>2, <2>5, <3>1, <3>2 DEF Unmoved
    <3>6. \A l \in Line : Lies(l)'
      BY <3>4, <3>5, UnmovedLies
    <3>7. QED
      BY <2>1, <3>1, <3>6 DEF NoneTwice
  <2>7. CASE ~QueueIsFull
    <3>1. m_qu' = Append(m_qu, m) /\ refused' = refused
      BY <1>7, <2>1a, <2>7 DEF Push
    <3>2. /\ Len(m_qu') = Len(m_qu) + 1 /\ m_qu'[Len(m_qu) + 1] = m
          /\ \A i \in 1..Len(m_qu) : m_qu'[i] = m_qu[i]
          /\ Len(m_qu) \in Nat /\ Len(m_qu) < MaxQueue
      BY <2>1, <2>3, <2>7, <3>1, LogAssumption DEF QueueIsFull
    <3>3. \A l \in Line : Queued(l)' <=> Queued(l) \/ l = m
      BY <3>2 DEF Queued
    <3>4. LiesIn(m, "queue")'
      BY <2>1, <2>2, <2>4, <2>5, <3>1, <3>3 DEF LiesIn
    <3>5. Lies(m)'
      BY <2>1, <2>3, <3>4 DEF Lies
    <3>6. \A l \in Line : l # m => Unmoved(l)
      BY <2>1, <2>2, <2>5, <3>1, <3>3 DEF Unmoved
    <3>7. ASSUME NEW i \in 1..Len(m_qu'), NEW j \in 1..Len(m_qu'), m_qu'[i] = m_qu'[j] PROVE i = j
      <4>1. \A k \in 1..Len(m_qu) : m_qu[k] # m
        BY <2>4 DEF LiesIn, Queued
      <4>2. (i \in 1..Len(m_qu) \/ i = Len(m_qu) + 1) /\ (j \in 1..Len(m_qu) \/ j = Len(m_qu) + 1)
        BY <3>2, <3>7
      <4>3. QED
        BY <3>2, <3>7, <4>1, <4>2 DEF NoneTwice
    <3>8. Len(m_qu') <= MaxQueue
      BY <3>2, LogAssumption
    <3>9. \A l \in Line : Lies(l)'
      BY <3>5, <3>6, UnmovedLies
    <3>10. QED
      BY <2>1, <3>7, <3>8, <3>9 DEF NoneTwice
  <2>8. QED
    BY <2>6, <2>7
<1>8. ASSUME NEW m \in Line, Fputs(m), ~Printed(m), UNCHANGED <<begun, m_qu, refused>>,
             \A l \in Line : /\ InThread(l)' <=> (InThread(l) /\ l # m)
                             /\ InAsync(l)' <=> (InAsync(l) /\ l # m),
             m.n <= begun[m.by], ~Queued(m), m \notin refused
      PROVE  WhereInv'
  <2>1. /\ printed \in [Line -> Seq(File)] /\ m_fp \in File
        /\ printed'[m] = Append(printed[m], m_fp) /\ \A l \in Line : l # m => printed'[l] = printed[l]
    BY <1>8, PrintsTyped DEF TypeInv, LogTypeOK
  <2>2. Len(printed[m]) = 0 /\ Len(printed'[m]) = 1
    <3>1. Len(printed[m]) \in Nat /\ Len(printed[m]) <= 1 /\ Len(printed[m]) # 1
      BY <1>8, <2>1 DEF NoneTwice, Printed
    <3>2. Len(printed'[m]) = Len(printed[m]) + 1
      BY <2>1
    <3>3. \A n \in Nat : n <= 1 /\ n # 1 => n = 0
      OBVIOUS
    <3>4. Len(printed[m]) = 0
      BY <3>1, <3>3
    <3>5. QED
      BY <3>2, <3>4
  <2>3. LiesIn(m, "file")'
    BY <1>8, <2>2 DEF LiesIn, Printed, Queued
  <2>4. Lies(m)'
    BY <1>8, <2>3 DEF Lies
  <2>5. \A l \in Line : l # m => Unmoved(l)
    BY <1>8, <2>1 DEF Unmoved, Printed, Queued
  <2>6. ASSUME NEW l \in Line PROVE Len(printed'[l]) <= 1
    <3>1. Len(printed[l]) <= 1
      BY DEF NoneTwice
    <3>2. CASE l = m
      <4>1. 1 <= 1
        OBVIOUS
      <4>2. QED
        BY <2>2, <3>2, <4>1
    <3>3. CASE l # m
      <4>1. printed'[l] = printed[l]
        BY <2>1, <3>3
      <4>2. QED
        BY <3>1, <4>1
    <3>4. QED
      BY <3>2, <3>3
  <2>7. QED
    BY <1>8, <2>4, <2>5, <2>6, UnmovedLies DEF NoneTwice
<1>9. ASSUME NEW w \in Writers, PrintLine(w) PROVE WhereInv'
  <2>1. /\ Mine(w) \in Line /\ pc[w] = "print" /\ Goto(w, "idle") /\ Fputs(Mine(w))
        /\ UNCHANGED <<begun, a_log, async, m_qu, refused>>
    BY <1>9, MineIsLine DEF PrintLine
  <2>2. Mine(w).n <= begun[Mine(w).by] /\ InThread(Mine(w))
    <3>1. begun[w] <= begun[w]
      BY <2>1, MineIsLine
    <3>2. QED
      BY <2>1, <3>1 DEF Mine, InThread
  <2>3. LiesIn(Mine(w), "thread")
    BY <2>1, <2>2 DEF Lies, LiesIn
  <2>4. \A l \in Line : /\ InThread(l)' <=> (InThread(l) /\ l # Mine(w))
                        /\ InAsync(l)' <=> (InAsync(l) /\ l # Mine(w))
    <3>1. \A l \in Line : InThread(l)' <=> IF l = Mine(w) THEN FALSE ELSE InThread(l)
      BY <2>1, ThreadGoes
    <3>2. \A l \in Line : (InAsync(l)' <=> InAsync(l)) /\ ~InAsync(Mine(w))
      BY <2>1, <2>3 DEF InAsync, LiesIn
    <3>3. QED
      BY <3>1, <3>2
  <2>5. ~Printed(Mine(w)) /\ ~Queued(Mine(w)) /\ Mine(w) \notin refused
    BY <2>3 DEF LiesIn
  <2>6. QED
    BY <1>8, <2>1, <2>2, <2>4, <2>5
<1>10. CASE Pop
  <2>1. CASE m_qu = <<>>
    BY <1>1, <1>10, <2>1 DEF Pop, InThread
  <2>2. CASE m_qu # <<>>
    <3>1. /\ async = "pop" /\ async' = "print" /\ a_log' = Head(m_qu) /\ m_qu' = Tail(m_qu)
          /\ UNCHANGED <<printed, begun, refused, pc>> /\ m_qu \in Seq(Line)
      BY <1>10, <2>2 DEF Pop, TypeInv, LogTypeOK
    <3>2. /\ Len(m_qu) \in Nat \ {0} /\ Head(m_qu) = m_qu[1] /\ Head(m_qu) \in Line
          /\ Len(m_qu') = Len(m_qu) - 1 /\ \A i \in 1..Len(m_qu') : m_qu'[i] = m_qu[i + 1]
      BY <2>2, <3>1, HeadTailProperties
    <3>2a. PICK m \in Line : m = Head(m_qu)
      BY <3>2
    <3>3. Queued(m) /\ ~Queued(m)'
      <4>1. Queued(m)
        BY <3>2, <3>2a DEF Queued
      <4>2. ASSUME NEW i \in 1..Len(m_qu'), m_qu'[i] = m_qu[1] PROVE FALSE
        <5>1. i + 1 \in 1..Len(m_qu) /\ 1 \in 1..Len(m_qu) /\ i + 1 # 1
          BY <3>2
        <5>2. m_qu[i + 1] = m_qu[1]
          BY <3>2, <4>2
        <5>3. QED
          BY <5>1, <5>2 DEF NoneTwice
      <4>3. QED
        BY <3>2, <3>2a, <4>1, <4>2 DEF Queued
    <3>4. ASSUME NEW l \in Line, l # m PROVE Queued(l)' <=> Queued(l)
      <4>1. ASSUME NEW i \in 1..Len(m_qu'), m_qu'[i] = l PROVE Queued(l)
        <5>1. i + 1 \in 1..Len(m_qu) /\ m_qu[i + 1] = l
          BY <3>2, <4>1
        <5>2. QED
          BY <5>1 DEF Queued
      <4>2. ASSUME NEW i \in 1..Len(m_qu), m_qu[i] = l PROVE \E j \in 1..Len(m_qu') : m_qu'[j] = l
        <5>1. i # 1
          BY <3>2, <3>2a, <3>4, <4>2
        <5>2. i - 1 \in 1..Len(m_qu') /\ (i - 1) + 1 = i
          BY <3>2, <5>1
        <5>3. m_qu'[i - 1] = l
          BY <3>2, <4>2, <5>2
        <5>4. QED
          BY <5>2, <5>3
      <4>3. QED
        BY <4>1, <4>2 DEF Queued
    <3>5. \A l \in Line : ~InAsync(l) /\ (InAsync(l)' <=> l = m)
      BY <3>1, <3>2a DEF InAsync
    <3>6. \A l \in Line : (InThread(l)' <=> InThread(l)) /\ (Printed(l)' <=> Printed(l))
      BY <3>1 DEF InThread, Printed
    <3>8. LiesIn(m, "queue") /\ m.n <= begun[m.by]
      BY <3>3 DEF Lies, LiesIn
    <3>9. LiesIn(m, "async")'
      BY <3>1, <3>3, <3>5, <3>6, <3>8 DEF LiesIn
    <3>10. Lies(m)'
      BY <3>1, <3>8, <3>9 DEF Lies
    <3>11. \A l \in Line : l # m => Unmoved(l)
      BY <3>1, <3>4, <3>5, <3>6 DEF Unmoved
    <3>12. ASSUME NEW i \in 1..Len(m_qu'), NEW j \in 1..Len(m_qu'), m_qu'[i] = m_qu'[j] PROVE i = j
      <4>1. i + 1 \in 1..Len(m_qu) /\ j + 1 \in 1..Len(m_qu) /\ m_qu[i + 1] = m_qu[j + 1]
        BY <3>2, <3>12
      <4>2. i + 1 = j + 1
        BY <4>1 DEF NoneTwice
      <4>3. QED
        BY <4>2
    <3>13. Len(m_qu') <= MaxQueue
      BY <3>2, LogAssumption
    <3>14. \A l \in Line : Lies(l)'
      BY <3>10, <3>11, UnmovedLies
    <3>15. QED
      BY <3>1, <3>12, <3>13, <3>14 DEF NoneTwice
  <2>3. QED
    BY <2>1, <2>2
<1>11. CASE SpuriousWakeup
  BY <1>1, <1>11 DEF SpuriousWakeup, InThread
<1>12. CASE Write_async
  <2>1. /\ a_log \in Line /\ async = "print" /\ async' = "pop" /\ Fputs(a_log)
        /\ UNCHANGED <<begun, pc, m_qu, refused>>
    BY <1>12 DEF Write_async, TypeInv, InHand
  <2>2. LiesIn(a_log, "async") /\ a_log.n <= begun[a_log.by]
    BY <2>1 DEF Lies, LiesIn, InAsync
  <2>3. \A l \in Line : /\ InThread(l)' <=> (InThread(l) /\ l # a_log)
                        /\ InAsync(l)' <=> (InAsync(l) /\ l # a_log)
    BY <2>1, <2>2 DEF InThread, InAsync, LiesIn
  <2>4. ~Printed(a_log) /\ ~Queued(a_log) /\ a_log \notin refused
    BY <2>2 DEF LiesIn
  <2>5. QED
    BY <1>8, <2>1, <2>2, <2>3, <2>4
<1>13. CASE UNCHANGED logVars
  BY <1>2, <1>13 DEF logVars, InThread
<1>14. QED
  BY <1>3, <1>4, <1>5, <1>6, <1>7, <1>9, <1>10, <1>11, <1>12, <1>13 DEF Next, Writing

LEMMA WhereStarts == Init => WhereInv
<1> SUFFICES ASSUME Init PROVE WhereInv
  OBVIOUS
<1>1. m_qu = <<>> /\ Len(m_qu) = 0 /\ MaxQueue \in Nat
  BY LogAssumption DEF Init
<1>2. \A l \in Line : l.by \in Writers /\ l.n \in Nat /\ l.n > 0 /\ printed[l] = <<>> /\ Len(printed[l]) = 0
  BY DEF Init, Line
<1>3. \A l \in Line : begun[l.by] = 0 /\ pc[l.by] = "idle" /\ async # "print" /\ l \notin refused
  BY <1>2 DEF Init
<1>4. ASSUME NEW l \in Line PROVE Lies(l)
  <2>1. ~(l.n <= begun[l.by])
    BY <1>2, <1>3
  <2>2. LiesIn(l, "nowhere")
    BY <1>1, <1>2, <1>3 DEF LiesIn, InThread, InAsync, Queued, Printed
  <2>3. QED
    BY <2>1, <2>2 DEF Lies
<1>5. QED
  BY <1>1, <1>2, <1>4 DEF WhereInv, NoneTwice

LEMMA WhereHolds == Spec => []WhereInv
BY TypeHolds, WhereStarts, WhereKept, PTL DEF Spec

(* Every line that a thread has begun is in one place: in the thread, in the queue, in *)
(* the hand of the log's own thread or once in a file, unless it was refused for want *)
(* of a log, and the places of the queue are those of block_deque.h, for every number *)
(* of threads, lines and queue places.                                                *)
THEOREM LinesAreHeld == Spec => []QueueHolds
<1>1. TypeInv /\ WhereInv => QueueHolds
  BY LiesOnce DEF QueueHolds, TypeInv, InHand, WhereInv
<1>2. QED
  BY <1>1, TypeHolds, WhereHolds, PTL

-----------------------------------------------------------------------------
(* How many lines a file takes before the first midnight. *)

Flying == {w \in Writers : pc[w] \in {"full", "push", "print"}}

\* Lines that are counted and not yet printed.
InFlight == Cardinality(Flying) + Len(m_qu) + (IF async = "print" THEN 1 ELSE 0)

\* How many there can be.
Slack == Cardinality(Writers) + (IF m_is_async THEN MaxQueue + 1 ELSE 0)

\* The files of the day are numbered by the count, and all that has been printed went to
\* this one or one before.
FilesNumbered ==
  /\ m_today = 0 /\ \A w \in Writers : my_tm[w] = 0
  /\ m_fp = [day |-> 0, part |-> m_lines_count \div MaxLines]
  /\ \A l \in Line : \A i \in 1..Len(printed[l]) : printed[l][i].part <= m_fp.part

\* Of the lines in flight and those printed to the open file, all but a slack were counted
\* since it was opened; no other file is printed to any more.
FileBalance ==
  /\ Cardinality(PrintsTo(m_fp)) + InFlight <= (m_lines_count % MaxLines) + Slack
  /\ \A f \in File : f # m_fp => Cardinality(PrintsTo(f)) <= MaxLines - 1 + Slack
  /\ \A f \in File : IsFiniteSet(PrintsTo(f))

FileInv == today = 0 => FilesNumbered /\ FileBalance

LEMMA Aloft ==
  ASSUME NEW fs \in SUBSET Writers
  PROVE  /\ IsFiniteSet(fs) /\ Cardinality(fs) \in Nat /\ Cardinality(Writers) \in Nat
         /\ Cardinality(fs) <= Cardinality(Writers)
BY LogAssumption, FS_Subset, FS_CardinalityType

LEMMA Flights ==
  ASSUME TypeInv, WhereInv
  PROVE  /\ IsFiniteSet(Flying) /\ Cardinality(Flying) \in Nat
         /\ Len(m_qu) \in Nat /\ InFlight \in Nat /\ Slack \in Nat /\ InFlight <= Slack
         /\ MaxLines \in Nat
<1>1. Len(m_qu) \in Nat /\ Len(m_qu) <= MaxQueue /\ MaxLines \in Nat /\ MaxQueue \in Nat
  BY LogAssumption DEF TypeInv, LogTypeOK, WhereInv
<1>2. /\ ~m_is_async => Len(m_qu) = 0 /\ async # "print"
      /\ m_is_async \in BOOLEAN /\ Flying \in SUBSET Writers
  BY DEF TypeInv, LogTypeOK, InHand, Flying
<1> DEFINE x == IF async = "print" THEN 1 ELSE 0
           y == IF m_is_async THEN MaxQueue + 1 ELSE 0
<1>3. x \in Nat /\ y \in Nat /\ Len(m_qu) + x <= y
  <2>1. CASE m_is_async
    BY <1>1, <2>1
  <2>2. CASE ~m_is_async
    BY <1>1, <1>2, <2>2
  <2>3. QED
    BY <1>2, <2>1, <2>2
<1>4. InFlight = Cardinality(Flying) + Len(m_qu) + x /\ Slack = Cardinality(Writers) + y
  BY DEF InFlight, Slack
<1> HIDE DEF x, y
<1>5. QED
  BY <1>1, <1>2, <1>3, <1>4, Aloft

\* The same after a step.
LEMMA FlightsNext ==
  ASSUME TypeInv', WhereInv'
  PROVE  InFlight' \in Nat /\ Slack' \in Nat /\ InFlight' <= Slack'
<1>1. Len(m_qu') \in Nat /\ Len(m_qu') <= MaxQueue /\ MaxQueue \in Nat
  BY LogAssumption DEF TypeInv, LogTypeOK, WhereInv
<1>2. /\ ~m_is_async' => Len(m_qu') = 0 /\ async' # "print"
      /\ m_is_async' \in BOOLEAN /\ Flying' \in SUBSET Writers
  BY DEF TypeInv, LogTypeOK, InHand, Flying
<1> DEFINE x == IF async' = "print" THEN 1 ELSE 0
           y == IF m_is_async' THEN MaxQueue + 1 ELSE 0
<1>3. x \in Nat /\ y \in Nat /\ Len(m_qu') + x <= y
  <2>1. CASE m_is_async'
    BY <1>1, <2>1
  <2>2. CASE ~m_is_async'
    BY <1>1, <1>2, <2>2
  <2>3. QED
    BY <1>2, <2>1, <2>2
<1>4. InFlight' = Cardinality(Flying') + Len(m_qu') + x /\ Slack' = Cardinality(Writers) + y
  BY DEF InFlight, Slack
<1> HIDE DEF x, y
<1>5. QED
  BY <1>1, <1>2, <1>3, <1>4, Aloft

\* A thread that begins or ends its flight.
LEMMA FlyingChanges ==
  ASSUME TypeInv, WhereInv, NEW w \in Writers, NEW where \in {"idle", "count", "full", "push", "print"},
         Goto(w, where)
  PROVE  /\ pc[w] \in {"full", "push", "print"} /\ where = "idle"
              => Cardinality(Flying') = Cardinality(Flying) - 1
         /\ pc[w] = "count" /\ where \in {"full", "print"}
              => Cardinality(Flying') = Cardinality(Flying) + 1
         /\ pc[w] = "full" /\ where \in {"push", "print"} => Flying' = Flying
         /\ pc[w] = "idle" /\ where = "count" => Flying' = Flying
<1>1. /\ pc \in [Writers -> {"idle", "count", "full", "push", "print"}]
      /\ pc' = [pc EXCEPT ![w] = where]
  BY DEF Goto, TypeInv, LogTypeOK
<1>2. \A v \in Writers : pc'[v] = IF v = w THEN where ELSE pc[v]
  BY <1>1
<1>3. IsFiniteSet(Flying) /\ Cardinality(Flying) \in Nat
  BY Flights
<1>4. ASSUME pc[w] \in {"full", "push", "print"}, where = "idle"
      PROVE  Cardinality(Flying') = Cardinality(Flying) - 1
  <2>1. w \in Flying /\ Flying' = Flying \ {w}
    BY <1>2, <1>4 DEF Flying
  <2>2. QED
    BY <1>3, <2>1, FS_RemoveElement
<1>5. ASSUME pc[w] = "count", where \in {"full", "print"}
      PROVE  Cardinality(Flying') = Cardinality(Flying) + 1
  <2>1. w \notin Flying /\ Flying' = Flying \cup {w}
    BY <1>2, <1>5 DEF Flying
  <2>2. QED
    BY <1>3, <2>1, FS_AddElement
<1>6. ASSUME pc[w] = "full", where \in {"push", "print"} PROVE Flying' = Flying
  BY <1>2, <1>6 DEF Flying
<1>7. ASSUME pc[w] = "idle", where = "count" PROVE Flying' = Flying
  BY <1>2, <1>7 DEF Flying
<1>8. QED
  BY <1>4, <1>5, <1>6, <1>7

\* What a step leaves alone that prints nothing.
LEMMA NothingPrinted ==
  ASSUME UNCHANGED printed, NEW f
  PROVE  PrintsTo(f)' = PrintsTo(f)
BY DEF PrintsTo

LEMMA Numbered ==
  ASSUME TypeInv, WhereInv, FilesNumbered, FileBalance
  PROVE  /\ m_fp \in File /\ m_fp.part \in Nat /\ m_lines_count \in Nat
         /\ m_lines_count % MaxLines \in 0..(MaxLines - 1)
         /\ \A f \in File : Cardinality(PrintsTo(f)) \in Nat
BY Quotients, FS_CardinalityType DEF TypeInv, LogTypeOK, FileBalance, File

\* No line is counted and none is printed.
LEMMA NoLineFiled ==
  ASSUME TypeInv, WhereInv, FileInv, WhereInv', TypeInv',
         UNCHANGED <<today, m_lines_count, m_today, m_fp, printed, m_is_async>>,
         today = 0 => \A w \in Writers : my_tm'[w] = 0,
         InFlight' <= InFlight
  PROVE  FileInv'
<1> SUFFICES ASSUME today = 0 PROVE FilesNumbered' /\ FileBalance'
  BY DEF FileInv
<1>1. FilesNumbered /\ FileBalance
  BY DEF FileInv
<1>2. FilesNumbered'
  BY <1>1 DEF FilesNumbered
<1>3. \A f : PrintsTo(f)' = PrintsTo(f)
  BY NothingPrinted
<1>4. PrintsTo(m_fp)' = PrintsTo(m_fp) /\ Slack' = Slack
  BY DEF PrintsTo, Slack
<1>5. Cardinality(PrintsTo(m_fp)) \in Nat /\ m_lines_count % MaxLines \in Nat
  BY <1>1, Numbered
<1>6. InFlight \in Nat /\ InFlight' \in Nat /\ Slack \in Nat
  BY Flights, FlightsNext
<1>7. Cardinality(PrintsTo(m_fp)) + InFlight' <= (m_lines_count % MaxLines) + Slack
  BY <1>1, <1>5, <1>6 DEF FileBalance
<1>8. Cardinality(PrintsTo(m_fp)') + InFlight' <= (m_lines_count' % MaxLines) + Slack'
  BY <1>4, <1>7
<1>9. QED
  BY <1>1, <1>2, <1>3, <1>4, <1>8 DEF FileBalance

LEMMA CountFiled ==
  ASSUME TypeInv, WhereInv, FileInv, TypeInv', WhereInv', NEW w \in Writers, CountLine(w)
  PROVE  FileInv'
<1> SUFFICES ASSUME today = 0 PROVE FilesNumbered' /\ FileBalance'
  BY DEF FileInv, CountLine
<1>1. FilesNumbered /\ FileBalance
  BY DEF FileInv
<1>2. /\ m_lines_count \in Nat /\ m_fp.part = m_lines_count \div MaxLines /\ m_fp \in File
      /\ m_lines_count % MaxLines \in 0..(MaxLines - 1)
      /\ \A f \in File : Cardinality(PrintsTo(f)) \in Nat
  BY <1>1, Numbered DEF FilesNumbered
<1>3. /\ m_lines_count' = m_lines_count + 1 /\ m_today' = 0
      /\ m_fp' = IF (m_lines_count + 1) % MaxLines = 0
                   THEN [day |-> 0, part |-> (m_lines_count + 1) \div MaxLines]
                   ELSE m_fp
      /\ UNCHANGED <<today, m_qu, printed, my_tm, async, m_is_async>>
  BY <1>1 DEF FilesNumbered, CountLine, Rotates
<1>4. /\ (m_lines_count + 1) % MaxLines = 0 => (m_lines_count + 1) \div MaxLines = (m_lines_count \div MaxLines) + 1
      /\ (m_lines_count + 1) % MaxLines # 0 => /\ (m_lines_count + 1) \div MaxLines = m_lines_count \div MaxLines
                                               /\ (m_lines_count + 1) % MaxLines = (m_lines_count % MaxLines) + 1
  BY <1>2, Quotients
<1>5. \A f : PrintsTo(f)' = PrintsTo(f)
  BY <1>3, NothingPrinted
<1>6. Slack' = Slack
  BY <1>3 DEF Slack
<1>7. InFlight' = InFlight + 1
  <2>1. PICK where \in {"full", "print"} : Goto(w, where)
    BY DEF CountLine
  <2>2. Cardinality(Flying') = Cardinality(Flying) + 1
    BY <2>1, FlyingChanges DEF CountLine
  <2>3. Cardinality(Flying) \in Nat /\ Len(m_qu) \in Nat
    BY Flights, FlightsNext
  <2> DEFINE a == IF async = "print" THEN 1 ELSE 0
  <2>4. a \in Nat
    OBVIOUS
  <2>5. InFlight = Cardinality(Flying) + Len(m_qu) + a /\ InFlight' = Cardinality(Flying') + Len(m_qu) + a
    BY <1>3 DEF InFlight
  <2> HIDE DEF a
  <2>6. QED
    BY <2>2, <2>3, <2>4, <2>5
<1>8. InFlight \in Nat /\ Slack \in Nat /\ InFlight' \in Nat /\ InFlight' <= Slack' /\ MaxLines \in Nat
  BY Flights, FlightsNext
<1>9. CASE (m_lines_count + 1) % MaxLines # 0
  <2>1. m_fp' = m_fp /\ FilesNumbered'
    <3>1. m_fp' = [day |-> 0, part |-> m_lines_count' \div MaxLines]
      BY <1>1, <1>3, <1>4, <1>9 DEF FilesNumbered
    <3>2. QED
      BY <1>1, <1>3, <1>9, <3>1 DEF FilesNumbered
  <2>2. PrintsTo(m_fp)' = PrintsTo(m_fp)
    BY <1>3, <2>1 DEF PrintsTo
  <2>3. Cardinality(PrintsTo(m_fp)) + (InFlight + 1) <= ((m_lines_count % MaxLines) + 1) + Slack
    BY <1>1, <1>2, <1>8 DEF FileBalance
  <2>4. Cardinality(PrintsTo(m_fp)') + InFlight' <= (m_lines_count' % MaxLines) + Slack'
    BY <1>3, <1>4, <1>6, <1>7, <1>9, <2>2, <2>3
  <2>5. QED
    BY <1>1, <1>5, <1>6, <2>1, <2>4 DEF FileBalance
<1>10. CASE (m_lines_count + 1) % MaxLines = 0
  <2>1. /\ m_fp' = [day |-> 0, part |-> m_lines_count' \div MaxLines]
        /\ m_fp'.part = m_fp.part + 1 /\ m_fp.part \in Nat /\ m_lines_count' % MaxLines = 0
    BY <1>2, <1>3, <1>4, <1>10, Numbered, <1>1
  <2>2. PICK new \in File : new = m_fp'
    BY DEF TypeInv, LogTypeOK
  <2>3. ASSUME NEW l \in Line, NEW i \in 1..Len(printed[l])
        PROVE  printed[l][i].part <= m_fp'.part /\ printed[l][i] # m_fp'
    <3>1. printed[l] \in Seq(File)
      BY DEF TypeInv, LogTypeOK
    <3>2. printed[l][i].part \in Nat
      <4>1. printed[l][i] \in File
        BY <3>1
      <4>2. QED
        BY <4>1 DEF File
    <3>3. printed[l][i].part <= m_fp.part
      BY <1>1 DEF FilesNumbered
    <3>4. QED
      BY <2>1, <3>2, <3>3
  <2>4. FilesNumbered'
    BY <1>1, <1>3, <2>1, <2>3 DEF FilesNumbered
  <2>5. PrintsTo(new) = {}
    BY <2>2, <2>3 DEF PrintsTo
  <2>6. PrintsTo(m_fp)' = {}
    <3>1. PrintsTo(m_fp)' = PrintsTo(new)'
      BY <2>2 DEF PrintsTo
    <3>2. QED
      BY <1>5, <2>5, <3>1
  <2>7. Cardinality(PrintsTo(m_fp)') + InFlight' <= (m_lines_count' % MaxLines) + Slack'
    <3>1. Cardinality(PrintsTo(m_fp)') = 0
      BY <2>6, FS_EmptySet
    <3>2. QED
      BY <1>6, <1>8, <2>1, <3>1
  <2>8. ASSUME NEW f \in File PROVE Cardinality(PrintsTo(f)) <= MaxLines - 1 + Slack
    <3>1. CASE f = m_fp
      <4>1. Cardinality(PrintsTo(m_fp)) + InFlight <= (m_lines_count % MaxLines) + Slack
        BY <1>1 DEF FileBalance
      <4>2. QED
        BY <1>2, <1>8, <3>1, <4>1
    <3>2. CASE f # m_fp
      BY <1>1, <3>2 DEF FileBalance
    <3>3. QED
      BY <3>1, <3>2
  <2>9. QED
    BY <1>1, <1>5, <1>6, <2>4, <2>7, <2>8 DEF FileBalance
<1>11. QED
  BY <1>9, <1>10

LEMMA PrintFiled ==
  ASSUME TypeInv, WhereInv, FileInv, TypeInv', WhereInv', NEW m \in Line, Fputs(m),
         UNCHANGED <<today, m_lines_count, m_today, m_fp, my_tm, m_is_async>>,
         InFlight' = InFlight - 1
  PROVE  FileInv'
<1> SUFFICES ASSUME today = 0 PROVE FilesNumbered' /\ FileBalance'
  BY DEF FileInv
<1>1. FilesNumbered /\ FileBalance
  BY DEF FileInv
<1>2. /\ printed'[m] = Append(printed[m], m_fp) /\ \A k \in Line : k # m => printed'[k] = printed[k]
      /\ m_fp \in File /\ printed[m] \in Seq(File)
  BY PrintsTyped DEF TypeInv, LogTypeOK
<1>3. PICK n \in Nat : n = Len(printed[m])
  BY <1>2
<1>4. /\ Len(printed'[m]) = n + 1 /\ printed'[m][n + 1] = m_fp
      /\ \A i \in 1..n : printed'[m][i] = printed[m][i]
  BY <1>2, <1>3
<1>5. \A i : i \in 1..Len(printed'[m]) <=> i \in 1..n \/ i = n + 1
  BY <1>4
<1>6. FilesNumbered'
  <2>1. ASSUME NEW l \in Line, NEW i \in 1..Len(printed'[l]) PROVE printed'[l][i].part <= m_fp.part
    <3>1. m_fp.part <= m_fp.part
      BY <1>2 DEF File
    <3>2. CASE l = m
      <4>1. CASE i = n + 1
        BY <1>4, <3>1, <3>2, <4>1
      <4>2. CASE i \in 1..n
        <5>1. printed'[l][i] = printed[l][i]
          BY <1>4, <3>2, <4>2
        <5>2. QED
          BY <1>1, <1>3, <3>2, <4>2, <5>1 DEF FilesNumbered
      <4>3. QED
        BY <1>5, <3>2, <4>1, <4>2
    <3>3. CASE l # m
      <4>1. printed'[l] = printed[l]
        BY <1>2, <3>3
      <4>2. QED
        BY <1>1, <4>1 DEF FilesNumbered
    <3>4. QED
      BY <3>2, <3>3
  <2>2. QED
    BY <1>1, <2>1 DEF FilesNumbered
<1>7. \A l \in Line : \A i, f : <<l, i>> \in PrintsTo(f) <=> i \in 1..Len(printed[l]) /\ printed[l][i] = f
  BY DEF PrintsTo
<1>8. \A l \in Line : \A i, f : <<l, i>> \in PrintsTo(f)' <=> i \in 1..Len(printed'[l]) /\ printed'[l][i] = f
  BY DEF PrintsTo
<1>9. \A f : \A x \in PrintsTo(f) \cup PrintsTo(f)' : \E l \in Line, i \in Nat : x = <<l, i>>
  BY DEF PrintsTo
<1>10. ASSUME NEW f PROVE PrintsTo(f)' = PrintsTo(f) \cup (IF f = m_fp THEN {<<m, n + 1>>} ELSE {})
  <2>1. ASSUME NEW l \in Line, NEW i \in Nat
        PROVE  <<l, i>> \in PrintsTo(f)' <=> <<l, i>> \in PrintsTo(f) \/ (l = m /\ i = n + 1 /\ f = m_fp)
    <3>1. CASE l # m
      BY <1>2, <1>7, <1>8, <3>1
    <3>2. CASE l = m
      <4>1. <<l, i>> \in PrintsTo(f) <=> i \in 1..n /\ printed[m][i] = f
        BY <1>3, <1>7, <3>2
      <4>2. <<l, i>> \in PrintsTo(f)' <=> (i \in 1..n \/ i = n + 1) /\ printed'[m][i] = f
        BY <1>5, <1>8, <3>2
      <4>3. QED
        BY <1>4, <3>2, <4>1, <4>2
    <3>3. QED
      BY <3>1, <3>2
  <2>2. QED
    BY <1>9, <2>1
<1>11. <<m, n + 1>> \notin PrintsTo(m_fp)
  <2>1. n + 1 \notin 1..n
    OBVIOUS
  <2>2. QED
    BY <1>3, <1>7, <2>1
<1>12. /\ IsFiniteSet(PrintsTo(m_fp)) /\ Cardinality(PrintsTo(m_fp)) \in Nat
       /\ m_lines_count % MaxLines \in Nat
  BY <1>1, <1>2, Numbered DEF FileBalance
<1>13. PrintsTo(m_fp)' = PrintsTo(m_fp) \cup {<<m, n + 1>>}
  <2>1. PICK f : f = m_fp
    OBVIOUS
  <2>2. PrintsTo(m_fp)' = PrintsTo(f)' /\ PrintsTo(m_fp) = PrintsTo(f)
    BY <2>1 DEF PrintsTo
  <2>3. QED
    BY <1>10, <2>1, <2>2
<1>14. Cardinality(PrintsTo(m_fp)') = Cardinality(PrintsTo(m_fp)) + 1 /\ IsFiniteSet(PrintsTo(m_fp)')
  BY <1>11, <1>12, <1>13, FS_AddElement
<1>15. InFlight \in Nat /\ Slack \in Nat /\ InFlight' \in Nat /\ Slack' = Slack
  BY Flights, FlightsNext DEF Slack
<1>16. Cardinality(PrintsTo(m_fp)) + InFlight <= (m_lines_count % MaxLines) + Slack
  BY <1>1 DEF FileBalance
<1>17. Cardinality(PrintsTo(m_fp)') + InFlight' <= (m_lines_count' % MaxLines) + Slack'
  <2>1. (Cardinality(PrintsTo(m_fp)) + 1) + (InFlight - 1) <= (m_lines_count % MaxLines) + Slack
    BY <1>12, <1>15, <1>16
  <2>2. QED
    BY <1>14, <1>15, <2>1
<1>18. ASSUME NEW f \in File PROVE IsFiniteSet(PrintsTo(f)') /\ (f # m_fp => PrintsTo(f)' = PrintsTo(f))
  <2>1. IsFiniteSet(PrintsTo(f))
    BY <1>1 DEF FileBalance
  <2>2. IsFiniteSet(PrintsTo(f) \cup {<<m, n + 1>>})
    BY <2>1, FS_AddElement
  <2>3. QED
    BY <1>10, <2>1, <2>2
<1>19. QED
  BY <1>1, <1>6, <1>15, <1>17, <1>18 DEF FileBalance

\* What is in flight after the threads in Write_log() have become fs.
LEMMA FlightsMove ==
  ASSUME TypeInv, WhereInv
  PROVE  /\ /\ Flying' = Flying /\ Len(m_qu') = Len(m_qu) /\ (async' = "print" <=> async = "print")
            => InFlight' = InFlight
         /\ /\ Flying' = Flying /\ Len(m_qu') = Len(m_qu) - 1 /\ async' = "print" /\ async # "print"
            => InFlight' = InFlight
         /\ /\ Flying' = Flying /\ Len(m_qu') = Len(m_qu) /\ async' # "print" /\ async = "print"
            => InFlight' = InFlight - 1
         /\ /\ Cardinality(Flying') = Cardinality(Flying) - 1 /\ (async' = "print" <=> async = "print")
            => /\ Len(m_qu') = Len(m_qu) => InFlight' = InFlight - 1
               /\ Len(m_qu') = Len(m_qu) + 1 => InFlight' = InFlight
<1> DEFINE x == IF async = "print" THEN 1 ELSE 0
           y == IF async' = "print" THEN 1 ELSE 0
<1>1. /\ x \in Nat /\ y \in Nat
      /\ ((async' = "print" <=> async = "print") => x = y)
      /\ (async' = "print" /\ async # "print" => y = 1 /\ x = 0)
      /\ (async' # "print" /\ async = "print" => y = 0 /\ x = 1)
  OBVIOUS
<1>2. InFlight = Cardinality(Flying) + Len(m_qu) + x /\ InFlight' = Cardinality(Flying') + Len(m_qu') + y
  BY DEF InFlight
<1>3. Cardinality(Flying) \in Nat /\ Len(m_qu) \in Nat
  BY Flights
<1> HIDE DEF x, y
<1>4. ASSUME Flying' = Flying, Len(m_qu') = Len(m_qu), async' = "print" <=> async = "print"
      PROVE  InFlight' = InFlight
  BY <1>1, <1>2, <1>4
<1>5. ASSUME Flying' = Flying, Len(m_qu') = Len(m_qu) - 1, async' = "print", async # "print"
      PROVE  InFlight' = InFlight
  BY <1>1, <1>2, <1>3, <1>5
<1>6. ASSUME Flying' = Flying, Len(m_qu') = Len(m_qu), async' # "print", async = "print"
      PROVE  InFlight' = InFlight - 1
  BY <1>1, <1>2, <1>3, <1>6
<1>7. ASSUME Cardinality(Flying') = Cardinality(Flying) - 1, async' = "print" <=> async = "print"
      PROVE  /\ Len(m_qu') = Len(m_qu) => InFlight' = InFlight - 1
             /\ Len(m_qu') = Len(m_qu) + 1 => InFlight' = InFlight
  BY <1>1, <1>2, <1>3, <1>7
<1>8. QED
  BY <1>4, <1>5, <1>6, <1>7, Zenon

LEMMA FileKept == ASSUME TypeInv, WhereInv, FileInv, [Next]_logVars PROVE FileInv'
<1>1. TypeInv' /\ WhereInv'
  BY TypeKept, WhereKept
<1>2. InFlight \in Nat /\ \A n \in Nat : n <= n /\ n - 1 <= n
  BY Flights
<1>3. CASE Midnight
  <2>1. today' # 0
    BY <1>3, LogAssumption DEF Midnight, TypeInv, LogTypeOK
  <2>2. QED
    BY <2>1 DEF FileInv
<1>4. ASSUME NEW w \in Writers, Write_log(w) PROVE FileInv'
  <2>1. Flying' = Flying
    BY <1>4, FlyingChanges DEF Write_log
  <2>2. InFlight' = InFlight
    BY <1>4, <2>1, FlightsMove DEF Write_log
  <2>3. today = 0 => \A v \in Writers : my_tm'[v] = 0
    BY <1>4 DEF Write_log, FileInv, FilesNumbered, TypeInv, LogTypeOK
  <2>4. QED
    BY <1>1, <1>2, <1>4, <2>2, <2>3, NoLineFiled DEF Write_log
<1>5. ASSUME NEW w \in Writers, CountLine(w) PROVE FileInv'
  BY <1>1, <1>5, CountFiled
<1>6. ASSUME UNCHANGED <<today, m_lines_count, m_today, m_fp, printed, my_tm, m_is_async>>,
             InFlight' <= InFlight
      PROVE  FileInv'
  <2>1. today = 0 => \A w \in Writers : my_tm'[w] = 0
    BY <1>6 DEF FileInv, FilesNumbered
  <2>2. QED
    BY <1>1, <1>6, <2>1, NoLineFiled
<1>7. ASSUME NEW w \in Writers, TestFull(w) PROVE FileInv'
  <2>1. PICK where \in {"push", "print"} : Goto(w, where)
    BY <1>7 DEF TestFull
  <2>2. Flying' = Flying
    BY <1>7, <2>1, FlyingChanges DEF TestFull
  <2>3. InFlight' = InFlight
    BY <1>7, <2>2, FlightsMove DEF TestFull
  <2>4. QED
    BY <1>2, <1>6, <1>7, <2>3 DEF TestFull
<1>8. ASSUME NEW w \in Writers, Push(w) PROVE FileInv'
  <2>1. Cardinality(Flying') = Cardinality(Flying) - 1
    BY <1>8, FlyingChanges DEF Push
  <2>2. Len(m_qu') \in {Len(m_qu), Len(m_qu) + 1}
    BY <1>8 DEF Push, TypeInv, LogTypeOK
  <2>3. async' = "print" <=> async = "print"
    BY <1>8 DEF Push
  <2>4. InFlight' \in {InFlight, InFlight - 1}
    BY <2>1, <2>2, <2>3, FlightsMove
  <2>5. InFlight' <= InFlight
    BY <1>2, <2>4
  <2>6. QED
    BY <1>6, <1>8, <2>5 DEF Push
<1>9. ASSUME NEW w \in Writers, PrintLine(w) PROVE FileInv'
  <2>1. Cardinality(Flying') = Cardinality(Flying) - 1 /\ Mine(w) \in Line
    BY <1>9, FlyingChanges, MineIsLine DEF PrintLine
  <2>2. InFlight' = InFlight - 1
    BY <1>9, <2>1, FlightsMove DEF PrintLine
  <2>3. QED
    BY <1>1, <1>9, <2>1, <2>2, PrintFiled DEF PrintLine
<1>10. CASE Pop
  <2>1. Flying' = Flying
    BY <1>10 DEF Pop, Flying
  <2>2. InFlight' = InFlight
    <3>1. CASE m_qu = <<>>
      BY <1>10, <2>1, <3>1, FlightsMove DEF Pop
    <3>2. CASE m_qu # <<>>
      <4>1. Len(m_qu') = Len(m_qu) - 1
        BY <1>10, <3>2, HeadTailProperties DEF Pop, TypeInv, LogTypeOK
      <4>2. QED
        BY <1>10, <2>1, <3>2, <4>1, FlightsMove DEF Pop
    <3>3. QED
      BY <3>1, <3>2
  <2>3. QED
    BY <1>2, <1>6, <1>10, <2>2 DEF Pop
<1>11. CASE SpuriousWakeup
  <2>1. Flying' = Flying
    BY <1>11 DEF SpuriousWakeup, Flying
  <2>2. InFlight' = InFlight
    BY <1>11, <2>1, FlightsMove DEF SpuriousWakeup
  <2>3. QED
    BY <1>2, <1>6, <1>11, <2>2 DEF SpuriousWakeup
<1>12. CASE Write_async
  <2>1. Flying' = Flying /\ a_log \in Line
    BY <1>12 DEF Write_async, Flying, TypeInv, InHand
  <2>2. InFlight' = InFlight - 1
    BY <1>12, <2>1, FlightsMove DEF Write_async
  <2>3. QED
    BY <1>1, <1>12, <2>1, <2>2, PrintFiled DEF Write_async
<1>13. CASE UNCHANGED logVars
  <2>1. InFlight' = InFlight
    BY <1>13 DEF logVars, InFlight, Flying
  <2>2. QED
    BY <1>2, <1>6, <1>13, <2>1 DEF logVars
<1>14. QED
  BY <1>3, <1>4, <1>5, <1>7, <1>8, <1>9, <1>10, <1>11, <1>12, <1>13 DEF Next, Writing

LEMMA FileStarts == Init => FileInv
<1> SUFFICES ASSUME Init PROVE FilesNumbered /\ FileBalance
  BY DEF FileInv
<1>1. TypeInv /\ WhereInv
  BY TypeStarts, WhereStarts
<1>2. 0 % MaxLines = 0 /\ 0 \div MaxLines = 0
  BY Quotients
<1>3. \A l \in Line : printed[l] = <<>> /\ Len(printed[l]) = 0
  BY DEF Init
<1>4. FilesNumbered
  BY <1>2, <1>3 DEF Init, FilesNumbered
<1>5. \A f : PrintsTo(f) = {}
  BY <1>3 DEF PrintsTo
<1>6. InFlight \in Nat /\ Slack \in Nat /\ InFlight <= Slack
  BY <1>1, Flights
<1>7. MaxLines \in Nat \ {0}
  BY LogAssumption
<1>8. \A f : IsFiniteSet(PrintsTo(f)) /\ Cardinality(PrintsTo(f)) = 0
  BY <1>5, FS_EmptySet
<1>9. Cardinality(PrintsTo(m_fp)) + InFlight <= (m_lines_count % MaxLines) + Slack
  BY <1>2, <1>6, <1>8 DEF Init
<1>10. 0 <= MaxLines - 1 + Slack
  BY <1>6, <1>7
<1>11. QED
  BY <1>4, <1>8, <1>9, <1>10 DEF FileBalance

(* Before the first midnight no file takes more than its lines and a slack, one of     *)
(* every thread but one and, of an asynchronous log, those queued and the one in hand,  *)
(* whatever m_max_lines and the size of the queue are and however long the log runs.    *)
THEOREM FilesAreBounded == Spec => []FileBounded
<1>1. ASSUME TypeInv, WhereInv, FileInv PROVE FileBounded
  <2> SUFFICES ASSUME today = 0, NEW l \in Line, NEW i \in 1..Len(printed[l])
               PROVE  Cardinality(PrintsTo(printed[l][i]))
                        <= MaxLines + Cardinality(Writers) - 1 + (IF m_is_async THEN MaxQueue + 1 ELSE 0)
    BY DEF FileBounded
  <2>1. FilesNumbered /\ FileBalance
    BY <1>1 DEF FileInv
  <2>2. PICK f \in File : f = printed[l][i]
    <3>1. printed[l] \in Seq(File)
      BY <1>1 DEF TypeInv, LogTypeOK
    <3>2. QED
      BY <3>1
  <2>3. InFlight \in Nat /\ Slack \in Nat /\ MaxLines \in Nat
    BY <1>1, Flights
  <2>4. Cardinality(PrintsTo(f)) \in Nat /\ m_lines_count % MaxLines \in 0..(MaxLines - 1)
    BY <1>1, <2>1, Numbered
  <2>5. Cardinality(PrintsTo(f)) <= MaxLines - 1 + Slack
    <3>1. CASE f = m_fp
      <4>1. Cardinality(PrintsTo(f)) + InFlight <= (m_lines_count % MaxLines) + Slack
        BY <2>1, <3>1 DEF FileBalance
      <4>2. QED
        BY <2>3, <2>4, <4>1
    <3>2. CASE f # m_fp
      BY <2>1, <3>2 DEF FileBalance
    <3>3. QED
      BY <3>1, <3>2
  <2> DEFINE q == IF m_is_async THEN MaxQueue + 1 ELSE 0
  <2>6. Slack = Cardinality(Writers) + q /\ Cardinality(Writers) \in Nat /\ q \in Nat
    BY LogAssumption, FS_CardinalityType DEF Slack
  <2> HIDE DEF q
  <2>7. Cardinality(PrintsTo(f)) <= MaxLines + Cardinality(Writers) - 1 + q
    BY <2>3, <2>4, <2>5, <2>6
  <2>8. QED
    BY <2>2, <2>7 DEF q
<1>2. Spec => []FileInv
  BY TypeHolds, WhereHolds, FileStarts, FileKept, PTL DEF Spec
<1>3. QED
  BY <1>1, <1>2, TypeHolds, WhereHolds, PTL
=============================================================================
