----------------------------- MODULE TimerList -----------------------------
(***************************************************************************)
(* Sort_Timer_Lst (timer/timers.cpp): the doubly linked list of the        *)
(* connections' timers, pointer by pointer, under the calls that           *)
(* webserver.cpp makes of it.  Only the event loop touches it, so that a   *)
(* method is one action; what varies is the order of the calls and the     *)
(* clock, time(), which the system may set back.                           *)
(***************************************************************************)
EXTENDS Integers, FiniteSets

CONSTANTS
  Timers,      \* the Utils_Timer objects
  Timeout,     \* 3 * TIMESLOT
  MaxTime,     \* bound: the clock stops here
  None         \* nullptr

ASSUME TimerAssumption ==
  /\ IsFiniteSet(Timers)
  /\ Timeout \in Nat /\ MaxTime \in Nat
  /\ None \notin Timers

VARIABLES
  list,      \* m_head and m_tail, and m_next and m_pre of every timer
  m_expire,
  live,      \* the timers that are allocated
  now,       \* time(nullptr)
  setBack,   \* the clock has been set back
  crashed,   \* a null pointer was dereferenced
  m_actor_mod  \* of the server: 0 reactor, 1 proactor, which alone extends a timer

timerListVars == <<list, m_expire, live, now, setBack, crashed, m_actor_mod>>

Pointer == Timers \cup {None}

TimerTypeOK ==
  /\ list \in [head : Pointer, tail : Pointer, next : [Timers -> Pointer], pre : [Timers -> Pointer]]
  /\ m_expire \in [Timers -> 0..(MaxTime + Timeout)]
  /\ live \subseteq Timers
  /\ now \in 0..MaxTime
  /\ setBack \in BOOLEAN /\ crashed \in BOOLEAN
  /\ m_actor_mod \in {0, 1}

Init ==
  /\ list = [head |-> None, tail |-> None,
             next |-> [t \in Timers |-> None], pre |-> [t \in Timers |-> None]]
  /\ m_expire = [t \in Timers |-> 0]
  /\ live = {} /\ now = 0 /\ setBack = FALSE /\ crashed = FALSE
  /\ m_actor_mod \in {0, 1}

-----------------------------------------------------------------------------
(* The methods, as functions of the list l and the expiry times x. *)

\* The first timer of S from the head on, or None.
First(l, S) ==
  LET Walk[p \in Pointer] == IF p \in S \cup {None} THEN p ELSE Walk[l.next[p]]
  IN Walk[l.head]

\* The timers in front of p.
Passed(l, p) ==
  LET Walk[q \in Pointer] == IF q \in {p, None} THEN {} ELSE {q} \cup Walk[l.next[q]]
  IN Walk[l.head]

\* Mutant of LastBefore: always right behind the head.
JustBehindHead(l, x, t) == l.head

\* Add_timer(timer, head): the walk from the head, whose own time is not looked at.
LastBefore(l, x, t) == First(l, {p \in Timers : l.next[p] = None \/ x[l.next[p]] > x[t]})

\* Add_timer(timer, head): behind that node, or behind m_tail at the end of the list.
Insert(l, x, t) ==
  LET p == LastBefore(l, x, t)
      tmp == l.next[p]
  IN IF tmp # None
       THEN [l EXCEPT !.next[p] = t, !.pre[t] = p, !.next[t] = tmp, !.pre[tmp] = t]
       ELSE [l EXCEPT !.next[l.tail] = t, !.pre[t] = l.tail, !.next[t] = None, !.tail = t]

\* Add_timer(timer).
Added(l, x, t) ==
  CASE l.head = None      -> [l EXCEPT !.head = t, !.tail = t]
    [] l.head # None /\ x[t] < x[l.head] -> [l EXCEPT !.next[t] = l.head, !.pre[l.head] = t, !.head = t]
    [] OTHER              -> Insert(l, x, t)

\* Mutant of Unlinked: the successor keeps its m_pre.
UnlinkedHalf(l, t) == [l EXCEPT !.next[l.pre[t]] = l.next[t]]

\* Neither head nor tail: "connect before and after".
Unlinked(l, t) == [l EXCEPT !.next[l.pre[t]] = l.next[t], !.pre[l.next[t]] = l.pre[t]]

BeheadedOf(l) == [l EXCEPT !.head = l.next[l.head], !.pre[l.next[l.head]] = None]

\* Del_timer().
Deleted(l, t) ==
  CASE t = l.head /\ t = l.tail -> [l EXCEPT !.head = None, !.tail = None]
    [] t = l.head /\ t # l.tail -> BeheadedOf(l)
    [] t # l.head /\ t = l.tail -> [l EXCEPT !.tail = l.pre[t], !.next[l.pre[t]] = None]
    [] OTHER                    -> Unlinked(l, t)

\* Adjust_timer(): it looks ahead only, a timer is supposed to be extended.
Adjusted(l, x, t) ==
  IF l.next[t] = None \/ x[l.next[t]] > x[t] THEN l
  ELSE IF t = l.head THEN Insert([BeheadedOf(l) EXCEPT !.next[t] = None], x, t)
  ELSE Insert(Unlinked(l, t), x, t)

\* Mutant of FirstKept: a timer is not due in its own second.
FirstNotBefore(l, x) == First(l, {p \in Timers : x[p] >= now})

\* tick(): the first timer that is not due; the walk stops there.
FirstKept(l, x) == First(l, {p \in Timers : x[p] > now})

-----------------------------------------------------------------------------
(* The calls.  Of a deleted timer nothing is left. *)

Forgotten(l, gone) ==
  [l EXCEPT !.next = [t \in Timers |-> IF t \in gone THEN None ELSE @[t]],
            !.pre  = [t \in Timers |-> IF t \in gone THEN None ELSE @[t]]]
Expiries(gone) == [t \in Timers |-> IF t \in gone THEN 0 ELSE m_expire[t]]

Running == ~crashed

\* WebServer::timer(): a new timer, m_next and m_pre null, for a new connection.
Add(t) ==
  /\ Running /\ t \notin live
  /\ live' = live \cup {t}
  /\ m_expire' = [m_expire EXCEPT ![t] = now + Timeout]
  /\ list' = Added([list EXCEPT !.next[t] = None, !.pre[t] = None], m_expire', t)
  /\ UNCHANGED <<now, setBack, crashed, m_actor_mod>>

\* WebServer::del_timer(), which has closed the connection.
Del(t) ==
  /\ Running /\ t \in live
  /\ list' = Forgotten(Deleted(list, t), {t})
  /\ m_expire' = Expiries({t})
  /\ live' = live \ {t}
  /\ UNCHANGED <<now, setBack, crashed, m_actor_mod>>

\* deal_read() and deal_write() of the reactor: m_expire stays as it is.
AdjustReactor(t) ==
  /\ Running /\ m_actor_mod = 0 /\ t \in live
  /\ list' = Adjusted(list, m_expire, t)
  /\ UNCHANGED <<m_expire, live, now, setBack, crashed, m_actor_mod>>

\* Mutant of AdjustProactor: the time is added to what was left.
AdjustAdds(t) ==
  /\ Running /\ m_actor_mod = 1 /\ t \in live
  /\ m_expire' = [m_expire EXCEPT ![t] = @ + Timeout]
  /\ list' = Adjusted(list, m_expire', t)
  /\ UNCHANGED <<live, now, setBack, crashed, m_actor_mod>>

\* WebServer::adjust_timer() of the proactor.
AdjustProactor(t) ==
  /\ Running /\ m_actor_mod = 1 /\ t \in live
  /\ m_expire' = [m_expire EXCEPT ![t] = now + Timeout]
  /\ list' = Adjusted(list, m_expire', t)
  /\ UNCHANGED <<live, now, setBack, crashed, m_actor_mod>>

\* tick().  The test before "m_head->m_pre = nullptr" is the wrong way round: the new
\* head keeps its m_pre, and when nothing is left the null m_head is written through.
Tick ==
  /\ Running
  /\ IF list.head = None
       THEN UNCHANGED timerListVars
       ELSE LET kept == FirstKept(list, m_expire)
                due == Passed(list, kept)
            IN /\ live' = live \ due
               /\ list' = Forgotten([list EXCEPT !.head = kept], due)
               /\ m_expire' = Expiries(due)
               /\ crashed' = (kept = None)
               /\ UNCHANGED <<now, setBack, m_actor_mod>>

Clock ==
  /\ Running
  /\ \/ now < MaxTime /\ now' = now + 1 /\ UNCHANGED setBack
     \/ now > 0 /\ now' = now - 1 /\ setBack' = TRUE
  /\ UNCHANGED <<list, m_expire, live, crashed, m_actor_mod>>

Next ==
  \/ \E t \in Timers : Add(t) \/ Del(t) \/ AdjustReactor(t) \/ AdjustProactor(t)
  \/ Tick
  \/ Clock

Spec == Init /\ [][Next]_timerListVars

-----------------------------------------------------------------------------

Size == Cardinality(live)

\* The list as following m_next from m_head shows it.
Nth[n \in 1..(Size + 1)] ==
  IF n = 1 THEN list.head ELSE IF Nth[n - 1] = None THEN None ELSE list.next[Nth[n - 1]]

(* The pointers make one list of exactly the allocated timers, in both directions:   *)
(* no method ever reaches a deleted timer, and none is forgotten.  (The m_pre that   *)
(* tick() leaves in the head points at a deleted timer; no method follows it.)       *)
ListLinked ==
  Running =>
    /\ {Nth[i] : i \in 1..Size} = live
    /\ Nth[Size + 1] = None
    /\ live # {} => list.tail = Nth[Size]
    /\ \A i \in 2..Size : list.pre[Nth[i]] = Nth[i - 1]

(* timers.h:42: the list ascends in the expiry times, which lets tick() stop at the  *)
(* first timer that is not due.  That holds as long as the clock is not set back: a   *)
(* timer that has to move towards the head stays where it is.                         *)
Ascending ==
  Running /\ ~setBack => \A i \in 1..(Size - 1) : m_expire[Nth[i]] <= m_expire[Nth[i + 1]]

(* tick() closes the connections whose time is over and deletes their timers, every   *)
(* one and no other, again as long as the clock is not set back.                      *)
TickClosesDue ==
  [][Tick /\ ~setBack => live \ live' = {t \in live : m_expire[t] <= now}]_timerListVars
=============================================================================
