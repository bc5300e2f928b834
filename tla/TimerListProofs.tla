-------------------------- MODULE TimerListProofs --------------------------
(***************************************************************************)
(* What holds of the timer list for every number of timers and all times:  *)
(* that the pointers make one list of the allocated timers under every     *)
(* call, and that the list ascends until the clock is set back.            *)
(***************************************************************************)
EXTENDS TimerList, FiniteSetTheorems, FunctionTheorems, WellFoundedInduction, TLAPS

\* A set of numbers that is not empty has a least one.
LEMMA Least == ASSUME NEW T \in SUBSET Nat, T # {} PROVE \E m \in T : \A n \in T : m <= n
<1> DEFINE F == {1..n : n \in T}
           R == StrictSubsetOrdering(Nat)
<1>1. F # {} /\ F \subseteq FiniteSubsetsOf(Nat)
  <2>1. \A n \in T : 1..n \subseteq Nat /\ IsFiniteSet(1..n)
    BY FS_Interval
  <2>2. QED
    BY <2>1 DEF FiniteSubsetsOf
<1>2. IsWellFoundedOn(R, FiniteSubsetsOf(Nat))
  BY FS_StrictSubsetOrderingWellFounded
<1> HIDE DEF R, F
<1>3. \E x \in F : \A y \in F : ~ (<<y, x>> \in R)
  BY <1>1, <1>2, WFMin
<1>4. PICK m \in T : \A n \in T : <<1..n, 1..m>> \notin R
  BY <1>3 DEF F
<1>5. ASSUME NEW n \in T, n < m PROVE FALSE
  <2>1. 1..n \subseteq Nat /\ 1..m \subseteq Nat /\ 1..n \subseteq 1..m /\ m \in 1..m /\ m \notin 1..n
    BY <1>5
  <2>2. <<1..n, 1..m>> \in R
    BY <2>1, Zenon DEF R, StrictSubsetOrdering
  <2>3. QED
    BY <1>4, <2>2
<1>6. QED
  BY <1>4, <1>5

-----------------------------------------------------------------------------
(* A list is a function s from 1..n+1 to its n timers, in their order, and None at n+1. *)

Lists(n) ==
  {s \in [1..(n + 1) -> Pointer] :
     /\ \A i \in 1..(n + 1) : s[i] = None <=> i = n + 1
     /\ \A i, j \in 1..(n + 1) : s[i] = s[j] => i = j}

On(s, n) == {s[i] : i \in 1..n}

\* What m_head and m_next say.
Forward(l, n, s) ==
  /\ l.head = s[1]
  /\ \A i \in 1..n : l.next[s[i]] = s[i + 1]

\* The first place from i on that is in S, or the end.
Halt(s, n, S, i) ==
  CHOOSE k \in i..(n + 1) : s[k] \in S \cup {None} /\ \A m \in i..(k - 1) : s[m] \notin S \cup {None}

LEMMA Halts ==
  ASSUME NEW n \in Nat, NEW s \in Lists(n), NEW S, NEW i \in 1..(n + 1)
  PROVE  /\ Halt(s, n, S, i) \in i..(n + 1)
         /\ s[Halt(s, n, S, i)] \in S \cup {None}
         /\ \A m \in i..(Halt(s, n, S, i) - 1) : s[m] \notin S \cup {None}
         /\ \A k \in i..(n + 1) :
              s[k] \in S \cup {None} /\ (\A m \in i..(k - 1) : s[m] \notin S \cup {None})
                => k = Halt(s, n, S, i)
<1> DEFINE T == {k \in i..(n + 1) : s[k] \in S \cup {None}}
<1>1. n + 1 \in T /\ T \in SUBSET Nat
  BY DEF Lists
<1>2. PICK k \in T : \A m \in T : k <= m
  BY <1>1, Least
<1>3. k \in i..(n + 1) /\ s[k] \in S \cup {None} /\ \A m \in i..(k - 1) : s[m] \notin S \cup {None}
  BY <1>2
<1>4. /\ Halt(s, n, S, i) \in i..(n + 1)
      /\ s[Halt(s, n, S, i)] \in S \cup {None}
      /\ \A m \in i..(Halt(s, n, S, i) - 1) : s[m] \notin S \cup {None}
  BY <1>3 DEF Halt
<1>5. PICK h \in i..(n + 1) : h = Halt(s, n, S, i)
  BY <1>4
<1>6. ASSUME NEW j \in i..(n + 1), s[j] \in S \cup {None}, \A m \in i..(j - 1) : s[m] \notin S \cup {None}
      PROVE  j = h
  <2>1. ~(j < h)
    <3>1. ASSUME j < h PROVE FALSE
      <4>1. j \in i..(h - 1)
        BY <3>1
      <4>2. QED
        BY <1>4, <1>5, <1>6, <4>1
    <3>2. QED
      BY <3>1
  <2>2. ~(h < j)
    <3>1. ASSUME h < j PROVE FALSE
      <4>1. h \in i..(j - 1)
        BY <3>1
      <4>2. QED
        BY <1>4, <1>5, <1>6, <4>1
    <3>2. QED
      BY <3>1
  <2>3. QED
    BY <2>1, <2>2
<1>7. QED
  BY <1>4, <1>5, <1>6

\* The index of a timer in the list.
Place(s, n, p) == CHOOSE i \in 1..(n + 1) : s[i] = p

LEMMA Placing ==
  ASSUME NEW n \in Nat, NEW s \in Lists(n)
  PROVE  /\ \A i \in 1..(n + 1) : Place(s, n, s[i]) = i
         /\ \A p \in On(s, n) \cup {None} : Place(s, n, p) \in 1..(n + 1) /\ s[Place(s, n, p)] = p
         /\ \A i \in 1..(n + 1) : s[i] \in Pointer
         /\ \A i \in 1..n : s[i] \in Timers /\ s[i] # None
         /\ s[n + 1] = None
<1>1. /\ s \in [1..(n + 1) -> Pointer]
      /\ \A i \in 1..(n + 1) : s[i] = None <=> i = n + 1
      /\ \A i, j \in 1..(n + 1) : s[i] = s[j] => i = j
  BY DEF Lists
<1>2. \A i \in 1..(n + 1) : Place(s, n, s[i]) = i
  BY <1>1 DEF Place
<1>3. \A p \in On(s, n) \cup {None} : \E i \in 1..(n + 1) : p = s[i]
  <2>1. n + 1 \in 1..(n + 1) /\ s[n + 1] = None /\ \A i \in 1..n : i \in 1..(n + 1)
    BY <1>1
  <2>2. QED
    BY <2>1 DEF On
<1>4. \A p \in On(s, n) \cup {None} : Place(s, n, p) \in 1..(n + 1) /\ s[Place(s, n, p)] = p
  BY <1>3 DEF Place
<1>5. \A i \in 1..n : s[i] \in Timers /\ s[i] # None
  <2>1. \A i \in 1..n : i \in 1..(n + 1) /\ i # n + 1
    OBVIOUS
  <2>2. QED
    BY <1>1, <2>1 DEF Pointer
<1>6. QED
  BY <1>1, <1>2, <1>4, <1>5

LEMMA HaltStep ==
  ASSUME NEW n \in Nat, NEW s \in Lists(n), NEW S, NEW i \in 1..(n + 1)
  PROVE  /\ s[i] \in S \cup {None} => Halt(s, n, S, i) = i
         /\ s[i] \notin S \cup {None} => i \in 1..n /\ Halt(s, n, S, i) = Halt(s, n, S, i + 1)
<1>1. ASSUME s[i] \in S \cup {None} PROVE Halt(s, n, S, i) = i
  <2>1. i \in i..(n + 1) /\ i..(i - 1) = {}
    OBVIOUS
  <2>2. QED
    BY <1>1, <2>1, Halts
<1>2. ASSUME s[i] \notin S \cup {None} PROVE i \in 1..n /\ Halt(s, n, S, i) = Halt(s, n, S, i + 1)
  <2>1. i # n + 1
    BY <1>2, Placing
  <2>2. i \in 1..n /\ i + 1 \in 1..(n + 1)
    BY <2>1
  <2>3. PICK h \in (i + 1)..(n + 1) : h = Halt(s, n, S, i + 1)
    BY <2>2, Halts
  <2>4. s[h] \in S \cup {None} /\ \A m \in (i + 1)..(h - 1) : s[m] \notin S \cup {None}
    BY <2>2, <2>3, Halts
  <2>5. h \in i..(n + 1) /\ \A m \in i..(h - 1) : m = i \/ m \in (i + 1)..(h - 1)
    OBVIOUS
  <2>6. h = Halt(s, n, S, i)
    BY <1>2, <2>4, <2>5, Halts
  <2>7. QED
    BY <2>2, <2>3, <2>6
<1>3. QED
  BY <1>1, <1>2

\* Following m_next from the head, the walk of First() stops where the list halts.  What is
\* not in the list points nowhere or into it.
LEMMA FirstIs ==
  ASSUME NEW n \in Nat, NEW s \in Lists(n), NEW l, Forward(l, n, s), NEW S,
         \A p \in Timers \ On(s, n) : l.next[p] \in On(s, n) \cup {None}
  PROVE  First(l, S) = s[Halt(s, n, S, 1)]
<1> DEFINE Z == S \cup {None}
           H(i) == s[Halt(s, n, S, i)]
           Walk[p \in Pointer] == IF p \in Z THEN p ELSE Walk[l.next[p]]
           w == [p \in Pointer |->
                   IF p \in On(s, n) \cup {None} THEN H(Place(s, n, p))
                   ELSE IF p \in Z THEN p ELSE H(Place(s, n, l.next[p]))]
<1>1. ASSUME NEW i \in 1..(n + 1)
      PROVE  /\ s[i] \in Z => H(i) = s[i]
             /\ s[i] \notin Z => i \in 1..n /\ H(i) = H(i + 1)
  BY HaltStep
<1>2. \A i \in 1..(n + 1) : s[i] \in On(s, n) \cup {None} /\ w[s[i]] = H(i)
  <2>1. \A i \in 1..(n + 1) : i \in 1..n \/ i = n + 1
    OBVIOUS
  <2>2. \A i \in 1..(n + 1) : s[i] \in On(s, n) \cup {None}
    BY <2>1, Placing DEF On
  <2>3. QED
    BY <2>2, Placing
<1>3. w = [p \in Pointer |-> IF p \in Z THEN p ELSE w[l.next[p]]]
  <2>1. ASSUME NEW p \in Pointer PROVE w[p] = IF p \in Z THEN p ELSE w[l.next[p]]
    <3>1. CASE p \in On(s, n) \cup {None}
      <4>1. PICK i \in 1..(n + 1) : s[i] = p
        BY <3>1, Placing
      <4>2. CASE p \in Z
        BY <1>1, <1>2, <4>1, <4>2
      <4>3. CASE p \notin Z
        <5>1. i \in 1..n /\ H(i) = H(i + 1)
          BY <1>1, <4>1, <4>3
        <5>2. l.next[p] = s[i + 1] /\ i + 1 \in 1..(n + 1)
          BY <4>1, <5>1 DEF Forward
        <5>3. w[p] = H(i) /\ w[l.next[p]] = H(i + 1)
          BY <1>2, <4>1, <5>2
        <5>4. QED
          BY <4>3, <5>1, <5>3
      <4>4. QED
        BY <4>2, <4>3
    <3>2. CASE p \notin On(s, n) \cup {None}
      <4>1. l.next[p] \in On(s, n) \cup {None}
        BY <3>2 DEF Pointer
      <4>2. PICK i \in 1..(n + 1) : s[i] = l.next[p]
        BY <4>1, Placing
      <4>3. w[l.next[p]] = H(i) /\ Place(s, n, l.next[p]) = i
        BY <1>2, <4>2, Placing
      <4>4. QED
        BY <3>2, <4>3
    <3>3. QED
      BY <3>1, <3>2
  <2> HIDE DEF H, Z
  <2>2. QED
    BY <2>1
<1> HIDE DEF w
<1>4. Walk = [p \in Pointer |-> IF p \in Z THEN p ELSE Walk[l.next[p]]]
  <2>1. Walk = CHOOSE f : f = [p \in Pointer |-> IF p \in Z THEN p ELSE f[l.next[p]]]
    BY DEF Walk
  <2> HIDE DEF Z
  <2>2. QED
    BY <1>3, <2>1
<1>5. First(l, S) = Walk[l.head]
  BY DEF First
<1> HIDE DEF Walk
<1>6. ASSUME NEW i \in 1..(n + 1) PROVE Walk[s[i]] = H(i)
  <2> DEFINE T == {d \in 0..n : Walk[s[n + 1 - d]] # H(n + 1 - d)}
  <2>1. ASSUME T # {} PROVE FALSE
    <3>0. T \in SUBSET Nat
      OBVIOUS
    <3>1. PICK d \in T : \A e \in T : d <= e
      <4> HIDE DEF T
      <4>1. QED
        BY <2>1, <3>0, Least
    <3>2. PICK j \in 1..(n + 1) : j = n + 1 - d
      OBVIOUS
    <3>3. Walk[s[j]] # H(j) /\ s[j] \in Pointer
      BY <3>2, Placing
    <3>4. s[j] \notin Z
      BY <1>1, <1>4, <3>3
    <3>5. j \in 1..n /\ H(j) = H(j + 1) /\ Walk[s[j]] = Walk[s[j + 1]]
      BY <1>1, <1>4, <3>3, <3>4 DEF Forward
    <3>6. d - 1 \in 0..n /\ j + 1 = n + 1 - (d - 1) /\ ~(d <= d - 1)
      BY <3>2, <3>5
    <3>7. d - 1 \in T
      BY <3>3, <3>5, <3>6
    <3>8. QED
      BY <3>1, <3>6, <3>7
  <2>2. n + 1 - i \in 0..n /\ n + 1 - (n + 1 - i) = i
    OBVIOUS
  <2>3. QED
    BY <2>1, <2>2
<1>7. 1 \in 1..(n + 1) /\ l.head = s[1]
  BY DEF Forward
<1>8. QED
  BY <1>5, <1>6, <1>7

\* The timers that the walk of Passed() collects.
LEMMA PassedIs ==
  ASSUME NEW n \in Nat, NEW s \in Lists(n), NEW l, Forward(l, n, s), NEW j \in 1..(n + 1),
         \A p \in Timers \ On(s, n) : l.next[p] \in On(s, n) \cup {None}
  PROVE  Passed(l, s[j]) = {s[k] : k \in 1..(j - 1)}
<1> DEFINE Z == {s[j], None}
           V(i) == {s[k] : k \in i..(Halt(s, n, {s[j]}, i) - 1)}
           Walk[q \in Pointer] == IF q \in Z THEN {} ELSE {q} \cup Walk[l.next[q]]
           w == [q \in Pointer |->
                   IF q \in On(s, n) \cup {None} THEN V(Place(s, n, q))
                   ELSE {q} \cup V(Place(s, n, l.next[q]))]
<1>0. Z = {s[j]} \cup {None}
  OBVIOUS
<1>1. ASSUME NEW i \in 1..(n + 1)
      PROVE  /\ s[i] \in Z => V(i) = {}
             /\ s[i] \notin Z => i \in 1..n /\ V(i) = {s[i]} \cup V(i + 1)
  <2>1. ASSUME s[i] \in Z PROVE V(i) = {}
    <3>1. Halt(s, n, {s[j]}, i) = i /\ i..(i - 1) = {}
      BY <1>0, <2>1, HaltStep
    <3>2. QED
      BY <3>1
  <2>2. ASSUME s[i] \notin Z PROVE i \in 1..n /\ V(i) = {s[i]} \cup V(i + 1)
    <3>1. i \in 1..n /\ Halt(s, n, {s[j]}, i) = Halt(s, n, {s[j]}, i + 1)
      BY <1>0, <2>2, HaltStep
    <3>2. PICK h \in (i + 1)..(n + 1) : h = Halt(s, n, {s[j]}, i + 1)
      BY <3>1, Halts
    <3>3. \A k : k \in i..(h - 1) <=> k = i \/ k \in (i + 1)..(h - 1)
      BY <3>1
    <3>4. V(i) = {s[k] : k \in i..(h - 1)} /\ V(i + 1) = {s[k] : k \in (i + 1)..(h - 1)}
      BY <3>1, <3>2
    <3> HIDE DEF V
    <3>5. QED
      BY <3>1, <3>3, <3>4
  <2>3. QED
    BY <2>1, <2>2
<1> HIDE DEF V
<1>2. \A i \in 1..(n + 1) : s[i] \in On(s, n) \cup {None} /\ w[s[i]] = V(i)
  <2>1. \A i \in 1..(n + 1) : i \in 1..n \/ i = n + 1
    OBVIOUS
  <2>2. \A i \in 1..(n + 1) : s[i] \in On(s, n) \cup {None}
    BY <2>1, Placing DEF On
  <2>3. QED
    BY <2>2, Placing
<1>3. w = [q \in Pointer |-> IF q \in Z THEN {} ELSE {q} \cup w[l.next[q]]]
  <2>1. ASSUME NEW q \in Pointer PROVE w[q] = IF q \in Z THEN {} ELSE {q} \cup w[l.next[q]]
    <3>1. CASE q \in On(s, n) \cup {None}
      <4>1. PICK i \in 1..(n + 1) : s[i] = q
        BY <3>1, Placing
      <4>2. CASE q \in Z
        BY <1>1, <1>2, <4>1, <4>2
      <4>3. CASE q \notin Z
        <5>1. i \in 1..n /\ V(i) = {q} \cup V(i + 1)
          BY <1>1, <4>1, <4>3
        <5>2. l.next[q] = s[i + 1] /\ i + 1 \in 1..(n + 1)
          BY <4>1, <5>1 DEF Forward
        <5>3. w[q] = V(i) /\ w[l.next[q]] = V(i + 1)
          BY <1>2, <4>1, <5>2
        <5>4. QED
          BY <4>3, <5>1, <5>3
      <4>4. QED
        BY <4>2, <4>3
    <3>2. CASE q \notin On(s, n) \cup {None}
      <4>1. l.next[q] \in On(s, n) \cup {None}
        BY <3>2 DEF Pointer
      <4>2. PICK i \in 1..(n + 1) : s[i] = l.next[q]
        BY <4>1, Placing
      <4>3. w[l.next[q]] = V(i) /\ Place(s, n, l.next[q]) = i
        BY <1>2, <4>2, Placing
      <4>4. q \notin Z
        BY <1>2, <3>2
      <4>5. w[q] = {q} \cup V(Place(s, n, l.next[q]))
        BY <3>2
      <4>6. QED
        BY <4>3, <4>4, <4>5
    <3>3. QED
      BY <3>1, <3>2
  <2>2. w = [q \in Pointer |-> w[q]]
    OBVIOUS
  <2> HIDE DEF w, Z
  <2>3. QED
    BY <2>1, <2>2
<1> HIDE DEF w
<1>4. Walk = [q \in Pointer |-> IF q \in Z THEN {} ELSE {q} \cup Walk[l.next[q]]]
  <2>1. Walk = CHOOSE f : f = [q \in Pointer |-> IF q \in Z THEN {} ELSE {q} \cup f[l.next[q]]]
    BY DEF Walk
  <2> HIDE DEF Z
  <2>2. QED
    BY <1>3, <2>1
<1>5. Passed(l, s[j]) = Walk[l.head]
  BY DEF Passed
<1> HIDE DEF Walk
<1>6. ASSUME NEW i \in 1..(n + 1) PROVE Walk[s[i]] = V(i)
  <2> DEFINE T == {d \in 0..n : Walk[s[n + 1 - d]] # V(n + 1 - d)}
  <2>1. ASSUME T # {} PROVE FALSE
    <3>0. T \in SUBSET Nat
      OBVIOUS
    <3>1. PICK d \in T : \A e \in T : d <= e
      <4> HIDE DEF T
      <4>1. QED
        BY <2>1, <3>0, Least
    <3>2. PICK k \in 1..(n + 1) : k = n + 1 - d
      OBVIOUS
    <3>3. Walk[s[k]] # V(k) /\ s[k] \in Pointer
      BY <3>2, Placing
    <3>4. s[k] \notin Z
      BY <1>1, <1>4, <3>3
    <3>5. k \in 1..n /\ V(k) = {s[k]} \cup V(k + 1) /\ Walk[s[k]] = {s[k]} \cup Walk[s[k + 1]]
      BY <1>1, <1>4, <3>3, <3>4 DEF Forward
    <3>6. d - 1 \in 0..n /\ k + 1 = n + 1 - (d - 1) /\ ~(d <= d - 1)
      BY <3>2, <3>5
    <3>7. d - 1 \in T
      BY <3>3, <3>5, <3>6
    <3>8. QED
      BY <3>1, <3>6, <3>7
  <2>2. n + 1 - i \in 0..n /\ n + 1 - (n + 1 - i) = i
    OBVIOUS
  <2>3. QED
    BY <2>1, <2>2
<1>7. 1 \in 1..(n + 1) /\ l.head = s[1]
  BY DEF Forward
<1>8. Halt(s, n, {s[j]}, 1) = j
  <2>1. j \in 1..(n + 1) /\ s[j] \in {s[j]} \cup {None}
    OBVIOUS
  <2>2. \A m \in 1..(j - 1) : s[m] \notin {s[j]} \cup {None}
    <3>1. \A m \in 1..(j - 1) : m \in 1..n /\ m \in 1..(n + 1) /\ m # j
      OBVIOUS
    <3>2. QED
      BY <3>1, Placing
  <2>3. QED
    BY <1>7, <2>1, <2>2, Halts
<1>9. V(1) = {s[k] : k \in 1..(j - 1)}
  BY <1>8 DEF V
<1>10. QED
  BY <1>5, <1>6, <1>7, <1>9

\* What Nth shows is the list.
LEMMA NthIs ==
  ASSUME NEW n \in Nat, NEW s \in Lists(n), Forward(list, n, s), Size = n
  PROVE  \A i \in 1..(n + 1) : Nth[i] = s[i]
<1> DEFINE Good(f) == f = [i \in 1..(n + 1) |->
             IF i = 1 THEN list.head ELSE IF f[i - 1] = None THEN None ELSE list.next[f[i - 1]]]
<1>1. Good(s)
  <2>1. s = [i \in 1..(n + 1) |-> s[i]]
    BY DEF Lists
  <2>2. ASSUME NEW i \in 1..(n + 1)
        PROVE  s[i] = IF i = 1 THEN list.head ELSE IF s[i - 1] = None THEN None ELSE list.next[s[i - 1]]
    <3>1. CASE i = 1
      BY <3>1 DEF Forward
    <3>2. CASE i # 1
      <4>1. i - 1 \in 1..n /\ (i - 1) + 1 = i
        BY <3>2
      <4>2. s[i - 1] # None /\ list.next[s[i - 1]] = s[i]
        BY <4>1, Placing DEF Forward
      <4>3. QED
        BY <3>2, <4>2
    <3>3. QED
      BY <3>1, <3>2
  <2>3. QED
    BY <2>1, <2>2
<1>2. Nth = CHOOSE f : Good(f)
  BY DEF Nth
<1>3. Good(Nth)
  <2> HIDE DEF Good
  <2>1. QED
    BY <1>1, <1>2
<1>4. ASSUME NEW i \in 1..(n + 1), Nth[i] # s[i] PROVE FALSE
  <2> DEFINE T == {k \in 1..(n + 1) : Nth[k] # s[k]}
  <2>1. T # {} /\ T \in SUBSET Nat
    BY <1>4
  <2>2. PICK k \in T : \A m \in T : k <= m
    <3> HIDE DEF T
    <3>1. QED
      BY <2>1, Least
  <2>3. CASE k = 1
    BY <1>3, <2>2, <2>3 DEF Forward
  <2>4. CASE k # 1
    <3>1. k - 1 \in 1..n /\ k - 1 \in 1..(n + 1) /\ (k - 1) + 1 = k /\ ~(k <= k - 1)
      BY <2>4
    <3>2. Nth[k - 1] = s[k - 1]
      BY <2>2, <3>1
    <3>3. s[k - 1] # None /\ list.next[s[k - 1]] = s[k]
      BY <3>1, Placing DEF Forward
    <3>4. Nth[k] = list.next[s[k - 1]]
      BY <1>3, <2>4, <3>2, <3>3
    <3>5. QED
      BY <2>2, <3>3, <3>4
  <2>5. QED
    BY <2>3, <2>4
<1>5. QED
  BY <1>4

-----------------------------------------------------------------------------
(* What the assignments to the pointers do. *)

ListType == [head : Pointer, tail : Pointer, next : [Timers -> Pointer], pre : [Timers -> Pointer]]

\* Insert() in the middle and at the end, Added() at the head.
Between(l, p, t, q) == [l EXCEPT !.next[p] = t, !.pre[t] = p, !.next[t] = q, !.pre[q] = t]
AtTail(l, t) == [l EXCEPT !.next[l.tail] = t, !.pre[t] = l.tail, !.next[t] = None, !.tail = t]
AtHead(l, t) == [l EXCEPT !.next[t] = l.head, !.pre[l.head] = t, !.head = t]

IsBetween(m, l, p, t, q) ==
  /\ m \in ListType /\ m.head = l.head /\ m.tail = l.tail
  /\ \A r \in Timers : m.next[r] = IF r = t THEN q ELSE IF r = p THEN t ELSE l.next[r]
  /\ \A r \in Timers : m.pre[r] = IF r = q THEN t ELSE IF r = t THEN p ELSE l.pre[r]

LEMMA BetweenSets ==
  ASSUME NEW l \in ListType, NEW p \in Timers, NEW t \in Timers, NEW q \in Timers
  PROVE  IsBetween(Between(l, p, t, q), l, p, t, q)
<1> DEFINE m == Between(l, p, t, q)
<1>1. /\ m.head = l.head /\ m.tail = l.tail
      /\ m.next = [[l.next EXCEPT ![p] = t] EXCEPT ![t] = q]
      /\ m.pre = [[l.pre EXCEPT ![t] = p] EXCEPT ![q] = t]
  BY DEF ListType, Between
<1>2. l.next \in [Timers -> Pointer] /\ l.pre \in [Timers -> Pointer] /\ {p, t, q} \subseteq Pointer
  BY DEF ListType, Pointer
<1>3. m.next \in [Timers -> Pointer] /\ m.pre \in [Timers -> Pointer]
  BY <1>1, <1>2
<1>4. m \in ListType
  BY <1>1, <1>3 DEF ListType, Between
<1>5. QED
  BY <1>1, <1>2, <1>4 DEF m, IsBetween

LEMMA AtTailSets ==
  ASSUME NEW l \in ListType, l.tail \in Timers, NEW t \in Timers
  PROVE  /\ AtTail(l, t) \in ListType /\ AtTail(l, t).head = l.head /\ AtTail(l, t).tail = t
         /\ \A r \in Timers : AtTail(l, t).next[r] =
                                IF r = t THEN None ELSE IF r = l.tail THEN t ELSE l.next[r]
         /\ \A r \in Timers : AtTail(l, t).pre[r] = IF r = t THEN l.tail ELSE l.pre[r]
<1> DEFINE m == AtTail(l, t)
<1>1. /\ m.head = l.head /\ m.tail = t
      /\ m.next = [[l.next EXCEPT ![l.tail] = t] EXCEPT ![t] = None]
      /\ m.pre = [l.pre EXCEPT ![t] = l.tail]
  BY DEF ListType, AtTail
<1>2. l.next \in [Timers -> Pointer] /\ l.pre \in [Timers -> Pointer] /\ {t, l.tail, None} \subseteq Pointer
  BY DEF ListType, Pointer
<1>3. m.next \in [Timers -> Pointer] /\ m.pre \in [Timers -> Pointer]
  BY <1>1, <1>2
<1>4. m \in ListType
  BY <1>1, <1>2, <1>3 DEF ListType, AtTail
<1>5. QED
  BY <1>1, <1>2, <1>4 DEF m

LEMMA AtHeadSets ==
  ASSUME NEW l \in ListType, l.head \in Timers, NEW t \in Timers
  PROVE  /\ AtHead(l, t) \in ListType /\ AtHead(l, t).head = t /\ AtHead(l, t).tail = l.tail
         /\ \A r \in Timers : AtHead(l, t).next[r] = IF r = t THEN l.head ELSE l.next[r]
         /\ \A r \in Timers : AtHead(l, t).pre[r] = IF r = l.head THEN t ELSE l.pre[r]
<1> DEFINE m == AtHead(l, t)
<1>1. /\ m.head = t /\ m.tail = l.tail
      /\ m.next = [l.next EXCEPT ![t] = l.head]
      /\ m.pre = [l.pre EXCEPT ![l.head] = t]
  BY DEF ListType, AtHead
<1>2. l.next \in [Timers -> Pointer] /\ l.pre \in [Timers -> Pointer] /\ {t, l.head} \subseteq Pointer
  BY DEF ListType, Pointer
<1>3. m.next \in [Timers -> Pointer] /\ m.pre \in [Timers -> Pointer]
  BY <1>1, <1>2
<1>4. m \in ListType
  BY <1>1, <1>2, <1>3 DEF ListType, AtHead
<1>5. QED
  BY <1>1, <1>2, <1>4 DEF m

LEMMA UnlinkedSets ==
  ASSUME NEW l \in ListType, NEW t \in Timers, l.pre[t] \in Timers, l.next[t] \in Timers
  PROVE  /\ Unlinked(l, t) \in ListType /\ Unlinked(l, t).head = l.head /\ Unlinked(l, t).tail = l.tail
         /\ \A r \in Timers : Unlinked(l, t).next[r] = IF r = l.pre[t] THEN l.next[t] ELSE l.next[r]
         /\ \A r \in Timers : Unlinked(l, t).pre[r] = IF r = l.next[t] THEN l.pre[t] ELSE l.pre[r]
<1> DEFINE m == Unlinked(l, t)
<1>1. /\ m.head = l.head /\ m.tail = l.tail
      /\ m.next = [l.next EXCEPT ![l.pre[t]] = l.next[t]]
      /\ m.pre = [l.pre EXCEPT ![l.next[t]] = l.pre[t]]
  BY DEF ListType, Unlinked
<1>2. l.next \in [Timers -> Pointer] /\ l.pre \in [Timers -> Pointer] /\ {l.next[t], l.pre[t]} \subseteq Pointer
  BY DEF ListType, Pointer
<1>3. m.next \in [Timers -> Pointer] /\ m.pre \in [Timers -> Pointer]
  BY <1>1, <1>2
<1>4. m \in ListType
  BY <1>1, <1>3 DEF ListType, Unlinked
<1> HIDE DEF m
<1>5. QED
  BY <1>1, <1>2, <1>4 DEF m

LEMMA BeheadedSets ==
  ASSUME NEW l \in ListType, l.head \in Timers, l.next[l.head] \in Timers
  PROVE  /\ BeheadedOf(l) \in ListType /\ BeheadedOf(l).head = l.next[l.head] /\ BeheadedOf(l).tail = l.tail
         /\ BeheadedOf(l).next = l.next
         /\ \A r \in Timers : BeheadedOf(l).pre[r] = IF r = l.next[l.head] THEN None ELSE l.pre[r]
<1> DEFINE m == BeheadedOf(l)
<1>1. /\ m.head = l.next[l.head] /\ m.tail = l.tail /\ m.next = l.next
      /\ m.pre = [l.pre EXCEPT ![l.next[l.head]] = None]
  BY DEF ListType, BeheadedOf
<1>2. l.next \in [Timers -> Pointer] /\ l.pre \in [Timers -> Pointer] /\ {l.next[l.head], None} \subseteq Pointer
  BY DEF ListType, Pointer
<1>3. m.next \in [Timers -> Pointer] /\ m.pre \in [Timers -> Pointer]
  BY <1>1, <1>2
<1>4. m \in ListType
  BY <1>1, <1>2, <1>3 DEF ListType, BeheadedOf
<1> HIDE DEF m
<1>5. QED
  BY <1>1, <1>2, <1>4 DEF m

LEMMA ForgottenSets ==
  ASSUME NEW l \in ListType, NEW gone
  PROVE  /\ Forgotten(l, gone) \in ListType
         /\ Forgotten(l, gone).head = l.head /\ Forgotten(l, gone).tail = l.tail
         /\ \A r \in Timers : Forgotten(l, gone).next[r] = IF r \in gone THEN None ELSE l.next[r]
         /\ \A r \in Timers : Forgotten(l, gone).pre[r] = IF r \in gone THEN None ELSE l.pre[r]
<1> DEFINE m == Forgotten(l, gone)
<1>1. /\ m.head = l.head /\ m.tail = l.tail
      /\ m.next = [t \in Timers |-> IF t \in gone THEN None ELSE l.next[t]]
      /\ m.pre = [t \in Timers |-> IF t \in gone THEN None ELSE l.pre[t]]
  BY DEF ListType, Forgotten
<1>2. l.next \in [Timers -> Pointer] /\ l.pre \in [Timers -> Pointer] /\ None \in Pointer
  BY DEF ListType, Pointer
<1>3. m.next \in [Timers -> Pointer] /\ m.pre \in [Timers -> Pointer]
  BY <1>1, <1>2
<1>4. m \in ListType
  BY <1>1, <1>2, <1>3 DEF ListType, Forgotten
<1> HIDE DEF m
<1>5. QED
  BY <1>1, <1>2, <1>4 DEF m

-----------------------------------------------------------------------------
(* A timer put into the list behind the k-th, the k-th taken out, and the first j - 1. *)

PutIn(s, n, k, t) ==
  [i \in 1..(n + 2) |-> IF i <= k THEN s[i] ELSE IF i = k + 1 THEN t ELSE s[i - 1]]
TakeOut(s, n, k) == [i \in 1..n |-> IF i < k THEN s[i] ELSE s[i + 1]]
From(s, n, j) == [i \in 1..(n - j + 2) |-> s[i + j - 1]]

LEMMA Listed ==
  ASSUME NEW n \in Nat, NEW s \in Lists(n)
  PROVE  /\ \A i, j \in 1..(n + 1) : s[i] = s[j] => i = j
         /\ \A i \in 1..(n + 1) : s[i] = None <=> i = n + 1
         /\ \A i \in 1..(n + 1) : s[i] \in Pointer
         /\ \A i \in 1..n : s[i] \in On(s, n) /\ s[i] \in Timers /\ s[i] # None
         /\ \A p \in On(s, n) : p \in Timers /\ \E i \in 1..n : p = s[i]
BY Placing DEF Lists, On

LEMMA PutInListed ==
  ASSUME NEW n \in Nat, NEW s \in Lists(n), NEW k \in 0..n, NEW t \in Timers \ On(s, n)
  PROVE  /\ PutIn(s, n, k, t) \in Lists(n + 1)
         /\ On(PutIn(s, n, k, t), n + 1) = On(s, n) \cup {t}
         /\ \A i \in 1..k : PutIn(s, n, k, t)[i] = s[i]
         /\ PutIn(s, n, k, t)[k + 1] = t
         /\ \A i \in (k + 1)..(n + 1) : PutIn(s, n, k, t)[i + 1] = s[i]
<1> DEFINE u == PutIn(s, n, k, t)
<1>1. u \in [1..(n + 2) -> Pointer]
  <2>1. ASSUME NEW i \in 1..(n + 2) PROVE (IF i <= k THEN s[i] ELSE IF i = k + 1 THEN t ELSE s[i - 1]) \in Pointer
    <3>1. CASE i <= k
      <4>1. i \in 1..(n + 1)
        BY <3>1
      <4>2. QED
        BY <3>1, <4>1, Listed
    <3>2. CASE i = k + 1
      <4>1. ~(k + 1 <= k)
        OBVIOUS
      <4>2. QED
        BY <3>2, <4>1 DEF Pointer
    <3>3. CASE ~(i <= k) /\ i # k + 1
      <4>1. i - 1 \in 1..(n + 1)
        BY <3>3
      <4>2. QED
        BY <3>3, <4>1, Listed
    <3>4. QED
      BY <3>1, <3>2, <3>3
  <2>2. QED
    BY <2>1 DEF PutIn
<1>2. /\ \A i \in 1..k : u[i] = s[i] /\ i \in 1..(n + 1) /\ i # n + 1
      /\ u[k + 1] = t
      /\ \A i \in (k + 1)..(n + 1) : u[i + 1] = s[i] /\ i \in 1..(n + 1) /\ (i + 1) - 1 = i
  <2>1. \A i \in 1..k : i \in 1..(n + 2) /\ i <= k /\ i # n + 1
    OBVIOUS
  <2>2. k + 1 \in 1..(n + 2) /\ ~(k + 1 <= k)
    OBVIOUS
  <2>3. \A i \in (k + 1)..(n + 1) : /\ i + 1 \in 1..(n + 2) /\ ~(i + 1 <= k) /\ i + 1 # k + 1
                                    /\ (i + 1) - 1 = i /\ i \in 1..(n + 1)
    OBVIOUS
  <2>4. QED
    BY <2>1, <2>2, <2>3 DEF PutIn
<1>3. \A i \in 1..(n + 2) : \/ i \in 1..k
                            \/ i = k + 1
                            \/ \E j \in (k + 1)..(n + 1) : i = j + 1
  <2>1. ASSUME NEW i \in 1..(n + 2), i \notin 1..k, i # k + 1 PROVE \E j \in (k + 1)..(n + 1) : i = j + 1
    <3>1. i - 1 \in (k + 1)..(n + 1) /\ i = (i - 1) + 1
      BY <2>1
    <3>2. QED
      BY <3>1
  <2>2. QED
    BY <2>1
<1>4. t # None /\ \A i \in 1..(n + 1) : s[i] # t
  <2>1. t # None
    BY TimerAssumption
  <2>2. \A i \in 1..(n + 1) : i \in 1..n \/ s[i] = None
    BY Listed
  <2>3. QED
    BY <2>1, <2>2, Listed
<1> HIDE DEF u
<1>5. \A i \in 1..(n + 2) : u[i] = None <=> i = n + 2
  <2>1. ASSUME NEW i \in 1..k PROVE u[i] # None /\ i # n + 2
    BY <1>2, Listed
  <2>2. ASSUME NEW j \in (k + 1)..(n + 1) PROVE u[j + 1] = None <=> j + 1 = n + 2
    <3>1. s[j] = None <=> j = n + 1
      BY <1>2, Listed
    <3>2. QED
      BY <1>2, <3>1
  <2>3. k + 1 # n + 2
    OBVIOUS
  <2>4. QED
    BY <1>2, <1>3, <1>4, <2>1, <2>2, <2>3
<1>6. ASSUME NEW i \in 1..(n + 2), NEW j \in 1..(n + 2), u[i] = u[j] PROVE i = j
  <2>1. CASE i \in 1..k
    <3>1. CASE j \in 1..k
      BY <1>2, <1>6, <2>1, <3>1, Listed
    <3>2. CASE j = k + 1
      BY <1>2, <1>4, <1>6, <2>1, <3>2
    <3>3. ASSUME NEW b \in (k + 1)..(n + 1), j = b + 1 PROVE FALSE
      <4>1. s[i] = s[b] /\ i # b
        BY <1>2, <1>6, <2>1, <3>3
      <4>2. QED
        BY <1>2, <2>1, <4>1, Listed
    <3>4. QED
      BY <1>3, <3>1, <3>2, <3>3
  <2>2. CASE i = k + 1
    <3>1. CASE j \in 1..k
      BY <1>2, <1>4, <1>6, <2>2, <3>1
    <3>2. CASE j = k + 1
      BY <2>2, <3>2
    <3>3. ASSUME NEW b \in (k + 1)..(n + 1), j = b + 1 PROVE FALSE
      BY <1>2, <1>4, <1>6, <2>2, <3>3
    <3>4. QED
      BY <1>3, <3>1, <3>2, <3>3
  <2>3. ASSUME NEW a \in (k + 1)..(n + 1), i = a + 1 PROVE i = j
    <3>1. CASE j \in 1..k
      <4>1. s[j] = s[a] /\ j # a
        BY <1>2, <1>6, <2>3, <3>1
      <4>2. QED
        BY <1>2, <3>1, <4>1, Listed
    <3>2. CASE j = k + 1
      BY <1>2, <1>4, <1>6, <2>3, <3>2
    <3>3. ASSUME NEW b \in (k + 1)..(n + 1), j = b + 1 PROVE i = j
      <4>1. s[a] = s[b]
        BY <1>2, <1>6, <2>3, <3>3
      <4>2. a = b
        BY <1>2, <4>1, Listed
      <4>3. QED
        BY <2>3, <3>3, <4>2
    <3>4. QED
      BY <1>3, <3>1, <3>2, <3>3
  <2>4. QED
    BY <1>3, <2>1, <2>2, <2>3
<1>7. (n + 1) + 1 = n + 2
  OBVIOUS
<1>8. u \in Lists(n + 1)
  BY <1>1, <1>5, <1>6, <1>7 DEF Lists
<1>9. On(u, n + 1) = On(s, n) \cup {t}
  <2>1. ASSUME NEW i \in 1..(n + 1) PROVE u[i] \in On(s, n) \cup {t}
    <3>1. CASE i \in 1..k
      <4>1. i \in 1..n
        BY <3>1
      <4>2. QED
        BY <1>2, <3>1, <4>1, Listed
    <3>2. CASE i = k + 1
      BY <1>2, <3>2
    <3>3. ASSUME NEW b \in (k + 1)..(n + 1), i = b + 1 PROVE u[i] \in On(s, n) \cup {t}
      <4>1. b \in 1..n
        BY <3>3
      <4>2. QED
        BY <1>2, <3>3, <4>1, Listed
    <3>4. i \in 1..(n + 2)
      OBVIOUS
    <3>5. QED
      BY <1>3, <3>1, <3>2, <3>3, <3>4
  <2>2. ASSUME NEW i \in 1..n PROVE \E j \in 1..(n + 1) : s[i] = u[j]
    <3>1. CASE i <= k
      <4>1. i \in 1..k /\ i \in 1..(n + 1)
        BY <3>1
      <4>2. QED
        BY <1>2, <4>1
    <3>2. CASE ~(i <= k)
      <4>1. i \in (k + 1)..(n + 1) /\ i + 1 \in 1..(n + 1)
        BY <3>2
      <4>2. QED
        BY <1>2, <4>1
    <3>3. QED
      BY <3>1, <3>2
  <2>3. k + 1 \in 1..(n + 1)
    OBVIOUS
  <2>4. QED
    BY <1>2, <2>1, <2>2, <2>3 DEF On
<1>10. QED
  BY <1>2, <1>8, <1>9 DEF u

LEMMA TakeOutListed ==
  ASSUME NEW n \in Nat, NEW s \in Lists(n), NEW k \in 1..n
  PROVE  /\ n - 1 \in Nat /\ TakeOut(s, n, k) \in Lists(n - 1)
         /\ On(TakeOut(s, n, k), n - 1) = On(s, n) \ {s[k]}
         /\ \A i \in 1..(k - 1) : TakeOut(s, n, k)[i] = s[i]
         /\ \A i \in k..n : TakeOut(s, n, k)[i] = s[i + 1]
<1> DEFINE u == TakeOut(s, n, k)
           at(i) == IF i < k THEN i ELSE i + 1
<1>1. \A i \in 1..n : /\ at(i) \in 1..(n + 1) /\ at(i) # k /\ (at(i) = n + 1 <=> i = n)
                      /\ u[i] = s[at(i)]
                      /\ i < k => at(i) = i
                      /\ ~(i < k) => at(i) = i + 1
  BY DEF TakeOut
<1>2. \A i, j \in 1..n : at(i) = at(j) => i = j
  OBVIOUS
<1>3. \A j \in 1..n : j # k => \E i \in 1..(n - 1) : at(i) = j
  <2>1. ASSUME NEW j \in 1..n, j # k PROVE \E i \in 1..(n - 1) : at(i) = j
    <3>1. CASE j < k
      <4>1. j \in 1..(n - 1) /\ at(j) = j
        BY <3>1
      <4>2. QED
        BY <4>1
    <3>2. CASE ~(j < k)
      <4>1. j - 1 \in 1..(n - 1) /\ at(j - 1) = j
        BY <2>1, <3>2
      <4>2. QED
        BY <4>1
    <3>3. QED
      BY <3>1, <3>2
  <2>2. QED
    BY <2>1
<1>4. u \in [1..n -> Pointer]
  <2>1. \A i \in 1..n : (IF i < k THEN s[i] ELSE s[i + 1]) \in Pointer
    BY Listed
  <2>2. QED
    BY <2>1 DEF TakeOut
<1>5. n - 1 \in Nat /\ (n - 1) + 1 = n
  OBVIOUS
<1> HIDE DEF at
<1>6. \A i \in 1..n : u[i] = None <=> i = n
  BY <1>1, Listed
<1>7. \A i, j \in 1..n : u[i] = u[j] => i = j
  BY <1>1, <1>2, Listed
<1> HIDE DEF u
<1>8. u \in Lists(n - 1)
  BY <1>4, <1>5, <1>6, <1>7 DEF Lists
<1>9. On(u, n - 1) = On(s, n) \ {s[k]}
  <2>1. ASSUME NEW i \in 1..(n - 1) PROVE u[i] \in On(s, n) /\ u[i] # s[k]
    <3>1. i \in 1..n /\ i # n
      OBVIOUS
    <3>2. at(i) \in 1..n /\ at(i) # k /\ u[i] = s[at(i)]
      BY <1>1, <3>1
    <3>3. at(i) \in 1..(n + 1) /\ k \in 1..(n + 1)
      BY <3>2
    <3>4. QED
      BY <3>2, <3>3, Listed
  <2>2. ASSUME NEW j \in 1..n, s[j] # s[k] PROVE \E i \in 1..(n - 1) : s[j] = u[i]
    <3>1. PICK i \in 1..(n - 1) : at(i) = j
      BY <1>3, <2>2
    <3>2. i \in 1..n
      OBVIOUS
    <3>3. QED
      BY <1>1, <3>1, <3>2
  <2>3. QED
    BY <2>1, <2>2 DEF On
<1>10. /\ \A i \in 1..(k - 1) : u[i] = s[i]
       /\ \A i \in k..n : u[i] = s[i + 1]
  <2>1. \A i \in 1..(k - 1) : i \in 1..n /\ i < k
    OBVIOUS
  <2>2. \A i \in k..n : i \in 1..n /\ ~(i < k)
    OBVIOUS
  <2>3. QED
    BY <2>1, <2>2 DEF u, TakeOut
<1>11. QED
  BY <1>5, <1>8, <1>9, <1>10 DEF u

LEMMA FromListed ==
  ASSUME NEW n \in Nat, NEW s \in Lists(n), NEW j \in 1..(n + 1)
  PROVE  /\ n - j + 1 \in Nat /\ From(s, n, j) \in Lists(n - j + 1)
         /\ On(From(s, n, j), n - j + 1) = On(s, n) \ {s[k] : k \in 1..(j - 1)}
         /\ \A i \in 1..(n - j + 2) : From(s, n, j)[i] = s[i + j - 1] /\ i + j - 1 \in 1..(n + 1)
<1> DEFINE u == From(s, n, j)
<1>1. \A i \in 1..(n - j + 2) : /\ u[i] = s[i + j - 1] /\ i + j - 1 \in 1..(n + 1)
                                /\ (i + j - 1 = n + 1 <=> i = n - j + 2)
  BY DEF From
<1>2. u \in [1..(n - j + 2) -> Pointer]
  <2>1. \A i \in 1..(n - j + 2) : s[i + j - 1] \in Pointer
    BY Listed
  <2>2. QED
    BY <2>1 DEF From
<1> HIDE DEF u
<1>3. n - j + 1 \in Nat /\ (n - j + 1) + 1 = n - j + 2
  OBVIOUS
<1>4. \A i \in 1..(n - j + 2) : u[i] = None <=> i = n - j + 2
  BY <1>1, Listed
<1>5. ASSUME NEW a \in 1..(n - j + 2), NEW b \in 1..(n - j + 2), u[a] = u[b] PROVE a = b
  <2>1. a + j - 1 = b + j - 1
    BY <1>1, <1>5, Listed
  <2>2. QED
    BY <2>1
<1>6. u \in Lists(n - j + 1)
  BY <1>2, <1>3, <1>4, <1>5 DEF Lists
<1>7. On(u, n - j + 1) = On(s, n) \ {s[k] : k \in 1..(j - 1)}
  <2>1. ASSUME NEW i \in 1..(n - j + 1) PROVE u[i] \in On(s, n) /\ \A k \in 1..(j - 1) : u[i] # s[k]
    <3>1. i \in 1..(n - j + 2) /\ i + j - 1 \in 1..n /\ i + j - 1 \in 1..(n + 1)
      OBVIOUS
    <3>2. \A k \in 1..(j - 1) : k \in 1..(n + 1) /\ k # i + j - 1
      OBVIOUS
    <3>3. QED
      BY <1>1, <3>1, <3>2, Listed
  <2>2. ASSUME NEW m \in 1..n, \A k \in 1..(j - 1) : s[m] # s[k] PROVE \E i \in 1..(n - j + 1) : s[m] = u[i]
    <3>1. m \notin 1..(j - 1)
      BY <2>2
    <3>2. m - j + 1 \in 1..(n - j + 1) /\ m - j + 1 \in 1..(n - j + 2) /\ (m - j + 1) + j - 1 = m
      BY <3>1
    <3>3. QED
      BY <1>1, <3>2
  <2>3. QED
    BY <2>1, <2>2 DEF On
<1>8. QED
  BY <1>1, <1>3, <1>6, <1>7 DEF u

-----------------------------------------------------------------------------
(* The list, in both directions. *)

Linked(l, n, s) ==
  /\ Forward(l, n, s)
  /\ n > 0 => l.tail = s[n]
  /\ \A i \in 2..n : l.pre[s[i]] = s[i - 1]

LEMMA PutInLinked ==
  ASSUME NEW n \in Nat, NEW s \in Lists(n), NEW k \in 0..n, NEW t \in Timers \ On(s, n), NEW l,
         k = 0 => l.head = t, k > 0 => l.head = s[1],
         k = n => l.tail = t, k < n => l.tail = s[n],
         l.next[t] = s[k + 1], k > 0 => l.next[s[k]] = t,
         \A i \in 1..n : i # k => l.next[s[i]] = s[i + 1],
         k > 0 => l.pre[t] = s[k], k < n => l.pre[s[k + 1]] = t,
         \A i \in 2..n : i # k + 1 => l.pre[s[i]] = s[i - 1]
  PROVE  Linked(l, n + 1, PutIn(s, n, k, t))
<1> DEFINE u == PutIn(s, n, k, t)
<1>1. /\ \A i \in 1..k : u[i] = s[i]
      /\ u[k + 1] = t
      /\ \A i \in (k + 1)..(n + 1) : u[i + 1] = s[i]
  BY PutInListed
<1> HIDE DEF u
<1>2. l.head = u[1]
  <2>1. CASE k = 0
    BY <1>1, <2>1
  <2>2. CASE k > 0
    <3>1. 1 \in 1..k
      BY <2>2
    <3>2. QED
      BY <1>1, <2>2, <3>1
  <2>3. QED
    BY <2>1, <2>2
<1>3. ASSUME NEW i \in 1..(n + 1) PROVE l.next[u[i]] = u[i + 1]
  <2>1. CASE i < k
    <3>1. i \in 1..k /\ i + 1 \in 1..k /\ i \in 1..n /\ i # k
      BY <2>1
    <3>2. QED
      BY <1>1, <3>1
  <2>2. CASE i = k
    <3>1. i \in 1..k /\ k > 0
      BY <2>2
    <3>2. QED
      BY <1>1, <2>2, <3>1
  <2>3. CASE i = k + 1
    <3>1. k + 1 \in (k + 1)..(n + 1)
      OBVIOUS
    <3>2. u[i] = t /\ u[i + 1] = s[k + 1]
      BY <1>1, <2>3, <3>1
    <3>3. QED
      BY <3>2
  <2>4. CASE i > k + 1
    <3>1. PICK j \in (k + 1)..n : i = j + 1
      <4>1. i - 1 \in (k + 1)..n /\ i = (i - 1) + 1
        BY <2>4
      <4>2. QED
        BY <4>1
    <3>2. j \in (k + 1)..(n + 1) /\ j + 1 \in (k + 1)..(n + 1) /\ j \in 1..n /\ j # k
      OBVIOUS
    <3>3. u[i] = s[j] /\ u[i + 1] = s[j + 1]
      BY <1>1, <3>1, <3>2
    <3>4. QED
      BY <3>2, <3>3
  <2>5. QED
    BY <2>1, <2>2, <2>3, <2>4
<1>4. ASSUME NEW i \in 2..(n + 1) PROVE l.pre[u[i]] = u[i - 1]
  <2>1. CASE i <= k
    <3>1. i \in 1..k /\ i - 1 \in 1..k /\ i \in 2..n /\ i # k + 1
      BY <2>1
    <3>2. QED
      BY <1>1, <3>1
  <2>2. CASE i = k + 1
    <3>1. k \in 1..k /\ k > 0 /\ i - 1 = k
      BY <2>2
    <3>2. QED
      BY <1>1, <2>2, <3>1
  <2>3. CASE i > k + 1
    <3>1. PICK j \in (k + 1)..n : i = j + 1
      <4>1. i - 1 \in (k + 1)..n /\ i = (i - 1) + 1
        BY <2>3
      <4>2. QED
        BY <4>1
    <3>2. j \in (k + 1)..(n + 1) /\ u[i] = s[j] /\ i - 1 = j
      BY <1>1, <3>1
    <3>3. CASE j = k + 1
      <4>1. k < n /\ u[j] = t
        BY <1>1, <3>3
      <4>2. QED
        BY <3>2, <3>3, <4>1
    <3>4. CASE j # k + 1
      <4>1. PICK b \in (k + 1)..(n + 1) : j = b + 1
        <5>1. j - 1 \in (k + 1)..(n + 1) /\ j = (j - 1) + 1
          BY <3>4
        <5>2. QED
          BY <5>1
      <4>2. u[j] = s[b] /\ b = j - 1 /\ j \in 2..n
        BY <1>1, <4>1
      <4>3. QED
        BY <3>2, <3>4, <4>2
    <3>5. QED
      BY <3>3, <3>4
  <2>4. QED
    BY <2>1, <2>2, <2>3
<1>5. l.tail = u[n + 1]
  <2>1. CASE k = n
    BY <1>1, <2>1
  <2>2. CASE k < n
    <3>1. n \in (k + 1)..(n + 1)
      BY <2>2
    <3>2. QED
      BY <1>1, <2>2, <3>1
  <2>3. QED
    BY <2>1, <2>2
<1>6. QED
  BY <1>2, <1>3, <1>4, <1>5 DEF Linked, Forward, u

LEMMA TakeOutLinked ==
  ASSUME NEW n \in Nat, NEW s \in Lists(n), NEW k \in 1..n, NEW l,
         k = 1 => l.head = s[2], k > 1 => l.head = s[1],
         k = n /\ n > 1 => l.tail = s[n - 1], k < n => l.tail = s[n],
         k > 1 => l.next[s[k - 1]] = s[k + 1],
         \A i \in 1..n : i # k /\ i # k - 1 => l.next[s[i]] = s[i + 1],
         k > 1 /\ k < n => l.pre[s[k + 1]] = s[k - 1],
         \A i \in 2..n : i # k /\ i # k + 1 => l.pre[s[i]] = s[i - 1]
  PROVE  Linked(l, n - 1, TakeOut(s, n, k))
<1> DEFINE u == TakeOut(s, n, k)
<1>1. /\ \A i \in 1..(k - 1) : u[i] = s[i]
      /\ \A i \in k..n : u[i] = s[i + 1]
  BY TakeOutListed
<1> HIDE DEF u
<1>2. l.head = u[1]
  <2>1. CASE k = 1
    <3>1. 1 \in k..n
      BY <2>1
    <3>2. QED
      BY <1>1, <2>1, <3>1
  <2>2. CASE k > 1
    <3>1. 1 \in 1..(k - 1)
      BY <2>2
    <3>2. QED
      BY <1>1, <2>2, <3>1
  <2>3. QED
    BY <2>1, <2>2
<1>3. ASSUME NEW i \in 1..(n - 1) PROVE l.next[u[i]] = u[i + 1]
  <2>1. CASE i < k - 1
    <3>1. i \in 1..(k - 1) /\ i + 1 \in 1..(k - 1) /\ i \in 1..n /\ i # k /\ i # k - 1
      BY <2>1
    <3>2. QED
      BY <1>1, <3>1
  <2>2. CASE i = k - 1
    <3>1. i \in 1..(k - 1) /\ i + 1 \in k..n /\ i + 1 = k /\ k > 1
      BY <2>2
    <3>2. u[i] = s[k - 1] /\ u[i + 1] = s[k + 1]
      BY <1>1, <2>2, <3>1
    <3>3. QED
      BY <3>1, <3>2
  <2>3. CASE i >= k
    <3>1. i \in k..n /\ i + 1 \in k..n /\ i + 1 \in 1..n /\ i + 1 # k /\ i + 1 # k - 1
      BY <2>3
    <3>2. QED
      BY <1>1, <3>1
  <2>4. QED
    BY <2>1, <2>2, <2>3
<1>4. ASSUME NEW i \in 2..(n - 1) PROVE l.pre[u[i]] = u[i - 1]
  <2>1. CASE i < k
    <3>1. i \in 1..(k - 1) /\ i - 1 \in 1..(k - 1) /\ i \in 2..n /\ i # k /\ i # k + 1
      BY <2>1
    <3>2. QED
      BY <1>1, <3>1
  <2>2. CASE i = k
    <3>1. i \in k..n /\ i - 1 \in 1..(k - 1) /\ k > 1 /\ k < n
      BY <2>2
    <3>2. u[i] = s[k + 1] /\ u[i - 1] = s[k - 1]
      BY <1>1, <2>2, <3>1
    <3>3. QED
      BY <3>1, <3>2
  <2>3. CASE i > k
    <3>1. i \in k..n /\ i - 1 \in k..n /\ (i - 1) + 1 = i /\ i + 1 \in 2..n /\ i + 1 # k /\ i + 1 # k + 1
          /\ (i + 1) - 1 = i
      BY <2>3
    <3>2. u[i] = s[i + 1] /\ u[i - 1] = s[i]
      BY <1>1, <3>1
    <3>3. QED
      BY <3>1, <3>2
  <2>4. QED
    BY <2>1, <2>2, <2>3
<1>5. n - 1 > 0 => l.tail = u[n - 1]
  <2> SUFFICES ASSUME n > 1 PROVE l.tail = u[n - 1]
    OBVIOUS
  <2>1. CASE k = n
    <3>1. n - 1 \in 1..(k - 1)
      BY <2>1
    <3>2. QED
      BY <1>1, <2>1, <3>1
  <2>2. CASE k < n
    <3>1. n - 1 \in k..n /\ (n - 1) + 1 = n
      BY <2>2
    <3>2. QED
      BY <1>1, <2>2, <3>1
  <2>3. QED
    BY <2>1, <2>2
<1>6. QED
  BY <1>2, <1>3, <1>4, <1>5 DEF Linked, Forward, u

LEMMA FromLinked ==
  ASSUME NEW n \in Nat, NEW s \in Lists(n), NEW j \in 1..(n + 1), NEW l,
         l.head = s[j], j <= n => l.tail = s[n],
         \A i \in j..n : l.next[s[i]] = s[i + 1],
         \A i \in (j + 1)..n : l.pre[s[i]] = s[i - 1]
  PROVE  Linked(l, n - j + 1, From(s, n, j))
<1> DEFINE u == From(s, n, j)
<1>1. \A i \in 1..(n - j + 2) : u[i] = s[i + j - 1]
  BY FromListed
<1> HIDE DEF u
<1>2. l.head = u[1]
  <2>1. 1 \in 1..(n - j + 2) /\ 1 + j - 1 = j
    OBVIOUS
  <2>2. QED
    BY <1>1, <2>1
<1>3. ASSUME NEW i \in 1..(n - j + 1) PROVE l.next[u[i]] = u[i + 1]
  <2>1. PICK a \in j..n : a = i + j - 1 /\ a + 1 = (i + 1) + j - 1
    OBVIOUS
  <2>2. i \in 1..(n - j + 2) /\ i + 1 \in 1..(n - j + 2)
    OBVIOUS
  <2>3. u[i] = s[a] /\ u[i + 1] = s[a + 1]
    BY <1>1, <2>1, <2>2
  <2>4. QED
    BY <2>3
<1>4. ASSUME NEW i \in 2..(n - j + 1) PROVE l.pre[u[i]] = u[i - 1]
  <2>1. PICK a \in (j + 1)..n : a = i + j - 1 /\ a - 1 = (i - 1) + j - 1
    OBVIOUS
  <2>2. i \in 1..(n - j + 2) /\ i - 1 \in 1..(n - j + 2)
    OBVIOUS
  <2>3. u[i] = s[a] /\ u[i - 1] = s[a - 1]
    BY <1>1, <2>1, <2>2
  <2>4. QED
    BY <2>3
<1>5. n - j + 1 > 0 => l.tail = u[n - j + 1]
  <2> SUFFICES ASSUME n - j + 1 > 0 PROVE l.tail = u[n - j + 1]
    OBVIOUS
  <2>1. j <= n /\ n - j + 1 \in 1..(n - j + 2) /\ (n - j + 1) + j - 1 = n
    OBVIOUS
  <2>2. QED
    BY <1>1, <2>1
<1>6. QED
  BY <1>2, <1>3, <1>4, <1>5 DEF Linked, Forward, u

Ordered(s, n, x) == \A i, j \in 1..n : i <= j => x[s[i]] <= x[s[j]]

\* l is a list of the timers D, in ascending order if o, and no other timer points anywhere.
IsListOf(l, D, x, o) ==
  /\ l \in ListType
  /\ \E n \in Nat : \E s \in Lists(n) : Linked(l, n, s) /\ On(s, n) = D /\ (o => Ordered(s, n, x))
  /\ \A p \in Timers \ D : l.next[p] = None

Times == [Timers -> Int]

LEMMA PutInOrdered ==
  ASSUME NEW n \in Nat, NEW s \in Lists(n), NEW k \in 0..n, NEW t \in Timers \ On(s, n), NEW x \in Times,
         Ordered(s, n, x), k > 0 => x[s[k]] <= x[t], k < n => x[t] <= x[s[k + 1]]
  PROVE  Ordered(PutIn(s, n, k, t), n + 1, x)
<1> DEFINE u == PutIn(s, n, k, t)
<1>1. /\ \A i \in 1..k : u[i] = s[i]
      /\ u[k + 1] = t
      /\ \A i \in (k + 1)..(n + 1) : u[i + 1] = s[i]
  BY PutInListed
<1> HIDE DEF u
<1>2. \A i \in 1..n : x[s[i]] \in Int
  BY Listed DEF Times
<1>3. x[t] \in Int
  BY DEF Times
<1>4. \A i \in 1..k : x[s[i]] <= x[t]
  <2>1. ASSUME NEW i \in 1..k PROVE x[s[i]] <= x[t]
    <3>1. x[s[i]] <= x[s[k]] /\ x[s[k]] <= x[t]
      BY DEF Ordered
    <3>2. x[s[i]] \in Int /\ x[s[k]] \in Int
      BY <1>2
    <3>3. QED
      BY <1>3, <3>1, <3>2
  <2>2. QED
    BY <2>1
<1>5. \A i \in (k + 1)..n : x[t] <= x[s[i]]
  <2>1. ASSUME NEW i \in (k + 1)..n PROVE x[t] <= x[s[i]]
    <3>1. x[t] <= x[s[k + 1]] /\ x[s[k + 1]] <= x[s[i]]
      BY DEF Ordered
    <3>2. x[s[i]] \in Int /\ x[s[k + 1]] \in Int
      BY <1>2
    <3>3. QED
      BY <1>3, <3>1, <3>2
  <2>2. QED
    BY <2>1
<1>6. \A i \in 1..(n + 1) : \/ i \in 1..k
                            \/ i = k + 1
                            \/ \E j \in (k + 1)..n : i = j + 1
  <2>1. ASSUME NEW i \in 1..(n + 1), i \notin 1..k, i # k + 1 PROVE \E j \in (k + 1)..n : i = j + 1
    <3>1. i - 1 \in (k + 1)..n /\ i = (i - 1) + 1
      BY <2>1
    <3>2. QED
      BY <3>1
  <2>2. QED
    BY <2>1
<1>7. ASSUME NEW i \in 1..(n + 1), NEW j \in 1..(n + 1), i <= j PROVE x[u[i]] <= x[u[j]]
  <2>1. CASE i \in 1..k
    <3>1. CASE j \in 1..k
      <4>1. i \in 1..n /\ j \in 1..n
        BY <2>1, <3>1
      <4>2. QED
        BY <1>1, <1>7, <2>1, <3>1, <4>1 DEF Ordered
    <3>2. CASE j = k + 1
      BY <1>1, <1>4, <2>1, <3>2
    <3>3. ASSUME NEW b \in (k + 1)..n, j = b + 1 PROVE x[u[i]] <= x[u[j]]
      <4>1. i \in 1..n /\ b \in 1..n /\ i <= b /\ b \in (k + 1)..(n + 1)
        BY <2>1, <3>3
      <4>2. QED
        BY <1>1, <2>1, <3>3, <4>1 DEF Ordered
    <3>4. QED
      BY <1>6, <3>1, <3>2, <3>3
  <2>2. CASE i = k + 1
    <3>1. CASE j = k + 1
      BY <1>1, <1>3, <2>2, <3>1
    <3>2. ASSUME NEW b \in (k + 1)..n, j = b + 1 PROVE x[u[i]] <= x[u[j]]
      <4>1. b \in (k + 1)..(n + 1)
        OBVIOUS
      <4>2. QED
        BY <1>1, <1>5, <2>2, <3>2, <4>1
    <3>3. j \notin 1..k
      BY <1>7, <2>2
    <3>4. QED
      BY <1>6, <3>1, <3>2, <3>3
  <2>3. ASSUME NEW a \in (k + 1)..n, i = a + 1 PROVE x[u[i]] <= x[u[j]]
    <3>1. j \notin 1..k /\ j # k + 1
      BY <1>7, <2>3
    <3>2. PICK b \in (k + 1)..n : j = b + 1
      BY <1>6, <3>1
    <3>3. a <= b /\ a \in 1..n /\ b \in 1..n /\ a \in (k + 1)..(n + 1) /\ b \in (k + 1)..(n + 1)
      BY <1>7, <2>3, <3>2
    <3>4. QED
      BY <1>1, <2>3, <3>2, <3>3 DEF Ordered
  <2>4. QED
    BY <1>6, <2>1, <2>2, <2>3
<1>8. QED
  BY <1>7 DEF Ordered, u

LEMMA TakeOutOrdered ==
  ASSUME NEW n \in Nat, NEW s \in Lists(n), NEW k \in 1..n, NEW x, Ordered(s, n, x)
  PROVE  Ordered(TakeOut(s, n, k), n - 1, x)
<1> SUFFICES ASSUME NEW i \in 1..(n - 1), NEW j \in 1..(n - 1), i <= j
             PROVE  x[TakeOut(s, n, k)[i]] <= x[TakeOut(s, n, k)[j]]
  BY DEF Ordered
<1>1. \A a \in 1..(n - 1) : TakeOut(s, n, k)[a] = s[IF a < k THEN a ELSE a + 1]
  BY DEF TakeOut
<1>2. PICK a \in 1..n : a = IF i < k THEN i ELSE i + 1
  OBVIOUS
<1>3. PICK b \in 1..n : b = IF j < k THEN j ELSE j + 1
  OBVIOUS
<1>4. a <= b
  BY <1>2, <1>3
<1>5. QED
  BY <1>1, <1>2, <1>3, <1>4 DEF Ordered

LEMMA FromOrdered ==
  ASSUME NEW n \in Nat, NEW s \in Lists(n), NEW j \in 1..(n + 1), NEW x, Ordered(s, n, x)
  PROVE  Ordered(From(s, n, j), n - j + 1, x)
<1> SUFFICES ASSUME NEW a \in 1..(n - j + 1), NEW b \in 1..(n - j + 1), a <= b
             PROVE  x[From(s, n, j)[a]] <= x[From(s, n, j)[b]]
  BY DEF Ordered
<1>1. a \in 1..(n - j + 2) /\ b \in 1..(n - j + 2)
  OBVIOUS
<1>2. a + j - 1 \in 1..n /\ b + j - 1 \in 1..n /\ a + j - 1 <= b + j - 1
  OBVIOUS
<1>3. From(s, n, j)[a] = s[a + j - 1] /\ From(s, n, j)[b] = s[b + j - 1]
  BY <1>1, FromListed
<1>4. QED
  BY <1>2, <1>3 DEF Ordered

-----------------------------------------------------------------------------
(* The methods. *)

\* Add_timer(timer, head): the timer comes behind the k-th.
LEMMA InsertLinked ==
  ASSUME NEW n \in Nat, n > 0, NEW s \in Lists(n), NEW l \in ListType, Linked(l, n, s),
         NEW t \in Timers \ On(s, n), NEW x,
         \A p \in Timers \ On(s, n) : l.next[p] \in On(s, n) \cup {None}
  PROVE  \E k \in 1..n :
           /\ Insert(l, x, t) \in ListType
           /\ Linked(Insert(l, x, t), n + 1, PutIn(s, n, k, t))
           /\ \A p \in Timers \ (On(s, n) \cup {t}) : Insert(l, x, t).next[p] = l.next[p]
           /\ k < n => x[s[k + 1]] > x[t]
           /\ k > 1 => ~(x[s[k]] > x[t])
<1> DEFINE S == {p \in Timers : l.next[p] = None \/ x[l.next[p]] > x[t]}
<1>1. Forward(l, n, s) /\ l.tail = s[n] /\ \A i \in 2..n : l.pre[s[i]] = s[i - 1]
  BY DEF Linked
<1>2. LastBefore(l, x, t) = s[Halt(s, n, S, 1)]
  <2> HIDE DEF S
  <2>1. First(l, S) = s[Halt(s, n, S, 1)]
    BY <1>1, FirstIs
  <2>2. QED
    BY <2>1 DEF LastBefore, S
<1>3. \A i \in 1..n : s[i] \in S <=> s[i + 1] = None \/ x[s[i + 1]] > x[t]
  BY <1>1, Listed DEF Forward
<1>4. s[n] \in S
  <2>1. n \in 1..n /\ n + 1 \in 1..(n + 1)
    OBVIOUS
  <2>2. s[n + 1] = None
    BY <2>1, Listed
  <2>3. QED
    BY <1>3, <2>1, <2>2
<1> HIDE DEF S
<1>5. PICK k \in 1..n : /\ k = Halt(s, n, S, 1) /\ s[k] \in S
                        /\ \A m \in 1..(k - 1) : s[m] \notin S
  <2>1. PICK k \in 1..(n + 1) : k = Halt(s, n, S, 1)
    <3>1. 1 \in 1..(n + 1)
      OBVIOUS
    <3>2. QED
      BY <3>1, Halts
  <2>2. s[k] \in S \cup {None} /\ \A m \in 1..(k - 1) : s[m] \notin S \cup {None}
    <3>1. 1 \in 1..(n + 1)
      OBVIOUS
    <3>2. QED
      BY <2>1, <3>1, Halts
  <2>3. k # n + 1
    <3>1. n \in 1..((n + 1) - 1)
      OBVIOUS
    <3>2. QED
      BY <1>4, <2>2, <3>1
  <2>4. k \in 1..n
    BY <2>3
  <2>5. s[k] # None
    BY <2>4, Listed
  <2>6. QED
    BY <2>1, <2>2, <2>4, <2>5
<1>6. /\ LastBefore(l, x, t) = s[k] /\ l.next[s[k]] = s[k + 1]
      /\ s[k] \in Timers /\ s[k] # t /\ t # None /\ t \in Timers
      /\ \A i \in 1..(n + 1) : s[i] # t
  <2>1. t # None
    BY TimerAssumption
  <2>2. \A i \in 1..(n + 1) : i \in 1..n \/ s[i] = None
    BY Listed
  <2>3. \A i \in 1..(n + 1) : s[i] # t
    BY <2>1, <2>2, Listed
  <2>4. k \in 1..(n + 1)
    OBVIOUS
  <2>5. QED
    BY <1>1, <1>2, <1>5, <2>1, <2>3, <2>4, Listed DEF Forward
<1>7. k < n => s[k + 1] \in Timers /\ s[k + 1] # None /\ x[s[k + 1]] > x[t]
  <2> SUFFICES ASSUME k < n PROVE s[k + 1] \in Timers /\ s[k + 1] # None /\ x[s[k + 1]] > x[t]
    OBVIOUS
  <2>1. k + 1 \in 1..n
    OBVIOUS
  <2>2. s[k + 1] \in Timers /\ s[k + 1] # None
    BY <2>1, Listed
  <2>3. QED
    BY <1>3, <1>5, <2>2
<1>8. k > 1 => ~(x[s[k]] > x[t])
  <2> SUFFICES ASSUME k > 1 PROVE ~(x[s[k]] > x[t])
    OBVIOUS
  <2>1. k - 1 \in 1..(k - 1) /\ k - 1 \in 1..n /\ (k - 1) + 1 = k
    OBVIOUS
  <2>2. s[k - 1] \notin S
    BY <1>5, <2>1
  <2>3. QED
    BY <1>3, <2>1, <2>2
<1>9. \A i \in 1..n : s[i] \in Timers /\ (s[i] = s[k] <=> i = k)
  <2>1. \A i \in 1..n : i \in 1..(n + 1)
    OBVIOUS
  <2>2. QED
    BY <2>1, Listed
<1>10. s[k] \in On(s, n) /\ (k < n => s[k + 1] \in On(s, n)) /\ s[n] \in On(s, n)
  <2>1. (k < n => k + 1 \in 1..n) /\ n \in 1..n
    OBVIOUS
  <2>2. QED
    BY <2>1, Listed
<1> DEFINE m == Insert(l, x, t)
<1>11. CASE k < n
  <2>1. m = Between(l, s[k], t, s[k + 1])
    BY <1>6, <1>7, <1>11 DEF Insert, Between
  <2> HIDE DEF m
  <2>2. /\ m \in ListType /\ m.head = l.head /\ m.tail = l.tail
        /\ \A r \in Timers : m.next[r] = IF r = t THEN s[k + 1] ELSE IF r = s[k] THEN t ELSE l.next[r]
        /\ \A r \in Timers : m.pre[r] = IF r = s[k + 1] THEN t ELSE IF r = t THEN s[k] ELSE l.pre[r]
    <3>1. PICK p \in Timers, q \in Timers : p = s[k] /\ q = s[k + 1]
      BY <1>6, <1>7, <1>11
    <3>2. m = Between(l, p, t, q)
      BY <2>1, <3>1
    <3>3. /\ m \in ListType /\ m.head = l.head /\ m.tail = l.tail
          /\ \A r \in Timers : m.next[r] = IF r = t THEN q ELSE IF r = p THEN t ELSE l.next[r]
          /\ \A r \in Timers : m.pre[r] = IF r = q THEN t ELSE IF r = t THEN p ELSE l.pre[r]
      <4>1. t \in Timers
        OBVIOUS
      <4>2. IsBetween(Between(l, p, t, q), l, p, t, q)
        BY <4>1, BetweenSets
      <4>3. QED
        BY <3>2, <4>2 DEF IsBetween
    <3>4. QED
      BY <3>1, <3>3
  <2>3. \A i \in 1..n : i # k => m.next[s[i]] = s[i + 1]
    BY <1>1, <1>6, <1>9, <2>2 DEF Forward
  <2>4. ASSUME NEW i \in 2..n, i # k + 1 PROVE m.pre[s[i]] = s[i - 1]
    <3>1. i \in 1..n /\ i \in 1..(n + 1) /\ k + 1 \in 1..(n + 1)
      OBVIOUS
    <3>2. s[i] # s[k + 1]
      BY <2>4, <3>1, Listed
    <3>3. QED
      BY <1>1, <1>6, <1>9, <2>2, <3>1, <3>2
  <2>5. m.next[t] = s[k + 1] /\ m.next[s[k]] = t /\ m.pre[s[k + 1]] = t
    BY <1>6, <1>7, <1>11, <2>2
  <2>6. m.pre[t] = s[k] /\ m.head = s[1] /\ m.tail = s[n]
    <3>1. k + 1 \in 1..(n + 1)
      OBVIOUS
    <3>2. QED
      BY <1>1, <1>6, <2>2, <3>1 DEF Forward
  <2>7. Linked(m, n + 1, PutIn(s, n, k, t))
    <3>1. k \in 0..n /\ k # 0 /\ k # n /\ k > 0
      BY <1>11
    <3>2. QED
      BY <2>3, <2>4, <2>5, <2>6, <3>1, PutInLinked
  <2>8. \A p \in Timers \ (On(s, n) \cup {t}) : m.next[p] = l.next[p]
    BY <1>10, <2>2
  <2>9. QED
    BY <1>7, <1>8, <2>2, <2>7, <2>8 DEF m
<1>12. CASE k = n
  <2>1. s[k + 1] = None /\ l.tail = s[n]
    <3>1. n + 1 \in 1..(n + 1)
      OBVIOUS
    <3>2. QED
      BY <1>1, <1>12, <3>1, Listed
  <2>2. m = AtTail(l, t)
    BY <1>6, <2>1 DEF Insert, AtTail
  <2> HIDE DEF m
  <2>3. /\ m \in ListType /\ m.head = l.head /\ m.tail = t
        /\ \A r \in Timers : m.next[r] = IF r = t THEN None ELSE IF r = s[n] THEN t ELSE l.next[r]
        /\ \A r \in Timers : m.pre[r] = IF r = t THEN s[n] ELSE l.pre[r]
    <3>1. l.tail \in Timers
      BY <1>6, <1>12, <2>1
    <3>2. /\ m \in ListType /\ m.head = l.head /\ m.tail = t
          /\ \A r \in Timers : m.next[r] = IF r = t THEN None ELSE IF r = l.tail THEN t ELSE l.next[r]
          /\ \A r \in Timers : m.pre[r] = IF r = t THEN l.tail ELSE l.pre[r]
      BY <2>2, <3>1, <1>6, AtTailSets
    <3>3. QED
      BY <2>1, <3>2
  <2>4. \A i \in 1..n : i # k => m.next[s[i]] = s[i + 1]
    BY <1>1, <1>6, <1>9, <1>12, <2>3 DEF Forward
  <2>5. ASSUME NEW i \in 2..n PROVE m.pre[s[i]] = s[i - 1]
    <3>1. i \in 1..n /\ i \in 1..(n + 1)
      OBVIOUS
    <3>2. QED
      BY <1>1, <1>6, <1>9, <2>3, <3>1
  <2>6. m.next[t] = s[k + 1] /\ m.next[s[k]] = t /\ m.pre[t] = s[k] /\ m.head = s[1]
    BY <1>1, <1>6, <1>12, <2>1, <2>3 DEF Forward
  <2>7. Linked(m, n + 1, PutIn(s, n, k, t))
    <3>1. k \in 0..n /\ k # 0 /\ ~(k < n) /\ k > 0
      BY <1>12
    <3>2. QED
      BY <2>3, <2>4, <2>5, <2>6, <3>1, PutInLinked
  <2>8. \A p \in Timers \ (On(s, n) \cup {t}) : m.next[p] = l.next[p]
    BY <1>10, <2>3
  <2>9. QED
    BY <1>8, <1>12, <2>3, <2>7, <2>8 DEF m
<1>13. QED
  BY <1>11, <1>12

\* The first timer of the list.
LEMMA EmptyLinked ==
  ASSUME NEW n \in Nat, NEW s \in Lists(n), NEW l, l.head = None, Linked(l, n, s)
  PROVE  n = 0
<1>1. l.head = s[1] /\ 1 \in 1..(n + 1)
  BY DEF Linked, Forward
<1>2. QED
  BY <1>1, Listed

\* Add_timer(timer).
LEMMA AddedLinked ==
  ASSUME NEW n \in Nat, NEW s \in Lists(n), NEW l \in ListType, Linked(l, n, s),
         NEW t \in Timers \ On(s, n), NEW x \in Times,
         \A p \in Timers \ On(s, n) : l.next[p] = None
  PROVE  \E k \in 0..n :
           /\ Added(l, x, t) \in ListType
           /\ Linked(Added(l, x, t), n + 1, PutIn(s, n, k, t))
           /\ \A p \in Timers \ (On(s, n) \cup {t}) : Added(l, x, t).next[p] = None
           /\ k > 0 => x[s[k]] <= x[t]
           /\ k < n => x[t] <= x[s[k + 1]]
<1>1. /\ Forward(l, n, s) /\ (n > 0 => l.tail = s[n]) /\ \A i \in 2..n : l.pre[s[i]] = s[i - 1]
      /\ l.head = s[1] /\ \A i \in 1..n : l.next[s[i]] = s[i + 1]
  BY DEF Linked, Forward
<1>2. t \in Timers /\ t # None /\ \A i \in 1..n : s[i] # t
  BY TimerAssumption, Listed
<1>3. \A p \in Timers : x[p] \in Int
  BY DEF Times
<1> DEFINE m == Added(l, x, t)
<1>4. CASE l.head = None
  <2>1. n = 0
    BY <1>4, EmptyLinked
  <2>2. m = [l EXCEPT !.head = t, !.tail = t]
    BY <1>4 DEF Added
  <2>3. m \in ListType /\ m.head = t /\ m.tail = t /\ m.next = l.next
    BY <1>2, <2>2 DEF ListType, Pointer
  <2> HIDE DEF m
  <2>4. s[1] = None
    BY <1>1, <1>4
  <2>5. m.next[t] = s[1]
    BY <2>3, <2>4
  <2>6. 0 \in 0..n /\ 1..n = {} /\ 2..n = {}
    BY <2>1
  <2>7. Linked(m, n + 1, PutIn(s, n, 0, t))
    BY <2>1, <2>3, <2>5, <2>6, PutInLinked
  <2>8. \A p \in Timers \ (On(s, n) \cup {t}) : m.next[p] = None
    BY <2>3
  <2>9. QED
    BY <2>1, <2>3, <2>6, <2>7, <2>8 DEF m
<1>5. CASE l.head # None /\ x[t] < x[l.head]
  <2>1. n > 0
    <3>1. SUFFICES ASSUME n = 0 PROVE FALSE
      OBVIOUS
    <3>2. s[1] = None
      BY <3>1, Listed
    <3>3. QED
      BY <1>1, <1>5, <3>2
  <2>2. 1 \in 1..n /\ n \in 1..n /\ 1 \in 1..(n + 1)
    BY <2>1
  <2>3. m = AtHead(l, t)
    BY <1>5 DEF Added, AtHead
  <2>4. l.head \in Timers /\ s[1] \in Timers
    BY <1>1, <2>2, Listed
  <2> HIDE DEF m
  <2>5. /\ m \in ListType /\ m.head = t /\ m.tail = l.tail
        /\ \A r \in Timers : m.next[r] = IF r = t THEN l.head ELSE l.next[r]
        /\ \A r \in Timers : m.pre[r] = IF r = l.head THEN t ELSE l.pre[r]
    BY <1>2, <2>3, <2>4, AtHeadSets
  <2>6. \A i \in 1..n : m.next[s[i]] = s[i + 1]
    BY <1>1, <1>2, <2>5, Listed
  <2>7. ASSUME NEW i \in 2..n PROVE m.pre[s[i]] = s[i - 1]
    <3>1. i \in 1..n /\ i \in 1..(n + 1) /\ i # 1
      OBVIOUS
    <3>2. s[i] # s[1]
      BY <2>2, <3>1, Listed
    <3>3. QED
      BY <1>1, <2>5, <3>1, <3>2, Listed
  <2>8. m.next[t] = s[1] /\ m.pre[s[1]] = t /\ m.tail = s[n]
    BY <1>1, <1>2, <2>1, <2>4, <2>5
  <2>9. Linked(m, n + 1, PutIn(s, n, 0, t))
    <3>1. 0 \in 0..n /\ 0 # n /\ ~(0 > 0) /\ 0 < n
      BY <2>1
    <3>2. QED
      BY <2>5, <2>6, <2>7, <2>8, <3>1, PutInLinked
  <2>10. \A p \in Timers \ (On(s, n) \cup {t}) : m.next[p] = None
    BY <2>5
  <2>11. x[t] <= x[s[1]]
    BY <1>1, <1>2, <1>3, <1>5, <2>4
  <2>12. QED
    BY <2>5, <2>9, <2>10, <2>11 DEF m
<1>6. CASE l.head # None /\ ~(x[t] < x[l.head])
  <2>1. n > 0
    <3>1. SUFFICES ASSUME n = 0 PROVE FALSE
      OBVIOUS
    <3>2. s[1] = None
      BY <3>1, Listed
    <3>3. QED
      BY <1>1, <1>6, <3>2
  <2>2. m = Insert(l, x, t)
    BY <1>6 DEF Added
  <2> HIDE DEF m
  <2>3. \A p \in Timers \ On(s, n) : l.next[p] \in On(s, n) \cup {None}
    OBVIOUS
  <2>4. PICK k \in 1..n :
           /\ m \in ListType
           /\ Linked(m, n + 1, PutIn(s, n, k, t))
           /\ \A p \in Timers \ (On(s, n) \cup {t}) : m.next[p] = l.next[p]
           /\ k < n => x[s[k + 1]] > x[t]
           /\ k > 1 => ~(x[s[k]] > x[t])
    BY <2>1, <2>2, <2>3, InsertLinked
  <2>5. x[s[k]] <= x[t]
    <3>1. s[k] \in Timers /\ 1 \in 1..n /\ s[1] \in Timers
      BY <2>1, Listed
    <3>2. x[s[k]] \in Int /\ x[t] \in Int /\ x[s[1]] \in Int
      BY <1>2, <1>3, <3>1
    <3>3. CASE k > 1
      BY <2>4, <3>2, <3>3
    <3>4. CASE k = 1
      BY <1>1, <1>6, <3>2, <3>4
    <3>5. QED
      BY <3>3, <3>4
  <2>6. k < n => x[t] <= x[s[k + 1]]
    <3> SUFFICES ASSUME k < n PROVE x[t] <= x[s[k + 1]]
      OBVIOUS
    <3>1. k + 1 \in 1..n
      OBVIOUS
    <3>2. x[s[k + 1]] \in Int /\ x[t] \in Int
      BY <1>2, <1>3, <3>1, Listed
    <3>3. QED
      BY <2>4, <3>2
  <2>7. \A p \in Timers \ (On(s, n) \cup {t}) : m.next[p] = None
    BY <2>4
  <2>8. k \in 0..n
    OBVIOUS
  <2>9. QED
    BY <2>4, <2>5, <2>6, <2>7, <2>8 DEF m
<1>7. QED
  BY <1>4, <1>5, <1>6

LEMMA AddedKeeps ==
  ASSUME NEW l, NEW D, NEW x \in Times, NEW o, IsListOf(l, D, x, o), NEW t \in Timers \ D
  PROVE  IsListOf(Added(l, x, t), D \cup {t}, x, o)
<1>0. PICK n \in Nat : \E s \in Lists(n) : Linked(l, n, s) /\ On(s, n) = D /\ (o => Ordered(s, n, x))
  BY DEF IsListOf
<1>1. PICK s \in Lists(n) : Linked(l, n, s) /\ On(s, n) = D /\ (o => Ordered(s, n, x))
  BY <1>0
<1>2. l \in ListType /\ \A p \in Timers \ On(s, n) : l.next[p] = None
  BY <1>1 DEF IsListOf
<1>3. t \in Timers \ On(s, n)
  BY <1>1
<1>4. PICK k \in 0..n :
           /\ Added(l, x, t) \in ListType
           /\ Linked(Added(l, x, t), n + 1, PutIn(s, n, k, t))
           /\ \A p \in Timers \ (On(s, n) \cup {t}) : Added(l, x, t).next[p] = None
           /\ k > 0 => x[s[k]] <= x[t]
           /\ k < n => x[t] <= x[s[k + 1]]
  BY <1>1, <1>2, <1>3, AddedLinked
<1>5. n + 1 \in Nat /\ PutIn(s, n, k, t) \in Lists(n + 1) /\ On(PutIn(s, n, k, t), n + 1) = D \cup {t}
  BY <1>1, <1>3, PutInListed
<1>6. o => Ordered(PutIn(s, n, k, t), n + 1, x)
  BY <1>1, <1>3, <1>4, PutInOrdered
<1>7. QED
  BY <1>1, <1>4, <1>5, <1>6 DEF IsListOf

\* "connect before and after" takes the k-th timer out.
LEMMA UnlinkedLinked ==
  ASSUME NEW n \in Nat, NEW s \in Lists(n), NEW l \in ListType, Linked(l, n, s),
         NEW k \in 2..(n - 1)
  PROVE  /\ Unlinked(l, s[k]) \in ListType
         /\ Linked(Unlinked(l, s[k]), n - 1, TakeOut(s, n, k))
         /\ \A p \in Timers \ On(s, n) : Unlinked(l, s[k]).next[p] = l.next[p]
         /\ Unlinked(l, s[k]).next[s[k]] = s[k + 1]
<1>1. /\ (n > 0 => l.tail = s[n]) /\ \A i \in 2..n : l.pre[s[i]] = s[i - 1]
      /\ l.head = s[1] /\ \A i \in 1..n : l.next[s[i]] = s[i + 1]
  BY DEF Linked, Forward
<1>2. k \in 1..n /\ k - 1 \in 1..n /\ k + 1 \in 1..n /\ k \in 2..n /\ k + 1 \in 2..n
  OBVIOUS
<1>3. s[k] \in Timers /\ s[k - 1] \in Timers /\ s[k + 1] \in Timers
  BY <1>2, Listed
<1>4. l.pre[s[k]] = s[k - 1] /\ l.next[s[k]] = s[k + 1]
  BY <1>1, <1>2
<1> DEFINE m == Unlinked(l, s[k])
<1>5. /\ m \in ListType /\ m.head = l.head /\ m.tail = l.tail
      /\ \A r \in Timers : m.next[r] = IF r = s[k - 1] THEN s[k + 1] ELSE l.next[r]
      /\ \A r \in Timers : m.pre[r] = IF r = s[k + 1] THEN s[k - 1] ELSE l.pre[r]
  BY <1>3, <1>4, UnlinkedSets
<1> HIDE DEF m
<1>6. ASSUME NEW i \in 1..n, i # k - 1 PROVE m.next[s[i]] = s[i + 1]
  <2>1. i \in 1..(n + 1) /\ k - 1 \in 1..(n + 1)
    BY <1>2
  <2>2. s[i] # s[k - 1] /\ s[i] \in Timers
    BY <1>6, <2>1, Listed
  <2>3. QED
    BY <1>1, <1>5, <2>2
<1>7. ASSUME NEW i \in 2..n, i # k + 1 PROVE m.pre[s[i]] = s[i - 1]
  <2>1. i \in 1..(n + 1) /\ k + 1 \in 1..(n + 1) /\ i \in 1..n
    BY <1>2
  <2>2. s[i] # s[k + 1] /\ s[i] \in Timers
    BY <1>7, <2>1, Listed
  <2>3. QED
    BY <1>1, <1>5, <2>2
<1>8. m.next[s[k - 1]] = s[k + 1] /\ m.pre[s[k + 1]] = s[k - 1] /\ m.head = s[1] /\ m.tail = s[n]
  BY <1>1, <1>2, <1>3, <1>5
<1>9. Linked(m, n - 1, TakeOut(s, n, k))
  <2>1. k # 1 /\ k > 1 /\ k # n /\ k < n
    OBVIOUS
  <2>2. QED
    BY <1>2, <1>6, <1>7, <1>8, <2>1, TakeOutLinked
<1>10. ASSUME NEW p \in Timers \ On(s, n) PROVE m.next[p] = l.next[p]
  <2>1. p # s[k - 1]
    BY <1>2, Listed
  <2>2. QED
    BY <1>5, <2>1
<1>11. m.next[s[k]] = s[k + 1]
  <2>1. k # k - 1
    OBVIOUS
  <2>2. QED
    BY <1>2, <1>6, <2>1
<1>12. QED
  BY <1>5, <1>9, <1>10, <1>11 DEF m

\* The head taken out of a list that has more timers.
LEMMA BeheadedLinked ==
  ASSUME NEW n \in Nat, n > 1, NEW s \in Lists(n), NEW l \in ListType, Linked(l, n, s)
  PROVE  /\ BeheadedOf(l) \in ListType
         /\ Linked(BeheadedOf(l), n - 1, TakeOut(s, n, 1))
         /\ BeheadedOf(l).next = l.next
<1>1. /\ (n > 0 => l.tail = s[n]) /\ \A i \in 2..n : l.pre[s[i]] = s[i - 1]
      /\ l.head = s[1] /\ \A i \in 1..n : l.next[s[i]] = s[i + 1]
  BY DEF Linked, Forward
<1>2. 1 \in 1..n /\ 2 \in 1..n /\ 1 + 1 = 2
  OBVIOUS
<1>3. s[1] \in Timers /\ s[2] \in Timers /\ l.next[s[1]] = s[2]
  BY <1>1, <1>2, Listed
<1> DEFINE m == BeheadedOf(l)
<1>4. /\ m \in ListType /\ m.head = s[2] /\ m.tail = l.tail /\ m.next = l.next
      /\ \A r \in Timers : m.pre[r] = IF r = s[2] THEN None ELSE l.pre[r]
  BY <1>1, <1>3, BeheadedSets
<1> HIDE DEF m
<1>5. ASSUME NEW i \in 2..n, i # 1 + 1 PROVE m.pre[s[i]] = s[i - 1]
  <2>1. i \in 1..(n + 1) /\ 2 \in 1..(n + 1) /\ i \in 1..n
    OBVIOUS
  <2>2. s[i] # s[2] /\ s[i] \in Timers
    BY <1>5, <2>1, Listed
  <2>3. QED
    BY <1>1, <1>4, <2>2
<1>6. Linked(m, n - 1, TakeOut(s, n, 1))
  <2>1. 1 # n /\ ~(1 > 1) /\ 1 < n
    OBVIOUS
  <2>2. m.tail = s[n]
    BY <1>1, <1>4
  <2>3. \A i \in 1..n : m.next[s[i]] = s[i + 1]
    BY <1>1, <1>4
  <2>4. QED
    BY <1>2, <1>4, <1>5, <2>1, <2>2, <2>3, TakeOutLinked
<1>7. QED
  BY <1>4, <1>6 DEF m

\* What is forgotten is not in the list.
LEMMA ForgottenLinked ==
  ASSUME NEW n \in Nat, NEW s \in Lists(n), NEW l \in ListType, Linked(l, n, s),
         NEW gone, gone \cap On(s, n) = {}
  PROVE  Linked(Forgotten(l, gone), n, s)
<1> DEFINE m == Forgotten(l, gone)
<1>1. /\ m.head = l.head /\ m.tail = l.tail
      /\ \A r \in Timers : m.next[r] = IF r \in gone THEN None ELSE l.next[r]
      /\ \A r \in Timers : m.pre[r] = IF r \in gone THEN None ELSE l.pre[r]
  BY ForgottenSets
<1> HIDE DEF m
<1>2. \A i \in 1..n : s[i] \in Timers /\ s[i] \notin gone
  BY Listed
<1>3. \A i \in 2..n : i \in 1..n
  OBVIOUS
<1>4. Linked(m, n, s)
  BY <1>1, <1>2, <1>3 DEF Linked, Forward
<1>5. QED
  BY <1>4 DEF m

\* Del_timer() of the k-th timer, of which nothing is left.
LEMMA DeletedLinked ==
  ASSUME NEW n \in Nat, NEW s \in Lists(n), NEW l \in ListType, Linked(l, n, s),
         NEW k \in 1..n, \A p \in Timers \ On(s, n) : l.next[p] = None
  PROVE  /\ Forgotten(Deleted(l, s[k]), {s[k]}) \in ListType
         /\ Linked(Forgotten(Deleted(l, s[k]), {s[k]}), n - 1, TakeOut(s, n, k))
         /\ \A p \in Timers \ (On(s, n) \ {s[k]}) : Forgotten(Deleted(l, s[k]), {s[k]}).next[p] = None
<1>1. /\ l.tail = s[n] /\ \A i \in 2..n : l.pre[s[i]] = s[i - 1]
      /\ l.head = s[1] /\ \A i \in 1..n : l.next[s[i]] = s[i + 1]
  BY DEF Linked, Forward
<1>2. s[k] \in Timers /\ n \in 1..n /\ 1 \in 1..n /\ 1 \in 1..(n + 1) /\ n \in 1..(n + 1) /\ k \in 1..(n + 1)
  BY Listed
<1>3. (s[k] = l.head <=> k = 1) /\ (s[k] = l.tail <=> k = n)
  BY <1>1, <1>2, Listed
<1> DEFINE m == Deleted(l, s[k])
<1>4. m \in ListType /\ Linked(m, n - 1, TakeOut(s, n, k)) /\ \A p \in Timers \ On(s, n) : m.next[p] = None
  <2>1. CASE k = 1 /\ k = n
    <3>1. m = [l EXCEPT !.head = None, !.tail = None]
      BY <1>3, <2>1 DEF Deleted
    <3>2. m \in ListType /\ m.head = None /\ m.next = l.next
      BY <3>1 DEF ListType, Pointer
    <3> HIDE DEF m
    <3>3. s[2] = None
      <4>1. 2 \in 1..(n + 1) /\ 2 = n + 1
        BY <2>1
      <4>2. QED
        BY <4>1, Listed
    <3>4. ~(n > 1) /\ ~(k > 1) /\ ~(k < n) /\ 2..n = {} /\ \A i \in 1..n : i = k
      BY <2>1
    <3>5. Linked(m, n - 1, TakeOut(s, n, k))
      BY <2>1, <3>2, <3>3, <3>4, TakeOutLinked
    <3>6. QED
      BY <3>2, <3>5
  <2>2. CASE k = 1 /\ k # n
    <3>1. m = BeheadedOf(l)
      BY <1>3, <2>2 DEF Deleted
    <3> HIDE DEF m
    <3>2. n > 1
      BY <2>2
    <3>3. QED
      BY <2>2, <3>1, <3>2, BeheadedLinked
  <2>3. CASE k # 1 /\ k = n
    <3>1. /\ n \in 2..n /\ n - 1 \in 1..n /\ n - 1 \in 1..(n + 1) /\ n > 1 /\ n + 1 \in 1..(n + 1)
          /\ (n - 1) + 1 = n
      BY <2>3
    <3>2. l.pre[s[k]] = s[n - 1] /\ s[n - 1] \in Timers /\ s[n + 1] = None
      BY <1>1, <2>3, <3>1, Listed
    <3>3. m = [l EXCEPT !.tail = s[n - 1], !.next[s[n - 1]] = None]
      BY <1>3, <2>3, <3>2 DEF Deleted
    <3>4. /\ m.head = l.head /\ m.tail = s[n - 1] /\ m.pre = l.pre
          /\ m.next = [l.next EXCEPT ![s[n - 1]] = None]
      BY <3>3 DEF ListType
    <3>5. l.next \in [Timers -> Pointer] /\ None \in Pointer /\ s[n - 1] \in Pointer
      BY <3>2 DEF ListType, Pointer
    <3>6. m.next \in [Timers -> Pointer]
      BY <3>4, <3>5
    <3>7. m \in ListType
      BY <3>3, <3>5, <3>6 DEF ListType
    <3>8. \A r \in Timers : m.next[r] = IF r = s[n - 1] THEN None ELSE l.next[r]
      BY <3>4, <3>5
    <3> HIDE DEF m
    <3>9. ASSUME NEW i \in 1..n, i # k, i # k - 1 PROVE m.next[s[i]] = s[i + 1]
      <4>1. i \in 1..(n + 1) /\ i # n - 1
        BY <2>3, <3>9
      <4>2. s[i] # s[n - 1] /\ s[i] \in Timers
        BY <3>1, <4>1, Listed
      <4>3. QED
        BY <1>1, <3>8, <4>2
    <3>10. m.next[s[k - 1]] = s[k + 1]
      BY <2>3, <3>2, <3>8
    <3>11. \A i \in 2..n : m.pre[s[i]] = s[i - 1]
      BY <1>1, <3>4
    <3>12. Linked(m, n - 1, TakeOut(s, n, k))
      <4>1. k > 1 /\ ~(k < n)
        BY <2>3
      <4>2. m.head = s[1]
        BY <1>1, <3>4
      <4>3. QED
        BY <2>3, <3>4, <3>9, <3>10, <3>11, <4>1, <4>2, TakeOutLinked
    <3>13. \A p \in Timers \ On(s, n) : m.next[p] = None
      BY <3>8
    <3>14. QED
      BY <3>7, <3>12, <3>13
  <2>4. CASE k # 1 /\ k # n
    <3>1. m = Unlinked(l, s[k])
      BY <1>3, <2>4 DEF Deleted
    <3> HIDE DEF m
    <3>2. k \in 2..(n - 1)
      BY <2>4
    <3>3. QED
      BY <3>1, <3>2, UnlinkedLinked
  <2>5. QED
    BY <2>1, <2>2, <2>3, <2>4
<1> HIDE DEF m
<1>5. /\ n - 1 \in Nat /\ TakeOut(s, n, k) \in Lists(n - 1)
      /\ On(TakeOut(s, n, k), n - 1) = On(s, n) \ {s[k]}
  BY TakeOutListed
<1>6. {s[k]} \cap On(TakeOut(s, n, k), n - 1) = {}
  BY <1>5
<1>7. Linked(Forgotten(m, {s[k]}), n - 1, TakeOut(s, n, k))
  BY <1>4, <1>5, <1>6, ForgottenLinked
<1>8. /\ Forgotten(m, {s[k]}) \in ListType
      /\ \A r \in Timers : Forgotten(m, {s[k]}).next[r] = IF r \in {s[k]} THEN None ELSE m.next[r]
  BY <1>4, ForgottenSets
<1>9. QED
  BY <1>4, <1>7, <1>8 DEF m

\* The order does not look at a timer that is not in the list.
LEMMA OrderedSame ==
  ASSUME NEW n \in Nat, NEW s \in Lists(n), NEW x, NEW y, Ordered(s, n, x),
         \A p \in On(s, n) : y[p] = x[p]
  PROVE  Ordered(s, n, y)
BY Listed DEF Ordered

LEMMA DeletedKeeps ==
  ASSUME NEW l, NEW D, NEW x, NEW y, NEW o, IsListOf(l, D, x, o), NEW t \in D,
         \A p \in D \ {t} : y[p] = x[p]
  PROVE  IsListOf(Forgotten(Deleted(l, t), {t}), D \ {t}, y, o)
<1>0. PICK n \in Nat : \E s \in Lists(n) : Linked(l, n, s) /\ On(s, n) = D /\ (o => Ordered(s, n, x))
  BY DEF IsListOf
<1>1. PICK s \in Lists(n) : Linked(l, n, s) /\ On(s, n) = D /\ (o => Ordered(s, n, x))
  BY <1>0
<1>2. l \in ListType /\ \A p \in Timers \ On(s, n) : l.next[p] = None
  BY <1>1 DEF IsListOf
<1>3. PICK k \in 1..n : t = s[k]
  BY <1>1, Listed
<1> DEFINE m == Forgotten(Deleted(l, t), {t})
<1>4. /\ m \in ListType /\ Linked(m, n - 1, TakeOut(s, n, k))
      /\ \A p \in Timers \ (D \ {t}) : m.next[p] = None
  <2>1. /\ Forgotten(Deleted(l, s[k]), {s[k]}) \in ListType
        /\ Linked(Forgotten(Deleted(l, s[k]), {s[k]}), n - 1, TakeOut(s, n, k))
        /\ \A p \in Timers \ (On(s, n) \ {s[k]}) : Forgotten(Deleted(l, s[k]), {s[k]}).next[p] = None
    BY <1>1, <1>2, DeletedLinked
  <2>2. QED
    BY <1>1, <1>3, <2>1
<1> HIDE DEF m
<1>5. /\ n - 1 \in Nat /\ TakeOut(s, n, k) \in Lists(n - 1)
      /\ On(TakeOut(s, n, k), n - 1) = D \ {t}
  <2>1. /\ n - 1 \in Nat /\ TakeOut(s, n, k) \in Lists(n - 1)
        /\ On(TakeOut(s, n, k), n - 1) = On(s, n) \ {s[k]}
    BY TakeOutListed
  <2>2. QED
    BY <1>1, <1>3, <2>1
<1>6. o => Ordered(TakeOut(s, n, k), n - 1, x)
  BY <1>1, TakeOutOrdered
<1>7. o => Ordered(TakeOut(s, n, k), n - 1, y)
  BY <1>5, <1>6, OrderedSame
<1>8. IsListOf(m, D \ {t}, y, o)
  BY <1>4, <1>5, <1>7 DEF IsListOf
<1>9. QED
  BY <1>8 DEF m

\* A timer outside the list loses its pointers.
LEMMA ClearedLinked ==
  ASSUME NEW n \in Nat, NEW s \in Lists(n), NEW l \in ListType, Linked(l, n, s),
         NEW t \in Timers \ On(s, n), NEW m \in ListType, m.head = l.head, m.tail = l.tail,
         \A r \in Timers \ {t} : m.next[r] = l.next[r] /\ m.pre[r] = l.pre[r]
  PROVE  Linked(m, n, s)
<1>1. \A i \in 1..n : s[i] \in Timers \ {t}
  BY Listed
<1>2. \A i \in 2..n : i \in 1..n
  OBVIOUS
<1>3. QED
  BY <1>1, <1>2 DEF Linked, Forward

Cleared(l, t) == [l EXCEPT !.next[t] = None]

LEMMA ClearedNext ==
  ASSUME NEW l \in ListType, NEW t \in Timers
  PROVE  /\ Cleared(l, t) \in ListType
         /\ Cleared(l, t).head = l.head /\ Cleared(l, t).tail = l.tail /\ Cleared(l, t).pre = l.pre
         /\ \A r \in Timers : Cleared(l, t).next[r] = IF r = t THEN None ELSE l.next[r]
<1> DEFINE m == Cleared(l, t)
<1>1. m.head = l.head /\ m.tail = l.tail /\ m.pre = l.pre /\ m.next = [l.next EXCEPT ![t] = None]
  BY DEF ListType, Cleared
<1>2. l.next \in [Timers -> Pointer] /\ None \in Pointer
  BY DEF ListType, Pointer
<1>3. m.next \in [Timers -> Pointer]
  BY <1>1, <1>2
<1>4. m \in ListType
  BY <1>1, <1>2, <1>3 DEF ListType, Cleared
<1>5. QED
  BY <1>1, <1>2, <1>4 DEF m

LEMMA ClearedBoth ==
  ASSUME NEW l \in ListType, NEW t \in Timers
  PROVE  /\ [l EXCEPT !.next[t] = None, !.pre[t] = None] \in ListType
         /\ [l EXCEPT !.next[t] = None, !.pre[t] = None].head = l.head
         /\ [l EXCEPT !.next[t] = None, !.pre[t] = None].tail = l.tail
         /\ \A r \in Timers : [l EXCEPT !.next[t] = None, !.pre[t] = None].next[r] =
                                IF r = t THEN None ELSE l.next[r]
         /\ \A r \in Timers : [l EXCEPT !.next[t] = None, !.pre[t] = None].pre[r] =
                                IF r = t THEN None ELSE l.pre[r]
<1> DEFINE m == [l EXCEPT !.next[t] = None, !.pre[t] = None]
<1>1. /\ m.head = l.head /\ m.tail = l.tail
      /\ m.next = [l.next EXCEPT ![t] = None] /\ m.pre = [l.pre EXCEPT ![t] = None]
  BY DEF ListType
<1>2. l.next \in [Timers -> Pointer] /\ l.pre \in [Timers -> Pointer] /\ None \in Pointer
  BY DEF ListType, Pointer
<1>3. m.next \in [Timers -> Pointer] /\ m.pre \in [Timers -> Pointer]
  BY <1>1, <1>2
<1>4. m \in ListType
  BY <1>1, <1>2, <1>3 DEF ListType
<1>5. QED
  BY <1>1, <1>2, <1>4

\* A list stays one when the pointers of another timer are cleared.
LEMMA ClearedKeeps ==
  ASSUME NEW l, NEW D, NEW x, NEW y, NEW o, IsListOf(l, D, x, o), NEW t \in Timers \ D,
         \A p \in D : y[p] = x[p]
  PROVE  IsListOf([l EXCEPT !.next[t] = None, !.pre[t] = None], D, y, o)
<1>0. PICK n \in Nat : \E s \in Lists(n) : Linked(l, n, s) /\ On(s, n) = D /\ (o => Ordered(s, n, x))
  BY DEF IsListOf
<1>1. PICK s \in Lists(n) : Linked(l, n, s) /\ On(s, n) = D /\ (o => Ordered(s, n, x))
  BY <1>0
<1>2. l \in ListType /\ \A p \in Timers \ D : l.next[p] = None
  BY DEF IsListOf
<1> DEFINE m == [l EXCEPT !.next[t] = None, !.pre[t] = None]
<1>3. /\ m \in ListType /\ m.head = l.head /\ m.tail = l.tail
      /\ \A r \in Timers : m.next[r] = IF r = t THEN None ELSE l.next[r]
      /\ \A r \in Timers : m.pre[r] = IF r = t THEN None ELSE l.pre[r]
  BY <1>2, ClearedBoth
<1> HIDE DEF m
<1>4. Linked(m, n, s)
  <2>1. t \in Timers \ On(s, n)
    BY <1>1
  <2>2. \A r \in Timers \ {t} : m.next[r] = l.next[r] /\ m.pre[r] = l.pre[r]
    BY <1>3
  <2>3. QED
    BY <1>1, <1>2, <1>3, <2>1, <2>2, ClearedLinked
<1>5. o => Ordered(s, n, y)
  BY <1>1, OrderedSame
<1>6. IsListOf(m, D, y, o)
  BY <1>1, <1>2, <1>3, <1>4, <1>5 DEF IsListOf
<1>7. QED
  BY <1>6 DEF m

-----------------------------------------------------------------------------
(* Adjust_timer(). *)

\* What Adjusted() inserts the timer into.
Loosened(l, t) == IF t = l.head THEN Cleared(BeheadedOf(l), t) ELSE Unlinked(l, t)

\* Taken out of its place, which is not the last, with its m_next in the list or null.
LEMMA LoosenedLinked ==
  ASSUME NEW n \in Nat, NEW s \in Lists(n), NEW l \in ListType, Linked(l, n, s),
         NEW k \in 1..n, k < n, \A p \in Timers \ On(s, n) : l.next[p] = None
  PROVE  /\ Loosened(l, s[k]) \in ListType /\ Linked(Loosened(l, s[k]), n - 1, TakeOut(s, n, k))
         /\ \A p \in Timers \ On(s, n) : Loosened(l, s[k]).next[p] = None
         /\ Loosened(l, s[k]).next[s[k]] \in {None, s[k + 1]}
<1> DEFINE m == Loosened(l, s[k])
<1>1. s[k] \in Timers /\ (s[k] = l.head <=> k = 1)
  <2>1. l.head = s[1] /\ 1 \in 1..(n + 1) /\ k \in 1..(n + 1)
    BY DEF Linked, Forward
  <2>2. QED
    BY <2>1, Listed
<1>2. CASE k = 1
  <2> DEFINE b == BeheadedOf(l)
  <2>1. n > 1
    BY <1>2
  <2>2. b \in ListType /\ Linked(b, n - 1, TakeOut(s, n, 1)) /\ b.next = l.next
    BY <2>1, BeheadedLinked
  <2>3. m = Cleared(b, s[k])
    BY <1>1, <1>2 DEF Loosened
  <2> HIDE DEF b, m
  <2>4. /\ m \in ListType /\ m.head = b.head /\ m.tail = b.tail /\ m.pre = b.pre
        /\ \A r \in Timers : m.next[r] = IF r = s[k] THEN None ELSE b.next[r]
    BY <1>1, <2>2, <2>3, ClearedNext
  <2>5. n - 1 \in Nat /\ TakeOut(s, n, k) \in Lists(n - 1) /\ s[k] \notin On(TakeOut(s, n, k), n - 1)
    <3>1. /\ n - 1 \in Nat /\ TakeOut(s, n, k) \in Lists(n - 1)
          /\ On(TakeOut(s, n, k), n - 1) = On(s, n) \ {s[k]}
      BY TakeOutListed
    <3>2. QED
      BY <3>1
  <2>6. Linked(m, n - 1, TakeOut(s, n, k))
    <3>1. Linked(b, n - 1, TakeOut(s, n, k))
      BY <1>2, <2>2
    <3>2. \A r \in Timers \ {s[k]} : m.next[r] = b.next[r] /\ m.pre[r] = b.pre[r]
      BY <2>4
    <3>3. s[k] \in Timers \ On(TakeOut(s, n, k), n - 1)
      BY <1>1, <2>5
    <3>4. QED
      BY <2>2, <2>4, <2>5, <3>1, <3>2, <3>3, ClearedLinked
  <2>7. QED
    BY <1>1, <2>2, <2>4, <2>6 DEF m
<1>3. CASE k # 1
  <2>1. m = Unlinked(l, s[k]) /\ k \in 2..(n - 1)
    BY <1>1, <1>3 DEF Loosened
  <2>2. /\ Unlinked(l, s[k]) \in ListType
        /\ Linked(Unlinked(l, s[k]), n - 1, TakeOut(s, n, k))
        /\ \A p \in Timers \ On(s, n) : Unlinked(l, s[k]).next[p] = l.next[p]
        /\ Unlinked(l, s[k]).next[s[k]] = s[k + 1]
    BY <2>1, UnlinkedLinked
  <2>3. QED
    BY <2>1, <2>2
<1>4. QED
  BY <1>2, <1>3

LEMMA AdjustedKeeps ==
  ASSUME NEW l, NEW D, NEW x \in Times, NEW y \in Times, NEW o, IsListOf(l, D, x, o), NEW t \in D,
         \A p \in Timers \ {t} : y[p] = x[p], o => x[t] <= y[t]
  PROVE  IsListOf(Adjusted(l, y, t), D, y, o)
<1>0. PICK n \in Nat : \E s \in Lists(n) : Linked(l, n, s) /\ On(s, n) = D /\ (o => Ordered(s, n, x))
  BY DEF IsListOf
<1>1. PICK s \in Lists(n) : Linked(l, n, s) /\ On(s, n) = D /\ (o => Ordered(s, n, x))
  BY <1>0
<1>2. l \in ListType /\ \A p \in Timers \ On(s, n) : l.next[p] = None
  BY <1>1 DEF IsListOf
<1>3. PICK k \in 1..n : t = s[k]
  BY <1>1, Listed
<1>4. t \in Timers /\ l.next[t] = s[k + 1] /\ k \in 1..(n + 1) /\ k + 1 \in 1..(n + 1)
  <2>1. s[k] \in Timers /\ l.next[s[k]] = s[k + 1]
    BY <1>1, Listed DEF Linked, Forward
  <2>2. QED
    BY <1>3, <2>1
<1>5. \A i \in 1..n : s[i] \in Timers /\ x[s[i]] \in Int /\ y[s[i]] \in Int
  BY Listed DEF Times
<1>6. \A i \in 1..n : i # k => y[s[i]] = x[s[i]]
  <2>1. ASSUME NEW i \in 1..n, i # k PROVE y[s[i]] = x[s[i]]
    <3>1. i \in 1..(n + 1)
      OBVIOUS
    <3>2. s[i] # t
      BY <1>3, <1>4, <2>1, <3>1, Listed
    <3>3. QED
      BY <1>5, <3>2
  <2>2. QED
    BY <2>1
<1>7. CASE l.next[t] = None \/ y[l.next[t]] > y[t]
  <2>1. Adjusted(l, y, t) = l
    BY <1>7 DEF Adjusted
  <2>2. k = n \/ (k + 1 \in 1..n /\ y[s[k + 1]] > y[s[k]])
    <3>1. s[k + 1] = None => k + 1 = n + 1
      BY <1>4, Listed
    <3>2. QED
      BY <1>3, <1>4, <1>7, <3>1
  <2>3. ASSUME o, NEW i \in 1..n, NEW j \in 1..n, i <= j PROVE y[s[i]] <= y[s[j]]
    <3>1. x[s[i]] <= x[s[j]] /\ x[s[i]] \in Int /\ x[s[j]] \in Int /\ y[s[i]] \in Int /\ y[s[j]] \in Int
      BY <1>1, <1>5, <2>3 DEF Ordered
    <3>2. CASE i = j
      BY <3>1, <3>2
    <3>3. CASE i # j /\ i = k
      <4>1. k + 1 \in 1..n /\ k + 1 <= j /\ j # k /\ k + 1 # k
        BY <2>3, <3>3
      <4>2. k # n
        BY <2>3, <3>3
      <4>3. y[s[k + 1]] > y[s[k]]
        BY <2>2, <4>2
      <4>4. y[s[k + 1]] = x[s[k + 1]] /\ y[s[j]] = x[s[j]]
        BY <1>6, <4>1
      <4>5. x[s[k + 1]] <= x[s[j]]
        BY <1>1, <2>3, <4>1 DEF Ordered
      <4>6. x[s[k + 1]] \in Int
        BY <1>5, <4>1
      <4>7. QED
        BY <3>1, <3>3, <4>3, <4>4, <4>5, <4>6
    <3>4. CASE i # j /\ j = k
      <4>1. y[s[i]] = x[s[i]] /\ x[s[k]] <= y[s[k]]
        BY <1>3, <1>6, <2>3, <3>4
      <4>2. QED
        BY <3>1, <3>4, <4>1
    <3>5. CASE i # k /\ j # k
      BY <1>6, <3>1, <3>5
    <3>6. QED
      BY <3>2, <3>3, <3>4, <3>5
  <2>4. o => Ordered(s, n, y)
    BY <2>3 DEF Ordered
  <2>5. IsListOf(l, D, y, o)
    BY <1>1, <1>2, <2>4 DEF IsListOf
  <2>6. QED
    BY <2>1, <2>5
<1>8. CASE ~(l.next[t] = None \/ y[l.next[t]] > y[t])
  <2> DEFINE u == TakeOut(s, n, k)
             b == Loosened(l, t)
             m == Insert(b, y, t)
  <2>1. Adjusted(l, y, t) = m
    BY <1>8 DEF Adjusted, Loosened, Cleared
  <2>2. k < n
    <3>1. s[k + 1] # None
      BY <1>4, <1>8
    <3>2. k + 1 # n + 1
      BY <1>4, <3>1, Listed
    <3>3. QED
      BY <3>2
  <2>3. b = Loosened(l, s[k])
    BY <1>3
  <2>4. k + 1 \in 1..n /\ k \in 1..(n - 1)
    BY <2>2
  <2> HIDE DEF b
  <2>5. /\ b \in ListType /\ Linked(b, n - 1, u)
        /\ \A p \in Timers \ On(s, n) : b.next[p] = None
        /\ b.next[s[k]] \in {None, s[k + 1]}
    BY <1>1, <1>2, <2>2, <2>3, LoosenedLinked
  <2>6. /\ n - 1 \in Nat /\ u \in Lists(n - 1) /\ On(u, n - 1) = On(s, n) \ {s[k]}
        /\ \A i \in k..n : u[i] = s[i + 1]
    BY TakeOutListed
  <2>7. o => Ordered(u, n - 1, x)
    BY <1>1, TakeOutOrdered
  <2> HIDE DEF u, m
  <2>8. n - 1 > 0 /\ t \in Timers \ On(u, n - 1)
    BY <1>3, <1>4, <2>2, <2>6
  <2>9. \A p \in Timers \ On(u, n - 1) : b.next[p] \in On(u, n - 1) \cup {None}
    <3>1. s[k + 1] # s[k] /\ s[k + 1] \in On(s, n)
      <4>1. k + 1 # k
        OBVIOUS
      <4>2. QED
        BY <1>4, <2>4, <4>1, Listed
    <3>2. QED
      BY <2>5, <2>6, <3>1
  <2>10. PICK j \in 1..(n - 1) :
           /\ m \in ListType
           /\ Linked(m, (n - 1) + 1, PutIn(u, n - 1, j, t))
           /\ \A p \in Timers \ (On(u, n - 1) \cup {t}) : m.next[p] = b.next[p]
           /\ j < n - 1 => y[u[j + 1]] > y[t]
           /\ j > 1 => ~(y[u[j]] > y[t])
    BY <2>5, <2>6, <2>8, <2>9, InsertLinked DEF m
  <2>11. /\ PutIn(u, n - 1, j, t) \in Lists((n - 1) + 1)
         /\ On(PutIn(u, n - 1, j, t), (n - 1) + 1) = On(u, n - 1) \cup {t}
    <3>1. PICK q \in Nat : q = n - 1
      BY <2>6
    <3>2. j \in 0..q /\ u \in Lists(q) /\ t \in Timers \ On(u, q)
      BY <2>6, <2>8, <3>1
    <3>3. /\ PutIn(u, q, j, t) \in Lists(q + 1)
          /\ On(PutIn(u, q, j, t), q + 1) = On(u, q) \cup {t}
      BY <3>2, PutInListed
    <3>4. QED
      BY <3>1, <3>3
  <2>12. (n - 1) + 1 = n
    OBVIOUS
  <2>13. o => Ordered(PutIn(u, n - 1, j, t), (n - 1) + 1, y)
    <3> SUFFICES ASSUME o PROVE Ordered(PutIn(u, n - 1, j, t), (n - 1) + 1, y)
      OBVIOUS
    <3>1. \A p \in On(u, n - 1) : p \in Timers \ {t}
      BY <1>3, <2>6, Listed
    <3>2. Ordered(u, n - 1, y)
      BY <2>6, <2>7, <3>1, OrderedSame
    <3>3. \A i \in 1..(n - 1) : u[i] \in Timers /\ y[u[i]] \in Int
      BY <2>6, Listed DEF Times
    <3>4. y[t] \in Int
      BY <1>4 DEF Times
    <3>5. y[u[1]] <= y[t]
      <4>1. u[k] = s[k + 1] /\ 1 \in 1..(n - 1) /\ k \in 1..(n - 1) /\ 1 <= k
        BY <2>4, <2>6
      <4>2. ~(y[u[k]] > y[t])
        BY <1>4, <1>8, <4>1
      <4>3. y[u[1]] <= y[u[k]]
        BY <3>2, <4>1 DEF Ordered
      <4>4. QED
        BY <3>3, <3>4, <4>1, <4>2, <4>3
    <3>6. y[u[j]] <= y[t]
      <4>1. CASE j = 1
        BY <3>5, <4>1
      <4>2. CASE j > 1
        BY <2>10, <3>3, <3>4, <4>2
      <4>3. QED
        BY <4>1, <4>2
    <3>7. j < n - 1 => y[t] <= y[u[j + 1]]
      <4> SUFFICES ASSUME j < n - 1 PROVE y[t] <= y[u[j + 1]]
        OBVIOUS
      <4>1. j + 1 \in 1..(n - 1)
        OBVIOUS
      <4>2. y[u[j + 1]] \in Int
        BY <3>3, <4>1
      <4>3. QED
        BY <2>10, <3>4, <4>2
    <3>8. j \in 0..(n - 1)
      OBVIOUS
    <3>9. QED
      BY <2>6, <2>8, <3>2, <3>6, <3>7, <3>8, PutInOrdered
  <2>14. On(u, n - 1) \cup {t} = D
    BY <1>1, <1>3, <2>6
  <2>15. \A p \in Timers \ D : m.next[p] = None
    BY <1>1, <2>5, <2>10, <2>14
  <2>16. IsListOf(m, D, y, o)
    BY <2>10, <2>11, <2>12, <2>13, <2>14, <2>15 DEF IsListOf
  <2>17. QED
    BY <2>1, <2>16
<1>9. QED
  BY <1>7, <1>8

-----------------------------------------------------------------------------
(* tick(). *)

\* The list without the first j - 1, of which nothing is left.
LEMMA PassedLinked ==
  ASSUME NEW n \in Nat, NEW s \in Lists(n), NEW l \in ListType, Linked(l, n, s),
         NEW j \in 1..(n + 1), NEW due, due = {s[k] : k \in 1..(j - 1)}
  PROVE  /\ Forgotten([l EXCEPT !.head = s[j]], due) \in ListType
         /\ Linked(Forgotten([l EXCEPT !.head = s[j]], due), n - j + 1, From(s, n, j))
         /\ \A p \in Timers : Forgotten([l EXCEPT !.head = s[j]], due).next[p] =
                                IF p \in due THEN None ELSE l.next[p]
<1>1. /\ (n > 0 => l.tail = s[n]) /\ \A i \in 2..n : l.pre[s[i]] = s[i - 1]
      /\ l.head = s[1] /\ \A i \in 1..n : l.next[s[i]] = s[i + 1]
  BY DEF Linked, Forward
<1> DEFINE m == [l EXCEPT !.head = s[j]]
<1>2. m \in ListType /\ m.head = s[j] /\ m.tail = l.tail /\ m.next = l.next /\ m.pre = l.pre
  BY Listed DEF ListType
<1> HIDE DEF m
<1>3. Linked(m, n - j + 1, From(s, n, j))
  <2>1. j <= n => m.tail = s[n]
    BY <1>1, <1>2
  <2>2. \A i \in j..n : m.next[s[i]] = s[i + 1]
    BY <1>1, <1>2
  <2>3. \A i \in (j + 1)..n : m.pre[s[i]] = s[i - 1]
    <3>1. \A i \in (j + 1)..n : i \in 2..n
      OBVIOUS
    <3>2. QED
      BY <1>1, <1>2, <3>1
  <2>4. QED
    BY <1>2, <2>1, <2>2, <2>3, FromLinked
<1>4. /\ n - j + 1 \in Nat /\ From(s, n, j) \in Lists(n - j + 1)
      /\ due \cap On(From(s, n, j), n - j + 1) = {}
  <2>1. /\ n - j + 1 \in Nat /\ From(s, n, j) \in Lists(n - j + 1)
        /\ On(From(s, n, j), n - j + 1) = On(s, n) \ {s[k] : k \in 1..(j - 1)}
    BY FromListed
  <2>2. QED
    BY <2>1
<1>5. Linked(Forgotten(m, due), n - j + 1, From(s, n, j))
  BY <1>2, <1>3, <1>4, ForgottenLinked
<1>6. /\ Forgotten(m, due) \in ListType
      /\ \A r \in Timers : Forgotten(m, due).next[r] = IF r \in due THEN None ELSE m.next[r]
  BY <1>2, ForgottenSets
<1>7. QED
  BY <1>2, <1>5, <1>6 DEF m

NotDue(x, c) == {p \in Timers : x[p] > c}

TickKept(l, D, x, y, o, c, kept, due) ==
  /\ due \subseteq D
  /\ o => due = {p \in D : x[p] <= c}
  /\ kept # None => IsListOf(Forgotten([l EXCEPT !.head = kept], due), D \ due, y, o)

\* The timers in front of the first that is not due at c are the ones that are, if the list
\* ascends.
LEMMA TickKeeps ==
  ASSUME NEW l, NEW D, NEW x \in Times, NEW y, NEW o, IsListOf(l, D, x, o), NEW c \in Int,
         NEW kept, kept = First(l, NotDue(x, c)),
         NEW due, due = Passed(l, kept), \A p \in D \ due : y[p] = x[p]
  PROVE  TickKept(l, D, x, y, o, c, kept, due)
<1>0. PICK n \in Nat : \E s \in Lists(n) : Linked(l, n, s) /\ On(s, n) = D /\ (o => Ordered(s, n, x))
  BY DEF IsListOf
<1>1. PICK s \in Lists(n) : Linked(l, n, s) /\ On(s, n) = D /\ (o => Ordered(s, n, x))
  BY <1>0
<1>2. /\ l \in ListType /\ Forward(l, n, s) /\ \A p \in Timers \ On(s, n) : l.next[p] = None
      /\ \A p \in Timers \ On(s, n) : l.next[p] \in On(s, n) \cup {None}
  BY <1>1 DEF IsListOf, Linked
<1> DEFINE S == NotDue(x, c)
<1>3. \A i \in 1..n : s[i] \in S <=> x[s[i]] > c
  BY Listed DEF NotDue
<1>4. kept = First(l, S)
  OBVIOUS
<1> HIDE DEF S
<1>5. kept = s[Halt(s, n, S, 1)]
  BY <1>2, <1>4, FirstIs
<1>6. PICK j \in 1..(n + 1) : /\ kept = s[j] /\ s[j] \in S \cup {None}
                              /\ \A m \in 1..(j - 1) : s[m] \notin S \cup {None}
  <2>1. 1 \in 1..(n + 1)
    OBVIOUS
  <2>2. /\ Halt(s, n, S, 1) \in 1..(n + 1) /\ s[Halt(s, n, S, 1)] \in S \cup {None}
        /\ \A m \in 1..(Halt(s, n, S, 1) - 1) : s[m] \notin S \cup {None}
    BY <2>1, Halts
  <2>3. QED
    BY <1>5, <2>2
<1>7. due = {s[k] : k \in 1..(j - 1)}
  <2>1. Passed(l, s[j]) = {s[k] : k \in 1..(j - 1)}
    BY <1>2, PassedIs
  <2>2. QED
    BY <1>6, <2>1
<1>8. due \subseteq D
  <2>1. \A k \in 1..(j - 1) : k \in 1..n
    OBVIOUS
  <2>2. QED
    BY <1>1, <1>7, <2>1, Listed
<1>9. \A i \in 1..n : x[s[i]] \in Int
  BY Listed DEF Times
<1>10. o => due = {p \in D : x[p] <= c}
  <2> SUFFICES ASSUME o PROVE due = {p \in D : x[p] <= c}
    OBVIOUS
  <2>1. ASSUME NEW i \in 1..n PROVE x[s[i]] <= c <=> i < j
    <3>1. CASE i < j
      <4>1. i \in 1..(j - 1)
        BY <3>1
      <4>2. ~(x[s[i]] > c)
        BY <1>3, <1>6, <4>1
      <4>3. QED
        BY <1>9, <3>1, <4>2
    <3>2. CASE ~(i < j)
      <4>1. j \in 1..n /\ j <= i
        BY <3>2
      <4>2. x[s[j]] > c
        BY <1>3, <1>6, <4>1, Listed
      <4>3. x[s[j]] <= x[s[i]]
        BY <1>1, <4>1 DEF Ordered
      <4>4. QED
        BY <1>9, <3>2, <4>1, <4>2, <4>3
    <3>3. QED
      BY <3>1, <3>2
  <2>2. \A p \in D : \E i \in 1..n : p = s[i]
    BY <1>1, Listed
  <2>3. ASSUME NEW p \in D PROVE p \in due <=> x[p] <= c
    <3>1. PICK i \in 1..n : p = s[i]
      BY <2>2
    <3>2. s[i] \in due <=> i < j
      <4>1. i < j => i \in 1..(j - 1)
        OBVIOUS
      <4>2. ASSUME NEW k \in 1..(j - 1), s[i] = s[k] PROVE i < j
        <5>1. i \in 1..(n + 1) /\ k \in 1..(n + 1)
          OBVIOUS
        <5>2. i = k
          BY <4>2, <5>1, Listed
        <5>3. QED
          BY <5>2
      <4>3. QED
        BY <1>7, <4>1, <4>2
    <3>3. QED
      BY <2>1, <3>1, <3>2
  <2>4. QED
    BY <1>8, <2>3
<1>11. ASSUME kept # None PROVE IsListOf(Forgotten([l EXCEPT !.head = kept], due), D \ due, y, o)
  <2> DEFINE m == Forgotten([l EXCEPT !.head = kept], due)
  <2>1. /\ m \in ListType /\ Linked(m, n - j + 1, From(s, n, j))
        /\ \A p \in Timers : m.next[p] = IF p \in due THEN None ELSE l.next[p]
    <3>1. /\ Forgotten([l EXCEPT !.head = s[j]], due) \in ListType
          /\ Linked(Forgotten([l EXCEPT !.head = s[j]], due), n - j + 1, From(s, n, j))
          /\ \A p \in Timers : Forgotten([l EXCEPT !.head = s[j]], due).next[p] =
                                 IF p \in due THEN None ELSE l.next[p]
      BY <1>1, <1>2, <1>7, PassedLinked
    <3>2. QED
      BY <1>6, <3>1
  <2> HIDE DEF m
  <2>2. /\ n - j + 1 \in Nat /\ From(s, n, j) \in Lists(n - j + 1)
        /\ On(From(s, n, j), n - j + 1) = D \ due
    <3>1. /\ n - j + 1 \in Nat /\ From(s, n, j) \in Lists(n - j + 1)
          /\ On(From(s, n, j), n - j + 1) = On(s, n) \ {s[k] : k \in 1..(j - 1)}
      BY FromListed
    <3>2. QED
      BY <1>1, <1>7, <3>1
  <2>3. o => Ordered(From(s, n, j), n - j + 1, y)
    <3>1. o => Ordered(From(s, n, j), n - j + 1, x)
      BY <1>1, FromOrdered
    <3>2. QED
      BY <2>2, <3>1, OrderedSame
  <2>4. \A p \in Timers \ (D \ due) : m.next[p] = None
    BY <1>1, <1>2, <2>1
  <2>5. IsListOf(m, D \ due, y, o)
    BY <2>1, <2>2, <2>3, <2>4 DEF IsListOf
  <2>6. QED
    BY <2>5 DEF m
<1>12. QED
  BY <1>8, <1>10, <1>11 DEF TickKept

-----------------------------------------------------------------------------
(* The inductive invariant. *)

TimerInv ==
  /\ TimerTypeOK
  /\ Running => IsListOf(list, live, m_expire, ~setBack)
  /\ ~setBack => \A t \in Timers : m_expire[t] <= now + Timeout

LEMMA EmptyList == IsListOf([head |-> None, tail |-> None,
                             next |-> [t \in Timers |-> None], pre |-> [t \in Timers |-> None]],
                            {}, [t \in Timers |-> 0], TRUE)
<1> DEFINE l == [head |-> None, tail |-> None,
                 next |-> [t \in Timers |-> None], pre |-> [t \in Timers |-> None]]
           s == [i \in 1..(0 + 1) |-> None]
           x == [t \in Timers |-> 0]
<1>1. l \in ListType /\ l.head = None /\ \A p \in Timers : l.next[p] = None
  BY DEF ListType, Pointer
<1> HIDE DEF l
<1>2. s \in Lists(0) /\ s[1] = None
  BY DEF Lists, Pointer
<1> HIDE DEF s
<1>3. Linked(l, 0, s) /\ On(s, 0) = {} /\ Ordered(s, 0, x)
  BY <1>1, <1>2 DEF Linked, Forward, On, Ordered
<1>4. IsListOf(l, {}, x, TRUE)
  BY <1>1, <1>2, <1>3 DEF IsListOf
<1>5. QED
  BY <1>4 DEF l

LEMMA TimerInit == Init => TimerInv
<1> SUFFICES ASSUME Init PROVE TimerInv
  OBVIOUS
<1>1. /\ list = [head |-> None, tail |-> None,
                 next |-> [t \in Timers |-> None], pre |-> [t \in Timers |-> None]]
      /\ m_expire = [t \in Timers |-> 0] /\ live = {} /\ now = 0 /\ setBack = FALSE /\ crashed = FALSE
      /\ m_actor_mod \in {0, 1}
  BY DEF Init
<1>2. IsListOf(list, live, m_expire, TRUE)
  BY <1>1, EmptyList
<1>3. TimerTypeOK
  <2>1. list \in ListType
    BY <1>2 DEF IsListOf
  <2>2. m_expire \in [Timers -> 0..(MaxTime + Timeout)] /\ now \in 0..MaxTime
    BY <1>1, TimerAssumption
  <2>3. QED
    BY <1>1, <2>1, <2>2 DEF TimerTypeOK, ListType
<1>4. \A t \in Timers : m_expire[t] <= now + Timeout
  BY <1>1, TimerAssumption
<1>5. (~setBack) = TRUE
  BY <1>1
<1>6. QED
  BY <1>2, <1>3, <1>4, <1>5 DEF TimerInv

\* The order is not asked for once the clock has been set back.
LEMMA IsListWeaker ==
  ASSUME NEW l, NEW D, NEW x, NEW o, IsListOf(l, D, x, o)
  PROVE  IsListOf(l, D, x, FALSE)
BY DEF IsListOf

LEMMA TimerTypes ==
  ASSUME TimerInv
  PROVE  /\ list \in ListType /\ live \subseteq Timers
         /\ m_expire \in [Timers -> 0..(MaxTime + Timeout)] /\ m_expire \in Times
         /\ now \in Nat /\ now \in 0..MaxTime /\ now + Timeout \in 0..(MaxTime + Timeout)
         /\ setBack \in BOOLEAN /\ (~setBack) \in BOOLEAN
<1>1. /\ list \in ListType /\ live \subseteq Timers
      /\ m_expire \in [Timers -> 0..(MaxTime + Timeout)] /\ now \in 0..MaxTime
      /\ setBack \in BOOLEAN
  BY DEF TimerInv, TimerTypeOK, ListType
<1>2. m_expire \in Times
  BY <1>1, TimerAssumption DEF Times
<1>3. now + Timeout \in 0..(MaxTime + Timeout)
  BY <1>1, TimerAssumption
<1>4. QED
  BY <1>1, <1>2, <1>3, TimerAssumption

\* What is left of the times.
LEMMA ExpiriesAre ==
  ASSUME TimerInv, NEW gone
  PROVE  /\ Expiries(gone) \in [Timers -> 0..(MaxTime + Timeout)]
         /\ \A p \in Timers : Expiries(gone)[p] = IF p \in gone THEN 0 ELSE m_expire[p]
<1>1. m_expire \in [Timers -> 0..(MaxTime + Timeout)] /\ 0 \in 0..(MaxTime + Timeout)
  BY TimerTypes, TimerAssumption
<1>2. QED
  BY <1>1 DEF Expiries

LEMMA AddInv == ASSUME TimerInv, NEW t \in Timers, Add(t) PROVE TimerInv'
<1>1. /\ Running /\ t \notin live /\ live' = live \cup {t}
      /\ m_expire' = [m_expire EXCEPT ![t] = now + Timeout]
      /\ list' = Added([list EXCEPT !.next[t] = None, !.pre[t] = None], m_expire', t)
      /\ now' = now /\ setBack' = setBack /\ crashed' = crashed /\ m_actor_mod' = m_actor_mod
  BY DEF Add
<1>2. /\ live \subseteq Timers /\ m_expire \in Times
      /\ m_expire \in [Timers -> 0..(MaxTime + Timeout)] /\ now + Timeout \in 0..(MaxTime + Timeout)
  BY TimerTypes
<1>3. PICK y \in [Timers -> 0..(MaxTime + Timeout)] :
        y = m_expire' /\ y[t] = now + Timeout /\ \A p \in Timers \ {t} : y[p] = m_expire[p]
  BY <1>1, <1>2
<1>4. y \in Times
  BY TimerAssumption DEF Times
<1>5. PICK o \in BOOLEAN : o = ~setBack
  BY TimerTypes
<1>6. IsListOf(list, live, m_expire, o)
  BY <1>1, <1>5 DEF TimerInv
<1> DEFINE l == [list EXCEPT !.next[t] = None, !.pre[t] = None]
<1>7. t \in Timers \ live /\ \A p \in live : y[p] = m_expire[p]
  BY <1>1, <1>2, <1>3
<1>8. IsListOf(l, live, y, o)
  BY <1>6, <1>7, ClearedKeeps
<1> HIDE DEF l
<1>9. IsListOf(Added(l, y, t), live \cup {t}, y, o)
  BY <1>4, <1>7, <1>8, AddedKeeps
<1>10. IsListOf(list', live', m_expire', ~setBack')
  BY <1>1, <1>3, <1>5, <1>9 DEF l
<1>11. TimerTypeOK'
  <2>1. list' \in ListType
    BY <1>10 DEF IsListOf
  <2>2. QED
    BY <1>1, <1>2, <1>3, <2>1 DEF TimerInv, TimerTypeOK, ListType
<1>12. ~setBack' => \A p \in Timers : m_expire'[p] <= now' + Timeout
  <2>1. now + Timeout <= now + Timeout
    BY TimerTypes, TimerAssumption
  <2>2. QED
    BY <1>1, <1>3, <2>1 DEF TimerInv
<1>13. QED
  BY <1>10, <1>11, <1>12 DEF TimerInv

LEMMA DelInv == ASSUME TimerInv, NEW t \in Timers, Del(t) PROVE TimerInv'
<1>1. /\ Running /\ t \in live /\ live' = live \ {t}
      /\ m_expire' = Expiries({t}) /\ list' = Forgotten(Deleted(list, t), {t})
      /\ now' = now /\ setBack' = setBack /\ crashed' = crashed /\ m_actor_mod' = m_actor_mod
  BY DEF Del
<1>2. live \subseteq Timers /\ now \in Nat /\ Timeout \in Nat
  BY TimerTypes, TimerAssumption
<1>3. PICK y \in [Timers -> 0..(MaxTime + Timeout)] :
        y = m_expire' /\ \A p \in Timers : y[p] = IF p \in {t} THEN 0 ELSE m_expire[p]
  BY <1>1, ExpiriesAre
<1>5. PICK o \in BOOLEAN : o = ~setBack
  BY TimerTypes
<1>6. IsListOf(list, live, m_expire, o)
  BY <1>1, <1>5 DEF TimerInv
<1>7. \A p \in live \ {t} : y[p] = m_expire[p]
  BY <1>2, <1>3
<1>8. IsListOf(Forgotten(Deleted(list, t), {t}), live \ {t}, y, o)
  BY <1>1, <1>6, <1>7, DeletedKeeps
<1>10. IsListOf(list', live', m_expire', ~setBack')
  BY <1>1, <1>3, <1>5, <1>8
<1>11. TimerTypeOK'
  <2>1. list' \in ListType
    BY <1>10 DEF IsListOf
  <2>2. QED
    BY <1>1, <1>2, <1>3, <2>1 DEF TimerInv, TimerTypeOK, ListType
<1>12. ~setBack' => \A p \in Timers : m_expire'[p] <= now' + Timeout
  <2>1. 0 <= now + Timeout
    BY <1>2
  <2>2. QED
    BY <1>1, <1>3, <2>1 DEF TimerInv
<1>13. QED
  BY <1>10, <1>11, <1>12 DEF TimerInv

LEMMA AdjustReactorInv == ASSUME TimerInv, NEW t \in Timers, AdjustReactor(t) PROVE TimerInv'
<1>1. /\ Running /\ t \in live /\ list' = Adjusted(list, m_expire, t)
      /\ m_expire' = m_expire /\ live' = live
      /\ now' = now /\ setBack' = setBack /\ crashed' = crashed /\ m_actor_mod' = m_actor_mod
  BY DEF AdjustReactor
<1>2. m_expire \in Times /\ m_expire[t] <= m_expire[t]
  BY TimerTypes DEF Times
<1>5. PICK o \in BOOLEAN : o = ~setBack
  BY TimerTypes
<1>6. IsListOf(list, live, m_expire, o)
  BY <1>1, <1>5 DEF TimerInv
<1>8. IsListOf(Adjusted(list, m_expire, t), live, m_expire, o)
  BY <1>1, <1>2, <1>6, AdjustedKeeps
<1>10. IsListOf(list', live', m_expire', ~setBack')
  BY <1>1, <1>5, <1>8
<1>11. TimerTypeOK'
  <2>1. list' \in ListType
    BY <1>10 DEF IsListOf
  <2>2. QED
    BY <1>1, <2>1 DEF TimerInv, TimerTypeOK, ListType
<1>13. QED
  BY <1>1, <1>10, <1>11 DEF TimerInv

LEMMA AdjustProactorInv == ASSUME TimerInv, NEW t \in Timers, AdjustProactor(t) PROVE TimerInv'
<1>1. /\ Running /\ t \in live /\ list' = Adjusted(list, m_expire', t)
      /\ m_expire' = [m_expire EXCEPT ![t] = now + Timeout] /\ live' = live
      /\ now' = now /\ setBack' = setBack /\ crashed' = crashed /\ m_actor_mod' = m_actor_mod
  BY DEF AdjustProactor
<1>2. /\ m_expire \in Times
      /\ m_expire \in [Timers -> 0..(MaxTime + Timeout)] /\ now + Timeout \in 0..(MaxTime + Timeout)
  BY TimerTypes
<1>3. PICK y \in [Timers -> 0..(MaxTime + Timeout)] :
        y = m_expire' /\ y[t] = now + Timeout /\ \A p \in Timers \ {t} : y[p] = m_expire[p]
  BY <1>1, <1>2
<1>4. y \in Times
  BY TimerAssumption DEF Times
<1>5. PICK o \in BOOLEAN : o = ~setBack
  BY TimerTypes
<1>6. IsListOf(list, live, m_expire, o)
  BY <1>1, <1>5 DEF TimerInv
<1>7. o => m_expire[t] <= y[t]
  BY <1>3, <1>5 DEF TimerInv
<1>8. IsListOf(Adjusted(list, y, t), live, y, o)
  BY <1>1, <1>2, <1>3, <1>4, <1>6, <1>7, AdjustedKeeps
<1>10. IsListOf(list', live', m_expire', ~setBack')
  BY <1>1, <1>3, <1>5, <1>8
<1>11. TimerTypeOK'
  <2>1. list' \in ListType
    BY <1>10 DEF IsListOf
  <2>2. QED
    BY <1>1, <1>3, <2>1 DEF TimerInv, TimerTypeOK, ListType
<1>12. ~setBack' => \A p \in Timers : m_expire'[p] <= now' + Timeout
  <2>1. now + Timeout <= now + Timeout
    BY TimerTypes, TimerAssumption
  <2>2. QED
    BY <1>1, <1>3, <2>1 DEF TimerInv
<1>13. QED
  BY <1>10, <1>11, <1>12 DEF TimerInv

\* What tick() deletes, and that it keeps a list.
LEMMA TickSteps ==
  ASSUME TimerInv, Tick, list.head # None,
         NEW kept, kept = FirstKept(list, m_expire), NEW due, due = Passed(list, kept),
         NEW y, y = Expiries(due)
  PROVE  /\ due \subseteq live
         /\ ~setBack => due = {p \in live : m_expire[p] <= now}
         /\ kept # None => IsListOf(Forgotten([list EXCEPT !.head = kept], due), live \ due, y, ~setBack)
<1>1. Running
  BY DEF Tick
<1>2. live \subseteq Timers /\ m_expire \in Times /\ now \in Int
  BY TimerTypes
<1>3. \A p \in live \ due : y[p] = m_expire[p]
  BY <1>2, ExpiriesAre
<1>5. PICK o \in BOOLEAN : o = ~setBack
  BY TimerTypes
<1>6. IsListOf(list, live, m_expire, o)
  BY <1>1, <1>5 DEF TimerInv
<1>7. kept = First(list, NotDue(m_expire, now))
  BY DEF FirstKept, NotDue
<1>8. TickKept(list, live, m_expire, y, o, now, kept, due)
  BY <1>2, <1>3, <1>6, <1>7, TickKeeps
<1>9. QED
  BY <1>5, <1>8 DEF TickKept

\* A walk ends in the list or behind it.
LEMMA KeptIsPointer ==
  ASSUME NEW l, NEW D, NEW x, NEW o, IsListOf(l, D, x, o), NEW S
  PROVE  First(l, S) \in Pointer
<1>0. PICK n \in Nat : \E s \in Lists(n) : Linked(l, n, s) /\ On(s, n) = D /\ (o => Ordered(s, n, x))
  BY DEF IsListOf
<1>1. PICK s \in Lists(n) : Linked(l, n, s) /\ On(s, n) = D
  BY <1>0
<1>2. Forward(l, n, s) /\ \A p \in Timers \ On(s, n) : l.next[p] \in On(s, n) \cup {None}
  BY <1>1 DEF IsListOf, Linked
<1>3. First(l, S) = s[Halt(s, n, S, 1)]
  BY <1>2, FirstIs
<1>4. Halt(s, n, S, 1) \in 1..(n + 1)
  <2>1. 1 \in 1..(n + 1)
    OBVIOUS
  <2>2. QED
    BY <2>1, Halts
<1>5. QED
  BY <1>3, <1>4, Listed

LEMMA TickInv == ASSUME TimerInv, Tick PROVE TimerInv'
<1>1. CASE list.head = None
  BY <1>1 DEF Tick, timerListVars, TimerInv, TimerTypeOK, Running
<1>2. CASE list.head # None
  <2>1. PICK kept : kept = FirstKept(list, m_expire)
    OBVIOUS
  <2>2. PICK due : due = Passed(list, kept)
    OBVIOUS
  <2>3. PICK y : y = Expiries(due)
    OBVIOUS
  <2>4. /\ live' = live \ due /\ list' = Forgotten([list EXCEPT !.head = kept], due)
        /\ m_expire' = y /\ crashed' = (kept = None)
        /\ now' = now /\ setBack' = setBack /\ m_actor_mod' = m_actor_mod
    BY <1>2, <2>1, <2>2, <2>3 DEF Tick
  <2>5. /\ due \subseteq live
        /\ kept # None => IsListOf(Forgotten([list EXCEPT !.head = kept], due), live \ due, y, ~setBack)
    BY <1>2, <2>1, <2>2, <2>3, TickSteps
  <2>6. Running' => IsListOf(list', live', m_expire', ~setBack')
    BY <2>4, <2>5 DEF Running
  <2>7. /\ y \in [Timers -> 0..(MaxTime + Timeout)]
        /\ \A p \in Timers : y[p] = IF p \in due THEN 0 ELSE m_expire[p]
    BY <2>3, ExpiriesAre
  <2>8. list' \in ListType
    <3>1. kept \in Pointer
      <4>1. Running
        BY DEF Tick
      <4>2. PICK o \in BOOLEAN : o = ~setBack
        BY TimerTypes
      <4>3. IsListOf(list, live, m_expire, o)
        BY <4>1, <4>2 DEF TimerInv
      <4>4. QED
        BY <2>1, <4>3, KeptIsPointer DEF FirstKept
    <3>2. [list EXCEPT !.head = kept] \in ListType
      BY <3>1, TimerTypes DEF ListType
    <3>3. QED
      BY <2>4, <3>2, ForgottenSets
  <2>9. TimerTypeOK'
    BY <2>4, <2>5, <2>7, <2>8 DEF TimerInv, TimerTypeOK, ListType
  <2>10. ~setBack' => \A p \in Timers : m_expire'[p] <= now' + Timeout
    <3>1. 0 <= now + Timeout
      BY TimerTypes, TimerAssumption
    <3>2. QED
      BY <2>4, <2>7, <3>1 DEF TimerInv
  <2>11. QED
    BY <2>6, <2>9, <2>10 DEF TimerInv
<1>3. QED
  BY <1>1, <1>2

LEMMA ClockInv == ASSUME TimerInv, Clock PROVE TimerInv'
<1>1. /\ Running /\ list' = list /\ m_expire' = m_expire /\ live' = live /\ crashed' = crashed
      /\ m_actor_mod' = m_actor_mod
      /\ \/ now < MaxTime /\ now' = now + 1 /\ setBack' = setBack
         \/ now > 0 /\ now' = now - 1 /\ setBack' = TRUE
  BY DEF Clock
<1>2. now \in 0..MaxTime /\ setBack \in BOOLEAN /\ MaxTime \in Nat /\ Timeout \in Nat /\ m_expire \in Times
  BY TimerTypes, TimerAssumption
<1>3. now' \in 0..MaxTime /\ setBack' \in BOOLEAN
  <2>1. \A n \in 0..MaxTime : (n < MaxTime => n + 1 \in 0..MaxTime) /\ (n > 0 => n - 1 \in 0..MaxTime)
    BY <1>2
  <2>2. QED
    BY <1>1, <1>2, <2>1
<1>4. TimerTypeOK'
  BY <1>1, <1>3 DEF TimerInv, TimerTypeOK
<1>5. IsListOf(list', live', m_expire', ~setBack')
  <2>1. IsListOf(list, live, m_expire, ~setBack)
    BY <1>1 DEF TimerInv
  <2>2. CASE setBack' = setBack
    BY <1>1, <2>1, <2>2
  <2>3. CASE setBack' = TRUE
    <3>1. IsListOf(list, live, m_expire, FALSE)
      BY <2>1, IsListWeaker
    <3>2. (~setBack') = FALSE
      BY <2>3
    <3>3. QED
      BY <1>1, <3>1, <3>2
  <2>4. QED
    BY <1>1, <2>2, <2>3
<1>6. ~setBack' => \A p \in Timers : m_expire'[p] <= now' + Timeout
  <2> SUFFICES ASSUME ~setBack', NEW p \in Timers PROVE m_expire'[p] <= now' + Timeout
    OBVIOUS
  <2>1. now' = now + 1 /\ ~setBack
    BY <1>1
  <2>2. m_expire[p] <= now + Timeout /\ m_expire[p] \in Int
    BY <1>2, <2>1 DEF TimerInv, Times
  <2>3. QED
    BY <1>1, <1>2, <2>1, <2>2
<1>7. QED
  BY <1>4, <1>5, <1>6 DEF TimerInv

LEMMA TimerStep == TimerInv /\ [Next]_timerListVars => TimerInv'
<1> SUFFICES ASSUME TimerInv, [Next]_timerListVars PROVE TimerInv'
  OBVIOUS
<1>1. ASSUME NEW t \in Timers, Add(t) PROVE TimerInv'
  BY <1>1, AddInv
<1>2. ASSUME NEW t \in Timers, Del(t) PROVE TimerInv'
  BY <1>2, DelInv
<1>3. ASSUME NEW t \in Timers, AdjustReactor(t) PROVE TimerInv'
  BY <1>3, AdjustReactorInv
<1>4. ASSUME NEW t \in Timers, AdjustProactor(t) PROVE TimerInv'
  BY <1>4, AdjustProactorInv
<1>5. CASE Tick
  BY <1>5, TickInv
<1>6. CASE Clock
  BY <1>6, ClockInv
<1>7. CASE UNCHANGED timerListVars
  BY <1>7 DEF timerListVars, TimerInv, TimerTypeOK, Running
<1>8. QED
  BY <1>1, <1>2, <1>3, <1>4, <1>5, <1>6, <1>7 DEF Next

LEMMA TimerAlways == Spec => []TimerInv
BY TimerInit, TimerStep, PTL DEF Spec

-----------------------------------------------------------------------------
(* The properties. *)

\* Every timer, the pointers and the times stay what they are declared to be: timerListVars,
\* timers.h:13 to 44.
THEOREM TimersTyped == Spec => []TimerTypeOK
<1>1. TimerInv => TimerTypeOK
  BY DEF TimerInv
<1>2. QED
  BY <1>1, TimerAlways, PTL

\* The list has as many places as there are timers.
LEMMA Counted ==
  ASSUME NEW n \in Nat, NEW s \in Lists(n)
  PROVE  Cardinality(On(s, n)) = n
<1> DEFINE f == [i \in 1..n |-> s[i]]
<1>1. f \in [1..n -> On(s, n)]
  BY Listed
<1>2. \A a, b \in 1..n : f[a] = f[b] => a = b
  <2>1. \A a \in 1..n : a \in 1..(n + 1) /\ f[a] = s[a]
    OBVIOUS
  <2>2. QED
    BY <2>1, Listed
<1>3. \A p \in On(s, n) : \E i \in 1..n : f[i] = p
  BY DEF On
<1> HIDE DEF f
<1>4. f \in Bijection(1..n, On(s, n))
  BY <1>1, <1>2, <1>3, Fun_IsBij
<1>5. ExistsBijection(1..n, On(s, n))
  BY <1>4 DEF ExistsBijection
<1>6. QED
  BY <1>5, FS_CountingElements

\* The list as Nth shows it.
LEMMA Shown ==
  ASSUME TimerInv, Running
  PROVE  \E s \in Lists(Size) :
           /\ Linked(list, Size, s) /\ On(s, Size) = live /\ Size \in Nat
           /\ ~setBack => Ordered(s, Size, m_expire)
           /\ \A i \in 1..(Size + 1) : Nth[i] = s[i]
<1>1. PICK o \in BOOLEAN : o = ~setBack
  BY TimerTypes
<1>2. IsListOf(list, live, m_expire, o)
  BY <1>1 DEF TimerInv
<1>3. PICK n \in Nat : \E s \in Lists(n) : /\ Linked(list, n, s) /\ On(s, n) = live
                                           /\ o => Ordered(s, n, m_expire)
  BY <1>2 DEF IsListOf
<1>4. PICK s \in Lists(n) : Linked(list, n, s) /\ On(s, n) = live /\ (o => Ordered(s, n, m_expire))
  BY <1>3
<1>5. Size = n
  BY <1>4, Counted DEF Size
<1>6. \A i \in 1..(n + 1) : Nth[i] = s[i]
  BY <1>4, <1>5, NthIs DEF Linked
<1>7. QED
  BY <1>1, <1>4, <1>5, <1>6

\* ListLinked for every number of timers and all times: following m_next, or m_pre from the
\* tail, shows the allocated timers, each once (timers.cpp:12 to 142).
THEOREM ListIsLinked == Spec => []ListLinked
<1>1. ASSUME TimerInv PROVE ListLinked
  <2> SUFFICES ASSUME Running
               PROVE  /\ {Nth[i] : i \in 1..Size} = live
                      /\ Nth[Size + 1] = None
                      /\ live # {} => list.tail = Nth[Size]
                      /\ \A i \in 2..Size : list.pre[Nth[i]] = Nth[i - 1]
    BY DEF ListLinked
  <2>1. PICK s \in Lists(Size) :
           /\ Linked(list, Size, s) /\ On(s, Size) = live /\ Size \in Nat
           /\ \A i \in 1..(Size + 1) : Nth[i] = s[i]
    BY <1>1, Shown
  <2>2. PICK n \in Nat : n = Size
    BY <2>1
  <2>3. /\ s \in Lists(n) /\ Linked(list, n, s) /\ On(s, n) = live
        /\ \A i \in 1..(n + 1) : Nth[i] = s[i]
    BY <2>1, <2>2
  <2>4. \A i \in 1..n : i \in 1..(n + 1)
    OBVIOUS
  <2>5. {Nth[i] : i \in 1..n} = live
    BY <2>3, <2>4 DEF On
  <2>6. Nth[n + 1] = None
    <3>1. n + 1 \in 1..(n + 1)
      OBVIOUS
    <3>2. QED
      BY <2>3, <3>1, Listed
  <2>7. live # {} => list.tail = Nth[n]
    <3> SUFFICES ASSUME live # {} PROVE list.tail = Nth[n]
      OBVIOUS
    <3>1. n > 0 /\ n \in 1..n
      BY <2>3 DEF On
    <3>2. QED
      BY <2>3, <2>4, <3>1 DEF Linked
  <2>8. \A i \in 2..n : list.pre[Nth[i]] = Nth[i - 1]
    <3>1. \A i \in 2..n : i \in 1..(n + 1) /\ i - 1 \in 1..(n + 1)
      OBVIOUS
    <3>2. QED
      BY <2>3, <3>1 DEF Linked
  <2>9. QED
    BY <2>2, <2>5, <2>6, <2>7, <2>8
<1>2. QED
  BY <1>1, TimerAlways, PTL

\* Ascending for every number of timers and all times: as long as the clock is not set back the
\* list is in the order that tick() relies on (timers.h:42).
THEOREM ListAscends == Spec => []Ascending
<1>1. ASSUME TimerInv PROVE Ascending
  <2> SUFFICES ASSUME Running, ~setBack, NEW i \in 1..(Size - 1)
               PROVE  m_expire[Nth[i]] <= m_expire[Nth[i + 1]]
    BY DEF Ascending
  <2>1. PICK s \in Lists(Size) :
           /\ Size \in Nat /\ Ordered(s, Size, m_expire)
           /\ \A k \in 1..(Size + 1) : Nth[k] = s[k]
    BY <1>1, Shown
  <2>2. /\ i \in 1..Size /\ i + 1 \in 1..Size /\ i <= i + 1
        /\ i \in 1..(Size + 1) /\ i + 1 \in 1..(Size + 1)
    BY <2>1
  <2>3. QED
    BY <2>1, <2>2 DEF Ordered
<1>2. QED
  BY <1>1, TimerAlways, PTL

\* TickClosesDue for every number of timers and all times: tick() deletes the timers whose time
\* is over, all and no other (timers.cpp:145 to 166).
THEOREM TickIsExact == Spec => TickClosesDue
<1>1. ASSUME TimerInv, Tick, ~setBack PROVE live \ live' = {t \in live : m_expire[t] <= now}
  <2>1. CASE list.head = None
    <3>1. live' = live
      BY <1>1, <2>1 DEF Tick, timerListVars
    <3>2. live = {}
      <4>1. PICK s \in Lists(Size) : Linked(list, Size, s) /\ On(s, Size) = live /\ Size \in Nat
        BY <1>1, Shown DEF Tick
      <4>2. Size = 0
        BY <2>1, <4>1, EmptyLinked
      <4>3. QED
        BY <4>1, <4>2 DEF On
    <3>3. QED
      BY <3>1, <3>2
  <2>2. CASE list.head # None
    <3>1. PICK kept : kept = FirstKept(list, m_expire)
      OBVIOUS
    <3>2. PICK due : due = Passed(list, kept)
      OBVIOUS
    <3>3. live' = live \ due
      BY <1>1, <2>2, <3>1, <3>2 DEF Tick
    <3>4. due \subseteq live /\ due = {p \in live : m_expire[p] <= now}
      BY <1>1, <2>2, <3>1, <3>2, TickSteps
    <3>5. QED
      BY <3>3, <3>4
  <2>3. QED
    BY <2>1, <2>2
<1>2. QED
  BY <1>1, TimerAlways, PTL DEF TickClosesDue
=============================================================================
