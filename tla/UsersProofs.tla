----------------------------- MODULE UsersProofs -----------------------------
(***************************************************************************)
(* Registration for every number of workers, names and passwords and a     *)
(* table of any length: what holds of a name that no two workers register  *)
(* at once.                                                                *)
(***************************************************************************)
EXTENDS Users, SequenceTheorems, TLAPS

\* A name by itself.  One worker at most is registering it.
Single(n) == \A v, w \in Registering(n) : v = w

Once(n) == \A i, j \in RowsOf(n) : i = j

\* While it is, the name is in no map, and in the table only by this worker's statement.
AtWork(n) == \A w \in Registering(n) :
  /\ users[n] = None
  /\ wpc[w] = "query" \/ ~res[w] => RowsOf(n) = {}
  /\ wpc[w] # "query" /\ res[w] => \E i \in RowsOf(n) : table[i].passwd = password[w]
  /\ \A a \in told : a.name # n

\* Otherwise the map of the running server agrees with the table.
Settled(n) == up /\ Registering(n) = {} =>
  /\ \A i \in RowsOf(n) : users[n] = table[i].passwd
  /\ users[n] # None => n \in unsaved \/ RowsOf(n) # {}

Kept(n) == \A a \in told : a.name = n => \E i \in RowsOf(n) : table[i].passwd = a.passwd

NameOK(n) == Single(n) /\ Once(n) /\ AtWork(n) /\ Settled(n) /\ Kept(n)

Down == ~up => users = EmptyMap /\ \A w \in Workers : wpc[w] = "idle"

UsersInv == UsersTypeOK /\ Down /\ \A n \in Names \ raced : NameOK(n)

LEMMA Types ==
  ASSUME UsersTypeOK
  PROVE  /\ \A w \in Workers : name[w] \in Names /\ password[w] \in Passwords /\ res[w] \in BOOLEAN
         /\ \A n \in Names : users[n] \in Passwords \cup {None}
         /\ \A n : \A i \in RowsOf(n) : i \in 1..Len(table) /\ table[i] \in Account
                                        /\ table[i].name = n /\ table[i].passwd \in Passwords
         /\ Len(table) \in Nat
<1>1. table \in Seq(Account)
  BY DEF UsersTypeOK
<1>2. \A i \in 1..Len(table) : table[i] \in Account
  BY <1>1
<1>3. \A a \in Account : a.passwd \in Passwords
  BY DEF Account
<1>4. QED
  BY <1>1, <1>2, <1>3 DEF UsersTypeOK, RowsOf

\* A step that does not touch what concerns a name.
LEMMA Elsewhere ==
  ASSUME UsersInv, NEW n \in Names \ raced, up' = up, users'[n] = users[n],
         RowsOf(n)' = RowsOf(n), \A i \in RowsOf(n) : table'[i] = table[i],
         \A w : w \in Registering(n)' <=> w \in Registering(n),
         \A w \in Registering(n) : /\ password'[w] = password[w] /\ res'[w] = res[w]
                                   /\ (wpc'[w] = "query") <=> (wpc[w] = "query"),
         \A a : a.name = n => (a \in told' <=> a \in told),
         n \in unsaved => n \in unsaved'
  PROVE  NameOK(n)'
<1>1. NameOK(n)
  BY DEF UsersInv
<1>2. Registering(n)' = Registering(n)
  BY Zenon DEF Registering
<1>3. Single(n)' /\ Once(n)'
  BY <1>1, <1>2 DEF NameOK, Single, Once
<1>4. AtWork(n)'
  BY <1>1, <1>2 DEF NameOK, AtWork
<1>5. Settled(n)' /\ Kept(n)'
  BY <1>1, <1>2 DEF NameOK, Settled, Kept
<1>6. QED
  BY <1>3, <1>4, <1>5 DEF NameOK

LEMMA Who ==
  /\ \A n, w : w \in Registering(n) <=> w \in Workers /\ wpc[w] \in {"query", "insert", "inserting"} /\ name[w] = n
  /\ \A n, w : w \in Registering(n)' <=> w \in Workers /\ wpc'[w] \in {"query", "insert", "inserting"} /\ name'[w] = n
BY Zenon DEF Registering

\* A worker goes on and no name is concerned: Asks, Refuses, InsertBegins.
LEMMA Between ==
  ASSUME UsersInv, NEW w \in Workers, NEW where \in {"idle", "find", "inserting"}, Goto(w, where),
         wpc[w] \in {"idle", "find", "insert"}, (wpc[w] = "insert") <=> (where = "inserting"),
         UNCHANGED <<users, table, up, res, told, unsaved, raced>>,
         name' \in [Workers -> Names], password' \in [Workers -> Passwords], torn' \in BOOLEAN,
         \A v \in Workers : v # w \/ wpc[w] = "insert" => name'[v] = name[v] /\ password'[v] = password[v],
         wpc[w] # "idle" \/ up
  PROVE  UsersInv'
<1>1. wpc \in [Workers -> {"idle", "find", "query", "insert", "inserting"}]
  BY DEF UsersInv, UsersTypeOK
<1>2. \A v \in Workers : wpc'[v] = IF v = w THEN where ELSE wpc[v]
  BY <1>1 DEF Goto
<1>3. UsersTypeOK'
  BY DEF UsersInv, UsersTypeOK, Goto
<1>4. Down'
  BY DEF UsersInv, Down
<1>5. ASSUME NEW n \in Names \ raced PROVE NameOK(n)'
  <2>1. \A v : v \in Registering(n)' <=> v \in Registering(n)
    BY <1>2, Who
  <2>2. \A v \in Registering(n) : /\ password'[v] = password[v] /\ res'[v] = res[v]
                                  /\ (wpc'[v] = "query") <=> (wpc[v] = "query")
    BY <1>2, Who
  <2>3. RowsOf(n)' = RowsOf(n)
    BY DEF RowsOf
  <2>4. QED
    BY <2>1, <2>2, <2>3, Elsewhere
<1>6. QED
  BY <1>3, <1>4, <1>5 DEF UsersInv

LEMMA RegistersStep == ASSUME UsersInv, NEW w \in Workers, Registers(w) PROVE UsersInv'
<1>1. /\ wpc[w] = "find" /\ FALSE \in Finds(w) /\ wpc' = [wpc EXCEPT ![w] = "query"]
      /\ raced' = (IF Inserting # {} \/ torn \/ Registering(name[w]) # {} THEN raced \cup {name[w]} ELSE raced)
      /\ UNCHANGED <<users, table, up, name, password, res, told, unsaved, torn>>
  BY DEF Registers, Goto, dataVars
<1>2. name[w] \in Names /\ wpc \in [Workers -> {"idle", "find", "query", "insert", "inserting"}]
  BY Types DEF UsersInv, UsersTypeOK
<1>3. \A v \in Workers : wpc'[v] = IF v = w THEN "query" ELSE wpc[v]
  BY <1>1, <1>2
<1>4. raced \subseteq raced' /\ raced' \subseteq Names
  BY <1>1, <1>2 DEF UsersInv, UsersTypeOK
<1>5. UsersTypeOK'
  BY <1>1, <1>2, <1>4 DEF UsersInv, UsersTypeOK
<1>6. up /\ Down'
  BY <1>1 DEF UsersInv, Down
<1>7. ASSUME NEW n \in Names \ raced', n # name[w] PROVE NameOK(n)'
  <2>1. \A v : v \in Registering(n)' <=> v \in Registering(n)
    BY <1>1, <1>3, <1>7, Who
  <2>2. \A v \in Registering(n) : /\ password'[v] = password[v] /\ res'[v] = res[v]
                                  /\ (wpc'[v] = "query") <=> (wpc[v] = "query")
    BY <1>1, <1>3, <1>7, Who
  <2>3. RowsOf(n)' = RowsOf(n)
    BY <1>1 DEF RowsOf
  <2>4. QED
    BY <1>1, <1>4, <2>1, <2>2, <2>3, Elsewhere
<1>8. ASSUME NEW n \in Names \ raced', n = name[w] PROVE NameOK(n)'
  <2>1. Inserting = {} /\ ~torn /\ Registering(n) = {} /\ n \in Names \ raced
    BY <1>1, <1>2, <1>8
  <2>2. users[n] = None
    BY <1>1, <1>8, <2>1 DEF Finds
  <2>3. NameOK(n)
    BY <2>1 DEF UsersInv
  <2>4. RowsOf(n) = {}
    <3>1. \A i \in RowsOf(n) : users[n] = table[i].passwd /\ table[i].passwd # None
      BY <1>6, <2>1, <2>3, Types, UsersAssumption DEF NameOK, Settled, UsersInv
    <3>2. QED
      BY <2>2, <3>1
  <2>5. \A a \in told : a.name # n
    BY <2>3, <2>4 DEF NameOK, Kept
  <2>6. \A v : v \in Registering(n)' <=> v = w
    BY <1>1, <1>3, <1>8, <2>1, Who
  <2>7. RowsOf(n)' = {}
    BY <1>1, <2>4 DEF RowsOf
  <2>8. wpc'[w] = "query"
    BY <1>3
  <2>9. Single(n)' /\ Once(n)'
    BY <2>6, <2>7 DEF Single, Once
  <2>10. AtWork(n)'
    BY <1>1, <2>2, <2>5, <2>6, <2>7, <2>8 DEF AtWork
  <2>11. Settled(n)' /\ Kept(n)'
    BY <1>1, <2>5, <2>6, <2>7 DEF Settled, Kept
  <2>12. QED
    BY <2>9, <2>10, <2>11 DEF NameOK
<1>9. QED
  <2>1. \A n \in Names \ raced' : NameOK(n)'
    BY <1>7, <1>8
  <2>2. QED
    BY <1>5, <1>6, <2>1 DEF UsersInv

\* What a worker's statement or insert() leaves alone: every other name.
LEMMA OtherNames ==
  ASSUME UsersInv, NEW w \in Workers, wpc[w] \in {"query", "inserting"},
         NEW where \in {"insert", "idle"}, Goto(w, where), (wpc[w] = "query") <=> (where = "insert"),
         NEW n \in Names \ raced, n # name[w], UNCHANGED <<up, name, password>>,
         users'[n] = users[n], RowsOf(n)' = RowsOf(n), \A i \in RowsOf(n) : table'[i] = table[i],
         \A v \in Workers : v # w => res'[v] = res[v],
         \A a : a.name = n => (a \in told' <=> a \in told),
         n \in unsaved => n \in unsaved'
  PROVE  NameOK(n)'
<1>1. \A v \in Workers : wpc'[v] = IF v = w THEN where ELSE wpc[v]
  BY DEF UsersInv, UsersTypeOK, Goto
<1>2. \A v : v \in Registering(n)' <=> v \in Registering(n)
  BY <1>1, Who
<1>3. \A v \in Registering(n) : /\ password'[v] = password[v] /\ res'[v] = res[v]
                                /\ (wpc'[v] = "query") <=> (wpc[v] = "query")
  BY <1>1, Who
<1>4. QED
  BY <1>2, <1>3, Elsewhere

\* The worker that registers a name no other one registers.
LEMMA Alone ==
  ASSUME UsersInv, NEW w \in Workers, wpc[w] \in {"query", "insert", "inserting"}, name[w] \notin raced
  PROVE  /\ name[w] \in Names \ raced /\ NameOK(name[w]) /\ up
         /\ \A v : v \in Registering(name[w]) <=> v = w
         /\ users[name[w]] = None /\ \A a \in told : a.name # name[w]
         /\ wpc[w] = "query" \/ ~res[w] => RowsOf(name[w]) = {}
         /\ wpc[w] # "query" /\ res[w] => \E i \in RowsOf(name[w]) : table[i].passwd = password[w]
<1>1. name[w] \in Names \ raced /\ NameOK(name[w])
  BY Types DEF UsersInv
<1>2. w \in Registering(name[w])
  BY Who
<1>3. \A v : v \in Registering(name[w]) <=> v = w
  BY <1>1, <1>2 DEF NameOK, Single
<1>4. up
  BY DEF UsersInv, Down
<1>5. QED
  BY <1>1, <1>2, <1>3, <1>4 DEF NameOK, AtWork

LEMMA QuerySucceedsStep == ASSUME UsersInv, NEW w \in Workers, QuerySucceeds(w) PROVE UsersInv'
<1>1. /\ wpc[w] = "query" /\ table' = Append(table, Row(w)) /\ res' = [res EXCEPT ![w] = TRUE]
      /\ Goto(w, "insert") /\ UNCHANGED <<users, up, name, password, told, unsaved, raced, torn>>
  BY DEF QuerySucceeds, pastVars
<1>2. Row(w) \in Account /\ table \in Seq(Account) /\ Row(w).name = name[w] /\ Row(w).passwd = password[w]
  BY Types DEF UsersInv, UsersTypeOK, Row, Account
<1>3. /\ table' \in Seq(Account) /\ Len(table') = Len(table) + 1 /\ Len(table) \in Nat
      /\ \A i \in 1..Len(table) : table'[i] = table[i]
      /\ table'[Len(table) + 1] = Row(w)
  BY <1>1, <1>2, AppendProperties
<1>4. /\ wpc' \in [Workers -> {"idle", "find", "query", "insert", "inserting"}]
      /\ \A v \in Workers : wpc'[v] = IF v = w THEN "insert" ELSE wpc[v]
      /\ res' \in [Workers -> BOOLEAN] /\ \A v \in Workers : res'[v] = IF v = w THEN TRUE ELSE res[v]
  BY <1>1 DEF UsersInv, UsersTypeOK, Goto
<1>5. UsersTypeOK'
  BY <1>1, <1>3, <1>4 DEF UsersInv, UsersTypeOK
<1>6. Down'
  BY <1>1 DEF UsersInv, Down
<1>7. ASSUME NEW n \in Names \ raced, n # name[w] PROVE NameOK(n)'
  <2>1. \A i : i \in RowsOf(n)' <=> i \in RowsOf(n)
    BY <1>2, <1>3, <1>7 DEF RowsOf
  <2>2. RowsOf(n)' = RowsOf(n)
    BY <2>1, Zenon DEF RowsOf
  <2>3. \A i \in RowsOf(n) : table'[i] = table[i]
    BY <1>3 DEF RowsOf
  <2>4. QED
    BY <1>1, <1>4, <1>7, <2>2, <2>3, OtherNames
<1>8. ASSUME NEW n \in Names \ raced, n = name[w] PROVE NameOK(n)'
  <2>1. /\ \A v : v \in Registering(n) <=> v = w
        /\ users[n] = None /\ \A a \in told : a.name # n
        /\ RowsOf(n) = {}
    BY <1>1, <1>8, Alone
  <2>2. \A i : i \in RowsOf(n)' <=> i = Len(table) + 1
    BY <1>2, <1>3, <1>8, <2>1 DEF RowsOf
  <2>3. \A v : v \in Registering(n)' <=> v = w
    <3>1. name' = name /\ wpc[w] = "query"
      BY <1>1
    <3>2. \A v : v \in Registering(n) <=> v = w
      BY <2>1
    <3>3. QED
      BY <1>4, <1>8, <3>1, <3>2, Who
  <2>4. Single(n)' /\ Once(n)'
    BY <2>2, <2>3 DEF Single, Once
  <2>5. table'[Len(table) + 1].passwd = password'[w] /\ res'[w] /\ wpc'[w] = "insert"
    BY <1>1, <1>2, <1>3, <1>4
  <2>6. AtWork(n)'
    BY <1>1, <2>1, <2>2, <2>3, <2>5 DEF AtWork
  <2>7. Settled(n)' /\ Kept(n)'
    BY <1>1, <2>1, <2>3 DEF Settled, Kept
  <2>8. QED
    BY <2>4, <2>6, <2>7 DEF NameOK
<1>9. \A n \in Names \ raced' : NameOK(n)'
  BY <1>1, <1>7, <1>8
<1>10. QED
  BY <1>5, <1>6, <1>9 DEF UsersInv

LEMMA QueryFailsStep == ASSUME UsersInv, NEW w \in Workers, QueryFails(w) PROVE UsersInv'
<1>1. /\ wpc[w] = "query" /\ res' = [res EXCEPT ![w] = FALSE] /\ Goto(w, "insert")
      /\ UNCHANGED <<users, table, up, name, password, told, unsaved, raced, torn>>
  BY DEF QueryFails, pastVars, dataVars
<1>2. /\ wpc' \in [Workers -> {"idle", "find", "query", "insert", "inserting"}]
      /\ \A v \in Workers : wpc'[v] = IF v = w THEN "insert" ELSE wpc[v]
      /\ res' \in [Workers -> BOOLEAN] /\ \A v \in Workers : res'[v] = IF v = w THEN FALSE ELSE res[v]
  BY <1>1 DEF UsersInv, UsersTypeOK, Goto
<1>3. UsersTypeOK'
  BY <1>1, <1>2 DEF UsersInv, UsersTypeOK
<1>4. Down'
  BY <1>1 DEF UsersInv, Down
<1>5. \A n : RowsOf(n)' = RowsOf(n)
  BY <1>1 DEF RowsOf
<1>6. ASSUME NEW n \in Names \ raced, n # name[w] PROVE NameOK(n)'
  BY <1>1, <1>2, <1>5, <1>6, OtherNames
<1>7. ASSUME NEW n \in Names \ raced, n = name[w] PROVE NameOK(n)'
  <2>1. /\ \A v : v \in Registering(n) <=> v = w
        /\ users[n] = None /\ (\A a \in told : a.name # n)
        /\ RowsOf(n) = {}
    BY <1>1, <1>7, Alone
  <2>2. \A v : v \in Registering(n)' <=> v = w
    BY <1>1, <1>2, <1>7, <2>1, Who
  <2>3. ~res'[w]
    BY <1>2
  <2>4. Single(n)' /\ Once(n)' /\ AtWork(n)'
    BY <1>1, <1>5, <2>1, <2>2, <2>3 DEF Single, Once, AtWork
  <2>5. Settled(n)' /\ Kept(n)'
    BY <1>1, <2>1, <2>2 DEF Settled, Kept
  <2>6. QED
    BY <2>4, <2>5 DEF NameOK
<1>8. \A n \in Names \ raced' : NameOK(n)'
  BY <1>1, <1>6, <1>7
<1>9. QED
  BY <1>3, <1>4, <1>8 DEF UsersInv

LEMMA InsertEndsStep == ASSUME UsersInv, NEW w \in Workers, InsertEnds(w) PROVE UsersInv'
<1>1. /\ wpc[w] = "inserting"
      /\ users' = [users EXCEPT ![name[w]] = IF @ = None THEN password[w] ELSE @]
      /\ unsaved' = (IF res[w] THEN unsaved ELSE unsaved \cup {name[w]})
      /\ told' = (IF res[w] THEN told \cup {Row(w)} ELSE told)
      /\ Goto(w, "idle") /\ UNCHANGED <<table, up, name, password, res, raced, torn>>
  BY DEF InsertEnds, Answers
<1>2. /\ name[w] \in Names /\ password[w] \in Passwords
      /\ Row(w) \in Account /\ Row(w).name = name[w] /\ Row(w).passwd = password[w]
  BY Types DEF UsersInv, Row, Account
<1>3. /\ users' \in [Names -> Passwords \cup {None}]
      /\ \A n \in Names : n # name[w] => users'[n] = users[n]
      /\ users'[name[w]] = IF users[name[w]] = None THEN password[w] ELSE users[name[w]]
  BY <1>1, <1>2 DEF UsersInv, UsersTypeOK
<1>4. /\ wpc' \in [Workers -> {"idle", "find", "query", "insert", "inserting"}]
      /\ \A v \in Workers : wpc'[v] = IF v = w THEN "idle" ELSE wpc[v]
  BY <1>1 DEF UsersInv, UsersTypeOK, Goto
<1>5. UsersTypeOK'
  BY <1>1, <1>2, <1>3, <1>4 DEF UsersInv, UsersTypeOK
<1>6. up /\ Down'
  BY <1>1 DEF UsersInv, Down
<1>7. \A n : RowsOf(n)' = RowsOf(n)
  BY <1>1 DEF RowsOf
<1>8. ASSUME NEW n \in Names \ raced, n # name[w] PROVE NameOK(n)'
  <2>1. \A a : a.name = n => (a \in told' <=> a \in told)
    BY <1>1, <1>2, <1>8
  <2>2. n \in unsaved => n \in unsaved'
    BY <1>1
  <2>3. QED
    BY <1>1, <1>3, <1>7, <1>8, <2>1, <2>2, OtherNames
<1>9. ASSUME NEW n \in Names \ raced, n = name[w] PROVE NameOK(n)'
  <2>1. /\ \A v : v \in Registering(n) <=> v = w
        /\ users[n] = None /\ (\A a \in told : a.name # n) /\ NameOK(n)
        /\ ~res[w] => RowsOf(n) = {}
        /\ res[w] => \E i \in RowsOf(n) : table[i].passwd = password[w]
    BY <1>1, <1>9, Alone
  <2>2. \A v : v \notin Registering(n)'
    BY <1>1, <1>4, <1>9, <2>1, Who
  <2>3. Once(n)
    BY <2>1 DEF NameOK
  <2>4. Single(n)' /\ Once(n)' /\ AtWork(n)'
    BY <1>1, <1>7, <2>2, <2>3 DEF Single, Once, AtWork
  <2>5. \A i \in RowsOf(n) : users'[n] = table[i].passwd
    BY <1>3, <1>9, <2>1, <2>3 DEF Once
  <2>6. Settled(n)'
    BY <1>1, <1>7, <1>9, <2>1, <2>5 DEF Settled
  <2>7. Kept(n)'
    BY <1>1, <1>2, <1>7, <1>9, <2>1 DEF Kept
  <2>8. QED
    BY <2>4, <2>6, <2>7 DEF NameOK
<1>10. \A n \in Names \ raced' : NameOK(n)'
  BY <1>1, <1>8, <1>9
<1>11. QED
  BY <1>5, <1>6, <1>10 DEF UsersInv

\* The map is filled from the table; nobody is at work.
LEMMA StartsStep == ASSUME UsersInv, Starts PROVE UsersInv'
<1>1. /\ ~up /\ up' = TRUE /\ torn' = FALSE /\ unsaved' = {}
      /\ users' \in [Names -> Passwords \cup {None}]
      /\ \A n \in Names : IF RowsOf(n) = {} THEN users'[n] = None
                                            ELSE \E i \in RowsOf(n) : users'[n] = table[i].passwd
      /\ UNCHANGED <<table, wpc, name, password, res, told, raced>>
  BY DEF Starts, workVars
<1>2. UsersTypeOK' /\ Down'
  BY <1>1 DEF UsersInv, UsersTypeOK, Down
<1>3. \A n : RowsOf(n)' = RowsOf(n)
  BY <1>1 DEF RowsOf
<1>4. \A n, v : v \notin Registering(n) /\ v \notin Registering(n)'
  BY <1>1, Who DEF UsersInv, Down
<1>5. ASSUME NEW n \in Names \ raced PROVE NameOK(n)'
  <2>1. NameOK(n)
    BY DEF UsersInv
  <2>2. Single(n)' /\ Once(n)' /\ AtWork(n)'
    BY <1>3, <1>4, <2>1 DEF NameOK, Single, Once, AtWork
  <2>3. \A i \in RowsOf(n) : users'[n] = table[i].passwd
    BY <1>1, <2>1 DEF NameOK, Once
  <2>4. Settled(n)'
    BY <1>1, <1>3, <2>3 DEF Settled
  <2>5. Kept(n)'
    BY <1>1, <1>3, <2>1 DEF NameOK, Kept
  <2>6. QED
    BY <2>2, <2>4, <2>5 DEF NameOK
<1>6. QED
  BY <1>1, <1>2, <1>5 DEF UsersInv

LEMMA StopsStep == ASSUME UsersInv, Stops PROVE UsersInv'
<1>1. /\ up' = FALSE /\ users' = EmptyMap /\ wpc' = [w \in Workers |-> "idle"]
      /\ UNCHANGED <<table, name, password, res, told, unsaved, raced, torn>>
  BY DEF Stops, pastVars
<1>2. UsersTypeOK' /\ Down'
  BY <1>1 DEF UsersInv, UsersTypeOK, Down, EmptyMap
<1>3. \A n : RowsOf(n)' = RowsOf(n)
  BY <1>1 DEF RowsOf
<1>4. \A n, v : v \notin Registering(n)'
  BY <1>1, Who
<1>5. ASSUME NEW n \in Names \ raced PROVE NameOK(n)'
  <2>1. NameOK(n)
    BY DEF UsersInv
  <2>2. Single(n)' /\ Once(n)' /\ AtWork(n)'
    BY <1>3, <1>4, <2>1 DEF NameOK, Single, Once, AtWork
  <2>3. Settled(n)' /\ Kept(n)'
    BY <1>1, <1>3, <2>1 DEF NameOK, Settled, Kept
  <2>4. QED
    BY <2>2, <2>3 DEF NameOK
<1>6. QED
  BY <1>1, <1>2, <1>5 DEF UsersInv

LEMMA UsersStep == ASSUME UsersInv, [Next]_usersVars PROVE UsersInv'
<1>1. ASSUME NEW w \in Workers, NEW n \in Names, NEW p \in Passwords, Asks(w, n, p)
      PROVE  UsersInv'
  BY <1>1, Between DEF Asks, dataVars, pastVars, UsersInv, UsersTypeOK
<1>2. ASSUME NEW w \in Workers, Refuses(w) PROVE UsersInv'
  BY <1>2, Between DEF Refuses, dataVars, pastVars, UsersInv, UsersTypeOK
<1>3. ASSUME NEW w \in Workers, InsertBegins(w) PROVE UsersInv'
  BY <1>3, Between DEF InsertBegins, dataVars, UsersInv, UsersTypeOK
<1>4. CASE UNCHANGED usersVars
  BY <1>4 DEF UsersInv, UsersTypeOK, Down, NameOK, Single, Once, AtWork, Settled, Kept, Registering, RowsOf,
              usersVars, dataVars, workVars, pastVars
<1>5. QED
  BY <1>1, <1>2, <1>3, <1>4, RegistersStep, QuerySucceedsStep, QueryFailsStep, InsertEndsStep,
     StartsStep, StopsStep DEF Next

LEMMA UsersStart == Init => UsersInv
<1> SUFFICES ASSUME Init PROVE UsersInv
  OBVIOUS
<1>1. UsersTypeOK /\ Down
  <2>1. users \in [Names -> Passwords \cup {None}] /\ table \in Seq(Account)
    BY DEF Init, EmptyMap
  <2>2. QED
    BY <2>1 DEF Init, UsersTypeOK, Down
<1>2. \A n : RowsOf(n) = {}
  BY DEF Init, RowsOf
<1>3. \A n, v : v \notin Registering(n)
  BY Who DEF Init
<1>4. \A n : NameOK(n)
  BY <1>2, <1>3 DEF Init, NameOK, Single, Once, AtWork, Settled, Kept
<1>5. QED
  BY <1>1, <1>4 DEF UsersInv

LEMMA UsersInvariant == Spec => []UsersInv
BY UsersStart, UsersStep, PTL DEF Spec

(* http_connect.cpp:19: map, table and the workers' requests keep their types.        *)
THEOREM UsersTyping == Spec => []UsersTypeOK
<1>1. UsersInv => UsersTypeOK
  BY DEF UsersInv
<1>2. QED
  BY <1>1, UsersInvariant, PTL

(* http_connect.cpp:442: a name that no two workers registered at once has one row,   *)
(* for any number of workers and restarts and a table that takes every row.           *)
THEOREM NamesAreRegisteredOnce == Spec => []RegisteredOnce
<1>1. UsersInv => RegisteredOnce
  BY DEF UsersInv, NameOK, Once, RegisteredOnce
<1>2. QED
  BY <1>1, UsersInvariant, PTL

(* http_connect.cpp:447: whoever was answered with log.html can log in, at once and   *)
(* after every restart.                                                              *)
THEOREM AcceptedCanAlwaysLogin == Spec => []AcceptedCanLogin
<1>1. ASSUME UsersInv PROVE AcceptedCanLogin
  <2> SUFFICES ASSUME up, NEW a \in told, a.name \notin raced
               PROVE  LogsIn(a.name, a.passwd)
    BY DEF AcceptedCanLogin
  <2>1. a.name \in Names \ raced /\ NameOK(a.name)
    BY <1>1 DEF UsersInv, UsersTypeOK, Account
  <2>2. PICK i \in RowsOf(a.name) : table[i].passwd = a.passwd
    BY <2>1 DEF NameOK, Kept
  <2>3. Registering(a.name) = {}
    BY <2>1 DEF NameOK, AtWork
  <2>4. users[a.name] = a.passwd
    BY <2>1, <2>2, <2>3 DEF NameOK, Settled
  <2>5. a.passwd # None
    BY <1>1, <2>2, Types, UsersAssumption DEF UsersInv
  <2>6. QED
    BY <2>4, <2>5 DEF LogsIn
<1>2. QED
  BY <1>1, UsersInvariant, PTL

(* http_connect.cpp:445: a name in the map has its row, unless its statement failed.  *)
THEOREM LoginsAreSaved == Spec => []LoginIsSaved
<1>1. ASSUME UsersInv PROVE LoginIsSaved
  <2> SUFFICES ASSUME up, NEW n \in Names \ (raced \cup unsaved), NEW p \in Passwords, LogsIn(n, p)
               PROVE  [name |-> n, passwd |-> p] \in Rows
    BY DEF LoginIsSaved
  <2>1. NameOK(n) /\ users[n] = p /\ users[n] # None
    BY <1>1 DEF UsersInv, LogsIn
  <2>2. Registering(n) = {}
    BY <2>1 DEF NameOK, AtWork
  <2>3. PICK i \in RowsOf(n) : table[i].passwd = p
    BY <2>1, <2>2 DEF NameOK, Settled
  <2>4. i \in 1..Len(table) /\ table[i] = [name |-> n, passwd |-> p]
    BY <1>1, <2>3, Types DEF UsersInv, Account
  <2>5. QED
    BY <2>4 DEF Rows
<1>2. QED
  BY <1>1, UsersInvariant, PTL
=============================================================================
