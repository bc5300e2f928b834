------------------------------- MODULE Users -------------------------------
(***************************************************************************)
(* Registration and login: the branch of do_request() (http_connect.cpp)   *)
(* for the actions 2 and 3, the map users that all connections share, and  *)
(* the table it is read from when the server starts.                       *)
(*                                                                         *)
(* m_lock is a member of the connection, which one worker at a time works  *)
(* on: it keeps nobody out, and has no part in the model.  A find() or an  *)
(* insert() may therefore run while another worker is inside insert(): the *)
(* first finds anything, the second leaves a map of which nothing is said  *)
(* (torn).                                                                 *)
(***************************************************************************)
EXTENDS Integers, Sequences, FiniteSets

CONSTANTS
  Workers,
  Names, Passwords,
  MaxRows,     \* bound: rows of the table
  None         \* not in the map

ASSUME UsersAssumption ==
  /\ MaxRows \in Nat
  /\ None \notin Passwords

VARIABLES
  users,      \* the map
  table,      \* the rows of user(username, passwd)
  up,         \* the server runs
  wpc,        \* each worker: idle, find, query, insert, inserting
  name, password,   \* of its request
  res,        \* the query has succeeded
  (* what the code does not keep *)
  told,       \* registrations that were answered with success
  unsaved,    \* names put into the map by a registration whose query failed
  raced,      \* names whose registration met another one: see Registers
  torn

dataVars == <<users, table, up>>
workVars == <<wpc, name, password, res>>
pastVars == <<told, unsaved, raced, torn>>
usersVars == <<dataVars, workVars, pastVars>>

Account == [name : Names, passwd : Passwords]
Rows == {table[i] : i \in 1..Len(table)}
RowsOf(n) == {i \in 1..Len(table) : table[i].name = n}

UsersTypeOK ==
  /\ users \in [Names -> Passwords \cup {None}]
  /\ table \in Seq(Account)
  /\ up \in BOOLEAN
  /\ wpc \in [Workers -> {"idle", "find", "query", "insert", "inserting"}]
  /\ name \in [Workers -> Names] /\ password \in [Workers -> Passwords]
  /\ res \in [Workers -> BOOLEAN]
  /\ told \subseteq Account
  /\ unsaved \subseteq Names /\ raced \subseteq Names
  /\ torn \in BOOLEAN

EmptyMap == [n \in Names |-> None]

Init ==
  /\ users = EmptyMap /\ table = <<>>
  /\ up = FALSE
  /\ wpc = [w \in Workers |-> "idle"]
  /\ name \in [Workers -> Names] /\ password \in [Workers -> Passwords]
  /\ res = [w \in Workers |-> FALSE]
  /\ told = {} /\ unsaved = {} /\ raced = {} /\ torn = FALSE

Goto(w, where) == wpc' = [wpc EXCEPT ![w] = where]

-----------------------------------------------------------------------------

\* Mutant of Starts: the map is not filled.
StartsEmpty ==
  /\ ~up
  /\ up' = TRUE /\ users' = EmptyMap
  /\ torn' = FALSE /\ unsaved' = {}
  /\ UNCHANGED <<table, workVars, told, raced>>

\* Init_mysql_result(): of several rows of a name the one the database gives last stays.
Starts ==
  /\ ~up
  /\ up' = TRUE
  /\ users' \in {u \in [Names -> Passwords \cup {None}] :
       \A n \in Names : IF RowsOf(n) = {} THEN u[n] = None
                                          ELSE \E i \in RowsOf(n) : u[n] = table[i].passwd}
  /\ torn' = FALSE /\ unsaved' = {}
  /\ UNCHANGED <<table, workVars, told, raced>>

\* The server is stopped, or a worker without a database connection queries nullptr.
Stops ==
  /\ up
  /\ up' = FALSE
  /\ users' = EmptyMap
  /\ wpc' = [w \in Workers |-> "idle"]
  /\ UNCHANGED <<table, name, password, res, pastVars>>

Inserting == {w \in Workers : wpc[w] = "inserting"}

\* Workers between find() and the end of insert(), for name n.
Registering(n) == {w \in Workers : wpc[w] \in {"query", "insert", "inserting"} /\ name[w] = n}

\* A registration arrives.
Asks(w, n, p) ==
  /\ up /\ wpc[w] = "idle"
  /\ name' = [name EXCEPT ![w] = n] /\ password' = [password EXCEPT ![w] = p]
  /\ Goto(w, "find")
  /\ UNCHANGED <<dataVars, res, pastVars>>

\* Whether find() may say that the name is in the map.
Finds(w) == IF Inserting = {} /\ ~torn THEN {users[name[w]] # None} ELSE BOOLEAN

\* The name is taken: registerError.html.
Refuses(w) ==
  /\ wpc[w] = "find"
  /\ TRUE \in Finds(w)
  /\ Goto(w, "idle")
  /\ UNCHANGED <<dataVars, name, password, res, pastVars>>

\* The name is free, as far as find() sees.  Another registration of it may be under way,
\* or the map in the middle of an insert() or torn.
Registers(w) ==
  /\ wpc[w] = "find"
  /\ FALSE \in Finds(w)
  /\ Goto(w, "query")
  /\ raced' = IF Inserting # {} \/ torn \/ Registering(name[w]) # {} THEN raced \cup {name[w]} ELSE raced
  /\ UNCHANGED <<dataVars, name, password, res, told, unsaved, torn>>

Row(w) == [name |-> name[w], passwd |-> password[w]]

\* Mutants of QuerySucceeds: the password is left out; the row is not committed.
QueryNameOnly(w) ==
  /\ wpc[w] = "query" /\ Len(table) < MaxRows
  /\ table' = Append(table, [name |-> name[w], passwd |-> None])
  /\ res' = [res EXCEPT ![w] = TRUE]
  /\ Goto(w, "insert")
  /\ UNCHANGED <<users, up, name, password, pastVars>>
QueryUncommitted(w) ==
  /\ wpc[w] = "query"
  /\ res' = [res EXCEPT ![w] = TRUE]
  /\ Goto(w, "insert")
  /\ UNCHANGED <<dataVars, name, password, pastVars>>

\* The INSERT statement.  It may fail at any time, for a duplicate key or another reason.
QuerySucceeds(w) ==
  /\ wpc[w] = "query"
  /\ Len(table) < MaxRows
  /\ table' = Append(table, Row(w))
  /\ res' = [res EXCEPT ![w] = TRUE]
  /\ Goto(w, "insert")
  /\ UNCHANGED <<users, up, name, password, pastVars>>

QueryFails(w) ==
  /\ wpc[w] = "query"
  /\ res' = [res EXCEPT ![w] = FALSE]
  /\ Goto(w, "insert")
  /\ UNCHANGED <<dataVars, name, password, pastVars>>

\* users.insert() begins.
InsertBegins(w) ==
  /\ wpc[w] = "insert"
  /\ torn' = (torn \/ Inserting # {})
  /\ Goto(w, "inserting")
  /\ UNCHANGED <<dataVars, name, password, res, told, unsaved, raced>>

\* Mutant of Answers: the result of the query is not looked at.
AnswersAlways(w) == told' = told \cup {Row(w)}

\* log.html for a successful query, registerError.html otherwise.
Answers(w) == told' = IF res[w] THEN told \cup {Row(w)} ELSE told

\* It ends.  It has no effect on a name that is there, and is made after a failed query, too.
InsertEnds(w) ==
  /\ wpc[w] = "inserting"
  /\ users' = [users EXCEPT ![name[w]] = IF @ = None THEN password[w] ELSE @]
  /\ unsaved' = IF res[w] THEN unsaved ELSE unsaved \cup {name[w]}
  /\ Answers(w)
  /\ Goto(w, "idle")
  /\ UNCHANGED <<table, up, name, password, res, raced, torn>>

Next ==
  \/ Starts \/ Stops
  \/ \E w \in Workers :
       \/ \E n \in Names, p \in Passwords : Asks(w, n, p)
       \/ Refuses(w) \/ Registers(w)
       \/ QuerySucceeds(w) \/ QueryFails(w) \/ InsertBegins(w) \/ InsertEnds(w)

Spec == Init /\ [][Next]_usersVars

-----------------------------------------------------------------------------

\* Login with what is in the map now.
LogsIn(n, p) == users[n] # None /\ users[n] = p

(* README.md:8: whoever was told that the registration went through can log in with    *)
(* that password, at once and after every restart, whatever other workers register    *)
(* meanwhile; unless the name was being registered by two at once, or an insert() is   *)
(* under way or two have torn the map.                                                *)
AcceptedCanLogin ==
  up /\ ~torn /\ Inserting = {} => \A a \in told : a.name \notin raced => LogsIn(a.name, a.passwd)

(* A name gets one row in the table, even if the table does not care, over restarts    *)
(* and failing statements; unless it was being registered by two at once or by         *)
(* somebody whose find() met an insert().                                             *)
RegisteredOnce == \A n \in Names \ raced : \A i, j \in RowsOf(n) : i = j

(* What can log in is in the table, but for registrations whose statement failed:      *)
(* those are in the map, until the server is started again.                           *)
LoginIsSaved ==
  up /\ ~torn => \A n \in Names \ (raced \cup unsaved) : \A p \in Passwords :
    LogsIn(n, p) => [name |-> n, passwd |-> p] \in Rows
=============================================================================
