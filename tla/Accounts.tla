------------------------------ MODULE Accounts ------------------------------
(***************************************************************************)
(* Registration and login in do_request of version_03/http/http_conn.cpp:  *)
(* the map users, filled from the table user by initmysql_result, is read  *)
(* by all workers without m_lock and written, after the row was inserted,  *)
(* with it.  The table is the database's and not in the repository.  A     *)
(* lookup or an insertion that meets an insertion under way is undefined   *)
(* and may miss or lose the entry of its own name; that it crashes, or     *)
(* harms entries of other names, is left out.                              *)
(***************************************************************************)
EXTENDS FiniteSets

CONSTANTS
  Threads,      \* workers
  Names, Passwords,
  Empty,        \* the empty password, which map::operator[] gives a new entry
  UniqueKey,    \* the table refuses a second row for a name
  None

ASSUME AccountsAssumption ==
  /\ UniqueKey \in BOOLEAN
  /\ Empty \in Passwords
  /\ None \notin Passwords \cup Threads \cup {"log", "registerError", "welcome", "logError"}

VARIABLES
  table,        \* rows of the table user, a subset of Names \X Passwords
  users,        \* users[n]: the password the map has for n, or None
  m_lock,       \* the thread holding it, or None
  pc,           \* pc[t]: control point of do_request
  name, password,   \* the form being processed
  res,          \* res[t]: the INSERT succeeded
  page,         \* page[t]: what m_url is set to: log, registerError, welcome, logError; None before
  spoilt        \* history: the names whose INSERT failed though the name was free, or whose
                \* entry was created or inserted while another one was

form == <<name, password>>
accountVars == <<table, users, m_lock, pc, form, res, page, spoilt>>

\* initmysql_result has copied the table, here with at most one row per name.
AccountsInit ==
  /\ users \in [Names -> Passwords \cup {None}]
  /\ table = {row \in Names \X Passwords : users[row[1]] = row[2]}
  /\ m_lock = None
  /\ pc = [t \in Threads |-> "idle"]
  /\ name = [t \in Threads |-> None]
  /\ password = [t \in Threads |-> None]
  /\ res = [t \in Threads |-> FALSE]
  /\ page = [t \in Threads |-> None]
  /\ spoilt = {}

Goto(t, p) == pc' = [pc EXCEPT ![t] = p]

Answer(t, p) == Goto(t, "answer") /\ page' = [page EXCEPT ![t] = p]
-----------------------------------------------------------------------------
\* Another worker is inside an insertion into the map.
Races(t) == \E u \in Threads \ {t} : pc[u] \in {"inserting", "creating"}

\* users.find: it races with an insertion under way, and may then miss a name.
Finds(t, found) ==
  \/ found = (users[name[t]] # None)
  \/ Races(t) /\ found = FALSE

Submit(t, n, p, kind) ==
  /\ pc[t] = "idle"
  /\ name' = [name EXCEPT ![t] = n]
  /\ password' = [password EXCEPT ![t] = p]
  /\ Goto(t, kind)
  /\ UNCHANGED <<table, users, m_lock, res, page, spoilt>>

\* A login looks the name up twice, without the lock: find, then operator[].
LoginFind(t) ==
  /\ pc[t] = "login"
  /\ \E found \in BOOLEAN :
       /\ Finds(t, found)
       /\ IF found THEN Goto(t, "match") /\ UNCHANGED page ELSE Answer(t, "logError")
  /\ UNCHANGED <<table, users, m_lock, form, res, spoilt>>

LoginMatch_Any(t) ==     \* Mutation: only the name is looked up
  /\ pc[t] = "match"
  /\ Answer(t, "welcome")
  /\ UNCHANGED <<table, users, m_lock, form, res, spoilt>>

LoginMatch(t) ==
  /\ pc[t] = "match"
  /\ Answer(t, IF users[name[t]] = password[t] THEN "welcome" ELSE "logError")
  /\ UNCHANGED <<table, users, m_lock, form, res, spoilt>>

\* operator[] misses the name that find has found, and goes on to insert it.
BeginCreate(t) ==
  /\ pc[t] = "match"
  /\ Races(t)
  /\ Goto(t, "creating")
  /\ UNCHANGED <<table, users, m_lock, form, res, page, spoilt>>

\* The new entry's password is empty; later lookups find it or the old one.
EndCreate(t) ==
  /\ pc[t] = "creating"
  /\ users' \in {users, [users EXCEPT ![name[t]] = Empty]}
  /\ spoilt' = spoilt \cup {name[t]}
  /\ Answer(t, IF password[t] = Empty THEN "welcome" ELSE "logError")
  /\ UNCHANGED <<table, m_lock, form, res>>

CheckName(t) ==
  /\ pc[t] = "register"
  /\ \E found \in BOOLEAN :
       /\ Finds(t, found)
       /\ IF found THEN Answer(t, "registerError") ELSE Goto(t, "lock") /\ UNCHANGED page
  /\ UNCHANGED <<table, users, m_lock, form, res, spoilt>>

Lock(t) ==
  /\ pc[t] = "lock"
  /\ m_lock = None
  /\ m_lock' = t
  /\ Goto(t, "query")
  /\ UNCHANGED <<table, users, form, res, page, spoilt>>

Taken(n) == UniqueKey /\ \E p \in Passwords : <<n, p>> \in table

\* mysql_query(mysql, sql_insert): a duplicate fails, and any other INSERT may (a
\* quote in the name is enough).
Query(t) ==
  /\ pc[t] = "query"
  /\ \/ /\ ~ Taken(name[t])
        /\ table' = table \cup {<<name[t], password[t]>>}
        /\ res' = [res EXCEPT ![t] = TRUE]
        /\ UNCHANGED spoilt
     \/ /\ res' = [res EXCEPT ![t] = FALSE]
        /\ spoilt' = IF Taken(name[t]) THEN spoilt ELSE spoilt \cup {name[t]}
        /\ UNCHANGED table
  /\ Goto(t, "insert")
  /\ UNCHANGED <<users, m_lock, form, page>>

\* users.insert, whatever the INSERT returned.
BeginInsert(t) ==
  /\ pc[t] = "insert"
  /\ Goto(t, "inserting")
  /\ UNCHANGED <<table, users, m_lock, form, res, page, spoilt>>

\* map::insert keeps the entry of a name it already has.
EndInsert_Overwrite(t) ==     \* Mutation: users[name] = password
  /\ pc[t] = "inserting"
  /\ users' = [users EXCEPT ![name[t]] = password[t]]
  /\ Goto(t, "unlock")
  /\ UNCHANGED <<table, m_lock, form, res, page, spoilt>>

EndInsert(t) ==
  /\ pc[t] = "inserting"
  /\ \/ /\ users' = IF users[name[t]] = None THEN [users EXCEPT ![name[t]] = password[t]] ELSE users
        /\ UNCHANGED spoilt
     \/ /\ Races(t)
        /\ users' \in {users, [users EXCEPT ![name[t]] = password[t]]}
        /\ spoilt' = spoilt \cup {name[t]}
  /\ Goto(t, "unlock")
  /\ UNCHANGED <<table, m_lock, form, res, page>>

Outcome(ok) == IF ok THEN "log" ELSE "registerError"

Unlock(t) ==
  /\ pc[t] = "unlock"
  /\ m_lock' = None
  /\ Answer(t, Outcome(res[t]))
  /\ UNCHANGED <<table, users, form, res, spoilt>>

Done(t) ==
  /\ pc[t] = "answer"
  /\ Goto(t, "idle")
  /\ name' = [name EXCEPT ![t] = None]
  /\ password' = [password EXCEPT ![t] = None]
  /\ res' = [res EXCEPT ![t] = FALSE]
  /\ page' = [page EXCEPT ![t] = None]
  /\ UNCHANGED <<table, users, m_lock, spoilt>>

Login(t) == LoginFind(t) \/ LoginMatch(t) \/ BeginCreate(t) \/ EndCreate(t)

Register(t) == CheckName(t) \/ Lock(t) \/ Query(t) \/ BeginInsert(t) \/ EndInsert(t) \/ Unlock(t)

AccountsNext == \E t \in Threads :
  \/ \E n \in Names, p \in Passwords, kind \in {"login", "register"} : Submit(t, n, p, kind)
  \/ Login(t) \/ Register(t) \/ Done(t)

AccountsSpec == AccountsInit /\ [][AccountsNext]_accountVars
-----------------------------------------------------------------------------
(* Properties *)

\* For every name that is not spoilt the map holds what the table holds
\* (http_conn.cpp:27) whenever no worker is between the two writes, although names
\* are checked before the lock is taken.  A spoilt name is one of line 495, which
\* writes the map although the INSERT has failed, or of two insertions at once.
MapMirrorsTable ==
  m_lock = None =>
    \A n \in Names \ spoilt, p \in Passwords : <<n, p>> \in table <=> users[n] = p

\* "Check for the same name first; add the data if there is none"
\* (http_conn.cpp:480-481): whoever is told that the registration succeeded
\* owns the name, with the password that was sent, unless the name is spoilt.
SuccessMeansAccount ==
  \A t \in Threads : page[t] = "log" /\ name[t] \notin spoilt =>
    users[name[t]] = password[t] /\ <<name[t], password[t]>> \in table

\* Nobody is let in whose name and password are not a row of the table, unless the
\* name is spoilt: then line 495 has let in whoever failed to register, or the second
\* lookup of line 510 has given the name an empty password.
NoFalseLogin ==
  \A t \in Threads : page[t] = "welcome" /\ name[t] \notin spoilt => <<name[t], password[t]>> \in table
=============================================================================
