------------------------------ MODULE SqlPool ------------------------------
(***************************************************************************)
(* connection_pool of version_03/CGImysql/sql_connection_pool.cpp: a list  *)
(* of MYSQL connections, two counters, a mutex and the semaphore reserve.  *)
(* Every worker takes a connection through connectionRAII around process() *)
(* and gives it back when run's iteration ends.  The test of size() at the *)
(* head of GetConnection is outside the mutex.                             *)
(***************************************************************************)
EXTENDS Integers, Sequences, FiniteSets

CONSTANTS
  Conns,      \* MYSQL connections
  Threads,    \* the threads that use the pool
  None,       \* NULL, mutex free
  MaxInterrupts \* bound on the waits that a signal ends

ASSUME SqlPoolAssumption ==
  /\ IsFiniteSet(Conns) /\ Conns # {}
  /\ IsFiniteSet(Threads)
  /\ None \notin Conns \cup Threads
  /\ MaxInterrupts \in Nat

VARIABLES
  opened,     \* the connections that init opened, never changed
  connList,   \* free connections, oldest first
  FreeConn,
  CurConn,
  lock,       \* the thread holding the mutex, or None
  reserve,    \* value of the semaphore
  pc,         \* pc[t]: control point of thread t
  con,        \* con[t]: connectionRAII's conRAII
  interrupts  \* history: the waits that a signal has ended

vars == <<opened, connList, FreeConn, CurConn, lock, reserve, pc, con, interrupts>>

Points == {"out", "wait", "lock", "front", "pop", "using", "null", "relock", "push", "post"}

\* Type invariant of the pool's members and the threads' locals.
TypeOK ==
  /\ opened \subseteq Conns
  /\ connList \in Seq(Conns)
  /\ FreeConn \in Int /\ CurConn \in Int
  /\ lock \in Threads \cup {None}
  /\ reserve \in Nat
  /\ pc \in [Threads -> Points]
  /\ con \in [Threads -> Conns \cup {None}]
  /\ interrupts \in Nat

MaxConn == Cardinality(opened)

\* init opens MaxConn connections, one at least, and leaves them in the list.
Init ==
  /\ opened \in SUBSET Conns \ {{}}
  /\ connList \in {q \in [1 .. MaxConn -> opened] : \A i, j \in 1 .. MaxConn : q[i] = q[j] => i = j}
  /\ FreeConn = MaxConn
  /\ CurConn = 0
  /\ lock = None
  /\ reserve = MaxConn
  /\ pc = [t \in Threads |-> "out"]
  /\ con = [t \in Threads |-> None]
  /\ interrupts = 0

Goto(t, p) == pc' = [pc EXCEPT ![t] = p]
-----------------------------------------------------------------------------
(* GetConnection *)

TestSize(t) ==
  /\ pc[t] = "out"
  /\ Goto(t, IF Len(connList) = 0 THEN "null" ELSE "wait")
  /\ UNCHANGED <<connList, FreeConn, CurConn, lock, reserve, con, interrupts>>

\* Mutation: sem_trywait, whose failure is ignored.
Wait_NoBlock(t) ==
  /\ pc[t] = "wait"
  /\ reserve' = reserve - 1
  /\ Goto(t, "lock")
  /\ UNCHANGED <<connList, FreeConn, CurConn, lock, con, interrupts>>

Wait(t) ==
  /\ pc[t] = "wait"
  /\ reserve > 0
  /\ reserve' = reserve - 1
  /\ Goto(t, "lock")
  /\ UNCHANGED <<connList, FreeConn, CurConn, lock, con, interrupts>>

\* A signal handled by this thread ends its sem_wait with EINTR (main.cpp installs
\* the handlers without SA_RESTART); the result is ignored.
Interrupted(t) ==
  /\ pc[t] = "wait"
  /\ reserve = 0
  /\ interrupts < MaxInterrupts
  /\ interrupts' = interrupts + 1
  /\ Goto(t, "lock")
  /\ UNCHANGED <<connList, FreeConn, CurConn, lock, reserve, con>>

\* Mutation: the mutex excludes nobody.
LockGet_Shared(t) ==
  /\ pc[t] = "lock"
  /\ lock' = t
  /\ Goto(t, "front")
  /\ UNCHANGED <<connList, FreeConn, CurConn, reserve, con, interrupts>>

LockGet(t) ==
  /\ pc[t] = "lock"
  /\ lock = None
  /\ lock' = t
  /\ Goto(t, "front")
  /\ UNCHANGED <<connList, FreeConn, CurConn, reserve, con, interrupts>>

Front(t) ==
  /\ pc[t] = "front"
  /\ connList # <<>>
  /\ con' = [con EXCEPT ![t] = Head(connList)]
  /\ Goto(t, "pop")
  /\ UNCHANGED <<connList, FreeConn, CurConn, lock, reserve, interrupts>>

\* front() and pop_front() of an empty list are undefined (libstdc++ frees the
\* list's own head, which aborts): the thread goes no further.
FrontOfEmpty(t) ==
  /\ pc[t] \in {"front", "pop"}
  /\ connList = <<>>
  /\ UNCHANGED <<connList, FreeConn, CurConn, lock, reserve, pc, con, interrupts>>

PopFront(t) ==
  /\ pc[t] = "pop"
  /\ connList # <<>>
  /\ connList' = Tail(connList)
  /\ FreeConn' = FreeConn - 1
  /\ CurConn' = CurConn + 1
  /\ lock' = None
  /\ Goto(t, "using")
  /\ UNCHANGED <<reserve, con, interrupts>>
-----------------------------------------------------------------------------
(* ReleaseConnection *)

\* ReleaseConnection(NULL) returns false and does nothing.
ReleaseNull(t) ==
  /\ pc[t] = "null"
  /\ Goto(t, "out")
  /\ UNCHANGED <<connList, FreeConn, CurConn, lock, reserve, con, interrupts>>

BeginRelease(t) ==
  /\ pc[t] = "using"
  /\ Goto(t, "relock")
  /\ UNCHANGED <<connList, FreeConn, CurConn, lock, reserve, con, interrupts>>

LockRelease(t) ==
  /\ pc[t] = "relock"
  /\ lock = None
  /\ lock' = t
  /\ Goto(t, "push")
  /\ UNCHANGED <<connList, FreeConn, CurConn, reserve, con, interrupts>>

\* Mutation: the connection is counted but not put back.
PushBack_Leak(t) ==
  /\ pc[t] = "push"
  /\ FreeConn' = FreeConn + 1
  /\ CurConn' = CurConn - 1
  /\ lock' = None
  /\ con' = [con EXCEPT ![t] = None]
  /\ Goto(t, "post")
  /\ UNCHANGED <<connList, reserve, interrupts>>

PushBack(t) ==
  /\ pc[t] = "push"
  /\ connList' = Append(connList, con[t])
  /\ FreeConn' = FreeConn + 1
  /\ CurConn' = CurConn - 1
  /\ lock' = None
  /\ con' = [con EXCEPT ![t] = None]
  /\ Goto(t, "post")
  /\ UNCHANGED <<reserve, interrupts>>

\* Mutation: ReleaseConnection forgets reserve.post().
Post_Lost(t) ==
  /\ pc[t] = "post"
  /\ Goto(t, "out")
  /\ UNCHANGED <<connList, FreeConn, CurConn, lock, reserve, con, interrupts>>

Post(t) ==
  /\ pc[t] = "post"
  /\ reserve' = reserve + 1
  /\ Goto(t, "out")
  /\ UNCHANGED <<connList, FreeConn, CurConn, lock, con, interrupts>>

GetConnection(t) ==
  TestSize(t) \/ Wait(t) \/ Interrupted(t) \/ LockGet(t) \/ Front(t) \/ FrontOfEmpty(t) \/ PopFront(t)

ReleaseConnection(t) == ReleaseNull(t) \/ BeginRelease(t) \/ LockRelease(t) \/ PushBack(t) \/ Post(t)

Use(t) == GetConnection(t) \/ ReleaseConnection(t)

Next == (\E t \in Threads : Use(t)) /\ UNCHANGED opened

Spec == Init /\ [][Next]_vars

\* Threads are scheduled, a blocked thread gets a semaphore or a mutex that is
\* released again and again, and a request ends: process() does not block.
\* No thread is obliged to ask for a connection: TestSize is not fair.
Fairness == \A t \in Threads :
  /\ WF_vars(Next /\ (Front(t) \/ PopFront(t) \/ ReleaseNull(t) \/ BeginRelease(t) \/ PushBack(t) \/ Post(t)))
  /\ SF_vars(Next /\ Wait(t)) /\ SF_vars(Next /\ LockGet(t)) /\ SF_vars(Next /\ LockRelease(t))

FairSpec == Spec /\ Fairness
-----------------------------------------------------------------------------
(* Properties *)

Listed(c)   == \E i \in 1 .. Len(connList) : connList[i] = c
Holds(t, c) == con[t] = c /\ pc[t] \in {"using", "relock", "push"}
Woken       == {t \in Threads : pc[t] \in {"lock", "front", "pop"}}
Posting     == {t \in Threads : pc[t] = "post"}
Holders     == {t \in Threads : pc[t] \in {"using", "relock", "push"}}

\* Two requests never share a connection: each one is either in the list, once,
\* or in the hands of one thread, and none is lost.
ConnsPartition ==
  /\ \A i, j \in 1 .. Len(connList) : connList[i] = connList[j] => i = j
  /\ \A c \in opened : Listed(c) \/ \E t \in Threads : Holds(t, c)
  /\ \A t \in Threads : \A c \in Conns : Holds(t, c) => ~ Listed(c)
  /\ \A s, t \in Threads : \A c \in Conns : Holds(s, c) /\ Holds(t, c) => s = t

\* Semaphore, list and counters agree: each free connection has one token, in the
\* semaphore, with a thread that has not popped yet, or about to be posted, and each
\* interrupted wait has left one token too many for good; FreeConn and CurConn count
\* the free and the used connections.
Accounting ==
  /\ Len(connList) + interrupts = reserve + Cardinality(Woken) + Cardinality(Posting)
  /\ FreeConn = Len(connList)
  /\ CurConn = Cardinality(Holders)
  /\ FreeConn + CurConn = MaxConn

\* GetConnection never calls front() on an empty list, although size() was tested
\* before the semaphore and outside the mutex.  Once a signal has ended a wait,
\* whose result nobody looks at, that takes as many connections as threads (8 and 8
\* in main.cpp): then whoever has none finds one, with or without a token.
NeverFrontOfEmpty ==
  interrupts = 0 \/ Cardinality(Threads) <= MaxConn =>
    \A t \in Threads : pc[t] \in {"front", "pop"} => connList # <<>>

\* main.cpp opens as many connections as it starts threads (8 and 8): then the
\* unlocked test refuses nobody, and do_request never runs with mysql = NULL.
NeverNull == Cardinality(Threads) <= MaxConn => \A t \in Threads : pc[t] # "null"

\* A thread that got past the unlocked test is never stuck on the semaphore, unless
\* a thread without a token has met an empty list.
GetReturns ==
  \A t \in Threads :
    pc[t] = "wait" ~> pc[t] = "using" \/ (connList = <<>> /\ \E s \in Threads : pc[s] = "front")
=============================================================================
