----------------------------- MODULE ThreadPool -----------------------------
(***************************************************************************)
(* threadpool<http_conn> of version_03/threadpool/threadpool.h: one main   *)
(* thread calling append, the detached workers looping in run, a mutex     *)
(* around the list of requests and a semaphore that counts them.  Each     *)
(* action is one step between two synchronisation points; front and        *)
(* pop_front are separate so that the mutex matters.                       *)
(***************************************************************************)
EXTENDS Integers, Sequences, FiniteSets

CONSTANTS
  Requests,      \* http_conn objects (users + sockfd)
  Workers,       \* pool threads, m_thread_number of them
  MaxRequests,   \* m_max_requests
  Main,          \* the thread of the event loop
  None           \* no request, mutex free

ASSUME ThreadPoolAssumption ==
  /\ MaxRequests \in Nat \ {0}
  /\ IsFiniteSet(Workers)
  /\ None \notin Requests \cup Workers \cup {Main}
  /\ Main \notin Workers

VARIABLES
  m_workqueue,    \* std::list of requests
  m_queuelocker,  \* the thread holding the mutex, or None
  m_queuestat,    \* value of the semaphore
  m_stop,
  main,           \* control point of the event loop thread in append
  arg,            \* append's argument
  pc,             \* pc[w]: control point of worker w in run
  request         \* request[w]: the local variable of run

vars == <<m_workqueue, m_queuelocker, m_queuestat, m_stop, main, arg, pc, request>>

MainPoints   == {"loop", "push", "post", "done"}
WorkerPoints == {"test", "wait", "lock", "front", "pop", "process", "finish", "exit"}

\* Type invariant of the pool's members and of the threads' locals.
TypeOK ==
  /\ m_workqueue \in Seq(Requests)
  /\ m_queuelocker \in Workers \cup {Main, None}
  /\ m_queuestat \in Nat
  /\ m_stop \in BOOLEAN
  /\ main \in MainPoints
  /\ arg \in Requests \cup {None}
  /\ pc \in [Workers -> WorkerPoints]
  /\ request \in [Workers -> Requests \cup {None}]

Queued(r) == \E i \in 1 .. Len(m_workqueue) : m_workqueue[i] = r

\* A worker owns the object from front until process re-arms its descriptor.
Owns(w, r) == request[w] = r /\ pc[w] \in {"pop", "process"}

Init ==
  /\ m_workqueue = <<>>
  /\ m_queuelocker = None
  /\ m_queuestat = 0
  /\ m_stop = FALSE
  /\ main = "loop"
  /\ arg = None
  /\ pc = [w \in Workers |-> "test"]
  /\ request = [w \in Workers |-> None]
-----------------------------------------------------------------------------
(* append *)

\* main.cpp appends users + sockfd on an EPOLLIN event; the descriptor was
\* registered EPOLLONESHOT, so the object has no owner at that moment.
AppendLock(r) ==
  /\ main = "loop"
  /\ ~ Queued(r)
  /\ \A w \in Workers : ~ Owns(w, r)
  /\ m_queuelocker = None
  /\ m_queuelocker' = Main
  /\ arg' = r
  /\ main' = "push"
  /\ UNCHANGED <<m_workqueue, m_queuestat, m_stop, pc, request>>

\* Mutation: push_front
AppendPush_Front ==
  /\ main = "push"
  /\ IF Len(m_workqueue) > MaxRequests
       THEN main' = "loop" /\ UNCHANGED m_workqueue
       ELSE main' = "post" /\ m_workqueue' = <<arg>> \o m_workqueue
  /\ m_queuelocker' = None
  /\ UNCHANGED <<m_queuestat, m_stop, arg, pc, request>>

AppendPush ==
  /\ main = "push"
  /\ IF Len(m_workqueue) > MaxRequests
       THEN main' = "loop" /\ UNCHANGED m_workqueue
       ELSE main' = "post" /\ m_workqueue' = Append(m_workqueue, arg)
  /\ m_queuelocker' = None
  /\ UNCHANGED <<m_queuestat, m_stop, arg, pc, request>>

\* Mutation: a binary semaphore, which forgets a post that nobody waits for.
AppendPost_Binary ==
  /\ main = "post"
  /\ m_queuestat' = 1
  /\ main' = "loop"
  /\ UNCHANGED <<m_workqueue, m_queuelocker, m_stop, arg, pc, request>>

AppendPost ==
  /\ main = "post"
  /\ m_queuestat' = m_queuestat + 1
  /\ main' = "loop"
  /\ UNCHANGED <<m_workqueue, m_queuelocker, m_stop, arg, pc, request>>

\* delete pool at the end of main.cpp: the flag is set and nobody is woken.
Destroy ==
  /\ main = "loop"
  /\ m_stop' = TRUE
  /\ main' = "done"
  /\ UNCHANGED <<m_workqueue, m_queuelocker, m_queuestat, arg, pc, request>>
-----------------------------------------------------------------------------
(* run *)

Goto(w, p) == pc' = [pc EXCEPT ![w] = p]

TestStop(w) ==
  /\ pc[w] = "test"
  /\ Goto(w, IF m_stop THEN "exit" ELSE "wait")
  /\ UNCHANGED <<m_workqueue, m_queuelocker, m_queuestat, m_stop, main, arg, request>>

SemWait(w) ==
  /\ pc[w] = "wait"
  /\ m_queuestat > 0
  /\ m_queuestat' = m_queuestat - 1
  /\ Goto(w, "lock")
  /\ UNCHANGED <<m_workqueue, m_queuelocker, m_stop, main, arg, request>>

\* A signal handled by a worker ends its sem_wait with EINTR (main.cpp installs
\* the handlers without SA_RESTART); run ignores the result and goes on.
Interrupted(w) ==
  /\ pc[w] = "wait"
  /\ m_queuestat = 0
  /\ Goto(w, "lock")
  /\ UNCHANGED <<m_workqueue, m_queuelocker, m_queuestat, m_stop, main, arg, request>>

\* Mutation: the mutex excludes nobody.
Lock_Shared(w) ==
  /\ pc[w] = "lock"
  /\ m_queuelocker' = w
  /\ Goto(w, "front")
  /\ UNCHANGED <<m_workqueue, m_queuestat, m_stop, main, arg, request>>

Lock(w) ==
  /\ pc[w] = "lock"
  /\ m_queuelocker = None
  /\ m_queuelocker' = w
  /\ Goto(w, "front")
  /\ UNCHANGED <<m_workqueue, m_queuestat, m_stop, main, arg, request>>

Front(w) ==
  /\ pc[w] = "front"
  /\ IF m_workqueue = <<>>
       THEN /\ m_queuelocker' = None
            /\ Goto(w, "test")
            /\ UNCHANGED request
       ELSE /\ request' = [request EXCEPT ![w] = Head(m_workqueue)]
            /\ Goto(w, "pop")
            /\ UNCHANGED m_queuelocker
  /\ UNCHANGED <<m_workqueue, m_queuestat, m_stop, main, arg>>

PopFront(w) ==
  /\ pc[w] = "pop"
  /\ m_workqueue' = Tail(m_workqueue)
  /\ m_queuelocker' = None
  /\ Goto(w, "process")
  /\ UNCHANGED <<m_queuestat, m_stop, main, arg, request>>

\* process() ends by re-arming the descriptor: from here on the event loop may
\* append the object again, although the worker has not yet left run's body.
Process(w) ==
  /\ pc[w] = "process"
  /\ Goto(w, "finish")
  /\ UNCHANGED <<m_workqueue, m_queuelocker, m_queuestat, m_stop, main, arg, request>>

Finish(w) ==
  /\ pc[w] = "finish"
  /\ request' = [request EXCEPT ![w] = None]
  /\ Goto(w, "test")
  /\ UNCHANGED <<m_workqueue, m_queuelocker, m_queuestat, m_stop, main, arg>>

Run(w) == TestStop(w) \/ SemWait(w) \/ Lock(w) \/ Front(w) \/ PopFront(w) \/ Process(w) \/ Finish(w)

AppendStep == (\E r \in Requests : AppendLock(r)) \/ AppendPush \/ AppendPost

Next == AppendStep \/ Destroy \/ \E w \in Workers : Run(w) \/ Interrupted(w)

Spec == Init /\ [][Next]_vars

\* Runnable threads are scheduled, and a thread blocked on the semaphore or the
\* mutex gets it if it is released again and again.  Clients owe nothing:
\* AppendLock and Destroy are not fair.
Fairness ==
  /\ WF_vars(AppendPush) /\ WF_vars(AppendPost)
  /\ \A w \in Workers : WF_vars(Run(w)) /\ SF_vars(SemWait(w)) /\ SF_vars(Lock(w))

FairSpec == Spec /\ Fairness
-----------------------------------------------------------------------------
(* Properties *)

Woken == {w \in Workers : pc[w] \in {"lock", "front", "pop"}}

\* No queued request is forgotten: each is covered by a token in the semaphore,
\* by a worker that is on its way to the list, or by the post append is about
\* to make.  (An interrupted worker may take a request whose token stays behind;
\* it then wakes somebody who finds the list empty.)
TokensCoverQueue ==
  Len(m_workqueue) <= m_queuestat + Cardinality(Woken) + IF main = "post" THEN 1 ELSE 0

\* An http_conn is in at most one place: once in the list, or with one worker.
\* (A worker at "pop" has read the front, which is still in the list.)
OneOwner ==
  /\ \A i, j \in 1 .. Len(m_workqueue) : m_workqueue[i] = m_workqueue[j] => i = j
  /\ \A v, w \in Workers : \A r \in Requests : Owns(v, r) /\ Owns(w, r) => v = w
  /\ \A w \in Workers : pc[w] = "process" => ~ Queued(request[w])

\* Bounded FIFO queue with one owner per request.
RQ == INSTANCE RequestQueue WITH
        waiting <- m_workqueue,
        serving <- [w \in Workers |-> IF pc[w] = "process" THEN request[w] ELSE None]

ImplementsRequestQueue == RQ!QueueSpec

\* A request accepted by append reaches a worker unless the pool is destroyed.
QueuedIsServed ==
  \A r \in Requests : Queued(r) ~> (m_stop \/ \E w \in Workers : Owns(w, r) /\ pc[w] = "process")
=============================================================================
