---------------------------- MODULE RequestQueue ----------------------------
(***************************************************************************)
(* What the request queue of version_03 promises to the event loop and to  *)
(* the http_conn objects: a bounded FIFO queue from which every accepted    *)
(* request is handed to exactly one worker.  ThreadPool implements it with *)
(* a mutex and a semaphore; Server is built on it.                         *)
(***************************************************************************)
EXTENDS Integers, Sequences

CONSTANTS
  Requests,     \* the http_conn objects, T* in the code
  Workers,      \* the threads of the pool
  MaxRequests,  \* m_max_requests
  None          \* no request

VARIABLES
  waiting,      \* requests accepted by append and not yet taken, oldest first
  serving       \* serving[w]: the request worker w has taken and still owns

queueVars == <<waiting, serving>>

QueueType ==
  /\ waiting \in Seq(Requests)
  /\ serving \in [Workers -> Requests \cup {None}]

Waits(r)  == \E i \in 1 .. Len(waiting) : waiting[i] = r
Served(r) == \E w \in Workers : serving[w] = r

QueueInit ==
  /\ waiting = <<>>
  /\ serving = [w \in Workers |-> None]

\* The limit is compared with >, so that one request more than MaxRequests fits.
HasRoom == ~ (Len(waiting) > MaxRequests)

Enqueue(r) ==
  /\ HasRoom
  /\ waiting' = Append(waiting, r)
  /\ UNCHANGED serving

Take(w) ==
  /\ serving[w] = None
  /\ waiting # <<>>
  /\ serving' = [serving EXCEPT ![w] = Head(waiting)]
  /\ waiting' = Tail(waiting)

Release(w) ==
  /\ serving[w] # None
  /\ serving' = [serving EXCEPT ![w] = None]
  /\ UNCHANGED waiting

\* EPOLLONESHOT: the event loop appends an object only while nobody owns it.
QueueNext ==
  \/ \E r \in Requests : ~ Waits(r) /\ ~ Served(r) /\ Enqueue(r)
  \/ \E w \in Workers : Take(w) \/ Release(w)

QueueSpec == QueueInit /\ [][QueueNext]_queueVars
=============================================================================
