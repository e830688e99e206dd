-------------------------- MODULE EventLoopProofs --------------------------
(***************************************************************************)
(* Theorems about the two lists that the event loop of version_03 writes:  *)
(*                                                                         *)
(*  1. the queue of requests it shares with the pool threads (ThreadPool), *)
(*     for every number of requests and workers and every limit; the last  *)
(*     theorem is that the pool implements RequestQueue;                   *)
(*                                                                         *)
(*  2. the timers (TimerList), for every number of them and all values of  *)
(*     time_t; the last theorem is that the pointers implement             *)
(*     SortedTimers.                                                       *)
(***************************************************************************)
EXTENDS ThreadPool, TimerList, FiniteSetTheorems, FunctionTheorems, SequenceTheorems, WellFoundedInduction, TLAPS

-----------------------------------------------------------------------------
(* Part 1: the request queue                                               *)

\* The mutex is held exactly by the thread that is inside a critical section.
Mutex ==
  /\ m_queuelocker = Main <=> main = "push"
  /\ \A w \in Workers : m_queuelocker = w <=> pc[w] \in {"front", "pop"}

\* What the threads know in their critical sections and while they own a request.
Locals ==
  /\ main = "push" => arg \in Requests /\ ~ Queued(arg) /\ \A w \in Workers : ~ Owns(w, arg)
  /\ \A w \in Workers :
       /\ pc[w] = "pop" => m_workqueue # <<>> /\ request[w] = Head(m_workqueue)
       /\ pc[w] \in {"pop", "process"} => request[w] \in Requests

\* The inductive invariant.
IInv == TypeOK /\ Mutex /\ Locals /\ TokensCoverQueue /\ OneOwner
-----------------------------------------------------------------------------
(* Sequences without repetitions *)

Occurs(x, q) == \E i \in 1 .. Len(q) : q[i] = x
Distinct(q)  == \A i, j \in 1 .. Len(q) : q[i] = q[j] => i = j

\* pop_front takes the front and nothing else out of a list without repetitions.
LEMMA PopDistinct ==
  ASSUME NEW S, NEW q \in Seq(S), q # <<>>, Distinct(q)
  PROVE  /\ Distinct(Tail(q))
         /\ \A x : Occurs(x, Tail(q)) <=> Occurs(x, q) /\ x # Head(q)
         /\ Occurs(Head(q), q)
<1>1. /\ Len(Tail(q)) = Len(q) - 1
      /\ \A i \in 1 .. Len(Tail(q)) : i + 1 \in 1 .. Len(q) /\ Tail(q)[i] = q[i + 1]
      /\ Len(q) \in Nat \ {0} /\ q[1] = Head(q)
  OBVIOUS
<1>2. Distinct(Tail(q))
  <2> SUFFICES ASSUME NEW i \in 1 .. Len(Tail(q)), NEW j \in 1 .. Len(Tail(q)), Tail(q)[i] = Tail(q)[j]
               PROVE  i = j
    BY DEF Distinct
  <2>1. i + 1 \in 1 .. Len(q) /\ j + 1 \in 1 .. Len(q) /\ q[i + 1] = q[j + 1]
    BY <1>1
  <2>2. i + 1 = j + 1
    BY <2>1 DEF Distinct
  <2> QED
    BY <1>1, <2>2
<1>3. ASSUME NEW x, NEW i \in 1 .. Len(Tail(q)), Tail(q)[i] = x
      PROVE  Occurs(x, q) /\ x # Head(q)
  <2>1. i + 1 \in 1 .. Len(q) /\ q[i + 1] = x
    BY <1>1, <1>3
  <2>2. 1 \in 1 .. Len(q) /\ i + 1 # 1
    BY <1>1
  <2> QED
    BY <1>1, <2>1, <2>2 DEF Occurs, Distinct
<1>4. ASSUME NEW x, x # Head(q), NEW i \in 1 .. Len(q), q[i] = x
      PROVE  Occurs(x, Tail(q))
  <2>1. i # 1 /\ i - 1 \in 1 .. Len(Tail(q))
    BY <1>1, <1>4
  <2>2. Tail(q)[i - 1] = x
    BY <1>1, <1>4, <2>1
  <2> QED
    BY <2>1, <2>2 DEF Occurs
<1>5. Occurs(Head(q), q)
  BY <1>1 DEF Occurs
<1> QED
  BY <1>2, <1>3, <1>4, <1>5 DEF Occurs

\* push_back of something new keeps a list free of repetitions.
LEMMA PushDistinct ==
  ASSUME NEW S, NEW q \in Seq(S), NEW y \in S, Distinct(q), ~ Occurs(y, q)
  PROVE  /\ Distinct(Append(q, y))
         /\ \A x : Occurs(x, Append(q, y)) <=> Occurs(x, q) \/ x = y
<1> DEFINE p == Append(q, y)
           n == Len(q) + 1
<1>1. /\ n \in Nat /\ Len(p) = n /\ p[n] = y
      /\ \A i \in 1 .. n : i # n => i \in 1 .. Len(q) /\ p[i] = q[i]
      /\ \A i \in 1 .. Len(q) : i \in 1 .. n /\ p[i] = q[i]
  OBVIOUS
<1>2. n \in 1 .. n
  BY <1>1
<1>3. \A i \in 1 .. Len(q) : q[i] # y
  BY DEF Occurs
<1>4. Distinct(p)
  BY <1>1, <1>3 DEF Distinct
<1>5. \A x : Occurs(x, p) <=> Occurs(x, q) \/ x = y
  BY <1>1, <1>2 DEF Occurs
<1> QED
  BY <1>4, <1>5
-----------------------------------------------------------------------------
(* Counting the workers on their way to the list *)

\* There are finitely many workers between sem_wait and pop_front.
LEMMA WokenFinite == IsFiniteSet(Woken) /\ Cardinality(Woken) \in Nat
<1>1. Woken \in SUBSET Workers
  BY DEF Woken
<1>2. IsFiniteSet(Woken)
  BY <1>1, ThreadPoolAssumption, FS_Subset
<1> QED
  BY <1>2, FS_CardinalityType

\* A step of one worker moves at most that worker in or out of Woken.
LEMMA WokenStep ==
  ASSUME TypeOK, NEW w \in Workers, NEW p, Goto(w, p)
  PROVE  Cardinality(Woken') = Cardinality(Woken)
           + (IF p \in {"lock", "front", "pop"} THEN 1 ELSE 0)
           - (IF pc[w] \in {"lock", "front", "pop"} THEN 1 ELSE 0)
<1>1. Woken' = IF p \in {"lock", "front", "pop"} THEN Woken \cup {w} ELSE Woken \ {w}
  BY DEF TypeOK, Woken, Goto
<1>2. w \in Woken <=> pc[w] \in {"lock", "front", "pop"}
  BY DEF Woken
<1>3. /\ Cardinality(Woken \cup {w}) = IF w \in Woken THEN Cardinality(Woken) ELSE Cardinality(Woken) + 1
      /\ Cardinality(Woken \ {w}) = IF w \in Woken THEN Cardinality(Woken) - 1 ELSE Cardinality(Woken)
  BY WokenFinite, FS_AddElement, FS_RemoveElement
<1> QED
  BY <1>1, <1>2, <1>3, WokenFinite
-----------------------------------------------------------------------------
(* The steps of append and of the destructor *)

\* Every step of append, and the destructor's, preserves the invariant.
LEMMA MainStep ==
  ASSUME IInv, AppendStep \/ Destroy
  PROVE  IInv'
<1> USE DEF IInv
<1>0. /\ m_workqueue \in Seq(Requests) /\ Len(m_workqueue) \in Nat /\ m_queuestat \in Nat
      /\ Cardinality(Woken) \in Nat
      /\ Len(m_workqueue) <= m_queuestat + Cardinality(Woken) + IF main = "post" THEN 1 ELSE 0
  BY WokenFinite DEF TypeOK, TokensCoverQueue
<1>1. ASSUME NEW r \in Requests, AppendLock(r) PROVE IInv'
  <2>1. TypeOK' /\ Mutex'
    BY <1>1, ThreadPoolAssumption DEF TypeOK, Mutex, AppendLock, MainPoints
  <2>2. Locals' /\ OneOwner'
    BY <1>1 DEF Locals, OneOwner, AppendLock, Queued, Owns
  <2>3. TokensCoverQueue'
    BY <1>1 DEF TokensCoverQueue, AppendLock, Woken
  <2> QED
    BY <2>1, <2>2, <2>3
<1>2. CASE AppendPush
  <2>1. CASE Len(m_workqueue) > MaxRequests
    <3>1. TypeOK' /\ Mutex'
      BY <1>2, <2>1, ThreadPoolAssumption DEF TypeOK, Mutex, AppendPush, MainPoints
    <3>2. Locals' /\ OneOwner'
      BY <1>2, <2>1 DEF Locals, OneOwner, AppendPush, Queued, Owns
    <3>3. TokensCoverQueue'
      BY <1>2, <2>1 DEF TokensCoverQueue, AppendPush, Woken
    <3> QED
      BY <3>1, <3>2, <3>3
  <2>2. CASE ~ (Len(m_workqueue) > MaxRequests)
    <3>1. /\ main = "push" /\ main' = "post" /\ m_workqueue' = Append(m_workqueue, arg)
          /\ m_queuelocker' = None
          /\ UNCHANGED <<m_queuestat, m_stop, arg, pc, request>>
      BY <1>2, <2>2 DEF AppendPush
    <3>2. arg \in Requests /\ ~ Occurs(arg, m_workqueue) /\ \A w \in Workers : ~ Owns(w, arg)
      BY <3>1 DEF Locals, Queued, Occurs
    <3>3. Append(m_workqueue, arg) \in Seq(Requests) /\ Len(Append(m_workqueue, arg)) = Len(m_workqueue) + 1
      BY <1>0, <3>2
    <3>4. TypeOK' /\ Mutex'
      BY <3>1, <3>3, ThreadPoolAssumption DEF TypeOK, Mutex, MainPoints
    <3>5. Locals'
      <4>1. \A w \in Workers : pc[w] # "pop"
        BY <3>1, ThreadPoolAssumption DEF Mutex
      <4> QED
        BY <3>1, <4>1 DEF Locals
    <3>6. OneOwner'
      <4>1. Distinct(m_workqueue)
        BY DEF OneOwner, Distinct
      <4>2. Distinct(m_workqueue') /\ \A x : Occurs(x, m_workqueue') <=> Occurs(x, m_workqueue) \/ x = arg
        BY <1>0, <3>1, <3>2, <4>1, PushDistinct
      <4>3. \A w \in Workers : pc[w] = "process" => ~ Occurs(request[w], m_workqueue) /\ request[w] # arg
        BY <3>2 DEF OneOwner, Owns, Queued, Occurs
      <4>4. \A w \in Workers : pc'[w] = "process" => ~ Occurs(request'[w], m_workqueue')
        BY <3>1, <4>2, <4>3
      <4> QED
        BY <3>1, <4>2, <4>4 DEF OneOwner, Owns, Queued, Occurs, Distinct
    <3>7. TokensCoverQueue'
      <4>1. Woken' = Woken
        BY <3>1 DEF Woken
      <4>2. Len(m_workqueue') <= m_queuestat' + Cardinality(Woken') + 1
        BY <1>0, <3>1, <3>3, <4>1
      <4> QED
        BY <3>1, <4>2 DEF TokensCoverQueue
    <3> QED
      BY <3>4, <3>5, <3>6, <3>7
  <2> QED
    BY <2>1, <2>2
<1>3. CASE AppendPost
  <2>1. /\ main = "post" /\ main' = "loop" /\ m_queuestat' = m_queuestat + 1
        /\ UNCHANGED <<m_workqueue, m_queuelocker, m_stop, arg, pc, request>>
    BY <1>3 DEF AppendPost
  <2>2. m_queuestat' \in Nat
    BY <1>0, <2>1
  <2>3. TypeOK' /\ Mutex'
    BY <2>1, <2>2 DEF TypeOK, Mutex, MainPoints
  <2>4. Locals' /\ OneOwner'
    BY <2>1 DEF Locals, OneOwner, Queued, Owns
  <2>5. TokensCoverQueue'
    <3>1. Woken' = Woken
      BY <2>1 DEF Woken
    <3>2. Len(m_workqueue') <= m_queuestat' + Cardinality(Woken') + 0
      BY <1>0, <2>1, <3>1
    <3> QED
      BY <2>1, <3>2 DEF TokensCoverQueue
  <2> QED
    BY <2>3, <2>4, <2>5
<1>4. CASE Destroy
  <2>1. TypeOK' /\ Mutex'
    BY <1>4 DEF TypeOK, Mutex, Destroy, MainPoints
  <2>2. Locals' /\ OneOwner'
    BY <1>4 DEF Locals, OneOwner, Destroy, Queued, Owns
  <2>3. TokensCoverQueue'
    BY <1>4 DEF TokensCoverQueue, Destroy, Woken
  <2> QED
    BY <2>1, <2>2, <2>3
<1> QED
  BY <1>1, <1>2, <1>3, <1>4 DEF AppendStep

-----------------------------------------------------------------------------
(* The steps of run *)

\* Every step of run, and an interrupted sem_wait, preserves the invariant.
LEMMA WorkerStep ==
  ASSUME IInv, NEW w \in Workers, Run(w) \/ Interrupted(w)
  PROVE  IInv'
<1> USE DEF IInv
<1>0. /\ m_workqueue \in Seq(Requests) /\ Len(m_workqueue) \in Nat /\ m_queuestat \in Nat
      /\ pc \in [Workers -> WorkerPoints] /\ request \in [Workers -> Requests \cup {None}]
      /\ Cardinality(Woken) \in Nat
      /\ Len(m_workqueue) <= m_queuestat + Cardinality(Woken) + IF main = "post" THEN 1 ELSE 0
  BY WokenFinite DEF TypeOK, TokensCoverQueue
<1>1. CASE TestStop(w)
  <2>1. TypeOK' /\ Mutex'
    BY <1>1 DEF TypeOK, Mutex, TestStop, Goto, WorkerPoints
  <2>2. Locals' /\ OneOwner'
    BY <1>0, <1>1 DEF Locals, OneOwner, TestStop, Goto, Queued, Owns
  <2>3. Cardinality(Woken') = Cardinality(Woken)
    BY <1>0, <1>1, WokenStep DEF TestStop
  <2>4. TokensCoverQueue'
    BY <1>1, <2>3 DEF TokensCoverQueue, TestStop
  <2> QED
    BY <2>1, <2>2, <2>4
<1>2. CASE SemWait(w)
  <2>1. /\ pc[w] = "wait" /\ m_queuestat > 0 /\ m_queuestat' = m_queuestat - 1 /\ Goto(w, "lock")
        /\ UNCHANGED <<m_workqueue, m_queuelocker, m_stop, main, arg, request>>
    BY <1>2 DEF SemWait
  <2>2. m_queuestat' \in Nat
    BY <1>0, <2>1
  <2>3. TypeOK' /\ Mutex'
    BY <2>1, <2>2 DEF TypeOK, Mutex, Goto, WorkerPoints
  <2>4. Locals' /\ OneOwner'
    BY <1>0, <2>1 DEF Locals, OneOwner, Goto, Queued, Owns
  <2>5. Cardinality(Woken') = Cardinality(Woken) + 1
    BY <1>0, <2>1, WokenStep
  <2>6. TokensCoverQueue'
    BY <1>0, <2>1, <2>5 DEF TokensCoverQueue
  <2> QED
    BY <2>3, <2>4, <2>6
<1>8. CASE Interrupted(w)
  <2>1. /\ pc[w] = "wait" /\ Goto(w, "lock")
        /\ UNCHANGED <<m_workqueue, m_queuelocker, m_queuestat, m_stop, main, arg, request>>
    BY <1>8 DEF Interrupted
  <2>2. TypeOK' /\ Mutex'
    BY <2>1 DEF TypeOK, Mutex, Goto, WorkerPoints
  <2>3. Locals' /\ OneOwner'
    BY <1>0, <2>1 DEF Locals, OneOwner, Goto, Queued, Owns
  <2>4. Cardinality(Woken') = Cardinality(Woken) + 1
    BY <1>0, <2>1, WokenStep
  <2>5. TokensCoverQueue'
    BY <1>0, <2>1, <2>4 DEF TokensCoverQueue
  <2> QED
    BY <2>2, <2>3, <2>5
<1>3. CASE Lock(w)
  <2>1. TypeOK' /\ Mutex'
    BY <1>3, ThreadPoolAssumption DEF TypeOK, Mutex, Lock, Goto, WorkerPoints
  <2>2. Locals' /\ OneOwner'
    BY <1>0, <1>3 DEF Locals, OneOwner, Lock, Goto, Queued, Owns
  <2>3. Cardinality(Woken') = Cardinality(Woken)
    <3>1. pc[w] = "lock" /\ Goto(w, "front")
      BY <1>3 DEF Lock
    <3> QED
      BY <1>0, <3>1, WokenStep
  <2>4. TokensCoverQueue'
    BY <1>3, <2>3 DEF TokensCoverQueue, Lock
  <2> QED
    BY <2>1, <2>2, <2>4
<1>4. CASE Front(w) /\ m_workqueue # <<>>
  <2>1. pc[w] = "front" /\ m_workqueue # <<>>
    BY <1>4 DEF Front
  <2>3. /\ request' = [request EXCEPT ![w] = Head(m_workqueue)] /\ Goto(w, "pop")
        /\ UNCHANGED <<m_workqueue, m_queuelocker, m_queuestat, m_stop, main, arg>>
    BY <1>4 DEF Front
  <2>4. Head(m_workqueue) \in Requests /\ Occurs(Head(m_workqueue), m_workqueue)
    BY <1>0, <2>1 DEF Occurs
  <2>5. TypeOK' /\ Mutex'
    BY <2>1, <2>3, <2>4, ThreadPoolAssumption DEF TypeOK, Mutex, Goto, WorkerPoints
  <2>6. main # "push" /\ \A v \in Workers \ {w} : pc[v] # "pop"
    BY <2>1, ThreadPoolAssumption DEF Mutex
  <2>7. Locals'
    BY <1>0, <2>1, <2>3, <2>4, <2>6 DEF Locals, Goto
  <2>8. OneOwner'
    <3>1. \A v \in Workers \ {w} : ~ Owns(v, Head(m_workqueue))
      BY <2>4, <2>6 DEF OneOwner, Owns, Queued, Occurs
    <3>2. \A v \in Workers, r \in Requests : Owns(v, r)' <=> Owns(v, r) \/ (v = w /\ r = Head(m_workqueue))
      BY <1>0, <2>1, <2>3, <2>4 DEF Owns, Goto
    <3>3. \A u, v \in Workers : \A r \in Requests : Owns(u, r)' /\ Owns(v, r)' => u = v
      BY <3>1, <3>2 DEF OneOwner
    <3>4. \A v \in Workers : pc'[v] = "process" => ~ Queued(request[v])' /\ request'[v] = request[v]
      BY <1>0, <2>3 DEF OneOwner, Queued, Goto
    <3> QED
      BY <2>3, <3>3, <3>4 DEF OneOwner, Queued
  <2>9. Cardinality(Woken') = Cardinality(Woken)
    BY <1>0, <2>1, <2>3, WokenStep
  <2>10. TokensCoverQueue'
    BY <2>3, <2>9 DEF TokensCoverQueue
  <2> QED
    BY <2>5, <2>7, <2>8, <2>10
<1>9. CASE Front(w) /\ m_workqueue = <<>>
  <2>1. /\ pc[w] = "front" /\ m_queuelocker' = None /\ Goto(w, "test")
        /\ UNCHANGED <<m_workqueue, m_queuestat, m_stop, main, arg, request>>
    BY <1>9 DEF Front
  <2>2. TypeOK' /\ Mutex'
    BY <2>1, ThreadPoolAssumption DEF TypeOK, Mutex, Goto, WorkerPoints
  <2>3. Locals' /\ OneOwner'
    BY <1>0, <2>1 DEF Locals, OneOwner, Goto, Queued, Owns
  <2>4. Cardinality(Woken') \in Nat
    <3>1. w \in Woken
      BY <2>1 DEF Woken
    <3>2. Cardinality(Woken) # 0
      BY <3>1, WokenFinite, FS_EmptySet
    <3>3. Cardinality(Woken') = Cardinality(Woken) - 1
      BY <1>0, <2>1, WokenStep
    <3> QED
      BY <1>0, <3>2, <3>3
  <2>5. TokensCoverQueue'
    <3>1. Len(m_workqueue') = 0
      BY <1>9, <2>1
    <3> QED
      BY <1>0, <2>1, <2>4, <3>1 DEF TokensCoverQueue
  <2> QED
    BY <2>2, <2>3, <2>5
<1>5. CASE PopFront(w)
  <2>1. /\ pc[w] = "pop" /\ m_workqueue' = Tail(m_workqueue) /\ m_queuelocker' = None /\ Goto(w, "process")
        /\ UNCHANGED <<m_queuestat, m_stop, main, arg, request>>
    BY <1>5 DEF PopFront
  <2>2. m_workqueue # <<>> /\ request[w] = Head(m_workqueue) /\ request[w] \in Requests
    BY <2>1 DEF Locals
  <2>3. m_workqueue' \in Seq(Requests) /\ Len(m_workqueue') = Len(m_workqueue) - 1
    BY <1>0, <2>1, <2>2
  <2>4. TypeOK' /\ Mutex'
    BY <2>1, <2>3, ThreadPoolAssumption DEF TypeOK, Mutex, Goto, WorkerPoints
  <2>5. main # "push" /\ \A v \in Workers \ {w} : pc[v] # "pop"
    BY <2>1, ThreadPoolAssumption DEF Mutex
  <2>6. Locals'
    BY <1>0, <2>1, <2>2, <2>5 DEF Locals, Goto
  <2>7. OneOwner'
    <3>1. Distinct(m_workqueue)
      BY DEF OneOwner, Distinct
    <3>2. /\ Distinct(m_workqueue')
          /\ \A x : Occurs(x, m_workqueue') <=> Occurs(x, m_workqueue) /\ x # request[w]
      BY <1>0, <2>1, <2>2, <3>1, PopDistinct
    <3>3. \A v \in Workers, r \in Requests : Owns(v, r)' <=> Owns(v, r)
      BY <1>0, <2>1 DEF Owns, Goto
    <3>4. \A v \in Workers : pc'[v] = "process" => v = w \/ pc[v] = "process"
      BY <1>0, <2>1 DEF Goto
    <3>5. \A v \in Workers : pc'[v] = "process" => ~ Occurs(request[v], m_workqueue')
      BY <3>2, <3>4 DEF OneOwner, Queued, Occurs
    <3> QED
      BY <2>1, <3>2, <3>3, <3>5 DEF OneOwner, Queued, Occurs, Distinct
  <2>8. Cardinality(Woken') = Cardinality(Woken) - 1
    BY <1>0, <2>1, WokenStep
  <2>9. TokensCoverQueue'
    BY <1>0, <2>1, <2>3, <2>8 DEF TokensCoverQueue
  <2> QED
    BY <2>4, <2>6, <2>7, <2>9
<1>6. CASE Process(w)
  <2>1. TypeOK' /\ Mutex'
    BY <1>6 DEF TypeOK, Mutex, Process, Goto, WorkerPoints
  <2>2. Locals' /\ OneOwner'
    BY <1>0, <1>6 DEF Locals, OneOwner, Process, Goto, Queued, Owns
  <2>3. Cardinality(Woken') = Cardinality(Woken)
    <3>1. pc[w] = "process" /\ Goto(w, "finish")
      BY <1>6 DEF Process
    <3> QED
      BY <1>0, <3>1, WokenStep
  <2>4. TokensCoverQueue'
    BY <1>6, <2>3 DEF TokensCoverQueue, Process
  <2> QED
    BY <2>1, <2>2, <2>4
<1>7. CASE Finish(w)
  <2>1. TypeOK' /\ Mutex'
    BY <1>7 DEF TypeOK, Mutex, Finish, Goto, WorkerPoints
  <2>2. Locals' /\ OneOwner'
    BY <1>0, <1>7 DEF Locals, OneOwner, Finish, Goto, Queued, Owns
  <2>3. Cardinality(Woken') = Cardinality(Woken)
    <3>1. pc[w] = "finish" /\ Goto(w, "test")
      BY <1>7 DEF Finish
    <3> QED
      BY <1>0, <3>1, WokenStep
  <2>4. TokensCoverQueue'
    BY <1>7, <2>3 DEF TokensCoverQueue, Finish
  <2> QED
    BY <2>1, <2>2, <2>4
<1> QED
  BY <1>1, <1>2, <1>3, <1>4, <1>5, <1>6, <1>7, <1>8, <1>9 DEF Run

-----------------------------------------------------------------------------
(* The theorems *)

\* The constructor leaves an empty list, a free mutex and no token.
LEMMA InitIInv == Init => IInv
<1> SUFFICES ASSUME Init PROVE IInv
  OBVIOUS
<1>1. TypeOK /\ Mutex
  <2>1. m_workqueue \in Seq(Requests)
    BY DEF Init
  <2>2. /\ pc \in [Workers -> WorkerPoints]
        /\ request \in [Workers -> Requests \cup {None}]
    BY DEF Init, WorkerPoints
  <2>3. TypeOK
    BY <2>1, <2>2 DEF Init, TypeOK, MainPoints
  <2>4. Mutex
    BY ThreadPoolAssumption DEF Init, Mutex
  <2> QED
    BY <2>3, <2>4
<1>2. Locals /\ OneOwner
  BY DEF Init, Locals, OneOwner, Owns
<1>3. TokensCoverQueue
  <2>1. Woken = {}
    BY DEF Init, Woken
  <2>2. Cardinality(Woken) = 0
    BY <2>1, FS_EmptySet
  <2> QED
    BY <2>2 DEF Init, TokensCoverQueue
<1> QED
  BY <1>1, <1>2, <1>3 DEF IInv

\* A step that changes nothing preserves the invariant.
LEMMA Stutter == IInv /\ UNCHANGED vars => IInv'
<1> SUFFICES ASSUME IInv, UNCHANGED vars PROVE IInv'
  OBVIOUS
<1> USE DEF IInv, vars
<1>1. TypeOK' /\ Mutex'
  BY DEF TypeOK, Mutex
<1>2. Locals' /\ OneOwner'
  BY DEF Locals, OneOwner, Queued, Owns
<1>3. TokensCoverQueue'
  <2>1. Woken' = Woken
    BY DEF Woken
  <2> QED
    BY <2>1 DEF TokensCoverQueue
<1> QED
  BY <1>1, <1>2, <1>3

\* The invariant holds in every reachable state.
LEMMA Invariance == Spec => []IInv
<1>1. IInv /\ [Next]_vars => IInv'
  BY MainStep, WorkerStep, Stutter DEF Next
<1> QED
  BY <1>1, InitIInv, PTL DEF Spec

\* Members and locals keep their types; the semaphore never goes below 0.
THEOREM TypeCorrect == Spec => []TypeOK
<1>1. IInv => TypeOK
  BY DEF IInv
<1> QED
  BY <1>1, Invariance, PTL

\* Every queued request has a token or a worker on its way to it, at every step
\* of append and run, even if signals interrupt sem_wait.
THEOREM TokensAlwaysCover == Spec => []TokensCoverQueue
<1>1. IInv => TokensCoverQueue
  BY DEF IInv
<1> QED
  BY <1>1, Invariance, PTL

\* A request is in the list once or with one worker, for any number of workers.
THEOREM OneOwnerAlways == Spec => []OneOwner
<1>1. IInv => OneOwner
  BY DEF IInv
<1> QED
  BY <1>1, Invariance, PTL
-----------------------------------------------------------------------------
(* ThreadPool implements RequestQueue *)

\* What RequestQueue calls serving.
Serving == [w \in Workers |-> IF pc[w] = "process" THEN request[w] ELSE None]

\* The constructor's pool is the empty queue.
LEMMA RefineInit == Init => RQ!QueueInit
BY DEF Init, RQ!QueueInit

\* A step of append or of a worker is a step of the queue or leaves it alone.
LEMMA RefineStep ==
  ASSUME IInv, [Next]_vars
  PROVE  [RQ!QueueNext]_(RQ!queueVars)
<1> USE DEF IInv
<1>0. pc \in [Workers -> WorkerPoints] /\ request \in [Workers -> Requests \cup {None}]
  BY DEF TypeOK
<1>1. ASSUME UNCHANGED <<m_workqueue, Serving>> PROVE UNCHANGED RQ!queueVars
  BY <1>1 DEF RQ!queueVars, Serving
<1>2. ASSUME NEW r \in Requests, AppendLock(r) PROVE UNCHANGED RQ!queueVars
  BY <1>1, <1>2 DEF AppendLock, Serving
<1>3. CASE AppendPush
  <2>1. CASE Len(m_workqueue) > MaxRequests
    BY <1>1, <1>3, <2>1 DEF AppendPush, Serving
  <2>2. CASE ~ (Len(m_workqueue) > MaxRequests)
    <3>1. /\ arg \in Requests /\ ~ Queued(arg) /\ \A w \in Workers : ~ Owns(w, arg)
          /\ m_workqueue' = Append(m_workqueue, arg) /\ UNCHANGED <<pc, request>>
      BY <1>3, <2>2 DEF Locals, AppendPush
    <3>2. ~ RQ!Waits(arg)
      BY <3>1 DEF RQ!Waits, Queued
    <3>3. ~ RQ!Served(arg)
      BY <3>1, ThreadPoolAssumption DEF RQ!Served, Owns
    <3>4. RQ!Enqueue(arg)
      BY <2>2, <3>1 DEF RQ!Enqueue, RQ!HasRoom
    <3> QED
      BY <3>1, <3>2, <3>3, <3>4 DEF RQ!QueueNext
  <2> QED
    BY <2>1, <2>2
<1>4. CASE AppendPost \/ Destroy
  BY <1>1, <1>4 DEF AppendPost, Destroy, Serving
<1>5. ASSUME NEW w \in Workers, Run(w) \/ Interrupted(w) PROVE RQ!QueueNext \/ UNCHANGED RQ!queueVars
  <2>1. CASE TestStop(w) \/ SemWait(w) \/ Interrupted(w) \/ Lock(w) \/ Front(w) \/ Finish(w)
    <3>1. /\ m_workqueue' = m_workqueue
          /\ \A v \in Workers : /\ pc'[v] = "process" <=> pc[v] = "process"
                                /\ pc[v] = "process" => request'[v] = request[v]
      BY <1>0, <2>1 DEF TestStop, SemWait, Interrupted, Lock, Front, Finish, Goto
    <3>2. Serving' = Serving
      BY <3>1 DEF Serving
    <3> QED
      BY <1>1, <3>1, <3>2
  <2>2. CASE PopFront(w)
    <3>1. /\ pc[w] = "pop" /\ Goto(w, "process") /\ m_workqueue' = Tail(m_workqueue) /\ request' = request
          /\ m_workqueue # <<>> /\ request[w] = Head(m_workqueue)
      BY <2>2 DEF PopFront, Locals
    <3>2. Serving' = [Serving EXCEPT ![w] = Head(m_workqueue)]
      BY <1>0, <3>1 DEF Serving, Goto
    <3>3. Serving[w] = None
      BY <3>1 DEF Serving
    <3>4. RQ!Take(w)
      BY <3>1, <3>2, <3>3 DEF RQ!Take, Serving
    <3> QED
      BY <3>4 DEF RQ!QueueNext
  <2>3. CASE Process(w)
    <3>1. /\ pc[w] = "process" /\ Goto(w, "finish") /\ m_workqueue' = m_workqueue /\ request' = request
          /\ request[w] \in Requests
      BY <2>3 DEF Process, Locals
    <3>2. Serving' = [Serving EXCEPT ![w] = None]
      BY <1>0, <3>1 DEF Serving, Goto
    <3>3. Serving[w] # None
      BY <3>1, ThreadPoolAssumption DEF Serving
    <3>4. RQ!Release(w)
      BY <3>1, <3>2, <3>3 DEF RQ!Release, Serving
    <3> QED
      BY <3>4 DEF RQ!QueueNext
  <2> QED
    BY <1>5, <2>1, <2>2, <2>3 DEF Run
<1>6. CASE UNCHANGED vars
  BY <1>1, <1>6 DEF vars, Serving
<1> QED
  BY <1>2, <1>3, <1>4, <1>5, <1>6 DEF Next, AppendStep

\* The mutex, the semaphore and the list of threadpool.h implement a bounded FIFO
\* queue from which every accepted request goes to exactly one worker.
THEOREM PoolIsAQueue == Spec => ImplementsRequestQueue
<1>1. IInv /\ [Next]_vars => [RQ!QueueNext]_(RQ!queueVars)
  BY RefineStep
<1> QED
  BY <1>1, RefineInit, Invariance, PTL DEF Spec, ImplementsRequestQueue, RQ!QueueSpec
-----------------------------------------------------------------------------
(* Part 2: the timer list                                                  *)
-----------------------------------------------------------------------------
(* Induction along a list, from its end and from its start *)

\* A set of natural numbers has a smallest element.
LEMMA LeastNat ==
  ASSUME NEW S, S \subseteq Nat, S # {}
  PROVE  \E x \in S : \A y \in S : x <= y
<1> DEFINE less == {ss \in Nat \X Nat : ss[1] < ss[2]}
<1>1. IsWellFoundedOn(less, Nat)
  BY NatLessThanWellFounded DEF OpToRel
<1>2. \E x \in S : \A y \in S : ~ (<<y, x>> \in less)
  <2> HIDE DEF less
  <2> QED
    BY <1>1, WFMin
<1>3. PICK x \in S : \A y \in S : ~ (<<y, x>> \in less)
  BY <1>2
<1>4. \A y \in S : ~ (y < x)
  BY <1>3
<1> QED
  BY <1>4

LEMMA Upward ==
  ASSUME NEW n \in Nat, NEW S, n >= 1 => 1 \in S, \A j \in 1 .. n - 1 : j \in S => j + 1 \in S
  PROVE  \A j \in 1 .. n : j \in S
<1> SUFFICES ASSUME {j \in 1 .. n : j \notin S} # {} PROVE FALSE
  OBVIOUS
<1>1. PICK x \in {j \in 1 .. n : j \notin S} : \A y \in {j \in 1 .. n : j \notin S} : x <= y
  <2>1. {j \in 1 .. n : j \notin S} \subseteq Nat
    OBVIOUS
  <2> QED
    BY <2>1, LeastNat
<1>2. x # 1 /\ x - 1 \in 1 .. n - 1 /\ x - 1 \in 1 .. n
  BY <1>1
<1>3. x - 1 \in S
  BY <1>1, <1>2
<1> QED
  BY <1>1, <1>2, <1>3

LEMMA Downward ==
  ASSUME NEW n \in Nat, NEW S, n >= 1 => n \in S, \A j \in 1 .. n - 1 : j + 1 \in S => j \in S
  PROVE  \A j \in 1 .. n : j \in S
<1> DEFINE T == {k \in 1 .. n : n + 1 - k \in S}
<1>1. n >= 1 => 1 \in T
  OBVIOUS
<1>2. ASSUME NEW j \in 1 .. n - 1, j \in T PROVE j + 1 \in T
  <2>1. n - j \in 1 .. n - 1 /\ (n - j) + 1 = n + 1 - j /\ n - j = n + 1 - (j + 1)
    OBVIOUS
  <2>2. n - j \in S
    BY <1>2, <2>1
  <2> QED
    BY <2>1, <2>2
<1>3. \A k \in 1 .. n : k \in T
  <2> HIDE DEF T
  <2> QED
    BY <1>1, <1>2, Upward
<1> QED
  <2> SUFFICES ASSUME NEW j \in 1 .. n PROVE j \in S
    OBVIOUS
  <2>1. n + 1 - j \in 1 .. n /\ n + 1 - (n + 1 - j) = j
    OBVIOUS
  <2> QED
    BY <1>3, <2>1
-----------------------------------------------------------------------------
(* A list and its links *)

Links == [head : Pointer, tail : Pointer, prev : [Timers -> Pointer], next : [Timers -> Pointer]]

\* The links of l describe the list q; tail may dangle while q is empty.
Linked(l, q) ==
  /\ q = <<>> => l.head = Null
  /\ q # <<>> => l.head = q[1] /\ l.tail = q[Len(q)]
  /\ \A i \in 1 .. Len(q) : /\ l.next[q[i]] = IF i = Len(q) THEN Null ELSE q[i + 1]
                            /\ l.prev[q[i]] = IF i = 1 THEN Null ELSE q[i - 1]

\* No other timer has links.
Loose(l, q) == \A t \in Timers : ~ Occurs(t, q) => l.next[t] = Null /\ l.prev[t] = Null

LEMMA Singleton ==
  ASSUME NEW S, NEW s \in Seq(S), Len(s) = 1
  PROVE  s = <<s[1]>>
<1>1. s[1] \in S /\ <<s[1]>> \in Seq(S) /\ Len(<<s[1]>>) = 1 /\ <<s[1]>>[1] = s[1]
  OBVIOUS
<1>2. PICK r \in Seq(S) : r = <<s[1]>> /\ Len(r) = 1 /\ r[1] = s[1]
  BY <1>1
<1>3. \A k \in 1 .. Len(s) : s[k] = r[k]
  BY <1>2
<1>4. s = r
  BY <1>2, <1>3, SMTT(30)
<1> QED
  BY <1>2, <1>4

\* The rest of a list from its i-th element on, and the list up to it.
LEMMA Rest ==
  ASSUME NEW S, NEW q \in Seq(S), NEW i \in 1 .. Len(q)
  PROVE  /\ i = Len(q) => SubSeq(q, i, Len(q)) = <<q[i]>>
         /\ i # Len(q) => SubSeq(q, i, Len(q)) = <<q[i]>> \o SubSeq(q, i + 1, Len(q))
         /\ i = 1 => SubSeq(q, 1, i) = <<q[i]>>
         /\ i # 1 => SubSeq(q, 1, i) = SubSeq(q, 1, i - 1) \o <<q[i]>>
         /\ SubSeq(q, 1, Len(q)) = q
<1> DEFINE n == Len(q)
<1>0. n \in Nat /\ q[i] \in S
  OBVIOUS
<1>1. /\ SubSeq(q, i, n) \in Seq(S) /\ Len(SubSeq(q, i, n)) = n - i + 1
      /\ \A k \in 1 .. n - i + 1 : SubSeq(q, i, n)[k] = q[i + k - 1]
  OBVIOUS
<1>2. /\ SubSeq(q, 1, i) \in Seq(S) /\ Len(SubSeq(q, 1, i)) = i
      /\ \A k \in 1 .. i : SubSeq(q, 1, i)[k] = q[k]
  OBVIOUS
<1>3. ASSUME i = n PROVE SubSeq(q, i, n) = <<q[i]>>
  <2>1. Len(SubSeq(q, i, n)) = 1 /\ SubSeq(q, i, n)[1] = q[i]
    <3> HIDE DEF n
    <3> QED
      BY <1>0, <1>1, <1>3
  <2> QED
    BY <1>1, <2>1, Singleton
<1>4. ASSUME i = 1 PROVE SubSeq(q, 1, i) = <<q[i]>>
  <2>1. Len(SubSeq(q, 1, i)) = 1 /\ SubSeq(q, 1, i)[1] = q[i]
    BY <1>2, <1>4
  <2> QED
    BY <1>2, <2>1, Singleton
<1>5. ASSUME i # n PROVE SubSeq(q, i, n) = <<q[i]>> \o SubSeq(q, i + 1, n)
  <2>1. /\ SubSeq(q, i + 1, n) \in Seq(S) /\ Len(SubSeq(q, i + 1, n)) = n - i
        /\ \A k \in 1 .. n - i : SubSeq(q, i + 1, n)[k] = q[i + k]
    BY <1>5
  <2> DEFINE r == <<q[i]>> \o SubSeq(q, i + 1, n)
  <2>2. r \in Seq(S) /\ Len(r) = n - i + 1 /\ r[1] = q[i] /\ \A k \in 2 .. n - i + 1 : r[k] = q[i + k - 1]
    BY <1>0, <2>1
  <2>3. \A k \in 1 .. n - i + 1 : r[k] = SubSeq(q, i, n)[k]
    <3> HIDE DEF r, n
    <3> QED
      BY <1>0, <1>1, <2>2
  <2> QED
    <3> HIDE DEF r, n
    <3>1. r = SubSeq(q, i, n)
      BY <1>0, <1>1, <2>2, <2>3
    <3> QED
      BY <3>1 DEF r
<1>6. ASSUME i # 1 PROVE SubSeq(q, 1, i) = SubSeq(q, 1, i - 1) \o <<q[i]>>
  <2>1. /\ SubSeq(q, 1, i - 1) \in Seq(S) /\ Len(SubSeq(q, 1, i - 1)) = i - 1
        /\ \A k \in 1 .. i - 1 : SubSeq(q, 1, i - 1)[k] = q[k]
    BY <1>6
  <2> DEFINE r == SubSeq(q, 1, i - 1) \o <<q[i]>>
  <2>2. r \in Seq(S) /\ Len(r) = i /\ r[i] = q[i] /\ \A k \in 1 .. i - 1 : r[k] = q[k]
    <3>1. PICK p \in Seq(S) : p = SubSeq(q, 1, i - 1) /\ Len(p) = i - 1 /\ \A k \in 1 .. i - 1 : p[k] = q[k]
      BY <2>1
    <3>2. /\ p \o <<q[i]>> \in Seq(S) /\ Len(p \o <<q[i]>>) = i
          /\ (p \o <<q[i]>>)[i] = q[i] /\ \A k \in 1 .. i - 1 : (p \o <<q[i]>>)[k] = p[k]
      BY <1>0, <3>1
    <3> QED
      BY <3>1, <3>2
  <2>3. \A k \in 1 .. i : r[k] = SubSeq(q, 1, i)[k]
    <3> HIDE DEF r
    <3> QED
      BY <1>0, <1>2, <2>2
  <2> QED
    <3> HIDE DEF r
    <3>1. r = SubSeq(q, 1, i)
      BY <1>0, <1>2, <2>2, <2>3
    <3> QED
      BY <3>1 DEF r
<1>7. SubSeq(q, 1, n) = q
  OBVIOUS
<1> QED
  BY <1>3, <1>4, <1>5, <1>6, <1>7

\* Reading the list along next gives the list.
LEMMA ForwardIs ==
  ASSUME NEW l \in Links, NEW q \in Seq(Timers), Distinct(q), Linked(l, q), Loose(l, q)
  PROVE  ForwardFrom(l) = q
<1> DEFINE n == Len(q)
           Body(w) == [t \in Pointer |-> IF t = Null THEN <<>> ELSE <<t>> \o w[l.next[t]]]
           Place(t) == CHOOSE i \in 1 .. n : q[i] = t
           given == [t \in Pointer |-> IF t = Null THEN <<>>
                                       ELSE IF Occurs(t, q) THEN SubSeq(q, Place(t), n) ELSE <<t>>]
<1>0. n \in Nat /\ Null \notin Timers /\ Null \in Pointer /\ \A i \in 1 .. n : q[i] \in Timers /\ q[i] \in Pointer /\ q[i] # Null
  BY TimerListAssumption DEF Pointer
<1>1. ASSUME NEW i \in 1 .. n PROVE Place(q[i]) = i /\ given[q[i]] = SubSeq(q, i, n)
  BY <1>0 DEF Distinct, Occurs
<1>2. given \in [Pointer -> Seq(Timers)] /\ given[Null] = <<>>
  <2>1. ASSUME NEW t \in Timers, Occurs(t, q) PROVE SubSeq(q, Place(t), n) \in Seq(Timers)
    BY <1>0, <2>1 DEF Occurs
  <2> QED
    BY <1>0, <2>1 DEF Pointer
<1>3. ASSUME NEW t \in Timers PROVE given[t] = <<t>> \o given[l.next[t]]
  <2>1. CASE ~ Occurs(t, q)
    <3>1. l.next[t] = Null /\ given[t] = <<t>>
      BY <2>1, <1>0 DEF Loose, Pointer
    <3>2. <<t>> \in Seq(Timers)
      BY SMTT(30)
    <3> QED
      BY <1>2, <3>1, <3>2, ConcatEmptySeq
  <2>2. ASSUME NEW i \in 1 .. n, q[i] = t PROVE given[t] = <<t>> \o given[l.next[t]]
    <3>0. given[t] = SubSeq(q, i, n)
      BY <1>1, <2>2
    <3>1. CASE i = n
      <4>1. given[l.next[t]] = <<>>
        BY <1>2, <2>2, <3>1 DEF Linked
      <4>2. given[t] = <<t>>
        BY <2>2, <3>0, <3>1, Rest
      <4>3. <<t>> \in Seq(Timers)
        OBVIOUS
      <4> QED
        BY <4>1, <4>2, <4>3, ConcatEmptySeq
    <3>2. CASE i # n
      <4>1. i + 1 \in 1 .. n /\ l.next[t] = q[i + 1]
        BY <2>2, <3>2 DEF Linked
      <4>2. given[l.next[t]] = SubSeq(q, i + 1, n)
        BY <1>1, <4>1
      <4>3. SubSeq(q, i, n) = <<q[i]>> \o SubSeq(q, i + 1, n)
        BY <3>2, Rest
      <4> QED
        BY <2>2, <3>0, <4>2, <4>3
    <3> QED
      BY <3>1, <3>2
  <2> QED
    BY <2>1, <2>2 DEF Occurs
<1>4. given = Body(given)
  <2> HIDE DEF given
  <2>1. \A t \in Pointer : t # Null => t \in Timers
    BY DEF Pointer
  <2> QED
    BY <1>2, <1>3, <2>1
<1> DEFINE walk == CHOOSE w : w = Body(w)
<1>5. walk = Body(walk)
  <2> HIDE DEF given, Body
  <2> QED
    BY <1>4
<1>6. ForwardFrom(l) = walk[l.head]
  BY DEF ForwardFrom
<1> HIDE DEF given, walk
<1>7. walk[Null] = <<>> /\ \A t \in Timers : walk[t] = <<t>> \o walk[l.next[t]]
  BY <1>0, <1>5 DEF Pointer
<1> DEFINE good == {i \in 1 .. n : walk[q[i]] = SubSeq(q, i, n)}
<1>8. n >= 1 => n \in good
  <2> SUFFICES ASSUME n >= 1 PROVE walk[q[n]] = SubSeq(q, n, n)
    BY <1>0
  <2>1. n \in 1 .. n /\ l.next[q[n]] = Null
    BY <1>0 DEF Linked
  <2>2. PICK x \in Timers : x = q[n] /\ l.next[x] = Null
    BY <1>0, <2>1
  <2>3. walk[x] = <<x>> \o <<>>
    BY <1>7, <2>2, Zenon
  <2>4. <<x>> \in Seq(Timers)
    OBVIOUS
  <2>5. walk[x] = <<x>>
    BY <2>3, <2>4, ConcatEmptySeq
  <2> QED
    BY <2>1, <2>2, <2>5, Rest
<1>9. ASSUME NEW i \in 1 .. n - 1, i + 1 \in good PROVE i \in good
  <2>1. i \in 1 .. n /\ i # n /\ l.next[q[i]] = q[i + 1]
    BY <1>0 DEF Linked
  <2>2. walk[q[i]] = <<q[i]>> \o SubSeq(q, i + 1, n)
    BY <1>0, <1>7, <1>9, <2>1
  <2> QED
    BY <2>1, <2>2, Rest
<1>10. \A i \in 1 .. n : i \in good
  <2> HIDE DEF good
  <2> QED
    BY <1>0, <1>8, <1>9, Downward
<1>11. CASE n = 0
  <2>1. q = <<>>
    BY <1>11
  <2> QED
    BY <1>6, <1>7, <2>1 DEF Linked
<1>12. CASE n # 0
  <2>1. 1 \in 1 .. n /\ q # <<>>
    BY <1>0, <1>12
  <2>2. l.head = q[1] /\ walk[q[1]] = SubSeq(q, 1, n)
    BY <1>10, <2>1 DEF Linked
  <2> QED
    BY <1>6, <2>1, <2>2, Rest
<1> QED
  BY <1>11, <1>12

\* Reading it along prev gives the same list.
LEMMA BackwardIs ==
  ASSUME NEW l \in Links, NEW q \in Seq(Timers), Distinct(q), Linked(l, q), Loose(l, q), q # <<>>
  PROVE  BackwardFrom(l) = q
<1> DEFINE n == Len(q)
           Body(w) == [t \in Pointer |-> IF t = Null THEN <<>> ELSE w[l.prev[t]] \o <<t>>]
           Place(t) == CHOOSE i \in 1 .. n : q[i] = t
           given == [t \in Pointer |-> IF t = Null THEN <<>>
                                       ELSE IF Occurs(t, q) THEN SubSeq(q, 1, Place(t)) ELSE <<t>>]
<1>0. n \in Nat /\ Null \notin Timers /\ Null \in Pointer /\ \A i \in 1 .. n : q[i] \in Timers /\ q[i] \in Pointer /\ q[i] # Null
  BY TimerListAssumption DEF Pointer
<1>1. ASSUME NEW i \in 1 .. n PROVE Place(q[i]) = i /\ given[q[i]] = SubSeq(q, 1, i)
  BY <1>0 DEF Distinct, Occurs
<1>2. given \in [Pointer -> Seq(Timers)] /\ given[Null] = <<>>
  <2>1. ASSUME NEW t \in Timers, Occurs(t, q) PROVE SubSeq(q, 1, Place(t)) \in Seq(Timers)
    BY <1>0, <2>1, SMTT(30) DEF Occurs
  <2> QED
    BY <1>0, <2>1 DEF Pointer
<1>3. ASSUME NEW t \in Timers PROVE given[t] = given[l.prev[t]] \o <<t>>
  <2>1. CASE ~ Occurs(t, q)
    <3>1. l.prev[t] = Null /\ given[t] = <<t>>
      BY <2>1, <1>0 DEF Loose, Pointer
    <3>2. <<t>> \in Seq(Timers)
      BY SMTT(30)
    <3> QED
      BY <1>2, <3>1, <3>2, ConcatEmptySeq
  <2>2. ASSUME NEW i \in 1 .. n, q[i] = t PROVE given[t] = given[l.prev[t]] \o <<t>>
    <3>0. given[t] = SubSeq(q, 1, i)
      BY <1>1, <2>2
    <3>1. CASE i = 1
      <4>1. given[l.prev[t]] = <<>>
        BY <1>2, <2>2, <3>1 DEF Linked
      <4>2. given[t] = <<t>>
        BY <2>2, <3>0, <3>1, Rest
      <4>3. <<t>> \in Seq(Timers)
        OBVIOUS
      <4> QED
        BY <4>1, <4>2, <4>3, ConcatEmptySeq
    <3>2. CASE i # 1
      <4>1. i - 1 \in 1 .. n /\ l.prev[t] = q[i - 1]
        BY <2>2, <3>2 DEF Linked
      <4>2. given[l.prev[t]] = SubSeq(q, 1, i - 1)
        BY <1>1, <4>1
      <4>3. SubSeq(q, 1, i) = SubSeq(q, 1, i - 1) \o <<q[i]>>
        BY <3>2, Rest
      <4> QED
        BY <2>2, <3>0, <4>2, <4>3
    <3> QED
      BY <3>1, <3>2
  <2> QED
    BY <2>1, <2>2 DEF Occurs
<1>4. given = Body(given)
  <2> HIDE DEF given
  <2>1. \A t \in Pointer : t # Null => t \in Timers
    BY DEF Pointer
  <2> QED
    BY <1>2, <1>3, <2>1
<1> DEFINE walk == CHOOSE w : w = Body(w)
<1>5. walk = Body(walk)
  <2> HIDE DEF given, Body
  <2> QED
    BY <1>4
<1>6. BackwardFrom(l) = walk[l.tail]
  BY SMTT(30) DEF BackwardFrom
<1> HIDE DEF given, walk
<1>7. walk[Null] = <<>> /\ \A t \in Timers : walk[t] = walk[l.prev[t]] \o <<t>>
  BY <1>0, <1>5 DEF Pointer
<1> DEFINE good == {i \in 1 .. n : walk[q[i]] = SubSeq(q, 1, i)}
<1>8. n >= 1 => 1 \in good
  <2> SUFFICES ASSUME n >= 1 PROVE walk[q[1]] = SubSeq(q, 1, 1)
    BY <1>0
  <2>1. 1 \in 1 .. n /\ l.prev[q[1]] = Null
    BY <1>0 DEF Linked
  <2>2. PICK x \in Timers : x = q[1] /\ l.prev[x] = Null
    BY <1>0, <2>1
  <2>3. walk[x] = <<>> \o <<x>>
    BY <1>7, <2>2, Zenon
  <2>4. <<x>> \in Seq(Timers)
    OBVIOUS
  <2>5. walk[x] = <<x>>
    BY <2>3, <2>4, ConcatEmptySeq
  <2> QED
    BY <2>1, <2>2, <2>5, Rest
<1>9. ASSUME NEW i \in 1 .. n - 1, i \in good PROVE i + 1 \in good
  <2>1. i \in 1 .. n /\ i + 1 \in 1 .. n /\ i + 1 # 1 /\ i + 1 - 1 = i /\ l.prev[q[i + 1]] = q[i]
    BY <1>0 DEF Linked
  <2>2. walk[q[i + 1]] = SubSeq(q, 1, i) \o <<q[i + 1]>>
    BY <1>0, <1>7, <1>9, <2>1
  <2>3. SubSeq(q, 1, i + 1) = SubSeq(q, 1, i + 1 - 1) \o <<q[i + 1]>>
    BY <2>1, Rest
  <2> QED
    BY <2>1, <2>2, <2>3
<1>10. \A i \in 1 .. n : i \in good
  <2> HIDE DEF good
  <2> QED
    BY <1>0, <1>8, <1>9, Upward
<1>11. n \in 1 .. n
  BY <1>0
<1>12. l.tail = q[n] /\ walk[q[n]] = SubSeq(q, 1, n)
  BY <1>10, <1>11 DEF Linked
<1> QED
  BY <1>6, <1>11, <1>12, Rest
-----------------------------------------------------------------------------
(* Where the loops along the list stop *)

\* The timers of q are in the order of their expiry.
InOrder(x, q) == \A i, j \in 1 .. Len(q) : i <= j => x[q[i]] <= x[q[j]]

\* An ordered list is divided by any time.
LEMMA Divided ==
  ASSUME expire \in [Timers -> Nat], NEW q \in Seq(Timers), InOrder(expire, q), NEW e \in Nat
  PROVE  \E k \in 0 .. Len(q) : Sorted!Divides(q, k, e)
<1> DEFINE n == Len(q)
           ends == {m \in 0 .. n : m = n \/ e < expire[q[m + 1]]}
<1>0. n \in Nat /\ \A i \in 1 .. n : expire[q[i]] \in Nat
  OBVIOUS
<1>1. ends \subseteq Nat /\ n \in ends
  BY <1>0
<1>2. PICK k \in ends : \A m \in ends : k <= m
  <2> HIDE DEF ends
  <2> QED
    BY <1>1, LeastNat
<1>3. k \in 0 .. n /\ (k # n => e < expire[q[k + 1]]) /\ \A m \in 0 .. n : m < k => m # n /\ ~ (e < expire[q[m + 1]])
  BY <1>0, <1>2
<1>4. ASSUME NEW i \in 1 .. n, i <= k PROVE expire[q[i]] <= e
  <2>1. i - 1 \in 0 .. n /\ i - 1 < k /\ i - 1 + 1 = i
    BY <1>3, <1>4
  <2>2. ~ (e < expire[q[i]])
    BY <1>3, <2>1
  <2> QED
    BY <1>0, <2>2
<1>5. ASSUME NEW i \in 1 .. n, ~ (i <= k) PROVE ~ (expire[q[i]] <= e)
  <2>1. k + 1 \in 1 .. n /\ k # n /\ k + 1 <= i
    BY <1>0, <1>3, <1>5
  <2>2. expire[q[k + 1]] <= expire[q[i]] /\ e < expire[q[k + 1]]
    BY <1>3, <2>1 DEF InOrder
  <2> QED
    BY <1>0, <2>1, <2>2
<1> QED
  BY <1>3, <1>4, <1>5 DEF Sorted!Divides

\* A timer outside the list has no successor, or one in the list.
LeadsIn(l, q) == \A t \in Timers : ~ Occurs(t, q) => l.next[t] = Null \/ Occurs(l.next[t], q)

\* add_timer's loop stops at the last timer that expires no later.
LEMMA PredecessorIs ==
  ASSUME expire \in [Timers -> Nat], NEW l \in Links, NEW q \in Seq(Timers), Distinct(q), Linked(l, q),
         NEW e \in Nat, NEW k \in 1 .. Len(q), Sorted!Divides(q, k, e), NEW i \in 1 .. k,
         LeadsIn(l, q)
  PROVE  Predecessor(l, q[i], e) = q[k]
<1> DEFINE n == Len(q)
           Stops(t) == l.next[t] = Null \/ e < expire[l.next[t]]
           Body(f) == [t \in Timers |-> IF Stops(t) THEN t ELSE f[l.next[t]]]
           Found(t) == IF Stops(t) THEN t ELSE q[k]
           given == [t \in Timers |-> Found(t)]
<1>0. /\ n \in Nat /\ Null \notin Timers /\ \A j \in 1 .. n : q[j] \in Timers /\ expire[q[j]] \in Nat
      /\ k \in 1 .. n
  BY TimerListAssumption
<1>1. ASSUME NEW j \in 1 .. n PROVE /\ Stops(q[j]) <=> j >= k
                                    /\ j < k => l.next[q[j]] = q[j + 1]
                                    /\ Found(q[j]) = IF j < k THEN q[k] ELSE q[j]
  <2>1. CASE j = n
    BY <1>0, <2>1 DEF Linked
  <2>2. CASE j # n
    <3>1. j + 1 \in 1 .. n /\ l.next[q[j]] = q[j + 1] /\ q[j + 1] # Null
      <4>1. j + 1 \in 1 .. n
        BY <1>0, <2>2
      <4>2. l.next[q[j]] = q[j + 1]
        BY <2>2 DEF Linked
      <4> QED
        BY <1>0, <4>1, <4>2
    <3>2. e < expire[q[j + 1]] <=> ~ (j + 1 <= k)
      BY <1>0, <3>1, SMTT(30) DEF Sorted!Divides
    <3>3. Stops(q[j]) <=> j >= k
      BY <1>0, <3>1, <3>2
    <3> QED
      BY <1>0, <3>1, <3>3
  <2> QED
    BY <2>1, <2>2
<1>2. ASSUME NEW t \in Timers, ~ Stops(t) PROVE Found(l.next[t]) = q[k] /\ l.next[t] \in Timers
  <2>1. PICK j \in 1 .. n : l.next[t] = q[j]
    <3>1. CASE Occurs(t, q)
      <4>1. PICK m \in 1 .. n : q[m] = t
        BY <3>1 DEF Occurs
      <4>2. m < k /\ l.next[t] = q[m + 1] /\ m + 1 \in 1 .. n
        BY <1>0, <1>1, <1>2, <4>1, SMTT(30)
      <4> QED
        BY <4>2
    <3> QED
      BY <1>2, <3>1 DEF Occurs, LeadsIn
  <2>2. expire[q[j]] <= e
    BY <1>0, <1>2, <2>1
  <2>3. j <= k
    BY <2>2 DEF Sorted!Divides
  <2> QED
    BY <1>0, <1>1, <2>1, <2>3
<1>3. given = Body(given)
  BY <1>2
<1> DEFINE last == CHOOSE f : f = Body(f)
<1>4. last = Body(last)
  <2> HIDE DEF given, Body
  <2> QED
    BY <1>3
<1>5. Predecessor(l, q[i], e) = last[q[i]]
  BY DEF Predecessor
<1> HIDE DEF given, last
<1>6. \A t \in Timers : last[t] = IF Stops(t) THEN t ELSE last[l.next[t]]
  BY <1>4
<1> HIDE DEF Stops, Body, Found
<1> DEFINE good == {j \in 1 .. k : last[q[j]] = q[k]}
<1>7. k \in good
  BY <1>0, <1>1, <1>6
<1>8. ASSUME NEW j \in 1 .. k - 1, j + 1 \in good PROVE j \in good
  <2>1. j \in 1 .. n /\ j < k
    BY <1>0
  <2> QED
    BY <1>0, <1>1, <1>6, <1>8, <2>1, SMTT(30)
<1>9. \A j \in 1 .. k : j \in good
  <2> HIDE DEF good
  <2>1. k \in Nat
    BY <1>0
  <2> QED
    BY <1>7, <1>8, <2>1, Downward
<1> QED
  BY <1>5, <1>9

\* tick's loop stops at the first timer that has not expired.
LEMMA FirstPendingIs ==
  ASSUME expire \in [Timers -> Nat], lst \in Links, NEW q \in Seq(Timers), Distinct(q),
         Linked(lst, q), Loose(lst, q), NEW now \in Nat, NEW k \in 0 .. Len(q), Sorted!Divides(q, k, now)
  PROVE  FirstPending(now) = IF k = Len(q) THEN Null ELSE q[k + 1]
<1> DEFINE n == Len(q)
           end == IF k = n THEN Null ELSE q[k + 1]
           Body(f) == [t \in Pointer |-> IF t = Null THEN Null ELSE IF now < expire[t] THEN t ELSE f[lst.next[t]]]
           given == [t \in Pointer |-> IF t = Null THEN Null ELSE IF now < expire[t] THEN t
                                       ELSE IF Occurs(t, q) THEN end ELSE Null]
<1>0. /\ n \in Nat /\ k \in Nat /\ Null \notin Timers /\ Null \in Pointer
      /\ \A j \in 1 .. n : q[j] \in Timers /\ q[j] \in Pointer /\ q[j] # Null /\ expire[q[j]] \in Nat
  BY TimerListAssumption DEF Pointer
<1>1. ASSUME NEW j \in 1 .. n PROVE /\ now < expire[q[j]] <=> ~ (j <= k)
                                    /\ given[q[j]] = IF j <= k THEN end ELSE q[j]
                                    /\ lst.next[q[j]] = IF j = n THEN Null ELSE q[j + 1]
  <2>1. now < expire[q[j]] <=> ~ (j <= k)
    BY <1>0 DEF Sorted!Divides
  <2> QED
    BY <1>0, <2>1 DEF Linked, Occurs
<1>2. given[Null] = Null
  BY <1>0
<1>3. ASSUME NEW t \in Timers PROVE given[t] = IF now < expire[t] THEN t ELSE given[lst.next[t]]
  <2>0. t \in Pointer /\ t # Null
    BY <1>0 DEF Pointer
  <2>1. CASE ~ Occurs(t, q)
    <3>1. lst.next[t] = Null
      BY <2>1 DEF Loose
    <3> QED
      BY <1>2, <2>0, <2>1, <3>1
  <2>2. ASSUME NEW j \in 1 .. n, q[j] = t, ~ (now < expire[t]) PROVE given[t] = given[lst.next[t]]
    <3>1. j <= k /\ given[t] = end
      BY <1>0, <1>1, <2>2
    <3>2. CASE j = n
      BY <1>0, <1>1, <1>2, <2>2, <3>1, <3>2
    <3>3. CASE j # n
      <4>1. j + 1 \in 1 .. n /\ lst.next[t] = q[j + 1]
        BY <1>0, <2>2, <3>3 DEF Linked
      <4>2. given[q[j + 1]] = IF j + 1 <= k THEN end ELSE q[j + 1]
        BY <1>1, <4>1
      <4>3. ~ (j + 1 <= k) => k = j /\ k # n
        BY <1>0, <3>1, <3>3
      <4> QED
        <5> HIDE DEF given
        <5> QED
          BY <3>1, <4>1, <4>2, <4>3
    <3> QED
      BY <3>2, <3>3
  <2> QED
    BY <2>0, <2>1, <2>2 DEF Occurs
<1>4. given = Body(given)
  <2>1. \A t \in Pointer : t # Null => t \in Timers
    BY DEF Pointer
  <2>2. given = [t \in Pointer |-> given[t]]
    OBVIOUS
  <2> HIDE DEF given
  <2> QED
    BY <1>2, <1>3, <2>1, <2>2
<1> DEFINE first == CHOOSE f : f = Body(f)
<1>5. first = Body(first)
  <2> HIDE DEF given, Body
  <2> QED
    BY <1>4
<1>6. FirstPending(now) = first[lst.head]
  BY DEF FirstPending
<1> HIDE DEF given, first
<1>7. first[Null] = Null /\ \A t \in Timers : first[t] = IF now < expire[t] THEN t ELSE first[lst.next[t]]
  BY <1>0, <1>5 DEF Pointer
<1> HIDE DEF Body
<1>8. first[end] = end
  BY <1>0, <1>1, <1>7
<1> DEFINE good == {j \in 1 .. k : first[q[j]] = end}
<1>9. k >= 1 => k \in good
  <2> SUFFICES ASSUME k >= 1 PROVE first[q[k]] = end
    BY <1>0
  <2>1. k \in 1 .. n /\ lst.next[q[k]] = end /\ ~ (now < expire[q[k]]) /\ q[k] \in Timers
    BY <1>0, <1>1
  <2> HIDE DEF end
  <2> QED
    BY <1>7, <1>8, <2>1
<1>10. ASSUME NEW j \in 1 .. k - 1, j + 1 \in good PROVE j \in good
  <2>1. j \in 1 .. n /\ j \in 1 .. k /\ lst.next[q[j]] = q[j + 1] /\ ~ (now < expire[q[j]]) /\ q[j] \in Timers
    BY <1>0, <1>1
  <2> HIDE DEF end
  <2> QED
    BY <1>7, <1>10, <2>1
<1>11. \A j \in 1 .. k : j \in good
  <2> HIDE DEF good
  <2> QED
    BY <1>0, <1>9, <1>10, Downward
<1>12. lst.head = IF n = 0 THEN Null ELSE q[1]
  BY <1>0 DEF Linked
<1>13. CASE k = 0
  <2>1. lst.head = end
    BY <1>0, <1>12, <1>13
  <2> HIDE DEF end
  <2>2. FirstPending(now) = end
    BY <1>6, <1>8, <2>1
  <2> QED
    BY <2>2 DEF end
<1>14. CASE k # 0
  <2>1. 1 \in 1 .. k /\ lst.head = q[1]
    BY <1>0, <1>12, <1>14
  <2>2. FirstPending(now) = end
    BY <1>6, <1>11, <2>1
  <2> QED
    BY <2>2 DEF end
<1> QED
  BY <1>13, <1>14

\* What it passes on the way there.
LEMMA BeforeIs ==
  ASSUME lst \in Links, NEW q \in Seq(Timers), Distinct(q), Linked(lst, q), Loose(lst, q), NEW k \in 0 .. Len(q)
  PROVE  Before(IF k = Len(q) THEN Null ELSE q[k + 1]) = {q[j] : j \in 1 .. k}
<1> DEFINE n == Len(q)
           end == IF k = n THEN Null ELSE q[k + 1]
           Body(f) == [t \in Pointer |-> IF t \in {Null, end} THEN {} ELSE {t} \cup f[lst.next[t]]]
           Place(t) == CHOOSE j \in 1 .. n : q[j] = t
           Passed(j) == {q[m] : m \in {m \in j .. n : j <= k => m <= k}}
           given == [t \in Pointer |-> IF t \in {Null, end} THEN {}
                                       ELSE IF Occurs(t, q) THEN Passed(Place(t)) ELSE {t}]
<1>0. /\ n \in Nat /\ k \in Nat /\ Null \notin Timers /\ Null \in Pointer
      /\ \A j \in 1 .. n : q[j] \in Timers /\ q[j] \in Pointer /\ q[j] # Null
  BY TimerListAssumption DEF Pointer
<1>1. ASSUME NEW j \in 1 .. n PROVE /\ q[j] = end <=> j = k + 1
                                    /\ Place(q[j]) = j
                                    /\ lst.next[q[j]] = IF j = n THEN Null ELSE q[j + 1]
  <2>1. Place(q[j]) = j
    BY <1>0 DEF Distinct
  <2>2. q[j] = end <=> j = k + 1
    BY <1>0 DEF Distinct
  <2> QED
    BY <1>0, <2>1, <2>2 DEF Linked
<1>2. given[Null] = {} /\ end \in Pointer /\ given[end] = {}
  BY <1>0
<1>3. ASSUME NEW j \in 1 .. n PROVE given[q[j]] = IF j = k + 1 THEN {} ELSE Passed(j)
  <2> HIDE DEF end, Passed
  <2> QED
    BY <1>0, <1>1 DEF Occurs
<1>4. ASSUME NEW t \in Timers, t # end PROVE given[t] = {t} \cup given[lst.next[t]]
  <2>0. t \in Pointer /\ t # Null
    BY <1>0 DEF Pointer
  <2>1. CASE ~ Occurs(t, q)
    <3>1. lst.next[t] = Null /\ given[t] = {t}
      BY <1>4, <2>0, <2>1 DEF Loose
    <3> HIDE DEF given
    <3> QED
      BY <1>2, <3>1
  <2>2. ASSUME NEW j \in 1 .. n, q[j] = t PROVE given[t] = {t} \cup given[lst.next[t]]
    <3>1. j # k + 1 /\ given[t] = Passed(j)
      BY <1>1, <1>3, <1>4, <2>2, ZenonT(40)
    <3>2. CASE j = n
      <4>1. given[lst.next[t]] = {} /\ Passed(j) = {q[n]}
        BY <1>0, <1>1, <1>2, <2>2, <3>2
      <4> HIDE DEF given, Passed
      <4> QED
        BY <2>2, <3>1, <3>2, <4>1
    <3>3. CASE j # n
      <4>1. j + 1 \in 1 .. n /\ lst.next[t] = q[j + 1]
        BY <1>0, <1>1, <2>2, <3>3
      <4>2. given[q[j + 1]] = IF j = k THEN {} ELSE Passed(j + 1)
        <5> HIDE DEF given, Passed
        <5>1. given[q[j + 1]] = IF j + 1 = k + 1 THEN {} ELSE Passed(j + 1)
          BY <1>3, <4>1
        <5> QED
          BY <1>0, <5>1
      <4>3. Passed(j) = {q[j]} \cup (IF j = k THEN {} ELSE Passed(j + 1))
        <5>1. CASE j = k
          BY <1>0, <5>1
        <5>2. CASE j # k
          <6>1. \A m : m \in {m2 \in j .. n : j <= k => m2 <= k} <=> m = j \/ m \in {m2 \in j + 1 .. n : j + 1 <= k => m2 <= k}
            BY <1>0, <3>1, <3>3, <5>2
          <6> QED
            BY <5>2, <6>1
        <5> QED
          BY <5>1, <5>2
      <4> HIDE DEF given, Passed
      <4> QED
        BY <2>2, <3>1, <4>1, <4>2, <4>3
    <3> QED
      BY <3>2, <3>3
  <2> QED
    BY <2>1, <2>2 DEF Occurs
<1>5. given = Body(given)
  <2>1. \A t \in Pointer : t # Null => t \in Timers
    BY DEF Pointer
  <2>2. given = [t \in Pointer |-> given[t]]
    OBVIOUS
  <2> HIDE DEF given, end
  <2> QED
    BY <1>2, <1>4, <2>1, <2>2
<1> DEFINE from == CHOOSE f : f = Body(f)
<1>6. from = Body(from)
  <2> HIDE DEF given, Body
  <2> QED
    BY <1>5
<1>7. Before(end) = from[lst.head]
  BY DEF Before
<1> HIDE DEF given, from
<1>8. /\ from[Null] = {} /\ from[end] = {}
      /\ \A t \in Timers : t # end => from[t] = {t} \cup from[lst.next[t]]
  <2> HIDE DEF end
  <2>1. \A t \in Timers : t \in Pointer /\ t # Null
    BY <1>0 DEF Pointer
  <2> QED
    BY <1>0, <1>2, <1>6, <2>1
<1> HIDE DEF Body
<1> DEFINE good == {j \in 1 .. k : from[q[j]] = {q[m] : m \in j .. k}}
<1>9. k >= 1 => k \in good
  <2> SUFFICES ASSUME k >= 1 PROVE from[q[k]] = {q[m] : m \in k .. k}
    BY <1>0
  <2>1. k \in 1 .. n /\ lst.next[q[k]] = end /\ q[k] # end /\ q[k] \in Timers
    BY <1>0, <1>1
  <2> HIDE DEF end
  <2>2. from[q[k]] = {q[k]} \cup {}
    BY <1>8, <2>1
  <2> QED
    BY <1>0, <2>2
<1>10. ASSUME NEW j \in 1 .. k - 1, j + 1 \in good PROVE j \in good
  <2>1. j \in 1 .. n /\ j \in 1 .. k /\ lst.next[q[j]] = q[j + 1] /\ q[j] # end /\ q[j] \in Timers
    BY <1>0, <1>1
  <2> HIDE DEF end
  <2>2. from[q[j]] = {q[j]} \cup {q[m] : m \in j + 1 .. k}
    BY <1>8, <1>10, <2>1
  <2>3. \A m : m \in j .. k <=> m = j \/ m \in j + 1 .. k
    BY <1>0, <2>1
  <2>4. {q[m] : m \in j .. k} = {q[j]} \cup {q[m] : m \in j + 1 .. k}
    BY <2>3
  <2> QED
    BY <2>1, <2>2, <2>4
<1>11. \A j \in 1 .. k : j \in good
  <2> HIDE DEF good
  <2> QED
    BY <1>0, <1>9, <1>10, Downward
<1>12. lst.head = IF n = 0 THEN Null ELSE q[1]
  BY <1>0 DEF Linked
<1>13. CASE k = 0
  <2>1. lst.head = end /\ {q[j] : j \in 1 .. k} = {}
    BY <1>0, <1>12, <1>13
  <2> HIDE DEF end
  <2>2. Before(end) = {q[j] : j \in 1 .. k}
    BY <1>7, <1>8, <2>1
  <2> QED
    BY <2>2 DEF end
<1>14. CASE k # 0
  <2>1. 1 \in 1 .. k /\ lst.head = q[1]
    BY <1>0, <1>12, <1>14
  <2>2. Before(end) = {q[j] : j \in 1 .. k}
    <3> HIDE DEF end
    <3> QED
      BY <1>7, <1>11, <2>1
  <2> QED
    BY <2>2 DEF end
<1> QED
  BY <1>13, <1>14
-----------------------------------------------------------------------------
(* Putting a timer into a list and taking timers out *)

\* The elements of a piece of a sequence, and of two pieces put together.
LEMMA Piece ==
  ASSUME NEW S, NEW q \in Seq(S), NEW i \in 1 .. Len(q) + 1, NEW j \in i - 1 .. Len(q)
  PROVE  /\ SubSeq(q, i, j) \in Seq(S) /\ Len(SubSeq(q, i, j)) = j - i + 1
         /\ \A k \in 1 .. j - i + 1 : SubSeq(q, i, j)[k] = q[i + k - 1]
<1>1. Len(q) \in Nat /\ i \in Int /\ j \in Int /\ (\A k \in i .. j : q[k] \in S) /\ (~ (i <= j) => j - i + 1 = 0)
  OBVIOUS
<1>2. /\ SubSeq(q, i, j) \in Seq(S) /\ Len(SubSeq(q, i, j)) = IF i <= j THEN j - i + 1 ELSE 0
      /\ \A k \in 1 .. j - i + 1 : SubSeq(q, i, j)[k] = q[i + k - 1]
  BY <1>1, SubSeqProperties
<1> QED
  BY <1>1, <1>2

LEMMA Joined ==
  ASSUME NEW S, NEW a \in Seq(S), NEW b \in Seq(S)
  PROVE  /\ a \o b \in Seq(S) /\ Len(a \o b) = Len(a) + Len(b)
         /\ \A i \in 1 .. Len(a) + Len(b) : (a \o b)[i] = IF i <= Len(a) THEN a[i] ELSE b[i - Len(a)]
  BY ConcatProperties
\* r is q with t behind its k-th element.
With(q, k, t, r) ==
  /\ Len(r) = Len(q) + 1
  /\ \A i \in 1 .. k : r[i] = q[i]
  /\ r[k + 1] = t
  /\ \A i \in k + 1 .. Len(q) : r[i + 1] = q[i]

LEMMA InsertedIs ==
  ASSUME NEW S, NEW q \in Seq(S), NEW k \in 0 .. Len(q), NEW t \in S
  PROVE  Sorted!InsertAt(q, k + 1, t) \in Seq(S) /\ With(q, k, t, Sorted!InsertAt(q, k + 1, t))
<1> DEFINE n == Len(q)
           a == SubSeq(q, 1, (k + 1) - 1)
           b == <<t>>
           c == SubSeq(q, k + 1, n)
<1>0. n \in Nat /\ k \in 0 .. n /\ (k + 1) - 1 = k
  OBVIOUS
<1>1. a \in Seq(S) /\ Len(a) = k /\ \A i \in 1 .. k : a[i] = q[i]
  <2>1. 1 \in 1 .. n + 1 /\ k \in 1 - 1 .. n
    BY <1>0
  <2>2. /\ SubSeq(q, 1, k) \in Seq(S) /\ Len(SubSeq(q, 1, k)) = k - 1 + 1
        /\ \A i \in 1 .. k - 1 + 1 : SubSeq(q, 1, k)[i] = q[1 + i - 1]
    BY <2>1, Piece, SMTT(30)
  <2> QED
    BY <1>0, <2>2
<1>2. c \in Seq(S) /\ Len(c) = n - k /\ \A i \in 1 .. n - k : c[i] = q[k + i]
  <2>1. k + 1 \in 1 .. n + 1 /\ n \in (k + 1) - 1 .. n
    BY <1>0
  <2>2. /\ SubSeq(q, k + 1, n) \in Seq(S) /\ Len(SubSeq(q, k + 1, n)) = n - (k + 1) + 1
        /\ \A i \in 1 .. n - (k + 1) + 1 : SubSeq(q, k + 1, n)[i] = q[(k + 1) + i - 1]
    BY <2>1, Piece
  <2>3. n - (k + 1) + 1 = n - k /\ \A i \in 1 .. n - k : (k + 1) + i - 1 = k + i
    BY <1>0
  <2> QED
    BY <2>2, <2>3
<1>3. b \in Seq(S) /\ Len(b) = 1 /\ b[1] = t
  OBVIOUS
<1>4. Sorted!InsertAt(q, k + 1, t) = (a \o b) \o c
  BY Zenon DEF Sorted!InsertAt
<1> HIDE DEF n, a, b, c
<1>5. /\ a \o b \in Seq(S) /\ Len(a \o b) = k + 1
      /\ \A i \in 1 .. k + 1 : (a \o b)[i] = IF i <= k THEN q[i] ELSE t
  <2>1. /\ a \o b \in Seq(S) /\ Len(a \o b) = Len(a) + Len(b)
        /\ \A i \in 1 .. Len(a) + Len(b) : (a \o b)[i] = IF i <= Len(a) THEN a[i] ELSE b[i - Len(a)]
    BY <1>1, <1>3, Joined
  <2> QED
    BY <1>0, <1>1, <1>3, <2>1
<1> DEFINE d == a \o b
           r == d \o c
<1> HIDE DEF d
<1>6. d \in Seq(S) /\ Len(d) = k + 1 /\ \A i \in 1 .. k + 1 : d[i] = IF i <= k THEN q[i] ELSE t
  BY <1>5 DEF d
<1>7. /\ r \in Seq(S) /\ Len(r) = n + 1
      /\ \A i \in 1 .. n + 1 : r[i] = IF i <= k + 1 THEN d[i] ELSE c[i - (k + 1)]
  <2>1. /\ d \o c \in Seq(S) /\ Len(d \o c) = Len(d) + Len(c)
        /\ \A i \in 1 .. Len(d) + Len(c) : (d \o c)[i] = IF i <= Len(d) THEN d[i] ELSE c[i - Len(d)]
    BY <1>2, <1>6, Joined
  <2>2. Len(d) + Len(c) = n + 1
    BY <1>0, <1>2, <1>6
  <2> QED
    BY <1>6, <2>1, <2>2
<1>8. Sorted!InsertAt(q, k + 1, t) = r
  BY <1>4, Zenon DEF d
<1> HIDE DEF r
<1>9. (\A i \in 1 .. k : r[i] = q[i]) /\ r[k + 1] = t
  BY <1>0, <1>6, <1>7
<1>10. ASSUME NEW i \in k + 1 .. n PROVE r[i + 1] = q[i]
  <2>1. i + 1 \in 1 .. n + 1 /\ ~ (i + 1 <= k + 1) /\ (i + 1) - (k + 1) \in 1 .. n - k /\ k + ((i + 1) - (k + 1)) = i
    BY <1>0
  <2> QED
    BY <1>2, <1>7, <2>1
<1>11. With(q, k, t, r)
  BY <1>7, <1>9, <1>10 DEF With, n
<1> QED
  BY <1>7, <1>8, <1>11

LEMMA RemovedIs ==
  ASSUME NEW S, NEW q \in Seq(S), NEW i \in 1 .. Len(q)
  PROVE  Sorted!RemoveAt(q, i) \in Seq(S) /\ With(Sorted!RemoveAt(q, i), i - 1, q[i], q)
<1> DEFINE n == Len(q)
           a == SubSeq(q, 1, i - 1)
           c == SubSeq(q, i + 1, n)
           r == a \o c
<1>0. n \in Nat /\ i \in 1 .. n
  OBVIOUS
<1>1. a \in Seq(S) /\ Len(a) = i - 1 /\ \A j \in 1 .. i - 1 : a[j] = q[j]
  <2>1. 1 \in 1 .. n + 1 /\ i - 1 \in 1 - 1 .. n
    BY <1>0
  <2>2. /\ SubSeq(q, 1, i - 1) \in Seq(S) /\ Len(SubSeq(q, 1, i - 1)) = (i - 1) - 1 + 1
        /\ \A j \in 1 .. (i - 1) - 1 + 1 : SubSeq(q, 1, i - 1)[j] = q[1 + j - 1]
    BY <2>1, Piece, SMTT(30)
  <2> QED
    BY <1>0, <2>2
<1>2. c \in Seq(S) /\ Len(c) = n - i /\ \A j \in 1 .. n - i : c[j] = q[i + j]
  <2>1. i + 1 \in 1 .. n + 1 /\ n \in (i + 1) - 1 .. n
    BY <1>0
  <2>2. /\ SubSeq(q, i + 1, n) \in Seq(S) /\ Len(SubSeq(q, i + 1, n)) = n - (i + 1) + 1
        /\ \A j \in 1 .. n - (i + 1) + 1 : SubSeq(q, i + 1, n)[j] = q[(i + 1) + j - 1]
    BY <2>1, Piece
  <2>3. n - (i + 1) + 1 = n - i /\ \A j \in 1 .. n - i : (i + 1) + j - 1 = i + j
    BY <1>0
  <2> QED
    BY <2>2, <2>3
<1>3. Sorted!RemoveAt(q, i) = r
  BY Zenon DEF Sorted!RemoveAt
<1> HIDE DEF n, a, c
<1>4. /\ r \in Seq(S) /\ Len(r) = n - 1
      /\ \A j \in 1 .. n - 1 : r[j] = IF j <= i - 1 THEN a[j] ELSE c[j - (i - 1)]
  <2>1. /\ a \o c \in Seq(S) /\ Len(a \o c) = Len(a) + Len(c)
        /\ \A j \in 1 .. Len(a) + Len(c) : (a \o c)[j] = IF j <= Len(a) THEN a[j] ELSE c[j - Len(a)]
    BY <1>1, <1>2, Joined
  <2>2. Len(a) + Len(c) = n - 1
    BY <1>0, <1>1, <1>2
  <2> QED
    BY <1>1, <2>1, <2>2
<1> HIDE DEF r
<1>5. \A j \in 1 .. i - 1 : q[j] = r[j]
  BY <1>0, <1>1, <1>4
<1>6. ASSUME NEW j \in (i - 1) + 1 .. Len(r) PROVE q[j + 1] = r[j]
  <2>1. j \in 1 .. n - 1 /\ ~ (j <= i - 1) /\ j - (i - 1) \in 1 .. n - i /\ i + (j - (i - 1)) = j + 1
    BY <1>0, <1>4
  <2> QED
    BY <1>2, <1>4, <2>1
<1>7. n = Len(r) + 1 /\ (i - 1) + 1 = i
  BY <1>0, <1>4
<1>8. With(r, i - 1, q[i], q)
  BY <1>5, <1>6, <1>7 DEF With, n
<1> QED
  BY <1>3, <1>4, <1>8

LEMMA DroppedIs ==
  ASSUME NEW S, NEW q \in Seq(S), NEW k \in 0 .. Len(q)
  PROVE  /\ SubSeq(q, k + 1, Len(q)) \in Seq(S) /\ Len(SubSeq(q, k + 1, Len(q))) = Len(q) - k
         /\ \A j \in 1 .. Len(q) - k : SubSeq(q, k + 1, Len(q))[j] = q[k + j]
<1>1. Len(q) \in Nat
  OBVIOUS
<1> QED
  BY <1>1

LEMMA WithElements ==
  ASSUME NEW q \in Seq(Timers), NEW r \in Seq(Timers), NEW k \in 0 .. Len(q), NEW t, With(q, k, t, r)
  PROVE  /\ \A u : Occurs(u, r) <=> Occurs(u, q) \/ u = t
         /\ Distinct(r) <=> Distinct(q) /\ ~ Occurs(t, q)
<1> DEFINE n == Len(q)
<1>0. /\ n \in Nat /\ k \in Nat /\ k <= n /\ Len(r) = n + 1 /\ r[k + 1] = t
      /\ (\A i \in 1 .. k : r[i] = q[i]) /\ (\A i \in k + 1 .. n : r[i + 1] = q[i])
  BY DEF With
<1>1. ASSUME NEW i \in 1 .. n + 1
      PROVE  i \in 1 .. k \/ i = k + 1 \/ \E j \in k + 1 .. n : i = j + 1
  <2>1. i > k + 1 => i - 1 \in k + 1 .. n /\ i = (i - 1) + 1
    BY <1>0
  <2> QED
    BY <1>0, <2>1
<1> HIDE DEF n
<1>2. ASSUME NEW u PROVE Occurs(u, r) <=> Occurs(u, q) \/ u = t
  <2>1. ASSUME NEW i \in 1 .. n + 1, r[i] = u PROVE (\E j \in 1 .. n : q[j] = u) \/ u = t
    <3>1. CASE i \in 1 .. k
      BY <1>0, <2>1, <3>1
    <3>2. CASE i = k + 1
      BY <1>0, <2>1, <3>2
    <3>3. CASE \E j \in k + 1 .. n : i = j + 1
      <4>1. PICK j \in k + 1 .. n : i = j + 1
        BY <3>3
      <4>2. j \in 1 .. n /\ q[j] = u
        BY <1>0, <2>1, <4>1
      <4> QED
        BY <4>2
    <3> QED
      BY <1>1, <3>1, <3>2, <3>3
  <2>2. ASSUME NEW j \in 1 .. n, q[j] = u PROVE \E i \in 1 .. n + 1 : r[i] = u
    <3>1. CASE j \in 1 .. k
      BY <1>0, <2>2, <3>1
    <3>2. CASE j \in k + 1 .. n
      <4>1. j + 1 \in 1 .. n + 1 /\ r[j + 1] = u
        BY <1>0, <2>2, <3>2
      <4> QED
        BY <4>1
    <3> QED
      BY <1>0, <3>1, <3>2
  <2>3. k + 1 \in 1 .. n + 1
    BY <1>0
  <2> QED
    BY <1>0, <2>1, <2>2, <2>3 DEF Occurs, n
<1>3. ASSUME Distinct(r) PROVE Distinct(q) /\ ~ Occurs(t, q)
  <2>0. \A a, b \in 1 .. n + 1 : r[a] = r[b] => a = b
    BY <1>0, <1>3 DEF Distinct
  <2>1. ASSUME NEW i \in 1 .. n
        PROVE  \E a \in 1 .. n + 1 : r[a] = q[i] /\ a # k + 1 /\ i = IF a <= k THEN a ELSE a - 1
    <3>1. CASE i \in 1 .. k
      <4>1. i \in 1 .. n + 1 /\ r[i] = q[i] /\ i # k + 1 /\ i <= k
        BY <1>0, <3>1
      <4> QED
        BY <4>1
    <3>2. CASE i \in k + 1 .. n
      <4>1. i + 1 \in 1 .. n + 1 /\ r[i + 1] = q[i] /\ i + 1 # k + 1 /\ ~ (i + 1 <= k) /\ i = (i + 1) - 1
        BY <1>0, <3>2
      <4> QED
        BY <4>1
    <3> QED
      BY <1>0, <3>1, <3>2
  <2>2. ASSUME NEW i \in 1 .. n, NEW j \in 1 .. n, q[i] = q[j] PROVE i = j
    <3>1. PICK a \in 1 .. n + 1 : r[a] = q[i] /\ i = IF a <= k THEN a ELSE a - 1
      BY <2>1
    <3>2. PICK b \in 1 .. n + 1 : r[b] = q[j] /\ j = IF b <= k THEN b ELSE b - 1
      BY <2>1
    <3>3. a = b
      BY <2>0, <2>2, <3>1, <3>2
    <3> QED
      BY <3>1, <3>2, <3>3
  <2>3. ASSUME NEW i \in 1 .. n PROVE q[i] # t
    <3>1. PICK a \in 1 .. n + 1 : r[a] = q[i] /\ a # k + 1
      BY <2>1
    <3>2. k + 1 \in 1 .. n + 1
      BY <1>0
    <3> QED
      BY <1>0, <2>0, <3>1, <3>2
  <2> QED
    BY <2>2, <2>3 DEF Distinct, Occurs, n
<1>4. ASSUME Distinct(q), ~ Occurs(t, q) PROVE Distinct(r)
  <2>0. (\A a, b \in 1 .. n : q[a] = q[b] => a = b) /\ \A a \in 1 .. n : q[a] # t
    BY <1>4 DEF Distinct, Occurs, n
  <2>1. ASSUME NEW i \in 1 .. n + 1
        PROVE  IF i = k + 1 THEN r[i] = t
               ELSE \E a \in 1 .. n : r[i] = q[a] /\ i = IF a <= k THEN a ELSE a + 1
    <3>1. CASE i \in 1 .. k
      <4>1. i \in 1 .. n /\ r[i] = q[i] /\ i # k + 1 /\ i <= k
        BY <1>0, <3>1
      <4> QED
        BY <4>1
    <3>2. CASE i = k + 1
      BY <1>0, <3>2
    <3>3. CASE \E j \in k + 1 .. n : i = j + 1
      <4>1. PICK j \in k + 1 .. n : i = j + 1
        BY <3>3
      <4>2. j \in 1 .. n /\ r[i] = q[j] /\ i # k + 1 /\ ~ (j <= k)
        BY <1>0, <4>1
      <4> QED
        BY <4>1, <4>2
    <3> QED
      BY <1>1, <3>1, <3>2, <3>3
  <2>2. ASSUME NEW i \in 1 .. n + 1, NEW j \in 1 .. n + 1, r[i] = r[j] PROVE i = j
    <3>1. CASE i = k + 1 \/ j = k + 1
      BY <2>0, <2>1, <2>2, <3>1
    <3>2. CASE i # k + 1 /\ j # k + 1
      <4>1. PICK a \in 1 .. n : r[i] = q[a] /\ i = IF a <= k THEN a ELSE a + 1
        BY <2>1, <3>2
      <4>2. PICK b \in 1 .. n : r[j] = q[b] /\ j = IF b <= k THEN b ELSE b + 1
        BY <2>1, <3>2
      <4>3. a = b
        BY <2>0, <2>2, <4>1, <4>2
      <4> QED
        BY <4>1, <4>2, <4>3
    <3> QED
      BY <3>1, <3>2
  <2> QED
    BY <1>0, <2>2 DEF Distinct
<1> QED
  BY <1>2, <1>3, <1>4

\* A timer is put behind the k-th one.
LEMMA InsertLinked ==
  ASSUME NEW l \in Links, NEW q \in Seq(Timers), Distinct(q), Linked(l, q),
         NEW t \in Timers, ~ Occurs(t, q), NEW k \in 0 .. Len(q), NEW m \in Links,
         NEW r \in Seq(Timers), With(q, k, t, r),
         m.head = IF k = 0 THEN t ELSE l.head,
         m.tail = IF k = Len(q) THEN t ELSE l.tail,
         m.next[t] = IF k = Len(q) THEN Null ELSE q[k + 1],
         m.prev[t] = IF k = 0 THEN Null ELSE q[k],
         \A u \in Timers : u # t => m.next[u] = IF k # 0 /\ u = q[k] THEN t ELSE l.next[u],
         \A u \in Timers : u # t => m.prev[u] = IF k # Len(q) /\ u = q[k + 1] THEN t ELSE l.prev[u]
  PROVE  Linked(m, r)
<1> DEFINE n == Len(q)
<1>0. /\ n \in Nat /\ k \in Nat /\ k <= n /\ Len(r) = n + 1 /\ r[k + 1] = t
      /\ (\A i \in 1 .. k : r[i] = q[i]) /\ (\A i \in k + 1 .. n : r[i + 1] = q[i])
      /\ \A i \in 1 .. n : q[i] \in Timers /\ q[i] # t
  BY DEF With, Occurs
<1>1. ASSUME NEW i \in 1 .. n
      PROVE  /\ l.next[q[i]] = IF i = n THEN Null ELSE q[i + 1]
             /\ l.prev[q[i]] = IF i = 1 THEN Null ELSE q[i - 1]
             /\ m.next[q[i]] = IF i = k THEN t ELSE l.next[q[i]]
             /\ m.prev[q[i]] = IF i = k + 1 THEN t ELSE l.prev[q[i]]
  <2>1. k # 0 => k \in 1 .. n /\ (q[i] = q[k] <=> i = k)
    BY <1>0 DEF Distinct
  <2>2. k # n => k + 1 \in 1 .. n /\ (q[i] = q[k + 1] <=> i = k + 1)
    BY <1>0 DEF Distinct
  <2>3. (k = 0 => i # k) /\ (k = n => i # k + 1)
    BY <1>0
  <2>4. m.next[q[i]] = IF i = k THEN t ELSE l.next[q[i]]
    BY <1>0, <2>1, <2>3
  <2>5. m.prev[q[i]] = IF i = k + 1 THEN t ELSE l.prev[q[i]]
    BY <1>0, <2>2, <2>3
  <2> QED
    BY <2>4, <2>5 DEF Linked
<1>2. /\ n # 0 => l.head = q[1] /\ l.tail = q[n]
      /\ m.head = IF k = 0 THEN t ELSE l.head
      /\ m.tail = IF k = n THEN t ELSE l.tail
      /\ m.next[t] = IF k = n THEN Null ELSE q[k + 1]
      /\ m.prev[t] = IF k = 0 THEN Null ELSE q[k]
  BY <1>0 DEF Linked
<1> HIDE DEF n
<1>3. m.head = r[1] /\ m.tail = r[n + 1]
  <2>1. k # 0 => 1 \in 1 .. k /\ n # 0
    BY <1>0
  <2>2. k # n => n \in k + 1 .. n /\ n # 0
    BY <1>0
  <2> QED
    BY <1>0, <1>2, <2>1, <2>2
<1>4. ASSUME NEW i \in 1 .. k
      PROVE  /\ m.next[r[i]] = r[i + 1]
             /\ m.prev[r[i]] = IF i = 1 THEN Null ELSE r[i - 1]
  <2>1. i \in 1 .. n /\ i # k + 1 /\ (i # k => i + 1 \in 1 .. k /\ i # n) /\ (i # 1 => i - 1 \in 1 .. k)
    BY <1>0
  <2>2. /\ r[i] = q[i] /\ (i # k => r[i + 1] = q[i + 1]) /\ (i = k => r[i + 1] = t)
        /\ (i # 1 => r[i - 1] = q[i - 1])
    BY <1>0, <2>1
  <2> QED
    BY <1>1, <2>1, <2>2
<1>5. /\ m.next[t] = IF k = n THEN Null ELSE r[(k + 1) + 1]
      /\ m.prev[t] = IF k = 0 THEN Null ELSE r[k]
  <2>1. (k # n => k + 1 \in k + 1 .. n) /\ (k # 0 => k \in 1 .. k)
    BY <1>0
  <2> QED
    BY <1>0, <1>2, <2>1
<1>6. ASSUME NEW j \in k + 1 .. n
      PROVE  /\ m.next[r[j + 1]] = IF j = n THEN Null ELSE r[(j + 1) + 1]
             /\ m.prev[r[j + 1]] = r[j]
  <2>1. /\ j \in 1 .. n /\ j # k /\ (j # n => j + 1 \in k + 1 .. n)
        /\ (j # k + 1 => j # 1 /\ j - 1 \in k + 1 .. n /\ (j - 1) + 1 = j)
    BY <1>0
  <2>2. r[j + 1] = q[j] /\ (j # n => r[(j + 1) + 1] = q[j + 1]) /\ (j # k + 1 => r[j] = q[j - 1])
    BY <1>0, <2>1
  <2> QED
    BY <1>0, <1>1, <2>1, <2>2
<1>7. ASSUME NEW i \in 1 .. n + 1
      PROVE  /\ m.next[r[i]] = IF i = n + 1 THEN Null ELSE r[i + 1]
             /\ m.prev[r[i]] = IF i = 1 THEN Null ELSE r[i - 1]
  <2>1. CASE i \in 1 .. k
    BY <1>0, <1>4, <2>1
  <2>2. CASE i = k + 1
    <3>1. (k = n <=> i = n + 1) /\ (k = 0 <=> i = 1) /\ i - 1 = k
      BY <1>0, <2>2
    <3> QED
      BY <1>0, <1>5, <2>2, <3>1
  <2>3. CASE i > k + 1
    <3>1. PICK j \in k + 1 .. n : i = j + 1 /\ i - 1 = j /\ (i = n + 1 <=> j = n) /\ i # 1
      <4>1. i - 1 \in k + 1 .. n /\ i = (i - 1) + 1 /\ (i = n + 1 <=> i - 1 = n) /\ i # 1
        BY <1>0, <2>3
      <4> QED
        BY <4>1
    <3> QED
      BY <1>6, <3>1
  <2> QED
    BY <1>0, <2>1, <2>2, <2>3
<1>8. r # <<>> /\ Len(r) = n + 1
  BY <1>0
<1> QED
  BY <1>3, <1>7, <1>8 DEF Linked

\* The timer behind the k-th one is taken out.
LEMMA RemoveLinked ==
  ASSUME NEW l \in Links, NEW q \in Seq(Timers), NEW t \in Timers, NEW k \in 0 .. Len(q),
         NEW r \in Seq(Timers), With(q, k, t, r), Distinct(r), Linked(l, r), NEW m \in Links,
         m.head = IF k # 0 THEN l.head ELSE IF Len(q) = 0 THEN Null ELSE q[1],
         Len(q) # 0 => m.tail = IF k = Len(q) THEN q[k] ELSE l.tail,
         \A u \in Timers : u # t => m.next[u] = IF k # 0 /\ u = q[k]
                                                THEN IF k = Len(q) THEN Null ELSE q[k + 1]
                                                ELSE l.next[u],
         \A u \in Timers : u # t => m.prev[u] = IF k # Len(q) /\ u = q[k + 1]
                                                THEN IF k = 0 THEN Null ELSE q[k]
                                                ELSE l.prev[u]
  PROVE  Linked(m, q)
<1> DEFINE n == Len(q)
<1>00. Distinct(q) /\ ~ Occurs(t, q)
  BY WithElements
<1>0. /\ n \in Nat /\ k \in Nat /\ k <= n /\ Len(r) = n + 1 /\ r[k + 1] = t
      /\ (\A i \in 1 .. k : r[i] = q[i]) /\ (\A i \in k + 1 .. n : r[i + 1] = q[i])
      /\ \A i \in 1 .. n : q[i] \in Timers /\ q[i] # t
  BY <1>00 DEF With, Occurs
<1>1. ASSUME NEW i \in 1 .. n
      PROVE  /\ m.next[q[i]] = IF i = k THEN IF k = n THEN Null ELSE q[k + 1] ELSE l.next[q[i]]
             /\ m.prev[q[i]] = IF i = k + 1 THEN IF k = 0 THEN Null ELSE q[k] ELSE l.prev[q[i]]
  <2>1. k # 0 => k \in 1 .. n /\ (q[i] = q[k] <=> i = k)
    BY <1>0, <1>00 DEF Distinct
  <2>2. k # n => k + 1 \in 1 .. n /\ (q[i] = q[k + 1] <=> i = k + 1)
    BY <1>0, <1>00 DEF Distinct
  <2>3. (k = 0 => i # k) /\ (k = n => i # k + 1)
    BY <1>0
  <2>4. m.next[q[i]] = IF i = k THEN IF k = n THEN Null ELSE q[k + 1] ELSE l.next[q[i]]
    BY <1>0, <2>1, <2>3
  <2>5. m.prev[q[i]] = IF i = k + 1 THEN IF k = 0 THEN Null ELSE q[k] ELSE l.prev[q[i]]
    BY <1>0, <2>2, <2>3
  <2> QED
    BY <2>4, <2>5
<1>2. ASSUME NEW i \in 1 .. n + 1
      PROVE  /\ l.next[r[i]] = IF i = n + 1 THEN Null ELSE r[i + 1]
             /\ l.prev[r[i]] = IF i = 1 THEN Null ELSE r[i - 1]
  BY <1>0 DEF Linked
<1>3. /\ l.head = r[1] /\ l.tail = r[n + 1]
      /\ m.head = IF k # 0 THEN l.head ELSE IF n = 0 THEN Null ELSE q[1]
      /\ n # 0 => m.tail = IF k = n THEN q[k] ELSE l.tail
  BY <1>0 DEF Linked
<1> HIDE DEF n
<1>4. (n = 0 => m.head = Null) /\ (n # 0 => m.head = q[1] /\ m.tail = q[n])
  <2>1. (k # 0 => n # 0 /\ 1 \in 1 .. k) /\ (k # n => n \in k + 1 .. n)
    BY <1>0
  <2> QED
    BY <1>0, <1>3, <2>1
<1>5. ASSUME NEW i \in 1 .. k
      PROVE  /\ m.next[q[i]] = IF i = n THEN Null ELSE q[i + 1]
             /\ m.prev[q[i]] = IF i = 1 THEN Null ELSE q[i - 1]
  <2>1. /\ i \in 1 .. n /\ i \in 1 .. n + 1 /\ i # k + 1 /\ i # n + 1
        /\ (i # k => i + 1 \in 1 .. k /\ i # n) /\ (i # 1 => i - 1 \in 1 .. k)
    BY <1>0
  <2>2. /\ r[i] = q[i] /\ (i # k => r[i + 1] = q[i + 1]) /\ (i # 1 => r[i - 1] = q[i - 1])
    BY <1>0, <2>1
  <2> QED
    BY <1>1, <1>2, <2>1, <2>2
<1>6. ASSUME NEW j \in k + 1 .. n
      PROVE  /\ m.next[q[j]] = IF j = n THEN Null ELSE q[j + 1]
             /\ m.prev[q[j]] = IF j = 1 THEN Null ELSE q[j - 1]
  <2>1. /\ j \in 1 .. n /\ j + 1 \in 1 .. n + 1 /\ j # k /\ (j = n <=> j + 1 = n + 1) /\ (j # n => j + 1 \in k + 1 .. n)
        /\ (j # k + 1 => j # 1 /\ j - 1 \in k + 1 .. n /\ (j - 1) + 1 = j)
        /\ j + 1 # 1 /\ (j + 1) - 1 = j
        /\ (j = k + 1 => j - 1 = k /\ (j = 1 <=> k = 0))
    BY <1>0
  <2>2. r[j + 1] = q[j] /\ (j # n => r[(j + 1) + 1] = q[j + 1]) /\ (j # k + 1 => r[j] = q[j - 1])
    BY <1>0, <2>1
  <2>3. l.next[q[j]] = (IF j = n THEN Null ELSE q[j + 1]) /\ (j # k + 1 => l.prev[q[j]] = q[j - 1])
    BY <1>2, <2>1, <2>2
  <2> QED
    BY <1>1, <2>1, <2>3
<1>7. ASSUME NEW i \in 1 .. n
      PROVE  /\ m.next[q[i]] = IF i = n THEN Null ELSE q[i + 1]
             /\ m.prev[q[i]] = IF i = 1 THEN Null ELSE q[i - 1]
  <2>1. i \in 1 .. k \/ i \in k + 1 .. n
    BY <1>0
  <2> QED
    BY <1>5, <1>6, <2>1
<1>8. q = <<>> <=> n = 0
  BY DEF n
<1> QED
  BY <1>4, <1>7, <1>8 DEF Linked, n

\* The first k timers are taken out.
LEMMA DropLinked ==
  ASSUME NEW l \in Links, NEW q \in Seq(Timers), Distinct(q), Linked(l, q), NEW k \in 0 .. Len(q), NEW m \in Links,
         NEW r \in Seq(Timers), Len(r) = Len(q) - k, \A j \in 1 .. Len(q) - k : r[j] = q[k + j],
         m.head = IF k = Len(q) THEN Null ELSE q[k + 1],
         m.tail = l.tail,
         \A j \in k + 1 .. Len(q) : m.next[q[j]] = l.next[q[j]],
         \A j \in k + 1 .. Len(q) : m.prev[q[j]] = IF j = k + 1 THEN Null ELSE l.prev[q[j]]
  PROVE  /\ Distinct(r) /\ Linked(m, r)
         /\ \A u : Occurs(u, r) <=> \E j \in k + 1 .. Len(q) : q[j] = u
<1> DEFINE n == Len(q)
<1>0. n \in Nat /\ k \in Nat /\ k <= n /\ Len(r) = n - k /\ \A j \in 1 .. n - k : r[j] = q[k + j]
  OBVIOUS
<1>1. ASSUME NEW j \in k + 1 .. n
      PROVE  /\ m.next[q[j]] = IF j = n THEN Null ELSE q[j + 1]
             /\ m.prev[q[j]] = IF j = k + 1 THEN Null ELSE q[j - 1]
  BY <1>0 DEF Linked
<1>2. /\ m.head = IF k = n THEN Null ELSE q[k + 1]
      /\ n # 0 => m.tail = q[n]
      /\ \A a, b \in 1 .. n : q[a] = q[b] => a = b
  BY <1>0 DEF Linked, Distinct
<1>3. \A u : Occurs(u, r) <=> \E j \in k + 1 .. n : q[j] = u
  <2>1. ASSUME NEW j \in 1 .. n - k PROVE k + j \in k + 1 .. n
    BY <1>0
  <2>2. ASSUME NEW j \in k + 1 .. n PROVE j - k \in 1 .. n - k /\ k + (j - k) = j
    BY <1>0
  <2> HIDE DEF n
  <2>3. ASSUME NEW u, NEW j \in k + 1 .. n, q[j] = u PROVE \E i \in 1 .. n - k : r[i] = u
    BY <1>0, <2>2, <2>3, ZenonT(40)
  <2>4. ASSUME NEW u, NEW i \in 1 .. n - k, r[i] = u PROVE \E j \in k + 1 .. n : q[j] = u
    BY <1>0, <2>1, <2>4
  <2> QED
    BY <1>0, <2>3, <2>4 DEF Occurs
<1> HIDE DEF n
<1>4. Distinct(r)
  <2> SUFFICES ASSUME NEW i \in 1 .. n - k, NEW j \in 1 .. n - k, r[i] = r[j] PROVE i = j
    BY <1>0 DEF Distinct
  <2>1. k + i \in 1 .. n /\ k + j \in 1 .. n
    BY <1>0
  <2>2. k + i = k + j
    BY <1>0, <1>2, <2>1
  <2> QED
    BY <1>0, <2>2
<1>5. (n = k => m.head = Null) /\ (n # k => m.head = r[1] /\ m.tail = r[n - k])
  <2>1. n # k => 1 \in 1 .. n - k /\ n - k \in 1 .. n - k /\ k + (n - k) = n /\ n # 0
    BY <1>0
  <2> QED
    BY <1>0, <1>2, <2>1
<1>6. ASSUME NEW i \in 1 .. n - k
      PROVE  /\ m.next[r[i]] = IF i = n - k THEN Null ELSE r[i + 1]
             /\ m.prev[r[i]] = IF i = 1 THEN Null ELSE r[i - 1]
  <2>1. /\ k + i \in k + 1 .. n /\ (k + i = n <=> i = n - k) /\ (k + i = k + 1 <=> i = 1)
        /\ (i # n - k => i + 1 \in 1 .. n - k /\ k + (i + 1) = (k + i) + 1)
        /\ (i # 1 => i - 1 \in 1 .. n - k /\ k + (i - 1) = (k + i) - 1)
    <3>1. n \in Nat /\ k \in Nat /\ k <= n
      BY <1>0
    <3>2. k + i \in k + 1 .. n /\ (k + i = n <=> i = n - k) /\ (k + i = k + 1 <=> i = 1)
      BY <3>1
    <3>3. i # n - k => i + 1 \in 1 .. n - k /\ k + (i + 1) = (k + i) + 1
      BY <3>1
    <3>4. i # 1 => i - 1 \in 1 .. n - k /\ k + (i - 1) = (k + i) - 1
      BY <3>1
    <3> QED
      BY <3>2, <3>3, <3>4
  <2>2. /\ r[i] = q[k + i] /\ (i # n - k => r[i + 1] = q[(k + i) + 1])
        /\ (i # 1 => r[i - 1] = q[(k + i) - 1])
    BY <1>0, <2>1
  <2>3. PICK j \in k + 1 .. n : j = k + i
    BY <2>1
  <2> QED
    BY <1>1, <2>1, <2>2, <2>3
<1>7. r = <<>> <=> n = k
  BY <1>0
<1> QED
  BY <1>0, <1>3, <1>4, <1>5, <1>6, <1>7 DEF Linked, n
-----------------------------------------------------------------------------
(* The order of expiry *)

LEMMA WithUnique ==
  ASSUME NEW q \in Seq(Timers), NEW k \in 0 .. Len(q), NEW t, NEW r \in Seq(Timers), NEW s \in Seq(Timers),
         With(q, k, t, r), With(q, k, t, s)
  PROVE  r = s
<1>0. /\ Len(q) \in Nat /\ k \in Nat /\ k <= Len(q)
      /\ Len(r) = Len(q) + 1 /\ r[k + 1] = t /\ Len(s) = Len(q) + 1 /\ s[k + 1] = t
      /\ (\A i \in 1 .. k : r[i] = q[i]) /\ (\A i \in k + 1 .. Len(q) : r[i + 1] = q[i])
      /\ (\A i \in 1 .. k : s[i] = q[i]) /\ (\A i \in k + 1 .. Len(q) : s[i + 1] = q[i])
  BY DEF With
<1>1. ASSUME NEW i \in 1 .. Len(q) + 1 PROVE r[i] = s[i]
  <2>1. i > k + 1 => i - 1 \in k + 1 .. Len(q) /\ i = (i - 1) + 1
    BY <1>0
  <2>2. CASE i > k + 1
    <3>1. r[(i - 1) + 1] = q[i - 1] /\ s[(i - 1) + 1] = q[i - 1]
      BY <1>0, <2>1, <2>2
    <3> QED
      BY <2>1, <2>2, <3>1
  <2>3. CASE i <= k + 1
    BY <1>0, <2>3
  <2> QED
    BY <1>0, <2>2, <2>3
<1> QED
  BY <1>0, <1>1

LEMMA InsertOrdered ==
  ASSUME expire \in [Timers -> Nat], NEW q \in Seq(Timers), InOrder(expire, q), NEW t \in Timers, ~ Occurs(t, q),
         NEW k \in 0 .. Len(q), NEW e \in Nat, Sorted!Divides(q, k, e), NEW r \in Seq(Timers), With(q, k, t, r),
         NEW x, x = [expire EXCEPT ![t] = e]
  PROVE  InOrder(x, r)
<1> DEFINE n == Len(q)
<1>0. /\ n \in Nat /\ k \in Nat /\ k <= n /\ Len(r) = n + 1 /\ r[k + 1] = t
      /\ (\A i \in 1 .. k : r[i] = q[i]) /\ (\A i \in k + 1 .. n : r[i + 1] = q[i])
      /\ (\A i \in 1 .. n : q[i] \in Timers /\ q[i] # t /\ expire[q[i]] \in Nat)
      /\ (\A i \in 1 .. n : expire[q[i]] <= e <=> i <= k)
      /\ (\A i, j \in 1 .. n : i <= j => expire[q[i]] <= expire[q[j]])
  BY SMTT(30) DEF With, Occurs, Sorted!Divides, InOrder
<1>1. x[t] = e /\ \A i \in 1 .. n : x[q[i]] = expire[q[i]]
  BY <1>0
<1> HIDE DEF n
<1>a. n \in Nat /\ k \in Nat /\ k <= n
  BY <1>0
<1>2. ASSUME NEW i \in 1 .. n + 1
      PROVE  IF i = k + 1 THEN x[r[i]] = e
             ELSE \E a \in 1 .. n : x[r[i]] = expire[q[a]] /\ i = IF a <= k THEN a ELSE a + 1
  <2>1. CASE i <= k
    <3>1. i \in 1 .. n /\ i \in 1 .. k /\ i # k + 1
      BY <1>a, <2>1
    <3>2. r[i] = q[i]
      BY <1>0, <3>1
    <3> QED
      BY <1>1, <2>1, <3>1, <3>2
  <2>2. CASE i = k + 1
    BY <1>0, <1>1, <2>2
  <2>3. CASE i > k + 1
    <3>1. PICK j \in k + 1 .. n : i = j + 1
      <4>1. i - 1 \in k + 1 .. n /\ i = (i - 1) + 1
        BY <1>0, <2>3
      <4> QED
        BY <4>1
    <3>2. j \in 1 .. n /\ r[i] = q[j] /\ i # k + 1 /\ ~ (j <= k)
      BY <1>0, <3>1
    <3> QED
      BY <1>1, <3>1, <3>2
  <2> QED
    BY <1>0, <2>1, <2>2, <2>3
<1>3. ASSUME NEW i \in 1 .. n + 1, NEW j \in 1 .. n + 1, i <= j PROVE x[r[i]] <= x[r[j]]
  <2>1. CASE i = k + 1 /\ j = k + 1
    BY <1>2, <2>1
  <2>2. CASE i # k + 1 /\ j = k + 1
    <3>1. PICK a \in 1 .. n : x[r[i]] = expire[q[a]] /\ i = IF a <= k THEN a ELSE a + 1
      BY <1>2, <2>2
    <3>2. a <= k
      BY <1>0, <1>3, <2>2, <3>1
    <3> QED
      BY <1>0, <1>2, <2>2, <3>1, <3>2
  <2>3. CASE i = k + 1 /\ j # k + 1
    <3>1. PICK b \in 1 .. n : x[r[j]] = expire[q[b]] /\ j = IF b <= k THEN b ELSE b + 1
      BY <1>2, <2>3
    <3>2. ~ (b <= k)
      BY <1>0, <1>3, <2>3, <3>1
    <3>3. ~ (expire[q[b]] <= e) /\ expire[q[b]] \in Nat /\ x[r[i]] = e
      BY <1>0, <1>2, <2>3, <3>2
    <3> QED
      BY <3>1, <3>3, SMTT(30)
  <2>4. CASE i # k + 1 /\ j # k + 1
    <3>1. PICK a \in 1 .. n : x[r[i]] = expire[q[a]] /\ i = IF a <= k THEN a ELSE a + 1
      BY <1>2, <2>4
    <3>2. PICK b \in 1 .. n : x[r[j]] = expire[q[b]] /\ j = IF b <= k THEN b ELSE b + 1
      BY <1>2, <2>4
    <3>3. a <= b
      BY <1>a, <1>3, <3>1, <3>2, SMTT(30)
    <3> QED
      BY <1>0, <3>1, <3>2, <3>3
  <2> QED
    BY <2>1, <2>2, <2>3, <2>4
<1> QED
  BY <1>0, <1>3 DEF InOrder

LEMMA RemoveOrdered ==
  ASSUME NEW x, NEW q \in Seq(Timers), NEW k \in 0 .. Len(q), NEW t, NEW r \in Seq(Timers), With(q, k, t, r), InOrder(x, r)
  PROVE  InOrder(x, q)
<1> DEFINE n == Len(q)
<1>0. /\ n \in Nat /\ k \in Nat /\ k <= n /\ Len(r) = n + 1
      /\ (\A i \in 1 .. k : r[i] = q[i]) /\ (\A i \in k + 1 .. n : r[i + 1] = q[i])
      /\ (\A i, j \in 1 .. n + 1 : i <= j => x[r[i]] <= x[r[j]])
  BY DEF With, InOrder
<1> HIDE DEF n
<1>1. ASSUME NEW i \in 1 .. n PROVE \E a \in 1 .. n + 1 : r[a] = q[i] /\ a = IF i <= k THEN i ELSE i + 1
  <2>1. CASE i <= k
    BY <1>0, <2>1
  <2>2. CASE ~ (i <= k)
    <3>1. i + 1 \in 1 .. n + 1 /\ r[i + 1] = q[i]
      BY <1>0, <2>2
    <3> QED
      BY <2>2, <3>1
  <2> QED
    BY <2>1, <2>2
<1>2. ASSUME NEW i \in 1 .. n, NEW j \in 1 .. n, i <= j PROVE x[q[i]] <= x[q[j]]
  <2>1. PICK a \in 1 .. n + 1 : r[a] = q[i] /\ a = IF i <= k THEN i ELSE i + 1
    BY <1>1
  <2>2. PICK b \in 1 .. n + 1 : r[b] = q[j] /\ b = IF j <= k THEN j ELSE j + 1
    BY <1>1
  <2>3. a <= b
    BY <1>0, <1>2, <2>1, <2>2
  <2> QED
    BY <1>0, <2>1, <2>2, <2>3
<1> QED
  BY <1>2 DEF InOrder, n

LEMMA DropOrdered ==
  ASSUME NEW x, NEW q \in Seq(Timers), NEW k \in 0 .. Len(q), NEW r \in Seq(Timers), InOrder(x, q),
         Len(r) = Len(q) - k, \A j \in 1 .. Len(q) - k : r[j] = q[k + j]
  PROVE  InOrder(x, r)
<1> SUFFICES ASSUME NEW i \in 1 .. Len(q) - k, NEW j \in 1 .. Len(q) - k, i <= j PROVE x[r[i]] <= x[r[j]]
  BY DEF InOrder
<1>1. k + i \in 1 .. Len(q) /\ k + j \in 1 .. Len(q) /\ k + i <= k + j
  OBVIOUS
<1>2. x[q[k + i]] <= x[q[k + j]]
  BY <1>1 DEF InOrder
<1> QED
  BY <1>2

\* add_timer(timer, lst_head) puts the timer where its expiry belongs, and
\* leaves the links of the timers that are not in the list.
LEMMA InsertFromIs ==
  ASSUME expire \in [Timers -> Nat], NEW l \in Links, NEW q \in Seq(Timers), Distinct(q), Linked(l, q),
         NEW t \in Timers, ~ Occurs(t, q), NEW e \in Nat, NEW k \in 1 .. Len(q), Sorted!Divides(q, k, e),
         NEW i \in 1 .. k, LeadsIn(l, q),
         NEW r \in Seq(Timers), With(q, k, t, r), NEW m, m = InsertFrom(l, t, e, q[i])
  PROVE  /\ m \in Links /\ Linked(m, r)
         /\ \A u \in Timers : ~ Occurs(u, r) => m.next[u] = l.next[u] /\ m.prev[u] = l.prev[u]
<1> DEFINE n == Len(q)
           p == q[k]
           s == l.next[p]
<1>0. /\ n \in Nat /\ k \in 1 .. n /\ k \in 0 .. n /\ k # 0 /\ p \in Timers /\ p # t
      /\ \A j \in 1 .. n : q[j] \in Timers /\ q[j] # t /\ q[j] # Null
  BY TimerListAssumption DEF Occurs
<1>1. Predecessor(l, q[i], e) = p
  BY PredecessorIs
<1>2. m = IF s # Null
            THEN [l EXCEPT !.next[p] = t, !.next[t] = s, !.prev[s] = t, !.prev[t] = p]
            ELSE [l EXCEPT !.next[p] = t, !.prev[t] = p, !.next[t] = Null, !.tail = t]
  BY <1>1, Zenon DEF InsertFrom
<1>3. s = IF k = n THEN Null ELSE q[k + 1]
  BY <1>0 DEF Linked
<1>4. (s # Null <=> k # n) /\ (k # n => s \in Timers /\ s = q[k + 1] /\ s # t)
  <2>1. k # n => k + 1 \in 1 .. n
    BY <1>0
  <2> QED
    BY <1>0, <1>3, <2>1
<1>5. Occurs(p, q) /\ (k # n => Occurs(s, q))
  <2>1. k # n => k + 1 \in 1 .. n
    BY <1>0
  <2> QED
    BY <1>0, <1>4, <2>1 DEF Occurs
<1>6. \A u : Occurs(u, r) <=> Occurs(u, q) \/ u = t
  BY <1>0, WithElements
<1> HIDE DEF p, s, n
<1>7. /\ m \in Links /\ m.head = l.head
      /\ m.tail = IF k = n THEN t ELSE l.tail
      /\ m.next[t] = s /\ m.prev[t] = p
      /\ \A u \in Timers : u # t => m.next[u] = IF u = p THEN t ELSE l.next[u]
      /\ \A u \in Timers : u # t => m.prev[u] = IF k # n /\ u = s THEN t ELSE l.prev[u]
  <2>0. l.next \in [Timers -> Pointer] /\ l.prev \in [Timers -> Pointer] /\ t \in Pointer /\ p \in Pointer /\ Null \in Pointer
    BY <1>0 DEF Links, Pointer
  <2>1. CASE k # n
    <3>1. m = [l EXCEPT !.next[p] = t, !.next[t] = s, !.prev[s] = t, !.prev[t] = p]
      BY <1>2, <1>4, <2>1
    <3>2. s \in Pointer /\ s \in Timers /\ s # t
      BY <1>4, <2>1 DEF Pointer
    <3>3. /\ m.head = l.head /\ m.tail = l.tail
          /\ m.next = [l.next EXCEPT ![p] = t, ![t] = s] /\ m.prev = [l.prev EXCEPT ![s] = t, ![t] = p]
      BY <3>1 DEF Links
    <3>4. m.next \in [Timers -> Pointer] /\ m.prev \in [Timers -> Pointer]
      <4>1. \A f \in [Timers -> Pointer] : \A a, b \in Timers : \A c, d \in Pointer :
              [f EXCEPT ![a] = c, ![b] = d] \in [Timers -> Pointer]
        OBVIOUS
      <4>2. [l.next EXCEPT ![p] = t, ![t] = s] \in [Timers -> Pointer]
        BY <1>0, <2>0, <3>2, <4>1, Zenon
      <4>3. [l.prev EXCEPT ![s] = t, ![t] = p] \in [Timers -> Pointer]
        BY <1>0, <2>0, <3>2, <4>1, Zenon
      <4> QED
        BY <3>3, <4>2, <4>3, Zenon
    <3>5. m \in Links
      BY <3>1, <3>4 DEF Links
    <3>6. m.next[t] = s /\ \A u \in Timers : u # t => m.next[u] = IF u = p THEN t ELSE l.next[u]
      BY <1>0, <2>0, <3>3
    <3>7. m.prev[t] = p /\ \A u \in Timers : u # t => m.prev[u] = IF u = s THEN t ELSE l.prev[u]
      BY <1>0, <2>0, <3>2, <3>3
    <3> QED
      BY <2>1, <3>3, <3>5, <3>6, <3>7
  <2>2. CASE k = n
    <3>1. m = [l EXCEPT !.next[p] = t, !.prev[t] = p, !.next[t] = Null, !.tail = t] /\ s = Null
      BY <1>2, <1>4, <2>2
    <3>3. /\ m.head = l.head /\ m.tail = t
          /\ m.next = [l.next EXCEPT ![p] = t, ![t] = Null] /\ m.prev = [l.prev EXCEPT ![t] = p]
      BY <3>1 DEF Links
    <3>4. m.next \in [Timers -> Pointer] /\ m.prev \in [Timers -> Pointer]
      <4>1. \A f \in [Timers -> Pointer] : \A a, b \in Timers : \A c, d \in Pointer :
              [f EXCEPT ![a] = c, ![b] = d] \in [Timers -> Pointer] /\ [f EXCEPT ![a] = c] \in [Timers -> Pointer]
        OBVIOUS
      <4>2. [l.next EXCEPT ![p] = t, ![t] = Null] \in [Timers -> Pointer]
        BY <1>0, <2>0, <4>1, Zenon
      <4>3. [l.prev EXCEPT ![t] = p] \in [Timers -> Pointer]
        BY <1>0, <2>0, <4>1, Zenon
      <4> QED
        BY <3>3, <4>2, <4>3, Zenon
    <3>5. m \in Links
      BY <2>0, <3>1, <3>4 DEF Links
    <3>6. m.next[t] = s /\ \A u \in Timers : u # t => m.next[u] = IF u = p THEN t ELSE l.next[u]
      BY <1>0, <2>0, <3>1, <3>3
    <3>7. m.prev[t] = p /\ \A u \in Timers : u # t => m.prev[u] = l.prev[u]
      BY <1>0, <2>0, <3>3
    <3> QED
      BY <2>2, <3>3, <3>5, <3>6, <3>7
  <2> QED
    BY <2>1, <2>2
<1>8. Linked(m, r)
  <2>1. /\ m.head = IF k = 0 THEN t ELSE l.head
        /\ m.tail = IF k = Len(q) THEN t ELSE l.tail
        /\ m.next[t] = IF k = Len(q) THEN Null ELSE q[k + 1]
        /\ m.prev[t] = IF k = 0 THEN Null ELSE q[k]
    BY <1>0, <1>3, <1>7 DEF p, n
  <2>2. \A u \in Timers : u # t => m.next[u] = IF k # 0 /\ u = q[k] THEN t ELSE l.next[u]
    BY <1>0, <1>7 DEF p
  <2>3. \A u \in Timers : u # t => m.prev[u] = IF k # Len(q) /\ u = q[k + 1] THEN t ELSE l.prev[u]
    BY <1>0, <1>4, <1>7, SMTT(30) DEF n
  <2>4. k \in 0 .. Len(q) /\ m \in Links
    BY <1>0, <1>7 DEF n
  <2> QED
    BY <2>1, <2>2, <2>3, <2>4, InsertLinked, SMTT(30)
<1>9. ASSUME NEW u \in Timers, ~ Occurs(u, r) PROVE m.next[u] = l.next[u] /\ m.prev[u] = l.prev[u]
  <2>1. u # t /\ u # p /\ (k # n => u # s)
    BY <1>5, <1>6, <1>9
  <2> QED
    BY <1>7, <2>1
<1> QED
  BY <1>7, <1>8, <1>9
-----------------------------------------------------------------------------
(* The operations *)

\* The links, the expiries and the allocated timers are those of the list q.
Listed(l, x, S, q) ==
  /\ q \in Seq(Timers) /\ Distinct(q) /\ Linked(l, q) /\ Loose(l, q) /\ InOrder(x, q)
  /\ \A u \in Timers : u \in S <=> Occurs(u, q)

LEMMA ListedType ==
  ASSUME TimersType, NEW q, Listed(lst, expire, live, q)
  PROVE  /\ lst \in Links /\ expire \in [Timers -> Nat] /\ expire \in [Timers -> Times] /\ live \subseteq Timers
         /\ Times \subseteq Nat /\ Null \notin Timers
         /\ lst.next \in [Timers -> Pointer] /\ lst.prev \in [Timers -> Pointer]
         /\ q \in Seq(Timers) /\ Distinct(q) /\ Linked(lst, q) /\ Loose(lst, q) /\ InOrder(expire, q)
         /\ \A u \in Timers : u \in live <=> Occurs(u, q)
         /\ Len(q) \in Nat /\ \A i \in 1 .. Len(q) : q[i] \in Timers /\ q[i] # Null /\ expire[q[i]] \in Nat
<1>1. lst \in Links /\ expire \in [Timers -> Times] /\ live \subseteq Timers
  BY DEF TimersType, Links
<1>2. expire \in [Timers -> Nat] /\ Times \subseteq Nat /\ Null \notin Timers
  BY <1>1, TimerListAssumption
<1>3. lst.next \in [Timers -> Pointer] /\ lst.prev \in [Timers -> Pointer]
  BY <1>1 DEF Links
<1>4. /\ q \in Seq(Timers) /\ Distinct(q) /\ Linked(lst, q) /\ Loose(lst, q) /\ InOrder(expire, q)
      /\ \A u \in Timers : u \in live <=> Occurs(u, q)
  BY DEF Listed
<1>5. Len(q) \in Nat /\ \A i \in 1 .. Len(q) : q[i] \in Timers /\ q[i] # Null /\ expire[q[i]] \in Nat
  BY <1>2, <1>4
<1> QED
  BY <1>1, <1>2, <1>3, <1>4, <1>5

\* add_timer(timer)
LEMMA AddStep ==
  ASSUME TimersType, NEW q, Listed(lst, expire, live, q), NEW t \in Timers, NEW e \in Times, Add(t, e)
  PROVE  /\ TimersType'
         /\ \E k \in 0 .. Len(q) : /\ Sorted!Divides(q, k, e)
                                   /\ Listed(lst', expire', live', Sorted!InsertAt(q, k + 1, t))
<1> DEFINE n == Len(q)
<1>0. /\ lst \in Links /\ expire \in [Timers -> Nat] /\ expire \in [Timers -> Times] /\ live \subseteq Timers
      /\ Null \notin Timers /\ e \in Nat
      /\ lst.next \in [Timers -> Pointer] /\ lst.prev \in [Timers -> Pointer]
      /\ n \in Nat /\ \A i \in 1 .. n : q[i] \in Timers /\ q[i] # Null /\ expire[q[i]] \in Nat
  BY ListedType
<1>1. /\ q \in Seq(Timers) /\ Distinct(q) /\ Linked(lst, q) /\ Loose(lst, q) /\ InOrder(expire, q)
      /\ \A u \in Timers : u \in live <=> Occurs(u, q)
  BY ListedType
<1>2. ~ Occurs(t, q) /\ lst.next[t] = Null /\ lst.prev[t] = Null
  BY <1>1 DEF Add, Loose
<1>3. PICK k \in 0 .. n : Sorted!Divides(q, k, e)
  BY <1>0, <1>1, Divided
<1>4. PICK r \in Seq(Timers) : r = Sorted!InsertAt(q, k + 1, t) /\ With(q, k, t, r)
  BY <1>1, InsertedIs
<1>5. (\A u : Occurs(u, r) <=> Occurs(u, q) \/ u = t) /\ Distinct(r)
  BY <1>1, <1>2, <1>4, WithElements
<1>6. (q = <<>> <=> n = 0) /\ (n = 0 <=> lst.head = Null) /\ (n # 0 => lst.head = q[1])
  BY <1>0, <1>1 DEF Linked
<1>7. \A i \in 1 .. n : expire[q[i]] <= e <=> i <= k
  BY <1>3 DEF Sorted!Divides
<1>8. n # 0 => (e < expire[lst.head] <=> k = 0)
  <2>1. n # 0 => 1 \in 1 .. n /\ (1 <= k <=> k # 0)
    BY <1>0
  <2> QED
    BY <1>0, <1>6, <1>7, <2>1
<1>9. /\ expire' = [expire EXCEPT ![t] = e] /\ live' = live \cup {t}
      /\ lst' = IF n = 0 THEN [lst EXCEPT !.head = t, !.tail = t]
                ELSE IF k = 0 THEN [lst EXCEPT !.next[t] = lst.head, !.prev[lst.head] = t, !.head = t]
                ELSE InsertFrom(lst, t, e, lst.head)
  BY <1>6, <1>8 DEF Add
<1> HIDE DEF n
<1>10. /\ lst' \in Links /\ Linked(lst', r)
       /\ \A u \in Timers : ~ Occurs(u, r) => lst'.next[u] = lst.next[u] /\ lst'.prev[u] = lst.prev[u]
  <2>1. CASE k = 0
    <3>1. /\ lst' \in Links /\ lst'.head = t /\ lst'.tail = IF k = n THEN t ELSE lst.tail
          /\ lst'.next[t] = IF k = n THEN Null ELSE q[k + 1]
          /\ lst'.prev[t] = Null
          /\ \A u \in Timers : u # t => lst'.next[u] = lst.next[u]
          /\ \A u \in Timers : u # t => lst'.prev[u] = IF k # n /\ u = q[k + 1] THEN t ELSE lst.prev[u]
      <4>1. CASE n = 0
        <5>1. lst' = [lst EXCEPT !.head = t, !.tail = t]
          BY <1>9, <4>1
        <5>a. t \in Pointer /\ lst \in Links
          BY <1>0 DEF Pointer
        <5>2. lst' \in Links /\ lst'.head = t /\ lst'.tail = t /\ lst'.next = lst.next /\ lst'.prev = lst.prev
          BY <5>1, <5>a DEF Links
        <5> QED
          BY <1>2, <2>1, <4>1, <5>2
      <4>2. CASE n # 0
        <5>0. 1 \in 1 .. n /\ k + 1 = 1 /\ k # n
          BY <1>0, <2>1, <4>2
        <5>1. PICK h \in Timers : h = q[1] /\ lst.head = h /\ h # t
          BY <1>0, <1>2, <1>6, <4>2, <5>0 DEF Occurs, n
        <5>2. lst' = [lst EXCEPT !.next[t] = h, !.prev[h] = t, !.head = t]
          BY <1>9, <2>1, <4>2, <5>1
        <5>3. /\ lst'.head = t /\ lst'.tail = lst.tail
              /\ lst'.next = [lst.next EXCEPT ![t] = h] /\ lst'.prev = [lst.prev EXCEPT ![h] = t]
          BY <1>0, <5>2 DEF Links
        <5>4. lst'.next \in [Timers -> Pointer] /\ lst'.prev \in [Timers -> Pointer] /\ t \in Pointer
          BY <1>0, <5>3 DEF Pointer
        <5>5. lst' \in Links
          BY <1>0, <5>2, <5>4 DEF Links
        <5>6. lst'.next[t] = h /\ \A u \in Timers : u # t => lst'.next[u] = lst.next[u]
          BY <1>0, <5>3
        <5>7. lst'.prev[t] = Null /\ \A u \in Timers : u # t => lst'.prev[u] = IF u = h THEN t ELSE lst.prev[u]
          BY <1>0, <1>2, <5>1, <5>3
        <5> QED
          BY <5>0, <5>1, <5>3, <5>5, <5>6, <5>7
      <4> QED
        BY <4>1, <4>2
    <3>2. Linked(lst', r)
      <4>1. /\ lst'.head = (IF k = 0 THEN t ELSE lst.head) /\ lst'.tail = (IF k = Len(q) THEN t ELSE lst.tail)
            /\ lst'.next[t] = (IF k = Len(q) THEN Null ELSE q[k + 1])
            /\ lst'.prev[t] = (IF k = 0 THEN Null ELSE q[k])
        BY <2>1, <3>1 DEF n
      <4>2. \A u \in Timers : u # t => lst'.next[u] = IF k # 0 /\ u = q[k] THEN t ELSE lst.next[u]
        BY <2>1, <3>1
      <4>3. \A u \in Timers : u # t => lst'.prev[u] = IF k # Len(q) /\ u = q[k + 1] THEN t ELSE lst.prev[u]
        BY <3>1 DEF n
      <4>4. k \in 0 .. Len(q)
        BY DEF n
      <4>5. /\ lst \in Links /\ q \in Seq(Timers) /\ Distinct(q) /\ Linked(lst, q) /\ ~ Occurs(t, q)
            /\ lst' \in Links /\ r \in Seq(Timers) /\ With(q, k, t, r)
        BY <1>0, <1>1, <1>2, <1>4, <3>1
      <4>6. PICK m \in Links : m = lst'
        BY <4>5
      <4> QED
        BY <4>1, <4>2, <4>3, <4>4, <4>5, <4>6, InsertLinked
    <3>3. ASSUME NEW u \in Timers, ~ Occurs(u, r)
          PROVE  lst'.next[u] = lst.next[u] /\ lst'.prev[u] = lst.prev[u]
      <4>1. u # t /\ ~ Occurs(u, q)
        BY <1>5, <3>3
      <4>2. k # n => k + 1 \in 1 .. Len(q)
        BY <1>0, <2>1 DEF n
      <4>3. k # n => u # q[k + 1]
        BY <4>1, <4>2 DEF Occurs
      <4> QED
        BY <3>1, <4>1, <4>3
    <3> QED
      BY <3>1, <3>2, <3>3
  <2>2. CASE k # 0
    <3>1. k \in 1 .. Len(q) /\ 1 \in 1 .. k /\ n # 0
      BY <1>0, <2>2 DEF n
    <3>2. lst' = InsertFrom(lst, t, e, q[1])
      BY <1>6, <1>9, <2>2, <3>1
    <3>3. LeadsIn(lst, q)
      BY <1>1 DEF Loose, LeadsIn
    <3>4. /\ expire \in [Timers -> Nat] /\ lst \in Links /\ q \in Seq(Timers) /\ Distinct(q) /\ Linked(lst, q)
          /\ ~ Occurs(t, q) /\ e \in Nat /\ Sorted!Divides(q, k, e) /\ r \in Seq(Timers) /\ With(q, k, t, r)
      BY <1>0, <1>1, <1>2, <1>3, <1>4
    <3>5. PICK m : m = lst'
      OBVIOUS
    <3> QED
      BY <3>1, <3>2, <3>3, <3>4, <3>5, InsertFromIs
  <2> QED
    BY <2>1, <2>2
<1>11. InOrder(expire', r)
  BY <1>0, <1>1, <1>2, <1>3, <1>4, <1>9, InsertOrdered DEF n
<1>12. Loose(lst', r)
  BY <1>1, <1>5, <1>10 DEF Loose
<1>13. Listed(lst', expire', live', r)
  BY <1>1, <1>4, <1>5, <1>9, <1>10, <1>11, <1>12 DEF Listed
<1>14. TimersType'
  <2>1. expire' \in [Timers -> Times] /\ live' \subseteq Timers
    BY <1>0, <1>9
  <2> QED
    BY <1>10, <2>1 DEF TimersType, Links
<1> QED
  BY <1>3, <1>4, <1>13, <1>14 DEF n

\* The neighbours of the timer behind the k-th of the others.
LEMMA Neighbours ==
  ASSUME NEW l \in Links, NEW q \in Seq(Timers), NEW t \in Timers, NEW k \in 0 .. Len(q),
         NEW r \in Seq(Timers), With(q, k, t, r), Distinct(r), Linked(l, r)
  PROVE  /\ l.next[t] = IF k = Len(q) THEN Null ELSE q[k + 1]
         /\ l.prev[t] = IF k = 0 THEN Null ELSE q[k]
         /\ t = l.head <=> k = 0
         /\ t = l.tail <=> k = Len(q)
         /\ k # 0 => q[k] \in Timers /\ q[k] # t /\ Occurs(q[k], r)
         /\ k # Len(q) => q[k + 1] \in Timers /\ q[k + 1] # t /\ Occurs(q[k + 1], r)
         /\ Occurs(t, r)
<1> DEFINE n == Len(q)
<1>0. /\ n \in Nat /\ k \in Nat /\ k <= n /\ Len(r) = n + 1 /\ r[k + 1] = t
      /\ (\A i \in 1 .. k : r[i] = q[i]) /\ (\A i \in k + 1 .. n : r[i + 1] = q[i])
      /\ (\A i, j \in 1 .. n + 1 : r[i] = r[j] => i = j)
      /\ (\A i \in 1 .. n : q[i] \in Timers)
  BY DEF With, Distinct
<1>1. /\ r # <<>> => l.head = r[1] /\ l.tail = r[Len(r)]
      /\ \A i \in 1 .. Len(r) : /\ l.next[r[i]] = IF i = Len(r) THEN Null ELSE r[i + 1]
                                /\ l.prev[r[i]] = IF i = 1 THEN Null ELSE r[i - 1]
  BY DEF Linked
<1> HIDE DEF n
<1>2. k + 1 \in 1 .. n + 1 /\ 1 \in 1 .. n + 1 /\ n + 1 \in 1 .. n + 1 /\ r # <<>> /\ (k + 1) - 1 = k
      /\ (k + 1 = n + 1 <=> k = n) /\ (k + 1 = 1 <=> k = 0)
  BY <1>0
<1>3. l.head = r[1] /\ l.tail = r[n + 1]
  BY <1>0, <1>1, <1>2
<1>4. (t = l.head <=> k = 0) /\ (t = l.tail <=> k = n)
  BY <1>0, <1>2, <1>3
<1>5. k # n => k + 1 \in k + 1 .. n /\ k + 1 \in 1 .. n /\ (k + 1) + 1 \in 1 .. n + 1 /\ (k + 1) + 1 # k + 1
  BY <1>0
<1>6. k # 0 => k \in 1 .. k /\ k \in 1 .. n /\ k \in 1 .. n + 1 /\ k # k + 1
  BY <1>0
<1>7. k # n => q[k + 1] = r[(k + 1) + 1] /\ q[k + 1] \in Timers /\ q[k + 1] # t
  BY <1>0, <1>2, <1>5
<1>8. k # 0 => q[k] = r[k] /\ q[k] \in Timers /\ q[k] # t
  BY <1>0, <1>2, <1>6
<1>9. l.next[r[k + 1]] = (IF k = n THEN Null ELSE q[k + 1]) /\ l.prev[r[k + 1]] = (IF k = 0 THEN Null ELSE q[k])
  BY <1>0, <1>1, <1>2, <1>7, <1>8
<1>10. (k # 0 => Occurs(q[k], r)) /\ (k # n => Occurs(q[k + 1], r)) /\ Occurs(t, r)
  BY <1>0, <1>2, <1>5, <1>6, <1>7, <1>8 DEF Occurs
<1> QED
  BY <1>0, <1>4, <1>7, <1>8, <1>9, <1>10 DEF n

\* del_timer, before delete.
LEMMA UnlinkedIs ==
  ASSUME NEW l \in Links, NEW q \in Seq(Timers), NEW t \in Timers, NEW k \in 0 .. Len(q),
         NEW r \in Seq(Timers), With(q, k, t, r), Distinct(r), Linked(l, r), NEW m, m = Unlinked(l, t)
  PROVE  /\ m \in Links /\ Linked(m, q)
         /\ \A u \in Timers : ~ Occurs(u, r) => m.next[u] = l.next[u] /\ m.prev[u] = l.prev[u]
<1> DEFINE n == Len(q)
           a == l.next[t]
           p == l.prev[t]
<1>1. /\ a = IF k = n THEN Null ELSE q[k + 1]
      /\ p = IF k = 0 THEN Null ELSE q[k]
      /\ t = l.head <=> k = 0
      /\ t = l.tail <=> k = n
      /\ k # 0 => q[k] \in Timers /\ q[k] # t /\ Occurs(q[k], r)
      /\ k # n => q[k + 1] \in Timers /\ q[k + 1] # t /\ Occurs(q[k + 1], r)
      /\ Occurs(t, r)
  BY Neighbours
<1>2. /\ k = 0 /\ k = n => m = [l EXCEPT !.head = Null, !.tail = Null]
      /\ k = 0 /\ k # n => m = [l EXCEPT !.head = a, !.prev[a] = Null]
      /\ k # 0 /\ k = n => m = [l EXCEPT !.tail = p, !.next[p] = Null]
      /\ k # 0 /\ k # n => m = [l EXCEPT !.next[p] = a, !.prev[a] = p]
  BY <1>1 DEF Unlinked
<1>3. n \in Nat /\ k \in Nat /\ (k = 0 => k + 1 = 1)
  OBVIOUS
<1>4. l.next \in [Timers -> Pointer] /\ l.prev \in [Timers -> Pointer] /\ Null \in Pointer /\ Timers \subseteq Pointer
  BY DEF Links, Pointer
<1>5. (k # n => a \in Timers /\ a = q[k + 1] /\ a # t /\ Occurs(a, r)) /\ (k # 0 => p \in Timers /\ p = q[k] /\ p # t /\ Occurs(p, r))
  BY <1>1
<1> HIDE DEF a, p, n
<1>6. /\ m \in Links
      /\ m.head = IF k # 0 THEN l.head ELSE IF n = 0 THEN Null ELSE a
      /\ n # 0 => m.tail = IF k = n THEN p ELSE l.tail
      /\ \A u \in Timers : m.next[u] = IF k # 0 /\ u = p THEN IF k = n THEN Null ELSE a ELSE l.next[u]
      /\ \A u \in Timers : m.prev[u] = IF k # n /\ u = a THEN IF k = 0 THEN Null ELSE p ELSE l.prev[u]
  <2>1. CASE k = 0 /\ k = n
    <3>1. m \in Links /\ m.head = Null /\ m.next = l.next /\ m.prev = l.prev
      BY <1>2, <1>4, <2>1 DEF Links
    <3> QED
      BY <2>1, <3>1
  <2>2. CASE k = 0 /\ k # n
    <3>1. m = [l EXCEPT !.head = a, !.prev[a] = Null] /\ a \in Timers /\ n # 0
      BY <1>2, <1>5, <2>2
    <3>2. m.head = a /\ m.tail = l.tail /\ m.next = l.next /\ m.prev = [l.prev EXCEPT ![a] = Null]
      BY <3>1 DEF Links
    <3>3. m.prev \in [Timers -> Pointer] /\ \A u \in Timers : m.prev[u] = IF u = a THEN Null ELSE l.prev[u]
      BY <1>4, <3>1, <3>2
    <3>4. m \in Links
      BY <1>4, <3>1, <3>3 DEF Links
    <3> QED
      BY <2>2, <3>1, <3>2, <3>3, <3>4
  <2>3. CASE k # 0 /\ k = n
    <3>1. m = [l EXCEPT !.tail = p, !.next[p] = Null] /\ p \in Timers
      BY <1>2, <1>5, <2>3
    <3>2. m.head = l.head /\ m.tail = p /\ m.next = [l.next EXCEPT ![p] = Null] /\ m.prev = l.prev
      BY <3>1 DEF Links
    <3>3. m.next \in [Timers -> Pointer] /\ \A u \in Timers : m.next[u] = IF u = p THEN Null ELSE l.next[u]
      BY <1>4, <3>1, <3>2
    <3>4. m \in Links
      BY <1>4, <3>1, <3>3 DEF Links
    <3> QED
      BY <2>3, <3>2, <3>3, <3>4
  <2>4. CASE k # 0 /\ k # n
    <3>1. m = [l EXCEPT !.next[p] = a, !.prev[a] = p] /\ p \in Timers /\ a \in Timers
      BY <1>2, <1>5, <2>4
    <3>2. /\ m.head = l.head /\ m.tail = l.tail
          /\ m.next = [l.next EXCEPT ![p] = a] /\ m.prev = [l.prev EXCEPT ![a] = p]
      BY <3>1 DEF Links
    <3>3. m.next \in [Timers -> Pointer] /\ \A u \in Timers : m.next[u] = IF u = p THEN a ELSE l.next[u]
      BY <1>4, <3>1, <3>2
    <3>4. m.prev \in [Timers -> Pointer] /\ \A u \in Timers : m.prev[u] = IF u = a THEN p ELSE l.prev[u]
      BY <1>4, <3>1, <3>2
    <3>5. m \in Links
      BY <1>4, <3>1, <3>3, <3>4 DEF Links
    <3> QED
      BY <2>4, <3>2, <3>3, <3>4, <3>5
  <2> QED
    BY <2>1, <2>2, <2>3, <2>4
<1>7. Linked(m, q)
  <2>1. m.head = IF k # 0 THEN l.head ELSE IF Len(q) = 0 THEN Null ELSE q[1]
    BY <1>3, <1>5, <1>6 DEF n
  <2>2. Len(q) # 0 => m.tail = IF k = Len(q) THEN q[k] ELSE l.tail
    BY <1>3, <1>5, <1>6 DEF n
  <2>3. \A u \in Timers : u # t => m.next[u] = IF k # 0 /\ u = q[k]
                                               THEN IF k = Len(q) THEN Null ELSE q[k + 1]
                                               ELSE l.next[u]
    BY <1>5, <1>6 DEF n
  <2>4. \A u \in Timers : u # t => m.prev[u] = IF k # Len(q) /\ u = q[k + 1]
                                               THEN IF k = 0 THEN Null ELSE q[k]
                                               ELSE l.prev[u]
    BY <1>5, <1>6 DEF n
  <2>5. m \in Links
    BY <1>6
  <2> QED
    BY <2>1, <2>2, <2>3, <2>4, <2>5, RemoveLinked
<1> QED
  BY <1>5, <1>6, <1>7

\* delete changes no link of the list.
LEMMA FreedLinked ==
  ASSUME NEW l \in Links, NEW q \in Seq(Timers), Linked(l, q), NEW S, \A u \in S : ~ Occurs(u, q),
         NEW m, m = Freed(l, S)
  PROVE  /\ m \in Links /\ Linked(m, q)
         /\ \A u \in Timers : /\ m.next[u] = IF u \in S THEN Null ELSE l.next[u]
                              /\ m.prev[u] = IF u \in S THEN Null ELSE l.prev[u]
<1>1. l.next \in [Timers -> Pointer] /\ l.prev \in [Timers -> Pointer] /\ Null \in Pointer
  BY DEF Links, Pointer
<1>2. /\ m.head = l.head /\ m.tail = l.tail
      /\ m.next = [t \in Timers |-> IF t \in S THEN Null ELSE l.next[t]]
      /\ m.prev = [t \in Timers |-> IF t \in S THEN Null ELSE l.prev[t]]
  BY DEF Freed, Links
<1>3. m.next \in [Timers -> Pointer] /\ m.prev \in [Timers -> Pointer]
  BY <1>1, <1>2
<1>4. m \in Links
  BY <1>2, <1>3 DEF Freed, Links
<1>5. \A u \in Timers : /\ m.next[u] = IF u \in S THEN Null ELSE l.next[u]
                        /\ m.prev[u] = IF u \in S THEN Null ELSE l.prev[u]
  BY <1>2
<1>6. ASSUME NEW i \in 1 .. Len(q) PROVE m.next[q[i]] = l.next[q[i]] /\ m.prev[q[i]] = l.prev[q[i]]
  <2>1. q[i] \in Timers /\ Occurs(q[i], q)
    BY DEF Occurs
  <2> QED
    BY <1>5, <2>1
<1>7. Linked(m, q)
  BY <1>2, <1>6 DEF Linked
<1> QED
  BY <1>4, <1>5, <1>7

\* del_timer
LEMMA DelStep ==
  ASSUME TimersType, NEW q, Listed(lst, expire, live, q), NEW t \in Timers, Del(t)
  PROVE  /\ TimersType'
         /\ \E i \in 1 .. Len(q) : q[i] = t /\ Listed(lst', expire', live', Sorted!RemoveAt(q, i))
<1> DEFINE n == Len(q)
<1>0. /\ lst \in Links /\ expire \in [Timers -> Nat] /\ expire \in [Timers -> Times] /\ live \subseteq Timers
      /\ Null \notin Timers
      /\ n \in Nat /\ \A i \in 1 .. n : q[i] \in Timers /\ q[i] # Null /\ expire[q[i]] \in Nat
  BY ListedType
<1>1. /\ q \in Seq(Timers) /\ Distinct(q) /\ Linked(lst, q) /\ Loose(lst, q) /\ InOrder(expire, q)
      /\ \A u \in Timers : u \in live <=> Occurs(u, q)
  BY ListedType
<1>2. t \in live /\ lst' = Freed(Unlinked(lst, t), {t}) /\ live' = live \ {t} /\ expire' = expire
  BY DEF Del
<1>3. PICK i \in 1 .. n : q[i] = t
  BY <1>1, <1>2 DEF Occurs
<1>4. PICK s \in Seq(Timers) : s = Sorted!RemoveAt(q, i) /\ With(s, i - 1, t, q)
  BY <1>1, <1>3, RemovedIs
<1>5. PICK k \in 0 .. Len(s) : k = i - 1 /\ With(s, k, t, q)
  <2>1. i - 1 \in 0 .. Len(s)
    BY <1>0, <1>4 DEF With
  <2> QED
    BY <1>4, <2>1
<1>6. (\A u : Occurs(u, q) <=> Occurs(u, s) \/ u = t) /\ Distinct(s) /\ ~ Occurs(t, s)
  BY <1>1, <1>4, <1>5, WithElements
<1>7. PICK m \in Links : /\ m = Unlinked(lst, t) /\ Linked(m, s)
                         /\ \A u \in Timers : ~ Occurs(u, q) => m.next[u] = lst.next[u] /\ m.prev[u] = lst.prev[u]
  <2>1. /\ lst \in Links /\ s \in Seq(Timers) /\ q \in Seq(Timers) /\ With(s, k, t, q) /\ Distinct(q) /\ Linked(lst, q)
        /\ k \in 0 .. Len(s)
    BY <1>0, <1>1, <1>4, <1>5
  <2>2. PICK m : m = Unlinked(lst, t)
    OBVIOUS
  <2>3. /\ m \in Links /\ Linked(m, s)
        /\ \A u \in Timers : ~ Occurs(u, q) => m.next[u] = lst.next[u] /\ m.prev[u] = lst.prev[u]
    BY <2>1, <2>2, UnlinkedIs
  <2> QED
    BY <2>2, <2>3
<1>8. /\ lst' \in Links /\ Linked(lst', s)
      /\ \A u \in Timers : /\ lst'.next[u] = IF u \in {t} THEN Null ELSE m.next[u]
                           /\ lst'.prev[u] = IF u \in {t} THEN Null ELSE m.prev[u]
  <2>1. \A u \in {t} : ~ Occurs(u, s)
    BY <1>6
  <2>2. PICK w : w = lst' /\ w = Freed(m, {t})
    BY <1>2, <1>7
  <2>3. /\ w \in Links /\ Linked(w, s)
        /\ \A u \in Timers : /\ w.next[u] = IF u \in {t} THEN Null ELSE m.next[u]
                             /\ w.prev[u] = IF u \in {t} THEN Null ELSE m.prev[u]
    BY <1>4, <1>7, <2>1, <2>2, FreedLinked
  <2> QED
    BY <2>2, <2>3
<1>9. Loose(lst', s)
  <2> SUFFICES ASSUME NEW u \in Timers, ~ Occurs(u, s) PROVE lst'.next[u] = Null /\ lst'.prev[u] = Null
    BY DEF Loose
  <2>1. CASE u = t
    BY <1>8, <2>1
  <2>2. CASE u # t
    <3>1. ~ Occurs(u, q)
      BY <1>6, <2>2
    <3>2. lst.next[u] = Null /\ lst.prev[u] = Null
      BY <1>1, <3>1 DEF Loose
    <3> QED
      BY <1>7, <1>8, <2>2, <3>1, <3>2
  <2> QED
    BY <2>1, <2>2
<1>10. InOrder(expire', s)
  BY <1>1, <1>2, <1>4, <1>5, RemoveOrdered
<1>11. \A u \in Timers : u \in live' <=> Occurs(u, s)
  BY <1>1, <1>2, <1>6
<1>12. Listed(lst', expire', live', s)
  BY <1>4, <1>6, <1>8, <1>9, <1>10, <1>11 DEF Listed
<1>13. TimersType'
  <2>1. expire' \in [Timers -> Times] /\ live' \subseteq Timers
    BY <1>0, <1>2
  <2> QED
    BY <1>8, <2>1 DEF TimersType, Links
<1> QED
  BY <1>3, <1>4, <1>12, <1>13

\* adjust_timer of a timer that is postponed
LEMMA AdjustStep ==
  ASSUME TimersType, NEW q, Listed(lst, expire, live, q), NEW t \in Timers, NEW e \in Times, Adjust(t, e)
  PROVE  /\ TimersType'
         /\ \E i \in 1 .. Len(q) : \E k \in 0 .. Len(Sorted!RemoveAt(q, i)) :
              /\ q[i] = t /\ Sorted!Divides(Sorted!RemoveAt(q, i), k, e)
              /\ Listed(lst', expire', live', Sorted!InsertAt(Sorted!RemoveAt(q, i), k + 1, t))
<1> DEFINE n == Len(q)
<1>0. /\ lst \in Links /\ expire \in [Timers -> Nat] /\ expire \in [Timers -> Times] /\ live \subseteq Timers
      /\ Null \notin Timers /\ e \in Nat
      /\ lst.next \in [Timers -> Pointer] /\ lst.prev \in [Timers -> Pointer]
      /\ n \in Nat /\ \A i \in 1 .. n : q[i] \in Timers /\ q[i] # Null /\ expire[q[i]] \in Nat
  BY ListedType
<1>1. /\ q \in Seq(Timers) /\ Distinct(q) /\ Linked(lst, q) /\ Loose(lst, q) /\ InOrder(expire, q)
      /\ \A u \in Timers : u \in live <=> Occurs(u, q)
  BY ListedType
<1>2. /\ t \in live /\ e >= expire[t] /\ expire' = [expire EXCEPT ![t] = e] /\ live' = live
  BY DEF Adjust
<1>3. PICK i \in 1 .. n : q[i] = t
  BY <1>1, <1>2 DEF Occurs
<1>4. PICK s \in Seq(Timers) : s = Sorted!RemoveAt(q, i) /\ With(s, i - 1, t, q)
  BY <1>1, <1>3, RemovedIs
<1>5. PICK j \in 0 .. Len(s) : j = i - 1 /\ With(s, j, t, q)
  <2>1. i - 1 \in 0 .. Len(s)
    BY <1>0, <1>4 DEF With
  <2> QED
    BY <1>4, <2>1
<1>6. (\A u : Occurs(u, q) <=> Occurs(u, s) \/ u = t) /\ Distinct(s) /\ ~ Occurs(t, s)
  BY <1>1, <1>4, <1>5, WithElements
<1>7. InOrder(expire, s)
  BY <1>1, <1>4, <1>5, RemoveOrdered
<1>8. PICK k \in 0 .. Len(s) : Sorted!Divides(s, k, e)
  BY <1>0, <1>4, <1>7, Divided
<1>9. PICK r \in Seq(Timers) : r = Sorted!InsertAt(s, k + 1, t) /\ With(s, k, t, r)
  BY <1>4, InsertedIs
<1>10. (\A u : Occurs(u, r) <=> Occurs(u, s) \/ u = t) /\ Distinct(r)
  BY <1>4, <1>6, <1>9, WithElements
<1> DEFINE a == lst.next[t]
           p == lst.prev[t]
<1>11. /\ a = IF j = Len(s) THEN Null ELSE s[j + 1]
       /\ p = IF j = 0 THEN Null ELSE s[j]
       /\ t = lst.head <=> j = 0
       /\ j # 0 => s[j] \in Timers /\ s[j] # t /\ Occurs(s[j], q)
       /\ j # Len(s) => s[j + 1] \in Timers /\ s[j + 1] # t /\ Occurs(s[j + 1], q)
  <2>1. /\ lst \in Links /\ s \in Seq(Timers) /\ j \in 0 .. Len(s) /\ q \in Seq(Timers) /\ With(s, j, t, q)
        /\ Distinct(q) /\ Linked(lst, q)
    BY <1>0, <1>1, <1>4, <1>5
  <2>2. PICK l \in Links : l = lst
    BY <2>1
  <2>3. /\ l.next[t] = IF j = Len(s) THEN Null ELSE s[j + 1]
        /\ l.prev[t] = IF j = 0 THEN Null ELSE s[j]
        /\ t = l.head <=> j = 0
        /\ j # 0 => s[j] \in Timers /\ s[j] # t /\ Occurs(s[j], q)
        /\ j # Len(s) => s[j + 1] \in Timers /\ s[j + 1] # t /\ Occurs(s[j + 1], q)
    BY <2>1, <2>2, Neighbours
  <2> QED
    BY <2>2, <2>3
<1>12. /\ (j # Len(s) => a \in Timers /\ a = s[j + 1] /\ a # t /\ Occurs(a, q)) /\ (j = Len(s) <=> a = Null)
       /\ (j # 0 => p \in Timers /\ p = s[j] /\ p # t /\ Occurs(p, q))
       /\ Len(s) \in Nat /\ Len(q) = Len(s) + 1
  <2>1. Len(s) \in Nat /\ Len(q) = Len(s) + 1
    BY <1>4, <1>5 DEF With
  <2>2. (j # Len(s) => a \in Timers /\ a = s[j + 1] /\ a # t /\ Occurs(a, q)) /\ (j = Len(s) => a = Null)
    BY <1>11, Zenon
  <2>3. j # 0 => p \in Timers /\ p = s[j] /\ p # t /\ Occurs(p, q)
    BY <1>11, Zenon
  <2>4. j # Len(s) => a # Null
    BY <1>0, <2>2, Zenon
  <2> QED
    BY <2>1, <2>2, <2>3, <2>4, Zenon
<1>13. /\ a = Null \/ e < expire[a] => lst' = lst
       /\ ~ (a = Null \/ e < expire[a]) /\ j = 0 =>
            lst' = InsertFrom([lst EXCEPT !.head = a, !.prev[a] = Null, !.next[t] = Null], t, e, a)
       /\ ~ (a = Null \/ e < expire[a]) /\ j # 0 =>
            lst' = InsertFrom([lst EXCEPT !.next[p] = a, !.prev[a] = p], t, e, a)
  BY <1>11 DEF Adjust
<1>14. \A m \in 1 .. Len(s) : expire[s[m]] <= e <=> m <= k
  BY <1>8 DEF Sorted!Divides
<1> HIDE DEF a, p
<1>15. /\ lst' \in Links /\ Linked(lst', r)
       /\ \A u \in Timers : ~ Occurs(u, r) => lst'.next[u] = lst.next[u] /\ lst'.prev[u] = lst.prev[u]
  <2>1. CASE a = Null \/ e < expire[a]
    <3>1. j = k
      <4>1. \A m \in 1 .. n : \A w \in 1 .. n : m <= w => expire[q[m]] <= expire[q[w]]
        BY <1>1 DEF InOrder
      <4>2. ASSUME NEW m \in 1 .. j PROVE expire[s[m]] <= e /\ m \in 1 .. Len(s)
        <5>1. m \in 1 .. n /\ m <= i /\ m \in 1 .. Len(s) /\ q[m] = s[m]
          BY <1>3, <1>5, <1>12 DEF With
        <5>2. expire[q[m]] <= expire[q[i]]
          BY <4>1, <5>1
        <5> QED
          BY <1>0, <1>2, <1>3, <5>1, <5>2
      <4>3. j <= k
        <5>1. j # 0 => j \in 1 .. j
          BY <1>5
        <5> QED
          BY <1>14, <4>2, <5>1
      <4>4. j # Len(s) => ~ (j + 1 <= k)
        <5> SUFFICES ASSUME j # Len(s) PROVE ~ (j + 1 <= k)
          OBVIOUS
        <5>1. j + 1 \in 1 .. Len(s) /\ a = s[j + 1] /\ a \in Timers /\ e < expire[a] /\ expire[a] \in Nat
          BY <1>0, <1>12, <2>1
        <5> QED
          BY <1>0, <1>14, <5>1
      <4> QED
        BY <1>12, <4>3, <4>4
    <3>2. r = q
      BY <1>1, <1>4, <1>5, <1>9, <3>1, WithUnique
    <3> QED
      BY <1>0, <1>1, <1>13, <2>1, <3>2
  <2>2. CASE ~ (a = Null \/ e < expire[a])
    <3>1. j # Len(s) /\ a \in Timers /\ a = s[j + 1] /\ a # t /\ Occurs(a, q) /\ j + 1 \in 1 .. Len(s) /\ Len(s) # 0
      BY <1>12, <2>2
    <3>2. k \in 1 .. Len(s) /\ j + 1 \in 1 .. k
      <4>1. expire[s[j + 1]] <= e
        BY <1>0, <2>2, <3>1
      <4> QED
        BY <1>14, <3>1, <4>1
    <3>3. PICK l \in Links :
            /\ lst' = InsertFrom(l, t, e, a)
            /\ l.head = (IF j # 0 THEN lst.head ELSE a)
            /\ l.tail = lst.tail
            /\ \A u \in Timers : u # t => l.next[u] = IF j # 0 /\ u = p THEN a ELSE lst.next[u]
            /\ \A u \in Timers : u # t => l.prev[u] = IF u = a THEN IF j = 0 THEN Null ELSE p ELSE lst.prev[u]
            /\ l.next[t] \in {a, Null}
      <4>1. CASE j = 0
        <5>1. PICK l : l = [lst EXCEPT !.head = a, !.prev[a] = Null, !.next[t] = Null]
          OBVIOUS
        <5>2. /\ l.head = a /\ l.tail = lst.tail
              /\ l.next = [lst.next EXCEPT ![t] = Null] /\ l.prev = [lst.prev EXCEPT ![a] = Null]
          BY <1>0, <5>1 DEF Links
        <5>3. l.next \in [Timers -> Pointer] /\ l.prev \in [Timers -> Pointer] /\ a \in Pointer
          BY <1>0, <3>1, <5>2 DEF Pointer
        <5>4. l \in Links
          BY <1>0, <5>1, <5>3 DEF Links
        <5>5. l.next[t] = Null /\ \A u \in Timers : u # t => l.next[u] = lst.next[u]
          BY <1>0, <5>2
        <5>6. \A u \in Timers : l.prev[u] = IF u = a THEN Null ELSE lst.prev[u]
          BY <1>0, <3>1, <5>2
        <5>7. lst' = InsertFrom(l, t, e, a)
          BY <1>13, <2>2, <4>1, <5>1
        <5> QED
          BY <4>1, <5>2, <5>4, <5>5, <5>6, <5>7
      <4>2. CASE j # 0
        <5>0. p \in Timers /\ p # t
          BY <1>12, <4>2
        <5>1. PICK l : l = [lst EXCEPT !.next[p] = a, !.prev[a] = p]
          OBVIOUS
        <5>2. /\ l.head = lst.head /\ l.tail = lst.tail
              /\ l.next = [lst.next EXCEPT ![p] = a] /\ l.prev = [lst.prev EXCEPT ![a] = p]
          BY <1>0, <5>1 DEF Links
        <5>3. l.next \in [Timers -> Pointer] /\ l.prev \in [Timers -> Pointer]
          BY <1>0, <3>1, <5>0, <5>2 DEF Pointer
        <5>4. l \in Links
          BY <1>0, <5>1, <5>3 DEF Links
        <5>5. \A u \in Timers : l.next[u] = IF u = p THEN a ELSE lst.next[u]
          BY <1>0, <5>0, <5>2
        <5>6. \A u \in Timers : l.prev[u] = IF u = a THEN p ELSE lst.prev[u]
          BY <1>0, <3>1, <5>2
        <5>7. l.next[t] = a
          BY <5>0, <5>5 DEF a
        <5>8. lst' = InsertFrom(l, t, e, a)
          BY <1>13, <2>2, <4>2, <5>1
        <5> QED
          BY <4>2, <5>2, <5>4, <5>5, <5>6, <5>7, <5>8
      <4> QED
        BY <4>1, <4>2
    <3>4. Linked(l, s)
      <4>1. l.head = IF j # 0 THEN lst.head ELSE IF Len(s) = 0 THEN Null ELSE s[1]
        BY <3>1, <3>3
      <4>2. Len(s) # 0 => l.tail = IF j = Len(s) THEN s[j] ELSE lst.tail
        BY <3>1, <3>3
      <4>3. \A u \in Timers : u # t => l.next[u] = IF j # 0 /\ u = s[j]
                                                   THEN IF j = Len(s) THEN Null ELSE s[j + 1]
                                                   ELSE lst.next[u]
        BY <1>12, <3>1, <3>3
      <4>4. \A u \in Timers : u # t => l.prev[u] = IF j # Len(s) /\ u = s[j + 1]
                                                   THEN IF j = 0 THEN Null ELSE s[j]
                                                   ELSE lst.prev[u]
        BY <1>12, <3>1, <3>3
      <4>5. /\ lst \in Links /\ s \in Seq(Timers) /\ j \in 0 .. Len(s) /\ q \in Seq(Timers) /\ With(s, j, t, q)
            /\ Distinct(q) /\ Linked(lst, q)
        BY <1>0, <1>1, <1>4, <1>5
      <4> QED
        BY <4>1, <4>2, <4>3, <4>4, <4>5, RemoveLinked
    <3>5. LeadsIn(l, s)
      <4> SUFFICES ASSUME NEW u \in Timers, ~ Occurs(u, s) PROVE l.next[u] = Null \/ Occurs(l.next[u], s)
        BY DEF LeadsIn
      <4>1. CASE u = t
        BY <1>6, <3>1, <3>3, <4>1
      <4>2. CASE u # t
        <5>1. ~ Occurs(u, q) /\ lst.next[u] = Null /\ (j # 0 => u # p)
          BY <1>1, <1>6, <1>12, <4>2 DEF Loose
        <5> QED
          BY <3>3, <4>2, <5>1
      <4> QED
        BY <4>1, <4>2
    <3>6. /\ lst' \in Links /\ Linked(lst', r)
          /\ \A u \in Timers : ~ Occurs(u, r) => lst'.next[u] = l.next[u] /\ lst'.prev[u] = l.prev[u]
      <4>1. /\ expire \in [Timers -> Nat] /\ s \in Seq(Timers) /\ Distinct(s) /\ Linked(l, s)
            /\ ~ Occurs(t, s) /\ e \in Nat /\ Sorted!Divides(s, k, e) /\ r \in Seq(Timers) /\ With(s, k, t, r)
        BY <1>0, <1>4, <1>6, <1>8, <1>9, <3>4
      <4>2. PICK m : m = lst' /\ m = InsertFrom(l, t, e, s[j + 1])
        BY <3>1, <3>3
      <4>3. /\ m \in Links /\ Linked(m, r)
            /\ \A u \in Timers : ~ Occurs(u, r) => m.next[u] = l.next[u] /\ m.prev[u] = l.prev[u]
        <5>1. PICK w \in 1 .. k : w = j + 1 /\ m = InsertFrom(l, t, e, s[w])
          BY <3>2, <4>2
        <5>2. k \in 1 .. Len(s) /\ LeadsIn(l, s)
          BY <3>2, <3>5
        <5> QED
          BY <4>1, <5>1, <5>2, InsertFromIs, SMTT(30)
      <4> QED
        BY <4>2, <4>3
    <3>7. ASSUME NEW u \in Timers, ~ Occurs(u, r)
          PROVE  l.next[u] = lst.next[u] /\ l.prev[u] = lst.prev[u]
      <4>1. u # t /\ u # a /\ (j # 0 => u # p)
        BY <1>6, <1>10, <1>12, <3>1, <3>7
      <4> QED
        BY <3>3, <4>1
    <3> QED
      BY <3>6, <3>7
  <2> QED
    BY <2>1, <2>2
<1>16. InOrder(expire', r)
  BY <1>0, <1>2, <1>4, <1>6, <1>7, <1>8, <1>9, InsertOrdered
<1>17. Loose(lst', r) /\ \A u \in Timers : u \in live' <=> Occurs(u, r)
  BY <1>1, <1>2, <1>6, <1>10, <1>15 DEF Loose
<1>18. Listed(lst', expire', live', r)
  BY <1>9, <1>10, <1>15, <1>16, <1>17 DEF Listed
<1>19. TimersType'
  <2>1. expire' \in [Timers -> Times] /\ live' \subseteq Timers
    BY <1>0, <1>2
  <2> QED
    BY <1>15, <2>1 DEF TimersType, Links
<1> QED
  BY <1>3, <1>4, <1>8, <1>9, <1>18, <1>19

\* tick
LEMMA TickStep ==
  ASSUME TimersType, NEW q, Listed(lst, expire, live, q), NEW now \in Times, Tick(now)
  PROVE  /\ TimersType'
         /\ \E k \in 0 .. Len(q) : /\ Sorted!Divides(q, k, now)
                                   /\ Listed(lst', expire', live', SubSeq(q, k + 1, Len(q)))
<1> DEFINE n == Len(q)
<1>0. /\ lst \in Links /\ expire \in [Timers -> Nat] /\ expire \in [Timers -> Times] /\ live \subseteq Timers
      /\ Null \notin Timers /\ now \in Nat
      /\ lst.next \in [Timers -> Pointer] /\ lst.prev \in [Timers -> Pointer]
      /\ n \in Nat /\ \A i \in 1 .. n : q[i] \in Timers /\ q[i] # Null /\ expire[q[i]] \in Nat
  BY ListedType
<1>1. /\ q \in Seq(Timers) /\ Distinct(q) /\ Linked(lst, q) /\ Loose(lst, q) /\ InOrder(expire, q)
      /\ \A u \in Timers : u \in live <=> Occurs(u, q)
  BY ListedType
<1>2. PICK k \in 0 .. n : Sorted!Divides(q, k, now)
  BY <1>0, <1>1, Divided
<1> DEFINE h == IF k = n THEN Null ELSE q[k + 1]
           S == {q[j] : j \in 1 .. k}
           m == IF h = Null THEN [lst EXCEPT !.head = Null] ELSE [lst EXCEPT !.head = h, !.prev[h] = Null]
<1>3. FirstPending(now) = h
  BY <1>0, <1>1, <1>2, FirstPendingIs
<1>4. Before(h) = S
  BY <1>0, <1>1, <1>2, BeforeIs
<1>5. lst' = Freed(m, S) /\ live' = live \ S /\ expire' = expire
  <2>1. /\ lst' = LET g == FirstPending(now)
                  IN  Freed(IF g = Null THEN [lst EXCEPT !.head = Null]
                            ELSE [lst EXCEPT !.head = g, !.prev[g] = Null],
                            Before(g))
        /\ live' = live \ Before(FirstPending(now)) /\ expire' = expire
    BY DEF Tick
  <2> HIDE DEF h, S
  <2> QED
    BY <1>3, <1>4, <2>1
<1>6. PICK r \in Seq(Timers) : /\ r = SubSeq(q, k + 1, n) /\ Len(r) = n - k
                               /\ \A j \in 1 .. n - k : r[j] = q[k + j]
  <2> DEFINE s == SubSeq(q, k + 1, Len(q))
  <2>1. s \in Seq(Timers) /\ Len(s) = Len(q) - k /\ \A j \in 1 .. Len(q) - k : s[j] = q[k + j]
    BY <1>1, DroppedIs
  <2>2. s = SubSeq(q, k + 1, n)
    OBVIOUS
  <2> HIDE DEF s
  <2> QED
    BY <2>1, <2>2
<1>7. (k = n <=> h = Null) /\ (k # n => h \in Timers /\ h = q[k + 1] /\ Occurs(h, q))
  <2>1. k # n => k + 1 \in 1 .. n
    BY <1>0
  <2> QED
    BY <1>0, <2>1 DEF Occurs
<1>8. \A j \in k + 1 .. n : j \in 1 .. n /\ (q[j] = h <=> j = k + 1)
  <2>1. ASSUME NEW j \in k + 1 .. n PROVE j \in 1 .. n /\ k + 1 \in 1 .. n /\ k # n
    BY <1>0
  <2> QED
    BY <1>1, <2>1 DEF Distinct
<1>9. \A u \in S : Occurs(u, q) /\ \A j \in k + 1 .. n : q[j] # u
  <2>1. ASSUME NEW i \in 1 .. k PROVE Occurs(q[i], q) /\ \A j \in k + 1 .. n : q[j] # q[i]
    <3>1. i \in 1 .. n /\ \A j \in k + 1 .. n : j \in 1 .. n /\ i # j
      BY <1>0
    <3> QED
      BY <1>1, <3>1 DEF Distinct, Occurs
  <2> QED
    BY <2>1
<1>10. \A u : Occurs(u, q) => u \in S \/ \E j \in k + 1 .. n : q[j] = u
  <2>1. \A i \in 1 .. n : i \in 1 .. k \/ i \in k + 1 .. n
    BY <1>0
  <2> QED
    BY <2>1 DEF Occurs
<1>11. m = IF k = n THEN [lst EXCEPT !.head = Null] ELSE [lst EXCEPT !.head = h, !.prev[h] = Null]
  BY <1>7
<1> HIDE DEF h, S, m, n
<1>12. /\ m \in Links /\ m.head = h /\ m.tail = lst.tail /\ m.next = lst.next
       /\ \A u \in Timers : m.prev[u] = IF u = h THEN Null ELSE lst.prev[u]
  <2>1. CASE k = n
    <3>1. m = [lst EXCEPT !.head = Null] /\ Null \in Pointer
      BY <1>11, <2>1 DEF Pointer
    <3>2. m \in Links /\ m.head = Null /\ m.tail = lst.tail /\ m.next = lst.next /\ m.prev = lst.prev
      BY <1>0, <3>1 DEF Links
    <3> QED
      BY <1>0, <1>7, <2>1, <3>2
  <2>2. CASE k # n
    <3>1. m = [lst EXCEPT !.head = h, !.prev[h] = Null] /\ h \in Timers /\ h \in Pointer /\ Null \in Pointer
      BY <1>7, <1>11, <2>2 DEF Pointer
    <3>2. m.head = h /\ m.tail = lst.tail /\ m.next = lst.next /\ m.prev = [lst.prev EXCEPT ![h] = Null]
      BY <1>0, <3>1 DEF Links
    <3>3. m.prev \in [Timers -> Pointer] /\ \A u \in Timers : m.prev[u] = IF u = h THEN Null ELSE lst.prev[u]
      BY <1>0, <3>1, <3>2
    <3>4. m \in Links
      BY <1>0, <3>1, <3>3 DEF Links
    <3> QED
      BY <3>2, <3>3, <3>4
  <2> QED
    BY <2>1, <2>2
<1>13. Distinct(r) /\ Linked(m, r) /\ \A u : Occurs(u, r) <=> \E j \in k + 1 .. n : q[j] = u
  <2>1. /\ m.head = (IF k = Len(q) THEN Null ELSE q[k + 1])
        /\ m.tail = lst.tail
        /\ \A j \in k + 1 .. Len(q) : m.next[q[j]] = lst.next[q[j]]
    BY <1>7, <1>12 DEF n
  <2>2. \A j \in k + 1 .. Len(q) : m.prev[q[j]] = IF j = k + 1 THEN Null ELSE lst.prev[q[j]]
    BY <1>0, <1>8, <1>12 DEF n
  <2>3. /\ lst \in Links /\ q \in Seq(Timers) /\ Distinct(q) /\ Linked(lst, q) /\ k \in 0 .. Len(q) /\ m \in Links
        /\ r \in Seq(Timers) /\ Len(r) = Len(q) - k /\ \A j \in 1 .. Len(q) - k : r[j] = q[k + j]
    BY <1>0, <1>1, <1>6, <1>12 DEF n
  <2>4. Distinct(r) /\ Linked(m, r) /\ \A u : Occurs(u, r) <=> \E j \in k + 1 .. Len(q) : q[j] = u
    BY <2>1, <2>2, <2>3, DropLinked, ZenonT(40)
  <2> QED
    BY <2>4 DEF n
<1>14. /\ lst' \in Links /\ Linked(lst', r)
       /\ \A u \in Timers : /\ lst'.next[u] = IF u \in S THEN Null ELSE m.next[u]
                            /\ lst'.prev[u] = IF u \in S THEN Null ELSE m.prev[u]
  <2>1. \A u \in S : ~ Occurs(u, r)
    BY <1>9, <1>13
  <2>2. PICK w : w = lst' /\ w = Freed(m, S)
    BY <1>5
  <2>3. /\ w \in Links /\ Linked(w, r)
        /\ \A u \in Timers : /\ w.next[u] = IF u \in S THEN Null ELSE m.next[u]
                             /\ w.prev[u] = IF u \in S THEN Null ELSE m.prev[u]
    <3>1. m \in Links /\ r \in Seq(Timers) /\ Linked(m, r) /\ (\A u \in S : ~ Occurs(u, r)) /\ w = Freed(m, S)
      BY <1>6, <1>12, <1>13, <2>1, <2>2
    <3> QED
      BY <3>1, FreedLinked
  <2> QED
    BY <2>2, <2>3
<1>15. Loose(lst', r)
  <2> SUFFICES ASSUME NEW u \in Timers, ~ Occurs(u, r) PROVE lst'.next[u] = Null /\ lst'.prev[u] = Null
    BY DEF Loose
  <2>1. CASE u \in S
    BY <1>14, <2>1
  <2>2. CASE u \notin S
    <3>1. ~ Occurs(u, q)
      BY <1>10, <1>13, <2>2
    <3>2. lst.next[u] = Null /\ lst.prev[u] = Null
      BY <1>1, <3>1 DEF Loose
    <3> QED
      BY <1>12, <1>14, <2>2, <3>2
  <2> QED
    BY <2>1, <2>2
<1>16. InOrder(expire', r)
  BY <1>1, <1>5, <1>6, DropOrdered DEF n
<1>17. \A u \in Timers : u \in live' <=> Occurs(u, r)
  <2>1. ASSUME NEW u \in Timers PROVE Occurs(u, r) <=> Occurs(u, q) /\ u \notin S
    <3>1. \A j \in k + 1 .. n : Occurs(q[j], q)
      BY <1>8 DEF Occurs, n
    <3> QED
      BY <1>9, <1>10, <1>13, <3>1
  <2> QED
    BY <1>1, <1>5, <2>1
<1>18. Listed(lst', expire', live', r)
  BY <1>6, <1>13, <1>14, <1>15, <1>16, <1>17 DEF Listed
<1>19. TimersType'
  <2>1. expire' \in [Timers -> Times] /\ live' \subseteq Timers
    BY <1>0, <1>5
  <2> QED
    BY <1>14, <2>1 DEF TimersType, Links
<1> QED
  BY <1>2, <1>6, <1>18, <1>19 DEF n
-----------------------------------------------------------------------------
(* The inductive invariant: the list read from head is the list that the      *)
(* links, the expiries and the allocation describe.                           *)

TimersInv == TimersType /\ Listed(lst, expire, live, Forward)

LEMMA ListedForward ==
  ASSUME NEW l \in Links, NEW x, NEW S, NEW q, Listed(l, x, S, q)
  PROVE  ForwardFrom(l) = q
BY ForwardIs DEF Listed

LEMMA TimersStart ==
  ASSUME TimersInit
  PROVE  TimersInv /\ Sorted!SortedInit
<1>1. PICK q \in Seq(Timers) : q = <<>> /\ Len(q) = 0
  <2>1. <<>> \in Seq(Timers) /\ Len(<<>>) = 0
    OBVIOUS
  <2> QED
    BY <2>1, Zenon
<1>2. /\ lst = [head |-> Null, tail |-> Null, prev |-> NoLinks, next |-> NoLinks]
      /\ NoLinks \in [Timers -> Pointer] /\ Null \in Pointer /\ \A t \in Timers : NoLinks[t] = Null
  BY DEF TimersInit, NoLinks, Pointer
<1>3. lst \in Links /\ lst.head = Null /\ \A t \in Timers : lst.next[t] = Null /\ lst.prev[t] = Null
  BY <1>2 DEF Links
<1>4. TimersType
  BY <1>3 DEF TimersInit, TimersType, Links
<1>5. Distinct(q) /\ InOrder(expire, q) /\ \A u : ~ Occurs(u, q)
  BY <1>1 DEF Distinct, InOrder, Occurs
<1>6. Linked(lst, q) /\ Loose(lst, q)
  BY <1>1, <1>3 DEF Linked, Loose
<1>7. Listed(lst, expire, live, q)
  BY <1>1, <1>5, <1>6 DEF TimersInit, Listed
<1>8. Forward = q
  BY <1>3, <1>7, ListedForward DEF Forward
<1> QED
  BY <1>1, <1>4, <1>7, <1>8 DEF TimersInv, TimersInit, Sorted!SortedInit

\* A step of the list is the step of the sorted list.
LEMMA TimersStep ==
  ASSUME TimersInv, TimersNext
  PROVE  TimersInv' /\ Sorted!SortedNext
<1> DEFINE q == Forward
<1>0. TimersType /\ Listed(lst, expire, live, q) /\ q \in Seq(Timers)
  BY DEF TimersInv, Listed
<1>1. ASSUME TimersType', NEW r, Listed(lst', expire', live', r) PROVE TimersInv' /\ Forward' = r
  <2>1. lst' \in Links
    BY <1>1 DEF TimersType, Links
  <2>2. PICK l \in Links : l = lst'
    BY <2>1
  <2>3. ForwardFrom(l) = r
    BY <1>1, <2>2, ListedForward
  <2>4. Forward' = r
    BY <2>2, <2>3 DEF Forward
  <2> QED
    BY <1>1, <2>4 DEF TimersInv
<1> HIDE DEF q
<1>2. ASSUME NEW t \in Timers, NEW e \in Times, Add(t, e) PROVE TimersInv' /\ Sorted!Insert(t, e)
  <2>1. TimersType' /\ \E k \in 0 .. Len(q) : /\ Sorted!Divides(q, k, e)
                                              /\ Listed(lst', expire', live', Sorted!InsertAt(q, k + 1, t))
    BY <1>0, <1>2, AddStep
  <2>2. PICK k \in 0 .. Len(q) : /\ Sorted!Divides(q, k, e)
                                 /\ Listed(lst', expire', live', Sorted!InsertAt(q, k + 1, t))
    BY <2>1
  <2>3. TimersInv' /\ Forward' = Sorted!InsertAt(q, k + 1, t)
    BY <1>1, <2>1, <2>2
  <2>4. \A i \in 1 .. Len(q) : q[i] # t
    BY <1>0, <1>2 DEF Add, Listed, Occurs
  <2>5. expire' = [expire EXCEPT ![t] = e]
    BY <1>2 DEF Add
  <2> QED
    BY <2>2, <2>3, <2>4, <2>5 DEF Sorted!Insert, Sorted!Place, q
<1>3. ASSUME NEW t \in Timers, NEW e \in Times, Adjust(t, e) PROVE TimersInv' /\ Sorted!Postpone(t, e)
  <2>1. /\ TimersType'
        /\ \E i \in 1 .. Len(q) : \E k \in 0 .. Len(Sorted!RemoveAt(q, i)) :
             /\ q[i] = t /\ Sorted!Divides(Sorted!RemoveAt(q, i), k, e)
             /\ Listed(lst', expire', live', Sorted!InsertAt(Sorted!RemoveAt(q, i), k + 1, t))
    BY <1>0, <1>3, AdjustStep
  <2>a. PICK i \in 1 .. Len(q) : \E k \in 0 .. Len(Sorted!RemoveAt(q, i)) :
             /\ q[i] = t /\ Sorted!Divides(Sorted!RemoveAt(q, i), k, e)
             /\ Listed(lst', expire', live', Sorted!InsertAt(Sorted!RemoveAt(q, i), k + 1, t))
    BY <2>1
  <2>2. PICK k \in 0 .. Len(Sorted!RemoveAt(q, i)) :
             /\ q[i] = t /\ Sorted!Divides(Sorted!RemoveAt(q, i), k, e)
             /\ Listed(lst', expire', live', Sorted!InsertAt(Sorted!RemoveAt(q, i), k + 1, t))
    BY <2>a
  <2>3. TimersInv' /\ Forward' = Sorted!InsertAt(Sorted!RemoveAt(q, i), k + 1, t)
    BY <1>1, <2>1, <2>2
  <2>4. e >= expire[t] /\ expire' = [expire EXCEPT ![t] = e]
    BY <1>3 DEF Adjust
  <2> QED
    BY <2>2, <2>3, <2>4 DEF Sorted!Postpone, Sorted!Place, q
<1>4. ASSUME NEW t \in Timers, Del(t) PROVE TimersInv' /\ Sorted!Delete(t)
  <2>1. TimersType' /\ \E i \in 1 .. Len(q) : q[i] = t /\ Listed(lst', expire', live', Sorted!RemoveAt(q, i))
    BY <1>0, <1>4, DelStep
  <2>2. PICK i \in 1 .. Len(q) : q[i] = t /\ Listed(lst', expire', live', Sorted!RemoveAt(q, i))
    BY <2>1
  <2>3. TimersInv' /\ Forward' = Sorted!RemoveAt(q, i)
    BY <1>1, <2>1, <2>2
  <2> QED
    BY <1>4, <2>2, <2>3 DEF Sorted!Delete, Del, q
<1>5. ASSUME NEW now \in Times, Tick(now) PROVE TimersInv' /\ Sorted!Expire(now)
  <2>1. TimersType' /\ \E k \in 0 .. Len(q) : /\ Sorted!Divides(q, k, now)
                                              /\ Listed(lst', expire', live', SubSeq(q, k + 1, Len(q)))
    BY <1>0, <1>5, TickStep
  <2>2. PICK k \in 0 .. Len(q) : Sorted!Divides(q, k, now) /\ Listed(lst', expire', live', SubSeq(q, k + 1, Len(q)))
    BY <2>1
  <2>3. TimersInv' /\ Forward' = SubSeq(q, k + 1, Len(q))
    BY <1>1, <2>1, <2>2
  <2> QED
    BY <1>5, <2>2, <2>3 DEF Sorted!Expire, Tick, q
<1> QED
  BY <1>2, <1>3, <1>4, <1>5 DEF TimersNext, Sorted!SortedNext

\* The list is well linked in every such state: its timers are counted by their
\* positions, which are as many as the allocated timers.
LEMMA TimersInvLinked ==
  ASSUME TimersInv
  PROVE  WellLinked
<1> DEFINE q == Forward
           n == Len(q)
           at == [i \in 1 .. n |-> q[i]]
<1>1. /\ TimersType /\ q \in Seq(Timers) /\ Distinct(q) /\ Linked(lst, q) /\ Loose(lst, q)
      /\ live \subseteq Timers /\ \A u \in Timers : u \in live <=> Occurs(u, q)
  BY DEF TimersInv, Listed, TimersType
<1> HIDE DEF q
<1>2. n \in Nat /\ \A i \in 1 .. n : q[i] \in Timers
  BY <1>1
<1>3. {q[i] : i \in 1 .. n} = live
  BY <1>1, <1>2 DEF Occurs
<1>4. n = Cardinality(live)
  <2>1. at \in [1 .. n -> live] /\ (\A i \in 1 .. n : at[i] = q[i])
    BY <1>3
  <2>2. \A i, j \in 1 .. n : at[i] = at[j] => i = j
    BY <1>1, <2>1 DEF Distinct
  <2>3. \A u \in live : \E i \in 1 .. n : at[i] = u
    BY <1>3, <2>1
  <2> HIDE DEF at
  <2>4. at \in Bijection(1 .. n, live)
    BY <2>1, <2>2, <2>3, Fun_IsBij
  <2>5. ExistsBijection(1 .. n, live)
    BY <2>4 DEF ExistsBijection
  <2>6. IsFiniteSet(1 .. n) /\ Cardinality(1 .. n) = n
    BY <1>2, FS_Interval
  <2> QED
    BY <2>5, <2>6, FS_Bijection
<1>5. lst \in Links
  BY <1>1 DEF TimersType, Links
<1>6. ASSUME lst.head # Null PROVE lst.tail \in live /\ Backward = q
  <2>1. q # <<>>
    BY <1>1, <1>6 DEF Linked
  <2>2. n \in 1 .. n
    BY <1>1, <1>2, <2>1
  <2>3. lst.tail = q[n]
    BY <1>1, <2>1 DEF Linked
  <2>4. BackwardFrom(lst) = q
    BY <1>1, <1>5, <2>1, BackwardIs
  <2> QED
    BY <1>3, <2>2, <2>3, <2>4 DEF Backward
<1> QED
  BY <1>1, <1>3, <1>4, <1>6 DEF WellLinked, q

LEMMA TimersInductive == TimersSpec => []TimersInv
<1>1. TimersInit => TimersInv
  BY TimersStart
<1>2. TimersInv /\ [TimersNext]_timerVars => TimersInv'
  <2>1. ASSUME TimersInv, UNCHANGED timerVars PROVE TimersInv'
    BY <2>1 DEF timerVars, TimersInv, Forward, TimersType
  <2> QED
    BY <2>1, TimersStep
<1> QED
  BY <1>1, <1>2, PTL DEF TimersSpec

\* The pointers of sort_timer_lst stay in range.
THEOREM TimersTypeCorrect == TimersSpec => []TimersType
<1>1. TimersInv => TimersType
  BY DEF TimersInv
<1> QED
  BY <1>1, TimersInductive, PTL

\* After every operation both directions of the list of lst_timer.h give the
\* same timers, which are the allocated ones, each once; a dangling tail is
\* left only while the list is empty.
THEOREM AlwaysLinked == TimersSpec => []WellLinked
<1>1. TimersInv => WellLinked
  BY TimersInvLinked
<1> QED
  BY <1>1, TimersInductive, PTL

\* add_timer, adjust_timer, del_timer and tick implement the sorted list for any
\* number of timers: the loops along the pointers find the place an expiry
\* belongs to, and tick removes all the expired timers and no other.
THEOREM TimersAreSorted == TimersSpec => ImplementsSortedTimers
<1>1. TimersInit => Sorted!SortedInit
  BY TimersStart
<1>2. TimersInv /\ [TimersNext]_timerVars => [Sorted!SortedNext]_Sorted!sortedVars
  <2>1. ASSUME UNCHANGED timerVars PROVE UNCHANGED Sorted!sortedVars
    BY <2>1 DEF timerVars, Sorted!sortedVars, Forward
  <2> QED
    BY <2>1, TimersStep
<1> QED
  BY <1>1, <1>2, TimersInductive, PTL DEF TimersSpec, ImplementsSortedTimers, Sorted!SortedSpec
=============================================================================
