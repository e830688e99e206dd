--------------------------- MODULE SqlPoolProofs ----------------------------
(***************************************************************************)
(* Theorems about SqlPool for every number of connections and threads.     *)
(***************************************************************************)
EXTENDS SqlPool, FiniteSetTheorems, TLAPS

\* The mutex is held exactly by the thread that is inside a critical section.
Mutex == \A t \in Threads : lock = t <=> pc[t] \in {"front", "pop", "push"}

\* A thread that is about to pop has read the front; a holder has a connection.
Locals ==
  \A t \in Threads :
    /\ pc[t] = "pop" => connList # <<>> /\ con[t] = Head(connList)
    /\ pc[t] \in {"using", "relock", "push"} => con[t] \in Conns

\* The inductive invariant.
IInv == TypeOK /\ Mutex /\ Locals /\ Accounting /\ ConnsPartition
-----------------------------------------------------------------------------
(* Counting the threads at some control points *)

At(P) == {t \in Threads : pc[t] \in P}

\* Threads at given control points are finitely many.
LEMMA AtFinite ==
  ASSUME NEW P
  PROVE  IsFiniteSet(At(P)) /\ Cardinality(At(P)) \in Nat
<1>1. At(P) \in SUBSET Threads
  BY DEF At
<1>2. IsFiniteSet(At(P))
  BY <1>1, SqlPoolAssumption, FS_Subset
<1> QED
  BY <1>2, FS_CardinalityType

\* A step of one thread moves at most that thread in or out of a set of points.
LEMMA AtStep ==
  ASSUME TypeOK, NEW P, NEW t \in Threads, NEW p, Goto(t, p)
  PROVE  Cardinality(At(P)') = Cardinality(At(P))
           + (IF p \in P THEN 1 ELSE 0) - (IF pc[t] \in P THEN 1 ELSE 0)
<1>1. At(P)' = IF p \in P THEN At(P) \cup {t} ELSE At(P) \ {t}
  BY DEF TypeOK, At, Goto
<1>2. t \in At(P) <=> pc[t] \in P
  BY DEF At
<1>3. /\ Cardinality(At(P) \cup {t}) = IF t \in At(P) THEN Cardinality(At(P)) ELSE Cardinality(At(P)) + 1
      /\ Cardinality(At(P) \ {t}) = IF t \in At(P) THEN Cardinality(At(P)) - 1 ELSE Cardinality(At(P))
  BY AtFinite, FS_AddElement, FS_RemoveElement
<1> QED
  BY <1>1, <1>2, <1>3, AtFinite

\* The three sets of threads that Accounting counts are sets of control points.
LEMMA SetsAreAt ==
  /\ Woken = At({"lock", "front", "pop"})
  /\ Posting = At({"post"})
  /\ Holders = At({"using", "relock", "push"})
  /\ Woken' = At({"lock", "front", "pop"})'
  /\ Posting' = At({"post"})'
  /\ Holders' = At({"using", "relock", "push"})'
BY DEF Woken, Posting, Holders, At

\* How a step of one thread changes the three counts of Accounting.
LEMMA CountStep ==
  ASSUME TypeOK, NEW t \in Threads, NEW p, Goto(t, p)
  PROVE  /\ Cardinality(Woken) \in Nat /\ Cardinality(Posting) \in Nat /\ Cardinality(Holders) \in Nat
         /\ Cardinality(Woken') = Cardinality(Woken)
              + (IF p \in {"lock", "front", "pop"} THEN 1 ELSE 0)
              - (IF pc[t] \in {"lock", "front", "pop"} THEN 1 ELSE 0)
         /\ Cardinality(Posting') = Cardinality(Posting)
              + (IF p = "post" THEN 1 ELSE 0) - (IF pc[t] = "post" THEN 1 ELSE 0)
         /\ Cardinality(Holders') = Cardinality(Holders)
              + (IF p \in {"using", "relock", "push"} THEN 1 ELSE 0)
              - (IF pc[t] \in {"using", "relock", "push"} THEN 1 ELSE 0)
<1>1. /\ Cardinality(At({"lock", "front", "pop"})) \in Nat
      /\ Cardinality(At({"post"})) \in Nat
      /\ Cardinality(At({"using", "relock", "push"})) \in Nat
  BY AtFinite
<1>2. Cardinality(At({"lock", "front", "pop"})') = Cardinality(At({"lock", "front", "pop"}))
        + (IF p \in {"lock", "front", "pop"} THEN 1 ELSE 0)
        - (IF pc[t] \in {"lock", "front", "pop"} THEN 1 ELSE 0)
  BY AtStep
<1>3. Cardinality(At({"post"})') = Cardinality(At({"post"}))
        + (IF p \in {"post"} THEN 1 ELSE 0) - (IF pc[t] \in {"post"} THEN 1 ELSE 0)
  BY AtStep
<1>4. Cardinality(At({"using", "relock", "push"})') = Cardinality(At({"using", "relock", "push"}))
        + (IF p \in {"using", "relock", "push"} THEN 1 ELSE 0)
        - (IF pc[t] \in {"using", "relock", "push"} THEN 1 ELSE 0)
  BY AtStep
<1> QED
  BY <1>1, <1>2, <1>3, <1>4, SetsAreAt

-----------------------------------------------------------------------------
(* One thread's step *)

\* Types, and the one-to-one relation of the mutex with the critical sections.
LEMMA UseType ==
  ASSUME TypeOK, Mutex, Locals, Accounting, NEW t \in Threads, Use(t), UNCHANGED opened
  PROVE  TypeOK' /\ Mutex'
<1>1. CASE TestSize(t)
  BY <1>1, SqlPoolAssumption DEF TypeOK, Mutex, TestSize, Goto, Points
<1>2. CASE Wait(t)
  <2>1. reserve' \in Nat
    BY <1>2 DEF TypeOK, Wait
  <2> QED
    BY <1>2, <2>1, SqlPoolAssumption DEF TypeOK, Mutex, Wait, Goto, Points
<1>3. CASE LockGet(t)
  BY <1>3, SqlPoolAssumption DEF TypeOK, Mutex, LockGet, Goto, Points
<1>11. CASE Interrupted(t)
  <2>1. interrupts' \in Nat
    BY <1>11 DEF TypeOK, Interrupted
  <2> QED
    BY <1>11, <2>1, SqlPoolAssumption DEF TypeOK, Mutex, Interrupted, Goto, Points
<1>12. CASE FrontOfEmpty(t)
  BY <1>12, SqlPoolAssumption DEF TypeOK, Mutex, FrontOfEmpty
<1>4. CASE Front(t)
  <2>1. Head(connList) \in Conns
    BY <1>4 DEF TypeOK, Front
  <2> QED
    BY <1>4, <2>1, SqlPoolAssumption DEF TypeOK, Mutex, Front, Goto, Points
<1>5. CASE PopFront(t)
  <2>1. connList # <<>>
    BY <1>5 DEF PopFront, Locals
  <2>2. Tail(connList) \in Seq(Conns)
    BY <2>1 DEF TypeOK
  <2>3. FreeConn' \in Int /\ CurConn' \in Int
    BY <1>5 DEF TypeOK, PopFront
  <2> QED
    BY <1>5, <2>2, <2>3, SqlPoolAssumption DEF TypeOK, Mutex, PopFront, Goto, Points
<1>6. CASE ReleaseNull(t)
  BY <1>6, SqlPoolAssumption DEF TypeOK, Mutex, ReleaseNull, Goto, Points
<1>7. CASE BeginRelease(t)
  BY <1>7, SqlPoolAssumption DEF TypeOK, Mutex, BeginRelease, Goto, Points
<1>8. CASE LockRelease(t)
  BY <1>8, SqlPoolAssumption DEF TypeOK, Mutex, LockRelease, Goto, Points
<1>9. CASE PushBack(t)
  <2>1. con[t] \in Conns
    BY <1>9 DEF PushBack, Locals
  <2>2. Append(connList, con[t]) \in Seq(Conns)
    BY <2>1 DEF TypeOK
  <2>3. FreeConn' \in Int /\ CurConn' \in Int
    BY <1>9 DEF TypeOK, PushBack
  <2> QED
    BY <1>9, <2>2, <2>3, SqlPoolAssumption DEF TypeOK, Mutex, PushBack, Goto, Points
<1>10. CASE Post(t)
  <2>1. reserve' \in Nat
    BY <1>10 DEF TypeOK, Post
  <2> QED
    BY <1>10, <2>1, SqlPoolAssumption DEF TypeOK, Mutex, Post, Goto, Points
<1> QED
  BY <1>1, <1>2, <1>3, <1>4, <1>5, <1>6, <1>7, <1>8, <1>9, <1>10, <1>11, <1>12
     DEF Use, GetConnection, ReleaseConnection

\* The mutex keeps the front of the list where the thread has read it.
LEMMA UseLocals ==
  ASSUME TypeOK, Mutex, Locals, NEW t \in Threads, Use(t)
  PROVE  Locals'
<1>1. CASE TestSize(t) \/ Wait(t) \/ Interrupted(t) \/ LockGet(t) \/ FrontOfEmpty(t) \/ ReleaseNull(t)
             \/ BeginRelease(t) \/ LockRelease(t) \/ Post(t)
  BY <1>1 DEF TypeOK, Locals, TestSize, Wait, Interrupted, LockGet, FrontOfEmpty, ReleaseNull, BeginRelease,
              LockRelease, Post, Goto
<1>2. CASE Front(t)
  BY <1>2 DEF TypeOK, Locals, Front, Goto
<1>3. CASE PopFront(t)
  <2>1. \A s \in Threads \ {t} : pc[s] # "pop"
    BY <1>3 DEF Mutex, PopFront
  <2>2. con[t] \in Conns
    <3>1. connList # <<>> /\ con[t] = Head(connList)
      BY <1>3 DEF Locals, PopFront
    <3> QED
      BY <3>1 DEF TypeOK
  <2> QED
    BY <1>3, <2>1, <2>2 DEF TypeOK, Locals, PopFront, Goto
<1>4. CASE PushBack(t)
  <2>1. \A s \in Threads \ {t} : pc[s] # "pop"
    BY <1>4 DEF Mutex, PushBack
  <2> QED
    BY <1>4, <2>1 DEF TypeOK, Locals, PushBack, Goto
<1> QED
  BY <1>1, <1>2, <1>3, <1>4 DEF Use, GetConnection, ReleaseConnection

\* Every step keeps semaphore, list and counters in step.
LEMMA UseAccounting ==
  ASSUME TypeOK, Locals, Accounting, NEW t \in Threads, Use(t), UNCHANGED opened
  PROVE  Accounting'
<1> DEFINE Agree == /\ Len(connList) + interrupts = reserve + Cardinality(Woken) + Cardinality(Posting)
                    /\ FreeConn = Len(connList)
                    /\ CurConn = Cardinality(Holders)
                    /\ FreeConn + CurConn = MaxConn
<1>0. Agree /\ Len(connList) \in Nat /\ MaxConn' = MaxConn
  BY DEF Accounting, TypeOK, MaxConn
<1>ints. FreeConn \in Int /\ CurConn \in Int /\ reserve \in Nat /\ interrupts \in Nat
  BY DEF TypeOK
<1>1. CASE TestSize(t)
  <2>1. connList' = connList /\ Cardinality(Woken') = Cardinality(Woken)
        /\ Cardinality(Posting') = Cardinality(Posting) /\ Cardinality(Holders') = Cardinality(Holders)
    <3>1. connList' = connList /\ pc[t] = "out" /\ (Goto(t, "null") \/ Goto(t, "wait"))
      BY <1>1 DEF TestSize
    <3>2. CASE Goto(t, "null")
      BY <3>1, <3>2, CountStep
    <3>3. CASE Goto(t, "wait")
      BY <3>1, <3>3, CountStep
    <3> QED
      BY <3>1, <3>2, <3>3
  <2>2. UNCHANGED <<connList, reserve, FreeConn, CurConn, interrupts>>
    BY <1>1 DEF TestSize
  <2> QED
    BY <1>0, <2>1, <2>2 DEF Accounting
<1>2. CASE Wait(t)
  <2>1. /\ Cardinality(Woken) \in Nat /\ Cardinality(Posting) \in Nat
        /\ Cardinality(Woken') = Cardinality(Woken) + 1
        /\ Cardinality(Posting') = Cardinality(Posting) /\ Cardinality(Holders') = Cardinality(Holders)
    <3>1. pc[t] = "wait" /\ Goto(t, "lock")
      BY <1>2 DEF Wait
    <3> QED
      BY <3>1, CountStep
  <2>2. reserve' = reserve - 1 /\ interrupts' = interrupts /\ Len(connList') = Len(connList) /\ FreeConn' = FreeConn /\ CurConn' = CurConn
    BY <1>2 DEF Wait
  <2>3. Len(connList') + interrupts' = reserve' + Cardinality(Woken') + Cardinality(Posting')
    <3> DEFINE a == Len(connList)  w == Cardinality(Woken)  p == Cardinality(Posting)
    <3>1. a \in Nat /\ w \in Nat /\ p \in Nat /\ a + interrupts = reserve + w + p
      BY <1>0, <2>1
    <3>2. Len(connList') = a /\ Cardinality(Woken') = w + 1 /\ Cardinality(Posting') = p
      BY <2>1, <2>2
    <3> HIDE DEF a, w, p
    <3> QED
      BY <1>ints, <2>2, <3>1, <3>2
  <2>4. FreeConn' = Len(connList') /\ CurConn' = Cardinality(Holders') /\ FreeConn' + CurConn' = MaxConn'
    BY <1>0, <2>1, <2>2
  <2> QED
    BY <2>3, <2>4 DEF Accounting
<1>7. CASE Interrupted(t)
  <2>1. /\ Cardinality(Woken) \in Nat /\ Cardinality(Posting) \in Nat
        /\ Cardinality(Woken') = Cardinality(Woken) + 1
        /\ Cardinality(Posting') = Cardinality(Posting) /\ Cardinality(Holders') = Cardinality(Holders)
    <3>1. pc[t] = "wait" /\ Goto(t, "lock")
      BY <1>7 DEF Interrupted
    <3> QED
      BY <3>1, CountStep
  <2>2. reserve' = reserve /\ interrupts' = interrupts + 1 /\ Len(connList') = Len(connList)
        /\ FreeConn' = FreeConn /\ CurConn' = CurConn
    BY <1>7 DEF Interrupted
  <2>3. Len(connList') + interrupts' = reserve' + Cardinality(Woken') + Cardinality(Posting')
    <3> DEFINE a == Len(connList)  w == Cardinality(Woken)  p == Cardinality(Posting)
    <3>1. a \in Nat /\ w \in Nat /\ p \in Nat /\ a + interrupts = reserve + w + p
      BY <1>0, <2>1
    <3>2. Len(connList') = a /\ Cardinality(Woken') = w + 1 /\ Cardinality(Posting') = p
      BY <2>1, <2>2
    <3> HIDE DEF a, w, p
    <3> QED
      BY <1>ints, <2>2, <3>1, <3>2
  <2>4. FreeConn' = Len(connList') /\ CurConn' = Cardinality(Holders') /\ FreeConn' + CurConn' = MaxConn'
    BY <1>0, <2>1, <2>2
  <2> QED
    BY <2>3, <2>4 DEF Accounting
<1>8. CASE FrontOfEmpty(t)
  <2>1. /\ Woken' = Woken /\ Posting' = Posting /\ Holders' = Holders
        /\ UNCHANGED <<connList, reserve, FreeConn, CurConn, interrupts>>
    BY <1>8 DEF FrontOfEmpty, Woken, Posting, Holders
  <2> QED
    BY <1>0, <2>1 DEF Accounting
<1>3. CASE LockGet(t) \/ Front(t) \/ ReleaseNull(t) \/ BeginRelease(t) \/ LockRelease(t)
  <2>1. /\ Cardinality(Woken') = Cardinality(Woken)
        /\ Cardinality(Posting') = Cardinality(Posting) /\ Cardinality(Holders') = Cardinality(Holders)
    <3>1. CASE pc[t] = "lock" /\ Goto(t, "front")
      BY <3>1, CountStep
    <3>2. CASE pc[t] = "front" /\ Goto(t, "pop")
      BY <3>2, CountStep
    <3>3. CASE pc[t] = "null" /\ Goto(t, "out")
      BY <3>3, CountStep
    <3>4. CASE pc[t] = "using" /\ Goto(t, "relock")
      BY <3>4, CountStep
    <3>5. CASE pc[t] = "relock" /\ Goto(t, "push")
      BY <3>5, CountStep
    <3> QED
      BY <1>3, <3>1, <3>2, <3>3, <3>4, <3>5 DEF LockGet, Front, ReleaseNull, BeginRelease, LockRelease
  <2>2. UNCHANGED <<connList, reserve, FreeConn, CurConn, interrupts>>
    BY <1>3 DEF LockGet, Front, ReleaseNull, BeginRelease, LockRelease
  <2> QED
    BY <1>0, <2>1, <2>2 DEF Accounting
<1>4. CASE PopFront(t)
  <2>1. /\ Cardinality(Woken) \in Nat /\ Cardinality(Posting) \in Nat /\ Cardinality(Holders) \in Nat
        /\ Cardinality(Woken') = Cardinality(Woken) - 1
        /\ Cardinality(Posting') = Cardinality(Posting)
        /\ Cardinality(Holders') = Cardinality(Holders) + 1
    <3>1. pc[t] = "pop" /\ Goto(t, "using")
      BY <1>4 DEF PopFront
    <3> QED
      BY <3>1, CountStep
  <2>2. Len(connList') = Len(connList) - 1
    <3>1. connList # <<>> /\ connList \in Seq(Conns)
      BY <1>4 DEF TypeOK, Locals, PopFront
    <3> QED
      BY <1>4, <3>1 DEF PopFront
  <2>3. reserve' = reserve /\ interrupts' = interrupts /\ FreeConn' = FreeConn - 1 /\ CurConn' = CurConn + 1
    BY <1>4 DEF PopFront
  <2>4. Len(connList') + interrupts' = reserve' + Cardinality(Woken') + Cardinality(Posting')
    <3> DEFINE a == Len(connList)  w == Cardinality(Woken)  p == Cardinality(Posting)
    <3>1. a \in Nat /\ w \in Nat /\ p \in Nat /\ a + interrupts = reserve + w + p
      BY <1>0, <2>1
    <3>2. Len(connList') = a - 1 /\ Cardinality(Woken') = w - 1 /\ Cardinality(Posting') = p
      BY <2>1, <2>2
    <3> HIDE DEF a, w, p
    <3> QED
      BY <1>ints, <2>3, <3>1, <3>2
  <2>5. FreeConn' = Len(connList')
    BY <1>0, <2>2, <2>3
  <2>6. CurConn' = Cardinality(Holders')
    BY <1>0, <2>1, <2>3
  <2>7. FreeConn' + CurConn' = MaxConn'
    BY <1>0, <1>ints, <2>3
  <2> QED
    BY <2>4, <2>5, <2>6, <2>7 DEF Accounting
<1>5. CASE PushBack(t)
  <2>1. /\ Cardinality(Woken) \in Nat /\ Cardinality(Posting) \in Nat /\ Cardinality(Holders) \in Nat
        /\ Cardinality(Woken') = Cardinality(Woken)
        /\ Cardinality(Posting') = Cardinality(Posting) + 1
        /\ Cardinality(Holders') = Cardinality(Holders) - 1
    <3>1. pc[t] = "push" /\ Goto(t, "post")
      BY <1>5 DEF PushBack
    <3> QED
      BY <3>1, CountStep
  <2>2. Len(connList') = Len(connList) + 1
    <3>1. connList \in Seq(Conns) /\ con[t] \in Conns
      BY <1>5 DEF TypeOK, Locals, PushBack
    <3> QED
      BY <1>5, <3>1 DEF PushBack
  <2>3. reserve' = reserve /\ interrupts' = interrupts /\ FreeConn' = FreeConn + 1 /\ CurConn' = CurConn - 1
    BY <1>5 DEF PushBack
  <2>4. Len(connList') + interrupts' = reserve' + Cardinality(Woken') + Cardinality(Posting')
    <3> DEFINE a == Len(connList)  w == Cardinality(Woken)  p == Cardinality(Posting)
    <3>1. a \in Nat /\ w \in Nat /\ p \in Nat /\ a + interrupts = reserve + w + p
      BY <1>0, <2>1
    <3>2. Len(connList') = a + 1 /\ Cardinality(Woken') = w /\ Cardinality(Posting') = p + 1
      BY <2>1, <2>2
    <3> HIDE DEF a, w, p
    <3> QED
      BY <1>ints, <2>3, <3>1, <3>2
  <2>5. FreeConn' = Len(connList')
    BY <1>0, <2>2, <2>3
  <2>6. CurConn' = Cardinality(Holders')
    BY <1>0, <2>1, <2>3
  <2>7. FreeConn' + CurConn' = MaxConn'
    BY <1>0, <1>ints, <2>3
  <2> QED
    BY <2>4, <2>5, <2>6, <2>7 DEF Accounting
<1>6. CASE Post(t)
  <2>1. /\ Cardinality(Woken) \in Nat /\ Cardinality(Posting) \in Nat
        /\ Cardinality(Woken') = Cardinality(Woken)
        /\ Cardinality(Posting') = Cardinality(Posting) - 1
        /\ Cardinality(Holders') = Cardinality(Holders)
    <3>1. pc[t] = "post" /\ Goto(t, "out")
      BY <1>6 DEF Post
    <3> QED
      BY <3>1, CountStep
  <2>2. reserve' = reserve + 1 /\ interrupts' = interrupts /\ Len(connList') = Len(connList) /\ FreeConn' = FreeConn /\ CurConn' = CurConn
    BY <1>6 DEF Post
  <2>3. Len(connList') + interrupts' = reserve' + Cardinality(Woken') + Cardinality(Posting')
    <3> DEFINE a == Len(connList)  w == Cardinality(Woken)  p == Cardinality(Posting)
    <3>1. a \in Nat /\ w \in Nat /\ p \in Nat /\ a + interrupts = reserve + w + p
      BY <1>0, <2>1
    <3>2. Len(connList') = a /\ Cardinality(Woken') = w /\ Cardinality(Posting') = p - 1
      BY <2>1, <2>2
    <3> HIDE DEF a, w, p
    <3> QED
      BY <1>ints, <2>2, <3>1, <3>2
  <2>4. FreeConn' = Len(connList') /\ CurConn' = Cardinality(Holders') /\ FreeConn' + CurConn' = MaxConn'
    BY <1>0, <2>1, <2>2
  <2> QED
    BY <2>3, <2>4 DEF Accounting
<1> QED
  BY <1>1, <1>2, <1>3, <1>4, <1>5, <1>6, <1>7, <1>8 DEF Use, GetConnection, ReleaseConnection

\* Front and PopFront move one connection from the list to the thread, PushBack
\* moves it back, and no other thread can have it in between.
LEMMA UsePartition ==
  ASSUME TypeOK, Mutex, Locals, ConnsPartition, NEW t \in Threads, Use(t), UNCHANGED opened
  PROVE  ConnsPartition'
<1>0. /\ connList \in Seq(Conns) /\ pc \in [Threads -> Points] /\ con \in [Threads -> Conns \cup {None}]
      /\ opened \subseteq Conns
  BY DEF TypeOK
<1>1. ASSUME UNCHANGED connList,
             \A s \in Threads, c \in Conns : Holds(s, c)' <=> Holds(s, c)
      PROVE  ConnsPartition'
  BY <1>0, <1>1 DEF ConnsPartition, Listed
<1>2. CASE TestSize(t) \/ Wait(t) \/ Interrupted(t) \/ LockGet(t) \/ FrontOfEmpty(t) \/ ReleaseNull(t)
             \/ BeginRelease(t) \/ LockRelease(t) \/ Post(t)
  <2>1. /\ UNCHANGED <<connList, con>>
        /\ \A s \in Threads : pc'[s] \in {"using", "relock", "push"} <=> pc[s] \in {"using", "relock", "push"}
    BY <1>0, <1>2 DEF TestSize, Wait, Interrupted, LockGet, FrontOfEmpty, ReleaseNull, BeginRelease,
                      LockRelease, Post, Goto
  <2> QED
    BY <1>1, <2>1 DEF Holds
<1>3. CASE Front(t)
  <2>1. /\ UNCHANGED connList
        /\ pc[t] = "front" /\ pc'[t] = "pop"
        /\ \A s \in Threads \ {t} : pc'[s] = pc[s] /\ con'[s] = con[s]
    BY <1>0, <1>3 DEF Front, Goto
  <2> QED
    BY <1>1, <2>1 DEF Holds
<1>4. CASE PopFront(t)
  <2> DEFINE h == con[t]
  <2>1. connList # <<>> /\ h = Head(connList) /\ h \in Conns
    BY <1>0, <1>4 DEF Locals, PopFront
  <2>2. /\ connList' = Tail(connList) /\ con' = con
        /\ pc[t] = "pop" /\ pc'[t] = "using" /\ \A s \in Threads \ {t} : pc'[s] = pc[s]
    BY <1>0, <1>4 DEF PopFront, Goto
  <2>3. /\ Len(connList') = Len(connList) - 1
        /\ \A i \in 1 .. Len(connList') : i + 1 \in 1 .. Len(connList) /\ connList'[i] = connList[i + 1]
        /\ Len(connList) \in Nat \ {0} /\ connList[1] = h
    BY <1>0, <2>1, <2>2
  <2>4. \A i, j \in 1 .. Len(connList) : connList[i] = connList[j] => i = j
    BY DEF ConnsPartition
  <2>5. \A c \in Conns : Listed(c)' <=> Listed(c) /\ c # h
    <3>1. ASSUME NEW c \in Conns, NEW i \in 1 .. Len(connList'), connList'[i] = c
          PROVE  Listed(c) /\ c # h
      <4>1. i + 1 \in 1 .. Len(connList) /\ connList[i + 1] = c
        BY <2>3, <3>1
      <4>2. 1 \in 1 .. Len(connList) /\ i + 1 # 1
        BY <2>3
      <4> QED
        BY <2>3, <2>4, <4>1, <4>2 DEF Listed
    <3>2. ASSUME NEW c \in Conns, c # h, NEW i \in 1 .. Len(connList), connList[i] = c
          PROVE  Listed(c)'
      <4>1. i # 1 /\ i - 1 \in 1 .. Len(connList')
        BY <2>3, <3>2
      <4>2. connList'[i - 1] = c
        BY <2>3, <3>2, <4>1
      <4> QED
        BY <4>1, <4>2 DEF Listed
    <3> QED
      BY <3>1, <3>2 DEF Listed
  <2>6. \A s \in Threads, c \in Conns : Holds(s, c)' <=> Holds(s, c) \/ (s = t /\ c = h)
    BY <2>2 DEF Holds
  <2>7. Listed(h)
    BY <2>3 DEF Listed
  <2>8. \A s \in Threads : ~ Holds(s, h)
    BY <2>1, <2>7 DEF ConnsPartition
  <2>9. \A i, j \in 1 .. Len(connList') : connList'[i] = connList'[j] => i = j
    <3> SUFFICES ASSUME NEW i \in 1 .. Len(connList'), NEW j \in 1 .. Len(connList'),
                        connList'[i] = connList'[j]
                 PROVE  i = j
      OBVIOUS
    <3>1. /\ i + 1 \in 1 .. Len(connList) /\ connList'[i] = connList[i + 1]
          /\ j + 1 \in 1 .. Len(connList) /\ connList'[j] = connList[j + 1]
      BY <2>3
    <3>2. i + 1 = j + 1
      BY <2>4, <3>1
    <3> QED
      BY <2>3, <3>2
  <2>10. \A c \in opened : Listed(c)' \/ \E s \in Threads : Holds(s, c)'
    <3> SUFFICES ASSUME NEW c \in opened PROVE Listed(c)' \/ \E s \in Threads : Holds(s, c)'
      OBVIOUS
    <3>1. c \in Conns /\ (Listed(c) \/ \E s \in Threads : Holds(s, c))
      BY <1>0 DEF ConnsPartition
    <3> QED
      BY <2>5, <2>6, <3>1
  <2>11. \A s \in Threads : \A c \in Conns : Holds(s, c)' => ~ Listed(c)'
    BY <2>5, <2>6 DEF ConnsPartition
  <2>12. \A s, u \in Threads : \A c \in Conns : Holds(s, c)' /\ Holds(u, c)' => s = u
    BY <2>6, <2>8 DEF ConnsPartition
  <2> QED
    BY <2>9, <2>10, <2>11, <2>12, <1>4 DEF ConnsPartition
<1>5. CASE PushBack(t)
  <2> DEFINE h == con[t]
             n == Len(connList) + 1
  <2>1. h \in Conns /\ Holds(t, h)
    BY <1>0, <1>5 DEF Locals, PushBack, Holds
  <2>2. /\ connList' = Append(connList, h)
        /\ pc'[t] = "post"
        /\ \A s \in Threads \ {t} : pc'[s] = pc[s] /\ con'[s] = con[s]
    BY <1>0, <1>5 DEF PushBack, Goto
  <2>3. /\ n \in Nat /\ Len(connList') = n /\ connList'[n] = h
        /\ \A i \in 1 .. Len(connList') : i # n => i \in 1 .. Len(connList) /\ connList'[i] = connList[i]
        /\ \A i \in 1 .. Len(connList) : i \in 1 .. Len(connList') /\ connList'[i] = connList[i]
    BY <1>0, <2>1, <2>2
  <2>4. \A i \in 1 .. Len(connList) : connList[i] # h
    BY <2>1 DEF ConnsPartition, Listed
  <2>5. \A c \in Conns : Listed(c)' <=> Listed(c) \/ c = h
    <3>1. n \in 1 .. Len(connList')
      BY <2>3
    <3> QED
      BY <2>3, <3>1 DEF Listed
  <2>6. \A s \in Threads, c \in Conns : Holds(s, c)' <=> Holds(s, c) /\ s # t
    BY <2>2 DEF Holds
  <2>7. \A s \in Threads \ {t} : ~ Holds(s, h)
    BY <2>1 DEF ConnsPartition
  <2>8. \A i, j \in 1 .. Len(connList) : connList[i] = connList[j] => i = j
    BY DEF ConnsPartition
  <2>9. \A i, j \in 1 .. Len(connList') : connList'[i] = connList'[j] => i = j
    BY <2>3, <2>4, <2>8
  <2>10. \A c \in opened : Listed(c)' \/ \E s \in Threads : Holds(s, c)'
    <3> SUFFICES ASSUME NEW c \in opened PROVE Listed(c)' \/ \E s \in Threads : Holds(s, c)'
      OBVIOUS
    <3>1. c \in Conns /\ (Listed(c) \/ \E s \in Threads : Holds(s, c))
      BY <1>0 DEF ConnsPartition
    <3>2. Holds(t, c) => c = h
      BY DEF Holds
    <3> QED
      BY <2>5, <2>6, <3>1, <3>2
  <2>11. \A s \in Threads : \A c \in Conns : Holds(s, c)' => ~ Listed(c)'
    BY <2>5, <2>6, <2>7 DEF ConnsPartition
  <2>12. \A s, u \in Threads : \A c \in Conns : Holds(s, c)' /\ Holds(u, c)' => s = u
    BY <2>6 DEF ConnsPartition
  <2> QED
    BY <2>9, <2>10, <2>11, <2>12, <1>5 DEF ConnsPartition
<1> QED
  BY <1>2, <1>3, <1>4, <1>5 DEF Use, GetConnection, ReleaseConnection

\* With as many connections as threads, a thread that holds none finds one in the
\* list: the other threads cannot hold them all, whatever the semaphore says.
LEMMA OneIsSpare ==
  ASSUME TypeOK, Accounting, Cardinality(Threads) <= MaxConn, NEW t \in Threads, t \notin Holders
  PROVE  Len(connList) # 0
<1>1. Holders \in SUBSET (Threads \ {t})
  BY DEF Holders
<1>2. /\ IsFiniteSet(Threads \ {t})
      /\ Cardinality(Threads \ {t}) = Cardinality(Threads) - 1
  BY SqlPoolAssumption, FS_RemoveElement
<1>3. Cardinality(Holders) <= Cardinality(Threads) - 1
  BY <1>1, <1>2, FS_Subset
<1>4. Cardinality(Threads) \in Nat /\ Cardinality(Holders) \in Nat /\ MaxConn \in Nat
  BY SqlPoolAssumption, FS_CardinalityType, FS_Subset, <1>1, <1>2 DEF TypeOK, MaxConn
<1>5. Len(connList) = MaxConn - Cardinality(Holders)
  <2>1. FreeConn = Len(connList) /\ CurConn = Cardinality(Holders) /\ FreeConn + CurConn = MaxConn
    BY DEF Accounting
  <2>2. FreeConn \in Int
    BY DEF TypeOK
  <2> QED
    BY <1>4, <2>1, <2>2
<1> QED
  BY <1>3, <1>4, <1>5

\* So the unlocked test of size() refuses nobody.
LEMMA UseNeverNull ==
  ASSUME TypeOK, Accounting, NeverNull, NEW t \in Threads, Use(t), UNCHANGED opened
  PROVE  NeverNull'
<1> SUFFICES ASSUME Cardinality(Threads) <= MaxConn
             PROVE  \A s \in Threads : pc'[s] # "null"
  BY DEF NeverNull, MaxConn
<1>1. \A s \in Threads : pc[s] # "null"
  BY DEF NeverNull
<1>2. CASE TestSize(t)
  <2>1. pc[t] = "out" /\ t \notin Holders
    BY <1>2 DEF TestSize, Holders
  <2>2. Len(connList) # 0
    BY <2>1, OneIsSpare
  <2> QED
    BY <1>1, <1>2, <2>2 DEF TypeOK, TestSize, Goto
<1>3. CASE Wait(t) \/ Interrupted(t) \/ LockGet(t) \/ Front(t) \/ FrontOfEmpty(t) \/ PopFront(t)
             \/ ReleaseConnection(t)
  BY <1>1, <1>3
     DEF TypeOK, Wait, Interrupted, LockGet, Front, FrontOfEmpty, PopFront, ReleaseConnection, ReleaseNull,
         BeginRelease, LockRelease, PushBack, Post, Goto
<1> QED
  BY <1>2, <1>3 DEF Use, GetConnection
-----------------------------------------------------------------------------
(* The initial states and the theorems *)

\* init fills the list with every opened connection, once.
LEMMA InitIInv == Init => IInv /\ NeverNull
<1> SUFFICES ASSUME Init PROVE IInv /\ NeverNull
  OBVIOUS
<1>1. IsFiniteSet(opened) /\ MaxConn \in Nat
  BY SqlPoolAssumption, FS_Subset, FS_CardinalityType DEF Init, MaxConn
<1>2. /\ connList \in [1 .. MaxConn -> opened]
      /\ \A i, j \in 1 .. MaxConn : connList[i] = connList[j] => i = j
  BY DEF Init
<1>3. connList \in Seq(opened) /\ Len(connList) = MaxConn /\ connList \in Seq(Conns)
  BY <1>1, <1>2 DEF Init
<1>4. TypeOK
  BY <1>1, <1>3 DEF Init, TypeOK, Points
<1>5. Mutex /\ Locals /\ NeverNull
  BY SqlPoolAssumption DEF Init, Mutex, Locals, NeverNull
<1>6. Accounting
  <2>1. Woken = {} /\ Posting = {} /\ Holders = {}
    BY DEF Init, Woken, Posting, Holders
  <2>2. Cardinality(Woken) = 0 /\ Cardinality(Posting) = 0 /\ Cardinality(Holders) = 0
    BY <2>1, FS_EmptySet
  <2> QED
    BY <1>1, <1>3, <2>2 DEF Init, Accounting
<1>7. ConnsPartition
  <2>1. connList \in Surjection(1 .. MaxConn, opened)
    <3>1. connList \in Injection(1 .. MaxConn, opened)
      BY <1>2 DEF Injection, IsInjective
    <3>2. Cardinality(1 .. MaxConn) = Cardinality(opened)
      <4>1. Cardinality(1 .. MaxConn) = IF 1 > MaxConn THEN 0 ELSE MaxConn - 1 + 1
        BY <1>1, FS_Interval
      <4> QED
        BY <1>1, <4>1 DEF MaxConn
    <3> QED
      BY <1>1, <3>1, <3>2, FS_Injection
  <2>2. \A c \in opened : Listed(c)
    BY <1>3, <2>1 DEF Surjection, Listed
  <2>3. \A t \in Threads, c \in Conns : ~ Holds(t, c)
    BY DEF Init, Holds
  <2> QED
    BY <1>2, <1>3, <2>2, <2>3 DEF ConnsPartition
<1> QED
  BY <1>4, <1>5, <1>6, <1>7 DEF IInv

\* The invariant holds in every reachable state.
LEMMA Invariance == Spec => [](IInv /\ NeverNull)
<1>1. IInv /\ NeverNull /\ [Next]_vars => (IInv /\ NeverNull)'
  <2> SUFFICES ASSUME IInv, NeverNull, [Next]_vars PROVE IInv' /\ NeverNull'
    OBVIOUS
  <2>1. CASE Next
    <3>1. PICK t \in Threads : Use(t)
      BY <2>1 DEF Next
    <3>2. UNCHANGED opened /\ TypeOK /\ Mutex /\ Locals /\ Accounting /\ ConnsPartition
      BY <2>1 DEF Next, IInv
    <3>3. TypeOK' /\ Mutex' /\ Locals' /\ Accounting'
      BY <3>1, <3>2, UseType, UseLocals, UseAccounting
    <3>4. ConnsPartition' /\ NeverNull'
      BY <3>1, <3>2, UsePartition, UseNeverNull
    <3> QED
      BY <3>3, <3>4 DEF IInv
  <2>2. CASE UNCHANGED vars
    <3>1. TypeOK' /\ Mutex' /\ Locals' /\ NeverNull'
      BY <2>2 DEF IInv, TypeOK, Mutex, Locals, NeverNull, MaxConn, vars
    <3>2. Woken' = Woken /\ Posting' = Posting /\ Holders' = Holders /\ MaxConn' = MaxConn
      BY <2>2 DEF Woken, Posting, Holders, MaxConn, vars
    <3>3. Accounting'
      BY <2>2, <3>2 DEF IInv, Accounting, vars
    <3>4. ConnsPartition'
      BY <2>2 DEF IInv, ConnsPartition, Listed, Holds, vars
    <3> QED
      BY <3>1, <3>3, <3>4 DEF IInv
  <2> QED
    BY <2>1, <2>2
<1> QED
  BY <1>1, InitIInv, PTL DEF Spec

\* The members of connection_pool and the threads' locals keep their types; the
\* semaphore in particular never goes below 0.
THEOREM TypeCorrect == Spec => []TypeOK
<1>1. IInv => TypeOK
  BY DEF IInv
<1> QED
  BY <1>1, Invariance, PTL

\* No connection is shared by two requests, listed while in use, or lost, for any
\* number of connections and threads.
THEOREM ConnsArePartitioned == Spec => []ConnsPartition
<1>1. IInv => ConnsPartition
  BY DEF IInv
<1> QED
  BY <1>1, Invariance, PTL

\* FreeConn, CurConn, the list and the semaphore agree at every step, however many
\* waits are ended by signals: each of those leaves the semaphore one too high.
THEOREM AccountingHolds == Spec => []Accounting
<1>1. IInv => Accounting
  BY DEF IInv
<1> QED
  BY <1>1, Invariance, PTL

\* GetConnection's front() and pop_front() never meet an empty list, although
\* size() was tested before the semaphore and outside the mutex: until a signal
\* ends a wait, because of the tokens; afterwards, with no fewer connections than
\* threads, because the other threads cannot hold them all.
THEOREM FrontIsSafe == Spec => []NeverFrontOfEmpty
<1>1. IInv => NeverFrontOfEmpty
  <2> SUFFICES ASSUME IInv, interrupts = 0 \/ Cardinality(Threads) <= MaxConn,
                      NEW t \in Threads, pc[t] \in {"front", "pop"}
               PROVE  connList # <<>>
    BY DEF NeverFrontOfEmpty
  <2> USE DEF IInv
  <2>1. CASE interrupts = 0
    <3>1. t \in Woken
      BY DEF Woken
    <3>2. Cardinality(Woken) \in Nat /\ Cardinality(Posting) \in Nat /\ IsFiniteSet(Woken)
      BY AtFinite, SetsAreAt
    <3>3. Cardinality(Woken) # 0
      BY <3>1, <3>2, FS_EmptySet
    <3>4. Len(connList) + 0 = reserve + Cardinality(Woken) + Cardinality(Posting)
          /\ reserve \in Nat /\ Len(connList) \in Nat
      BY <2>1 DEF Accounting, TypeOK
    <3> QED
      BY <3>2, <3>3, <3>4 DEF TypeOK
  <2>2. CASE Cardinality(Threads) <= MaxConn
    <3>1. t \notin Holders
      BY DEF Holders
    <3> QED
      BY <2>2, <3>1, OneIsSpare
  <2> QED
    BY <2>1, <2>2
<1> QED
  BY <1>1, Invariance, PTL

\* With no fewer connections than threads, as in main.cpp (8 and 8), the
\* unlocked test of size() refuses nobody: no request runs with mysql = NULL.
THEOREM NobodyIsRefused == Spec => []NeverNull
BY Invariance, PTL
=============================================================================
