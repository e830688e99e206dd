---------------------------- MODULE ServerProofs ----------------------------
(***************************************************************************)
(* Theorems about Server for every number of clients, descriptors and      *)
(* workers, every limit and every environment.                             *)
(***************************************************************************)
EXTENDS Server, FiniteSetTheorems, TLAPS

\* A worker that is not idle serves an object.
Serving == \A w \in Workers : pc[w] # "idle" => serving[w] \in Fds

\* epoll waits only for descriptors that are open.
InterestOpen == \A fd \in Fds : interest[fd] # "absent" => Open(fd)

\* A timer belongs to a connection that was accepted.
LiveAccepted == \A c \in live : peer[c] \notin {"new", "connecting"}

\* The inductive invariant behind TimersLive.
IInv == TypeOK /\ Serving /\ InterestOpen /\ LiveAccepted /\ TimersLive

Typed == TypeOK /\ Serving
-----------------------------------------------------------------------------
\* removefd and close (http_conn.cpp:98-103) keep the kernel's tables well-typed.
LEMMA CloseFdsType ==
  ASSUME TypeOK, NEW S, CloseFds(S)
  PROVE  /\ conn' \in [Fds -> Clients \cup {None}]
         /\ interest' \in [Fds -> {"absent", "disarmed", "in", "out"}]
         /\ peer' \in [Clients -> {"new", "connecting", "quiet", "sent", "hup", "closed"}]
BY DEF TypeOK, CloseFds

\* modfd (http_conn.cpp:105-120) keeps epoll's table well-typed.
LEMMA ModfdType ==
  ASSUME TypeOK, NEW fd, NEW ev \in {"in", "out"}, Modfd(fd, ev)
  PROVE  interest' \in [Fds -> {"absent", "disarmed", "in", "out"}]
BY DEF TypeOK, Modfd

\* The number of expired timers is a number: tick decrements an integer.
LEMMA ExpiredFinite ==
  ASSUME TypeOK
  PROVE  IsFiniteSet(Expired) /\ Cardinality(Expired) \in Nat
<1>1. Expired \in SUBSET Clients
  BY DEF TypeOK, Expired
<1>2. IsFiniteSet(Expired)
  BY <1>1, ServerAssumption, FS_Subset
<1> QED
  BY <1>2, FS_CardinalityType

\* The steps of clients and of the clock are well-typed.
LEMMA OutsideType ==
  ASSUME Typed, UNCHANGED env,
         (\E c \in Clients : ClientStep(c)) \/ Advance
  PROVE  Typed'
<1> USE DEF Typed
<1>1. ASSUME NEW c \in Clients, ClientStep(c) PROVE Typed'
  BY <1>1 DEF TypeOK, Serving, ClientStep, Connect, Send, HangUp, PeerStep,
              loop, timers, conns, pool, Queue!QueueType
<1>2. ASSUME Advance PROVE Typed'
  <2>1. rem' \in [Clients -> 0 .. Timeout]
    <3>1. rem \in [Clients -> 0 .. Timeout] /\ Timeout \in Nat
      BY ServerAssumption DEF TypeOK
    <3>2. rem' = [t \in Clients |-> IF rem[t] = 0 THEN 0 ELSE rem[t] - 1]
      BY <1>2 DEF Advance
    <3> QED
      BY <3>1, <3>2
  <2> QED
    BY <1>2, <2>1 DEF TypeOK, Serving, Advance, kernel, loop, conns, pool, Queue!QueueType
<1> QED
  BY <1>1, <1>2

\* epoll reports only descriptors that are armed (EPOLLONESHOT disarms the rest).
LEMMA ReadyEvent ==
  ASSUME NEW fd
  PROVE  /\ Ready(fd) \in Events
         /\ Ready(fd) # "none" => interest[fd] \in {"in", "out"}
BY Zenon DEF Ready, Events

\* epoll_wait and the handlers of main.cpp are well-typed.
LEMMA MainType ==
  ASSUME Typed, UNCHANGED env, MainStep
  PROVE  Typed'
<1> USE DEF Typed
<1>1. ASSUME EpollWait PROVE Typed'
  <2>1. interest' \in [Fds -> {"absent", "disarmed", "in", "out"}]
    BY <1>1 DEF TypeOK, EpollWait, Disarm
  <2>2. event' \in [Fds -> Events]
    BY <1>1, ReadyEvent DEF EpollWait
  <2> QED
    BY <1>1, <2>1, <2>2 DEF TypeOK, Serving, EpollWait, timers, conns, pool, Queue!QueueType
<1>2. ASSUME NEW c \in Clients, Accept(c) PROVE Typed'
  <2>1. rem' \in [Clients -> 0 .. Timeout]
    BY <1>2, ServerAssumption DEF TypeOK, Accept
  <2>2. m_user_count' \in Int /\ live' \subseteq Clients
    BY <1>2 DEF TypeOK, Accept
  <2>3. /\ conn' \in [Fds -> Clients \cup {None}]
        /\ interest' \in [Fds -> {"absent", "disarmed", "in", "out"}]
        /\ m_sockfd' \in [Fds -> Fds \cup {None}]
        /\ request' \in [Fds -> Clients \cup {None}]
        /\ response' \in [Fds -> Clients \cup {None}]
        /\ timerFd' \in [Clients -> Fds \cup {None}]
        /\ timer' \in [Fds -> Clients \cup {None}]
    BY <1>2 DEF TypeOK, Accept, InitConn
  <2> QED
    BY <1>2, <2>1, <2>2, <2>3 DEF TypeOK, Serving, Accept, pool, Queue!QueueType
<1>3. ASSUME NEW c \in Clients, TurnAway(c) PROVE Typed'
  BY <1>3 DEF TypeOK, Serving, TurnAway, timers, conns, pool, Queue!QueueType
<1>4. ASSUME AcceptFails PROVE Typed'
  BY <1>4 DEF TypeOK, Serving, AcceptFails, kernel, timers, conns, pool, Queue!QueueType
<1>5. ASSUME OnSignal PROVE Typed'
  BY <1>5 DEF TypeOK, Serving, OnSignal, kernel, loop, timers, conns, pool, Queue!QueueType
<1>6. ASSUME NEW fd \in Fds, OnEvent(fd) PROVE Typed'
  <2>1. ASSUME Handled(fd), CloseAndForget(fd), UNCHANGED <<conns, pool>>
        PROVE  Typed'
    <3>1. CloseFds({fd})
      BY <2>1 DEF CloseAndForget
    <3>2. m_user_count' \in Int /\ live' \subseteq Clients
      BY <2>1 DEF TypeOK, CloseAndForget
    <3>3. event' \in [Fds -> Events]
      BY <2>1 DEF TypeOK, Handled, Events
    <3> QED
      BY <2>1, <3>1, <3>2, <3>3, CloseFdsType
         DEF TypeOK, Serving, CloseAndForget, Handled, conns, pool, Queue!QueueType
  <2>2. ASSUME Renew(fd), Handled(fd)
        PROVE  /\ event' \in [Fds -> Events]
               /\ rem' \in [Clients -> 0 .. Timeout]
               /\ UNCHANGED <<alarm, main, listening, live, timerFd, timer, m_user_count>>
    <3>1. event' \in [Fds -> Events]
      BY <2>2 DEF TypeOK, Handled, Events
    <3>2. Timeout \in 0 .. Timeout
      BY ServerAssumption
    <3>3. rem' \in [Clients -> 0 .. Timeout]
      BY <2>2, <3>2 DEF TypeOK, Renew
    <3> QED
      BY <2>2, <3>1, <3>3 DEF Renew, Handled
  <2>3. CASE OnHup(fd)
    BY <2>3, <2>1 DEF OnHup
  <2>4. CASE OnIn(fd)
    <3>1. /\ waiting' \in Seq(Fds)
          /\ serving' = serving
      <4>1. waiting \in Seq(Fds) /\ Append(waiting, fd) \in Seq(Fds)
        BY DEF TypeOK, Queue!QueueType
      <4> QED
        BY <2>4, <4>1 DEF OnIn, Queue!Enqueue
    <3>2. /\ request' \in [Fds -> Clients \cup {None}]
          /\ peer' \in [Clients -> {"new", "connecting", "quiet", "sent", "hup", "closed"}]
      BY <2>4 DEF TypeOK, OnIn
    <3> QED
      BY <2>4, <2>2, <3>1, <3>2 DEF TypeOK, Serving, OnIn, Queue!QueueType
  <2>5. CASE OnInFails(fd)
    BY <2>5, <2>1 DEF OnInFails
  <2>6. CASE OnOutDone(fd)
    BY <2>6, <2>2, ModfdType DEF TypeOK, Serving, OnOutDone, InitConn, pool, Queue!QueueType
  <2>7. CASE OnOutAgain(fd)
    BY <2>7, <2>2, ModfdType DEF TypeOK, Serving, OnOutAgain, conns, pool, Queue!QueueType
  <2>8. CASE OnOutClose(fd)
    BY <2>8, <2>1 DEF OnOutClose
  <2> QED
    BY <1>6, <2>3, <2>4, <2>5, <2>6, <2>7, <2>8 DEF OnEvent
<1>7. ASSUME EndOfBatch PROVE Typed'
  <2>1. CASE alarm = "timeout"
    <3>1. TimerHandler
      BY <1>7, <2>1 DEF EndOfBatch
    <3>2. CloseFds({timerFd[t] : t \in Expired})
      BY <3>1 DEF TimerHandler, Tick
    <3>3. m_user_count' \in Int /\ live' \subseteq Clients
      BY <3>1, ExpiredFinite DEF TypeOK, TimerHandler, Tick
    <3> QED
      BY <1>7, <3>1, <3>2, <3>3, CloseFdsType
         DEF TypeOK, Serving, EndOfBatch, TimerHandler, conns, pool, Queue!QueueType
  <2>2. CASE alarm # "timeout"
    BY <1>7, <2>2 DEF TypeOK, Serving, EndOfBatch, kernel, conns, pool, Queue!QueueType
  <2> QED
    BY <2>1, <2>2
<1> QED
  BY <1>1, <1>2, <1>3, <1>4, <1>5, <1>6, <1>7 DEF MainStep, OnListen

\* The steps of run and http_conn::process are well-typed.
LEMMA WorkerType ==
  ASSUME Typed, UNCHANGED env, NEW w \in Workers, WorkerStep(w)
  PROVE  Typed'
<1> USE DEF Typed
<1>1. CASE TakeRequest(w)
  <2>1. /\ waiting' \in Seq(Fds)
        /\ serving' \in [Workers -> Fds \cup {None}]
        /\ serving'[w] \in Fds
        /\ \A v \in Workers \ {w} : serving'[v] = serving[v]
    <3>1. waiting \in Seq(Fds) /\ waiting # <<>>
      BY <1>1 DEF TypeOK, TakeRequest, Queue!Take, Queue!QueueType
    <3>2. Head(waiting) \in Fds /\ Tail(waiting) \in Seq(Fds)
      BY <3>1
    <3> QED
      BY <1>1, <3>2 DEF TypeOK, TakeRequest, Queue!Take, Queue!QueueType
  <2>2. /\ pc' \in [Workers -> {"idle", "read", "write", "armIn", "armOut", "close", "clear", "load", "store"}]
        /\ \A v \in Workers \ {w} : pc'[v] = pc[v]
    BY <1>1 DEF TypeOK, TakeRequest, WorkerGoes
  <2> QED
    BY <1>1, <2>1, <2>2 DEF TypeOK, Serving, TakeRequest, kernel, loop, timers, conns, Queue!QueueType
<1>2. CASE ReadRequest(w)
  BY <1>2 DEF TypeOK, Serving, ReadRequest, WorkerGoes, kernel, loop, timers, conns, Queue!QueueType
<1>3. CASE WriteResponse(w)
  BY <1>3 DEF TypeOK, Serving, WriteResponse, WorkerGoes, kernel, loop, timers, Queue!QueueType
<1>4. CASE CloseConn(w)
  <2>1. CASE m_sockfd[serving[w]] # None
    <3>1. CloseFds({serving[w]}) /\ WorkerGoes(w, "close", "clear")
      BY <1>4, <2>1 DEF CloseConn
    <3> QED
      BY <1>4, <3>1, CloseFdsType
         DEF TypeOK, Serving, CloseConn, WorkerGoes, loop, timers, conns, Queue!QueueType
  <2>2. CASE m_sockfd[serving[w]] = None
    BY <1>4, <2>2 DEF TypeOK, Serving, CloseConn, WorkerGoes, kernel, loop, timers, conns, Queue!QueueType
  <2> QED
    BY <2>1, <2>2
<1>5. CASE ClearSockfd(w)
  BY <1>5 DEF TypeOK, Serving, ClearSockfd, WorkerGoes, kernel, loop, timers, Queue!QueueType
<1>6. CASE LoadCount(w)
  BY <1>6 DEF TypeOK, Serving, LoadCount, WorkerGoes, kernel, loop, timers, conns, Queue!QueueType
<1>7. CASE StoreCount(w)
  BY <1>7 DEF TypeOK, Serving, StoreCount, WorkerGoes, kernel, loop, timers, conns, Queue!QueueType
<1>8. CASE Rearm(w)
  <2>1. interest' \in [Fds -> {"absent", "disarmed", "in", "out"}]
    BY <1>8, ModfdType DEF Rearm
  <2>2. /\ serving' \in [Workers -> Fds \cup {None}]
        /\ \A v \in Workers \ {w} : serving'[v] = serving[v]
        /\ waiting' = waiting
    BY <1>8 DEF TypeOK, Rearm, Queue!Release, Queue!QueueType
  <2>3. /\ pc' \in [Workers -> {"idle", "read", "write", "armIn", "armOut", "close", "clear", "load", "store"}]
        /\ pc'[w] = "idle"
        /\ \A v \in Workers \ {w} : pc'[v] = pc[v]
    BY <1>8 DEF TypeOK, Rearm, WorkerGoes
  <2> QED
    BY <1>8, <2>1, <2>2, <2>3 DEF TypeOK, Serving, Rearm, loop, timers, conns, Queue!QueueType
<1> QED
  BY <1>1, <1>2, <1>3, <1>4, <1>5, <1>6, <1>7, <1>8 DEF WorkerStep

\* Every step of the server is well-typed.
LEMMA TypeStep ==
  ASSUME Typed, [Next]_vars
  PROVE  Typed'
<1>1. CASE Next
  BY <1>1, OutsideType, MainType, WorkerType DEF Next, Step
<1>2. CASE UNCHANGED vars
  BY <1>2 DEF Typed, TypeOK, Serving, vars, kernel, loop, timers, conns, pool, Queue!QueueType
<1> QED
  BY <1>1, <1>2

-----------------------------------------------------------------------------
\* epoll never waits for a descriptor that is closed: close removes it, and
\* modfd (http_conn.cpp:105-120) fails on it.
LEMMA InterestStep ==
  ASSUME Typed, InterestOpen, [Next]_vars
  PROVE  InterestOpen'
<1> USE DEF Typed
<1>1. ASSUME NEW S, CloseFds(S) PROVE InterestOpen'
  BY <1>1 DEF TypeOK, InterestOpen, Open, CloseFds
<1>2. ASSUME NEW fd, NEW ev, Modfd(fd, ev), conn' = conn PROVE InterestOpen'
  BY <1>2 DEF TypeOK, InterestOpen, Open, Modfd
<1>3. ASSUME UNCHANGED <<conn, interest>> PROVE InterestOpen'
  BY <1>3 DEF InterestOpen, Open
<1>4. CASE (\E c \in Clients : ClientStep(c)) \/ Advance
  BY <1>3, <1>4 DEF ClientStep, Connect, Send, HangUp, PeerStep, Advance, kernel
<1>5. CASE EpollWait
  BY <1>5, ReadyEvent DEF TypeOK, InterestOpen, Open, EpollWait, Disarm
<1>6. ASSUME NEW c \in Clients, Accept(c) PROVE InterestOpen'
  <2>1. PICK fd \in Fds : /\ conn' = [conn EXCEPT ![fd] = c]
                          /\ interest' = [interest EXCEPT ![fd] = "in"]
    BY <1>6 DEF Accept
  <2>2. c # None
    BY ServerAssumption
  <2> QED
    BY <2>1, <2>2 DEF TypeOK, InterestOpen, Open
<1>7. CASE (\E c \in Clients : TurnAway(c)) \/ AcceptFails \/ OnSignal
  BY <1>3, <1>7 DEF TurnAway, AcceptFails, OnSignal, kernel
<1>8. ASSUME NEW fd \in Fds, OnEvent(fd) PROVE InterestOpen'
  <2>1. CASE OnHup(fd) \/ OnInFails(fd) \/ OnOutClose(fd)
    BY <2>1, <1>1 DEF OnHup, OnInFails, OnOutClose, CloseAndForget
  <2>2. CASE OnIn(fd)
    BY <2>2, <1>3 DEF OnIn
  <2>3. CASE OnOutDone(fd) \/ OnOutAgain(fd)
    BY <2>3, <1>2 DEF OnOutDone, OnOutAgain
  <2> QED
    BY <1>8, <2>1, <2>2, <2>3 DEF OnEvent
<1>9. CASE EndOfBatch
  BY <1>9, <1>1, <1>3 DEF EndOfBatch, TimerHandler, Tick, kernel
<1>10. ASSUME NEW w \in Workers, WorkerStep(w) PROVE InterestOpen'
  <2>1. CASE CloseConn(w)
    BY <2>1, <1>1, <1>3 DEF CloseConn, kernel
  <2>2. CASE Rearm(w)
    BY <2>2, <1>2 DEF Rearm
  <2>3. CASE TakeRequest(w) \/ ReadRequest(w) \/ WriteResponse(w) \/ ClearSockfd(w)
               \/ LoadCount(w) \/ StoreCount(w)
    BY <2>3, <1>3
       DEF TakeRequest, ReadRequest, WriteResponse, ClearSockfd, LoadCount, StoreCount, kernel
  <2> QED
    BY <1>10, <2>1, <2>2, <2>3 DEF WorkerStep
<1>11. CASE UNCHANGED vars
  BY <1>3, <1>11 DEF vars, kernel
<1> QED
  BY <1>4, <1>5, <1>6, <1>7, <1>8, <1>9, <1>10, <1>11 DEF Next, Step, MainStep, OnListen

\* A client gets its timer when it is accepted, and is never accepted again.
LEMMA LiveStep ==
  ASSUME Typed, LiveAccepted, [Next]_vars
  PROVE  LiveAccepted'
<1> USE DEF Typed
<1>1. ASSUME live' \subseteq live,
             \A c \in Clients : peer[c] \notin {"new", "connecting"}
                                  => peer'[c] \notin {"new", "connecting"}
      PROVE  LiveAccepted'
  BY <1>1 DEF TypeOK, LiveAccepted
<1>2. ASSUME NEW S, CloseFds(S), live' \subseteq live PROVE LiveAccepted'
  BY <1>1, <1>2 DEF TypeOK, CloseFds
<1>3. ASSUME UNCHANGED peer, live' \subseteq live PROVE LiveAccepted'
  BY <1>1, <1>3
<1>4. CASE \E c \in Clients : ClientStep(c)
  BY <1>1, <1>4 DEF TypeOK, ClientStep, Connect, Send, HangUp, PeerStep, timers
<1>5. CASE Advance \/ EpollWait \/ AcceptFails \/ OnSignal
  BY <1>3, <1>5 DEF Advance, EpollWait, AcceptFails, OnSignal, kernel, timers
<1>6. ASSUME NEW c \in Clients, Accept(c) PROVE LiveAccepted'
  <2>1. peer'[c] = "quiet" /\ \A d \in Clients \ {c} : peer'[d] = peer[d]
    BY <1>6 DEF TypeOK, Accept
  <2>2. live' = live \cup {c} /\ live \subseteq Clients
    BY <1>6 DEF TypeOK, Accept
  <2> QED
    BY <2>1, <2>2 DEF LiveAccepted
<1>7. ASSUME NEW c \in Clients, TurnAway(c) PROVE LiveAccepted'
  BY <1>1, <1>7 DEF TypeOK, TurnAway, timers
<1>8. ASSUME NEW fd \in Fds, OnEvent(fd) PROVE LiveAccepted'
  <2>1. CASE OnHup(fd) \/ OnInFails(fd) \/ OnOutClose(fd)
    BY <2>1, <1>2 DEF OnHup, OnInFails, OnOutClose, CloseAndForget
  <2>2. CASE OnIn(fd)
    BY <2>2, <1>1 DEF TypeOK, OnIn, Renew
  <2>3. CASE OnOutDone(fd) \/ OnOutAgain(fd)
    BY <2>3, <1>3 DEF OnOutDone, OnOutAgain, Renew
  <2> QED
    BY <1>8, <2>1, <2>2, <2>3 DEF OnEvent
<1>9. CASE EndOfBatch
  BY <1>9, <1>2, <1>3 DEF EndOfBatch, TimerHandler, Tick, kernel
<1>10. ASSUME NEW w \in Workers, WorkerStep(w) PROVE LiveAccepted'
  <2>1. CASE CloseConn(w)
    BY <2>1, <1>2, <1>3 DEF CloseConn, kernel, timers
  <2>2. CASE TakeRequest(w) \/ ReadRequest(w) \/ WriteResponse(w) \/ ClearSockfd(w)
               \/ LoadCount(w) \/ StoreCount(w) \/ Rearm(w)
    BY <2>2, <1>3
       DEF TakeRequest, ReadRequest, WriteResponse, ClearSockfd, LoadCount, StoreCount, Rearm,
           kernel, timers
  <2> QED
    BY <1>10, <2>1, <2>2 DEF WorkerStep
<1>11. CASE UNCHANGED vars
  BY <1>3, <1>11 DEF vars, kernel, timers
<1> QED
  BY <1>4, <1>5, <1>6, <1>7, <1>8, <1>9, <1>10, <1>11 DEF Next, Step, MainStep, OnListen

-----------------------------------------------------------------------------
\* timer[fd] may be used: it is allocated and points back to users_timer[fd].
Usable(fd) == timer[fd] \in live /\ timerFd[timer[fd]] = fd

\* No step deletes the timer of a descriptor that stays open or has an event
\* left in the batch: the deleted timers point to the entries they are found by.
LEMMA TimersLiveStep ==
  ASSUME IInv, [Next]_vars
  PROVE  TimersLive'
<1> USE DEF IInv
<1>1. ASSUME UNCHANGED timers,
             \A fd \in Fds : (Open(fd) \/ event[fd] # "none")' => Open(fd) \/ event[fd] # "none"
      PROVE  TimersLive'
  BY <1>1 DEF TimersLive, timers
<1>2. ASSUME UNCHANGED <<timers, conn, event>> PROVE TimersLive'
  BY <1>1, <1>2 DEF Open
<1>3. CASE (\E c \in Clients : ClientStep(c)) \/ AcceptFails \/ OnSignal
             \/ (\E c \in Clients : TurnAway(c))
  BY <1>2, <1>3 DEF ClientStep, Connect, Send, HangUp, PeerStep, AcceptFails, OnSignal, TurnAway,
                    loop, kernel
<1>4. CASE Advance
  BY <1>4 DEF Advance, TimersLive, Open, kernel, loop
<1>5. CASE EpollWait
  <2>1. \A fd \in Fds : event'[fd] # "none" => Open(fd)
    BY <1>5, ReadyEvent DEF EpollWait, InterestOpen
  <2> QED
    BY <1>1, <1>5, <2>1 DEF EpollWait, Open
<1>6. ASSUME NEW c \in Clients, Accept(c) PROVE TimersLive'
  <2>1. PICK fd \in Fds : /\ Lowest(fd)
                          /\ conn' = [conn EXCEPT ![fd] = c]
                          /\ timerFd' = [timerFd EXCEPT ![c] = fd]
                          /\ timer' = [timer EXCEPT ![fd] = c]
    BY <1>6 DEF Accept
  <2>2. c \notin live
    BY <1>6 DEF Accept, LiveAccepted
  <2>3. live' = live \cup {c} /\ event' = event
    BY <1>6 DEF Accept
  <2>4. Usable(fd)'
    BY <2>1, <2>3 DEF TypeOK, Usable
  <2>5. ASSUME NEW g \in Fds \ {fd}, (Open(g) \/ event[g] # "none")'
        PROVE  Usable(g)'
    <3>1. timer[g] \in live /\ timerFd[timer[g]] = g
      BY <2>1, <2>3, <2>5 DEF TypeOK, TimersLive, Open
    <3> QED
      BY <2>1, <2>2, <2>3, <3>1 DEF TypeOK, Usable
  <2> QED
    BY <2>4, <2>5 DEF TimersLive, Usable
<1>7. ASSUME NEW fd \in Fds, event[fd] # "none", CloseAndForget(fd), Handled(fd)
      PROVE  TimersLive'
  <2>1. /\ conn' = [g \in Fds |-> IF g = fd THEN None ELSE conn[g]]
        /\ event' = [event EXCEPT ![fd] = "none"]
        /\ live' = live \ {timer[fd]}
        /\ UNCHANGED <<timer, timerFd>>
    BY <1>7 DEF CloseAndForget, CloseFds, Handled
  <2>2. timerFd[timer[fd]] = fd
    BY <1>7 DEF TimersLive
  <2>3. ASSUME NEW g \in Fds, (Open(g) \/ event[g] # "none")'
        PROVE  Usable(g)'
    <3>1. g # fd /\ (Open(g) \/ event[g] # "none")
      BY <2>1, <2>3 DEF TypeOK, Open
    <3>2. timer[g] \in live /\ timerFd[timer[g]] = g
      BY <3>1 DEF TimersLive
    <3>3. timer[g] # timer[fd]
      BY <2>2, <3>1, <3>2
    <3> QED
      BY <2>1, <3>2, <3>3 DEF Usable
  <2> QED
    BY <2>3 DEF TimersLive, Usable
<1>8. ASSUME NEW fd \in Fds, Renew(fd), Handled(fd), UNCHANGED conn
      PROVE  TimersLive'
  BY <1>8 DEF TypeOK, TimersLive, Open, Renew, Handled
<1>9. ASSUME NEW fd \in Fds, OnEvent(fd) PROVE TimersLive'
  <2>1. CASE OnHup(fd) \/ OnInFails(fd) \/ OnOutClose(fd)
    BY <2>1, <1>7 DEF OnHup, OnInFails, OnOutClose
  <2>2. CASE OnIn(fd) \/ OnOutDone(fd) \/ OnOutAgain(fd)
    BY <2>2, <1>8 DEF OnIn, OnOutDone, OnOutAgain
  <2> QED
    BY <1>9, <2>1, <2>2 DEF OnEvent
<1>10. CASE EndOfBatch
  <2>1. CASE alarm = "timeout"
    <3>1. /\ conn' = [g \in Fds |-> IF g \in {timerFd[t] : t \in Expired} THEN None ELSE conn[g]]
          /\ live' = live \ Expired
          /\ UNCHANGED <<event, timer, timerFd>>
      BY <1>10, <2>1 DEF EndOfBatch, TimerHandler, Tick, CloseFds
    <3>2. ASSUME NEW g \in Fds, (Open(g) \/ event[g] # "none")'
          PROVE  Usable(g)'
      <4>1. event[g] = "none"
        BY <1>10 DEF EndOfBatch, Dispatched
      <4>2. Open(g) /\ g \notin {timerFd[t] : t \in Expired}
        BY <3>1, <3>2, <4>1 DEF Open
      <4>3. timer[g] \in live /\ timerFd[timer[g]] = g
        BY <4>2 DEF TimersLive
      <4>4. timer[g] \notin Expired
        BY <4>2, <4>3
      <4> QED
        BY <3>1, <4>3, <4>4 DEF Usable
    <3> QED
      BY <3>2 DEF TimersLive, Usable
  <2>2. CASE alarm # "timeout"
    BY <1>10, <1>2, <2>2 DEF EndOfBatch, kernel, timers
  <2> QED
    BY <2>1, <2>2
<1>11. ASSUME NEW w \in Workers, WorkerStep(w) PROVE TimersLive'
  <2>1. CASE CloseConn(w)
    BY <2>1, <1>1, <1>2 DEF CloseConn, CloseFds, Open, loop, kernel
  <2>2. CASE TakeRequest(w) \/ ReadRequest(w) \/ WriteResponse(w) \/ ClearSockfd(w)
               \/ LoadCount(w) \/ StoreCount(w) \/ Rearm(w)
    BY <2>2, <1>2
       DEF TakeRequest, ReadRequest, WriteResponse, ClearSockfd, LoadCount, StoreCount, Rearm,
           kernel, loop
  <2> QED
    BY <1>11, <2>1, <2>2 DEF WorkerStep
<1>12. CASE UNCHANGED vars
  BY <1>2, <1>12 DEF vars, kernel, loop
<1> QED
  BY <1>3, <1>4, <1>5, <1>6, <1>9, <1>10, <1>11, <1>12 DEF Next, Step, MainStep, OnListen

\* The server starts in the invariant.
LEMMA InitIInv == Init => IInv
<1> SUFFICES ASSUME Init PROVE IInv
  OBVIOUS
<1>1. TypeOK
  <2>1. rem \in [Clients -> 0 .. Timeout]
    BY ServerAssumption DEF Init
  <2>2. waiting \in Seq(Fds) /\ serving \in [Workers -> Fds \cup {None}]
    BY DEF Init, Queue!QueueInit
  <2> QED
    <3>1. /\ timerFd \in [Clients -> Fds \cup {None}]
          /\ timer \in [Fds -> Clients \cup {None}]
          /\ m_sockfd \in [Fds -> Fds \cup {None}]
          /\ m_user_count \in Int
          /\ request \in [Fds -> Clients \cup {None}]
          /\ response \in [Fds -> Clients \cup {None}]
          /\ whose \in [Workers -> Clients \cup {None}]
          /\ seen \in [Workers -> Int]
      BY DEF Init
    <3>2. /\ env \in Environments
          /\ peer \in [Clients -> {"new", "connecting", "quiet", "sent", "hup", "closed"}]
          /\ conn \in [Fds -> Clients \cup {None}]
          /\ interest \in [Fds -> {"absent", "disarmed", "in", "out"}]
          /\ event \in [Fds -> Events]
          /\ live \subseteq Clients
          /\ pc \in [Workers -> {"idle", "read", "write", "armIn", "armOut", "close", "clear", "load", "store"}]
      BY DEF Init, Events
    <3>3. /\ alarm \in {"armed", "pipe", "event", "timeout"}
          /\ main \in {"wait", "dispatch"}
          /\ listening \in BOOLEAN
      BY DEF Init
    <3> QED
      BY <2>1, <2>2, <3>1, <3>2, <3>3 DEF TypeOK, Queue!QueueType
<1> QED
  BY <1>1 DEF Init, IInv, Serving, InterestOpen, LiveAccepted, TimersLive, Open

\* The invariant holds in every reachable state.
LEMMA Invariance == Spec => []IInv
<1>1. IInv /\ [Next]_vars => IInv'
  BY TypeStep, InterestStep, LiveStep, TimersLiveStep DEF IInv, Typed
<1> QED
  BY <1>1, InitIInv, PTL DEF Spec

\* Every variable of the server has its type, for any number of clients,
\* descriptors and workers: no handler leaves an entry of users, users_timer or
\* the pool without a value of its kind.
THEOREM TypeCorrect == Spec => []TypeOK
<1>1. IInv => TypeOK
  BY DEF IInv
<1> QED
  BY <1>1, Invariance, PTL

\* The event loop never dereferences a deleted or a NULL timer (main.cpp:256-361),
\* in any environment: workers may stall, close descriptors, and lose updates.
THEOREM TimersAlwaysLive == Spec => []TimersLive
<1>1. IInv => TimersLive
  BY DEF IInv
<1> QED
  BY <1>1, Invariance, PTL

-----------------------------------------------------------------------------
\* Without missing files process_write never refuses, and no worker is in close_conn.
NoWorkerCloses == ~ Misses => \A w \in Workers : pc[w] \notin {"close", "clear", "load", "store"}

\* The inductive invariant behind TimerPerConnection and CountExact.
JInv == IInv /\ NoWorkerCloses /\ TimerPerConnection /\ CountExact

OpenFds == {fd \in Fds : Open(fd)}

\* The environment is part of a behaviour.
LEMMA MissesStep == [Next]_vars => Misses' = Misses
BY DEF Next, vars, Misses

\* A worker enters close_conn only after process_write has refused.
LEMMA NoWorkerClosesStep ==
  ASSUME IInv, NoWorkerCloses, [Next]_vars
  PROVE  NoWorkerCloses'
<1> SUFFICES ASSUME ~ Misses
             PROVE  \A w \in Workers : pc'[w] \notin {"close", "clear", "load", "store"}
  BY MissesStep DEF NoWorkerCloses
<1>1. pc \in [Workers -> {"idle", "read", "write", "armIn", "armOut", "close", "clear", "load", "store"}]
  BY DEF IInv, TypeOK
<1>2. \A w \in Workers : pc[w] \notin {"close", "clear", "load", "store"}
  BY DEF NoWorkerCloses
<1>3. CASE UNCHANGED pc
  BY <1>2, <1>3
<1>4. ASSUME NEW w \in Workers, WorkerStep(w)
      PROVE  \A v \in Workers : pc'[v] \notin {"close", "clear", "load", "store"}
  <2>1. \E to \in {"idle", "read", "write", "armIn", "armOut"} : pc' = [pc EXCEPT ![w] = to]
    BY <1>2, <1>4
       DEF WorkerStep, TakeRequest, ReadRequest, WriteResponse, CloseConn, ClearSockfd, LoadCount,
           StoreCount, Rearm, WorkerGoes
  <2> QED
    BY <1>1, <1>2, <2>1
<1>5. ASSUME (\E c \in Clients : ClientStep(c)) \/ Advance \/ MainStep
      PROVE  UNCHANGED pc
  BY <1>5
     DEF ClientStep, Connect, Send, HangUp, PeerStep, Advance, MainStep, EpollWait, OnListen, Accept,
         TurnAway, AcceptFails, OnSignal, OnEvent, OnHup, OnIn, OnInFails, OnOutDone, OnOutAgain,
         OnOutClose, EndOfBatch, pool
<1> QED
  BY <1>3, <1>4, <1>5 DEF Next, Step, vars, pool

\* What the invariant says of a descriptor whose event is being handled, and
\* what closing it and forgetting its timer changes.
LEMMA CloseAndForgetEffect ==
  ASSUME IInv, TimerPerConnection, ~ Misses,
         NEW fd \in Fds, event[fd] # "none", CloseAndForget(fd)
  PROVE  /\ Open(fd) /\ timer[fd] = conn[fd]
         /\ conn' = [g \in Fds |-> IF g = fd THEN None ELSE conn[g]]
         /\ live' = live \ {timer[fd]}
         /\ UNCHANGED <<timer, timerFd>>
         /\ m_user_count' = m_user_count - 1
<1>1. timer[fd] \in live /\ timerFd[timer[fd]] = fd
  BY DEF IInv, TimersLive
<1>2. conn[fd] = timer[fd]
  BY <1>1 DEF TimerPerConnection
<1>3. timer[fd] # None
  BY <1>1, ServerAssumption DEF IInv, TypeOK
<1> QED
  BY <1>2, <1>3 DEF CloseAndForget, CloseFds, Open

\* One timer per open connection is preserved when no worker closes one.
LEMMA TimerPerConnectionStep ==
  ASSUME IInv, NoWorkerCloses, TimerPerConnection, [Next]_vars
  PROVE  TimerPerConnection'
<1> USE DEF IInv
<1> SUFFICES ASSUME ~ Misses
             PROVE  /\ \A fd \in Fds : Open(fd)' => timer'[fd] = conn'[fd] /\ conn'[fd] \in live'
                    /\ \A t \in live' : timerFd'[t] \in Fds /\ conn'[timerFd'[t]] = t
  BY MissesStep DEF TimerPerConnection
<1> DEFINE OneEach == /\ \A fd \in Fds : Open(fd) => timer[fd] = conn[fd] /\ conn[fd] \in live
                      /\ \A t \in live : timerFd[t] \in Fds /\ conn[timerFd[t]] = t
<1>0. OneEach
  BY DEF TimerPerConnection
<1>1. ASSUME UNCHANGED <<conn, live, timer, timerFd>> PROVE OneEach'
  BY <1>0, <1>1 DEF Open
<1>2. CASE (\E c \in Clients : ClientStep(c)) \/ Advance \/ EpollWait \/ AcceptFails \/ OnSignal
             \/ (\E c \in Clients : TurnAway(c))
  BY <1>1, <1>2 DEF ClientStep, Connect, Send, HangUp, PeerStep, Advance, EpollWait, AcceptFails,
                    OnSignal, TurnAway, kernel, timers
<1>3. ASSUME NEW c \in Clients, Accept(c) PROVE OneEach'
  <2>1. PICK fd \in Fds : /\ ~ Open(fd)
                          /\ conn' = [conn EXCEPT ![fd] = c]
                          /\ timerFd' = [timerFd EXCEPT ![c] = fd]
                          /\ timer' = [timer EXCEPT ![fd] = c]
    BY <1>3 DEF Accept, Lowest
  <2>2. c \notin live /\ live' = live \cup {c}
    BY <1>3 DEF Accept, LiveAccepted
  <2>3. \A g \in Fds : Open(g)' => timer'[g] = conn'[g] /\ conn'[g] \in live'
    BY <1>0, <2>1, <2>2 DEF TypeOK, Open
  <2>4. ASSUME NEW t \in live' PROVE timerFd'[t] \in Fds /\ conn'[timerFd'[t]] = t
    <3>1. CASE t = c
      BY <2>1, <3>1 DEF TypeOK
    <3>2. CASE t # c
      <4>1. t \in live /\ t \in Clients
        BY <2>2, <3>2 DEF TypeOK
      <4>2. timerFd[t] \in Fds /\ conn[timerFd[t]] = t /\ t # None
        BY <1>0, <4>1, ServerAssumption
      <4> QED
        BY <2>1, <3>2, <4>1, <4>2 DEF TypeOK, Open
    <3> QED
      BY <3>1, <3>2
  <2> QED
    BY <2>3, <2>4
<1>4. ASSUME NEW fd \in Fds, event[fd] # "none", CloseAndForget(fd) PROVE OneEach'
  <2>1. /\ Open(fd) /\ timer[fd] = conn[fd]
        /\ conn' = [g \in Fds |-> IF g = fd THEN None ELSE conn[g]]
        /\ live' = live \ {timer[fd]}
        /\ UNCHANGED <<timer, timerFd>>
    BY <1>4, CloseAndForgetEffect
  <2>2. ASSUME NEW g \in Fds, Open(g)' PROVE timer'[g] = conn'[g] /\ conn'[g] \in live'
    <3>1. g # fd /\ Open(g) /\ conn'[g] = conn[g]
      BY <2>1, <2>2 DEF Open
    <3>2. timer[g] = conn[g] /\ timer[g] \in live /\ timerFd[timer[g]] = g
      BY <1>0, <3>1 DEF TimersLive
    <3>3. timerFd[timer[fd]] = fd
      BY <2>1 DEF TimersLive
    <3> QED
      BY <2>1, <3>1, <3>2, <3>3
  <2>3. ASSUME NEW t \in live' PROVE timerFd'[t] \in Fds /\ conn'[timerFd'[t]] = t
    BY <1>0, <2>1, <2>3
  <2> QED
    BY <2>2, <2>3
<1>5. ASSUME NEW fd \in Fds, OnEvent(fd) PROVE OneEach'
  <2>1. CASE OnHup(fd) \/ OnInFails(fd) \/ OnOutClose(fd)
    BY <2>1, <1>4 DEF OnHup, OnInFails, OnOutClose
  <2>2. CASE OnIn(fd) \/ OnOutDone(fd) \/ OnOutAgain(fd)
    BY <2>2, <1>1 DEF OnIn, OnOutDone, OnOutAgain, Renew
  <2> QED
    BY <1>5, <2>1, <2>2 DEF OnEvent
<1>6. CASE EndOfBatch
  <2>1. CASE alarm = "timeout"
    <3>1. /\ conn' = [g \in Fds |-> IF g \in {timerFd[t] : t \in Expired} THEN None ELSE conn[g]]
          /\ live' = live \ Expired
          /\ UNCHANGED <<timer, timerFd>>
      BY <1>6, <2>1 DEF EndOfBatch, TimerHandler, Tick, CloseFds
    <3>2. ASSUME NEW g \in Fds, Open(g)' PROVE timer'[g] = conn'[g] /\ conn'[g] \in live'
      <4>1. Open(g) /\ g \notin {timerFd[t] : t \in Expired} /\ conn'[g] = conn[g]
        BY <3>1, <3>2 DEF Open
      <4>2. timer[g] = conn[g] /\ timer[g] \in live /\ timerFd[timer[g]] = g
        BY <1>0, <4>1 DEF TimersLive
      <4> QED
        BY <3>1, <4>1, <4>2
    <3>3. ASSUME NEW t \in live' PROVE timerFd'[t] \in Fds /\ conn'[timerFd'[t]] = t
      <4>1. t \in live \ Expired /\ timerFd[t] \in Fds /\ conn[timerFd[t]] = t
        BY <1>0, <3>1, <3>3
      <4>2. \A e \in Expired : conn[timerFd[e]] = e
        BY <1>0 DEF Expired
      <4> QED
        BY <3>1, <4>1, <4>2
    <3> QED
      BY <3>2, <3>3
  <2>2. CASE alarm # "timeout"
    BY <1>1, <1>6, <2>2 DEF EndOfBatch, kernel
  <2> QED
    BY <2>1, <2>2
<1>7. ASSUME NEW w \in Workers, WorkerStep(w) PROVE OneEach'
  <2>1. pc[w] # "close"
    BY DEF NoWorkerCloses
  <2> QED
    BY <1>1, <1>7, <2>1
       DEF WorkerStep, TakeRequest, ReadRequest, WriteResponse, CloseConn, ClearSockfd, LoadCount,
           StoreCount, Rearm, kernel, timers
<1>8. CASE UNCHANGED vars
  BY <1>1, <1>8 DEF vars, kernel, timers
<1> QED
  BY <1>2, <1>3, <1>5, <1>6, <1>7, <1>8 DEF Next, Step, MainStep, OnListen

\* The open descriptors are counted by a number.
LEMMA OpenFinite == IsFiniteSet(OpenFds) /\ Cardinality(OpenFds) \in Nat
<1>1. OpenFds \in SUBSET Fds
  BY DEF OpenFds
<1>2. IsFiniteSet(OpenFds)
  BY <1>1, ServerAssumption, FS_Subset
<1> QED
  BY <1>2, FS_CardinalityType

\* tick subtracts one for each descriptor it closes: expired timers point to
\* different open descriptors.
LEMMA ExpiredAreOpen ==
  ASSUME IInv, TimerPerConnection, ~ Misses
  PROVE  /\ {timerFd[t] : t \in Expired} \subseteq OpenFds
         /\ Cardinality({timerFd[t] : t \in Expired}) = Cardinality(Expired)
<1> DEFINE S  == {timerFd[t] : t \in Expired}
           to == [t \in Expired |-> timerFd[t]]
<1>1. \A t \in Expired : timerFd[t] \in Fds /\ conn[timerFd[t]] = t /\ t # None
  BY ServerAssumption DEF TimerPerConnection, Expired, IInv, TypeOK
<1>2. S \subseteq OpenFds
  BY <1>1 DEF OpenFds, Open
<1>3. to \in Bijection(Expired, S)
  <2>1. to \in [Expired -> S] /\ \A s \in S : \E t \in Expired : to[t] = s
    OBVIOUS
  <2>2. \A t, u \in Expired : to[t] = to[u] => t = u
    BY <1>1
  <2> QED
    BY <2>1, <2>2 DEF Bijection, Injection, Surjection, IsInjective
<1>4. ExistsBijection(Expired, S)
  BY <1>3 DEF ExistsBijection
<1>5. Cardinality(S) = Cardinality(Expired)
  BY <1>4, ExpiredFinite, FS_Bijection DEF IInv
<1> QED
  BY <1>2, <1>5

\* The count stays exact when no worker closes a connection.
LEMMA CountExactStep ==
  ASSUME IInv, NoWorkerCloses, TimerPerConnection, CountExact, [Next]_vars
  PROVE  CountExact'
<1> USE DEF IInv
<1> SUFFICES ASSUME ~ Misses
             PROVE  m_user_count' = Cardinality(OpenFds')
  BY MissesStep DEF CountExact, OpenFds, Open
<1>0. m_user_count = Cardinality(OpenFds)
  BY DEF CountExact, OpenFds
<1>1. ASSUME UNCHANGED <<conn, m_user_count>> PROVE m_user_count' = Cardinality(OpenFds')
  <2>1. OpenFds' = OpenFds
    BY <1>1 DEF OpenFds, Open
  <2> QED
    BY <1>0, <1>1, <2>1
<1>2. CASE (\E c \in Clients : ClientStep(c)) \/ Advance \/ EpollWait \/ AcceptFails \/ OnSignal
             \/ (\E c \in Clients : TurnAway(c))
  BY <1>1, <1>2 DEF ClientStep, Connect, Send, HangUp, PeerStep, Advance, EpollWait, AcceptFails,
                    OnSignal, TurnAway, kernel
<1>3. ASSUME NEW c \in Clients, Accept(c) PROVE m_user_count' = Cardinality(OpenFds')
  <2>1. PICK fd \in Fds : ~ Open(fd) /\ conn' = [conn EXCEPT ![fd] = c]
    BY <1>3 DEF Accept, Lowest
  <2>2. c # None /\ m_user_count' = m_user_count + 1
    BY <1>3, ServerAssumption DEF Accept
  <2>3. OpenFds' = OpenFds \cup {fd} /\ fd \notin OpenFds
    BY <2>1, <2>2 DEF TypeOK, OpenFds, Open
  <2>4. Cardinality(OpenFds \cup {fd}) = Cardinality(OpenFds) + 1
    BY <2>3, OpenFinite, FS_AddElement
  <2> QED
    BY <1>0, <2>2, <2>3, <2>4
<1>4. ASSUME NEW fd \in Fds, event[fd] # "none", CloseAndForget(fd)
      PROVE  m_user_count' = Cardinality(OpenFds')
  <2>1. /\ Open(fd)
        /\ conn' = [g \in Fds |-> IF g = fd THEN None ELSE conn[g]]
        /\ m_user_count' = m_user_count - 1
    BY <1>4, CloseAndForgetEffect
  <2>2. OpenFds' = OpenFds \ {fd} /\ fd \in OpenFds
    BY <2>1 DEF OpenFds, Open
  <2>3. Cardinality(OpenFds \ {fd}) = Cardinality(OpenFds) - 1
    BY <2>2, OpenFinite, FS_RemoveElement
  <2> QED
    BY <1>0, <2>1, <2>2, <2>3
<1>5. ASSUME NEW fd \in Fds, OnEvent(fd) PROVE m_user_count' = Cardinality(OpenFds')
  <2>1. CASE OnHup(fd) \/ OnInFails(fd) \/ OnOutClose(fd)
    BY <2>1, <1>4 DEF OnHup, OnInFails, OnOutClose
  <2>2. CASE OnIn(fd) \/ OnOutDone(fd) \/ OnOutAgain(fd)
    BY <2>2, <1>1 DEF OnIn, OnOutDone, OnOutAgain, Renew
  <2> QED
    BY <1>5, <2>1, <2>2 DEF OnEvent
<1>6. CASE EndOfBatch
  <2>1. CASE alarm = "timeout"
    <3> DEFINE S == {timerFd[t] : t \in Expired}
    <3>1. /\ conn' = [g \in Fds |-> IF g \in S THEN None ELSE conn[g]]
          /\ m_user_count' = m_user_count - Cardinality(Expired)
      BY <1>6, <2>1 DEF EndOfBatch, TimerHandler, Tick, CloseFds
    <3>2. OpenFds' = OpenFds \ S
      BY <3>1 DEF OpenFds, Open
    <3>3. OpenFds \cap S = S /\ Cardinality(S) = Cardinality(Expired)
      BY ExpiredAreOpen
    <3>4. Cardinality(OpenFds \ S) = Cardinality(OpenFds) - Cardinality(OpenFds \cap S)
      BY OpenFinite, FS_Difference
    <3> QED
      BY <1>0, <3>1, <3>2, <3>3, <3>4
  <2>2. CASE alarm # "timeout"
    BY <1>1, <1>6, <2>2 DEF EndOfBatch, kernel
  <2> QED
    BY <2>1, <2>2
<1>7. ASSUME NEW w \in Workers, WorkerStep(w) PROVE m_user_count' = Cardinality(OpenFds')
  <2>1. pc[w] \notin {"close", "store"}
    BY DEF NoWorkerCloses
  <2> QED
    BY <1>1, <1>7, <2>1
       DEF WorkerStep, TakeRequest, ReadRequest, WriteResponse, CloseConn, ClearSockfd, LoadCount,
           StoreCount, Rearm, WorkerGoes, kernel
<1>8. CASE UNCHANGED vars
  BY <1>1, <1>8 DEF vars, kernel
<1> QED
  BY <1>2, <1>3, <1>5, <1>6, <1>7, <1>8 DEF Next, Step, MainStep, OnListen

\* The server starts with no connection, no timer and count 0.
LEMMA InitJInv == Init => JInv
<1> SUFFICES ASSUME Init PROVE JInv
  OBVIOUS
<1>1. {fd \in Fds : Open(fd)} = {}
  BY DEF Init, Open
<1>2. m_user_count = Cardinality({fd \in Fds : Open(fd)})
  BY <1>1, FS_EmptySet DEF Init
<1> QED
  BY <1>2, InitIInv DEF Init, JInv, NoWorkerCloses, TimerPerConnection, CountExact, Open

\* The second invariant holds in every reachable state.
LEMMA JInvariance == Spec => []JInv
<1>1. JInv /\ [Next]_vars => JInv'
  <2> SUFFICES ASSUME JInv, [Next]_vars PROVE JInv'
    OBVIOUS
  <2>1. IInv'
    BY TypeStep, InterestStep, LiveStep, TimersLiveStep DEF JInv, IInv, Typed
  <2> QED
    BY <2>1, NoWorkerClosesStep, TimerPerConnectionStep, CountExactStep DEF JInv
<1> QED
  BY <1>1, InitJInv, PTL DEF Spec

\* While the event loop alone closes descriptors (no request names a missing or
\* an empty file), users_timer and timer_lst follow the open connections one to one.
THEOREM TimersFollowConnections == Spec => []TimerPerConnection
<1>1. JInv => TimerPerConnection
  BY DEF JInv
<1> QED
  BY <1>1, JInvariance, PTL

\* Under the same condition m_user_count is the number of connected clients
\* (http_conn.h:110), through accepts, hang-ups, failed reads and ticks.
THEOREM CountIsExact == Spec => []CountExact
<1>1. JInv => CountExact
  BY DEF JInv
<1> QED
  BY <1>1, JInvariance, PTL

\* "Delete inactive connections" (main.cpp:76): without missing files tick closes a
\* connection only when a whole period has passed since its client was last active.
THEOREM TickSparesActive == Spec => TickClosesInactive
<1>1. JInv /\ [Next]_vars =>
        [~ Misses => \A fd \in Fds :
           Open(fd) /\ conn'[fd] = None /\ main = "dispatch" /\ main' = "wait" => rem[conn[fd]] = 0]_vars
  <2> SUFFICES ASSUME JInv, Next, ~ Misses, NEW fd \in Fds,
                      Open(fd), conn'[fd] = None, main = "dispatch", main' = "wait"
               PROVE  rem[conn[fd]] = 0
    BY DEF vars
  <2>1. EndOfBatch
    <3>1. ASSUME NEW c \in Clients, ClientStep(c) PROVE main' = main
      BY <3>1 DEF ClientStep, Connect, Send, HangUp, PeerStep, loop
    <3>2. ASSUME NEW w \in Workers, WorkerStep(w) PROVE main' = main
      BY <3>2 DEF WorkerStep, TakeRequest, ReadRequest, WriteResponse, CloseConn, ClearSockfd, LoadCount,
                  StoreCount, Rearm, loop
    <3>3. ASSUME NEW g \in Fds, OnEvent(g) PROVE main' = main
      BY <3>3 DEF OnEvent, OnHup, OnIn, OnInFails, OnOutDone, OnOutAgain, OnOutClose, Handled
    <3>4. Advance \/ OnListen \/ OnSignal => main' = main
      BY DEF Advance, OnListen, Accept, TurnAway, AcceptFails, OnSignal, loop
    <3>5. ~ EpollWait
      BY DEF EpollWait
    <3> QED
      BY <3>1, <3>2, <3>3, <3>4, <3>5 DEF Next, Step, MainStep
  <2>2. alarm = "timeout"
    BY <2>1 DEF EndOfBatch, kernel, Open
  <2>3. PICK t \in Expired : timerFd[t] = fd
    BY <2>1, <2>2 DEF EndOfBatch, TimerHandler, Tick, CloseFds, Open
  <2>4. conn[fd] = t /\ rem[t] = 0
    BY <2>3 DEF JInv, TimerPerConnection, Expired
  <2> QED
    BY <2>4
<1> QED
  BY <1>1, JInvariance, PTL DEF Spec, TickClosesInactive
-----------------------------------------------------------------------------
(* One holder per http_conn object, when workers are prompt and no file is  *)
(* missing.                                                                 *)

Armed(fd)    == interest[fd] \in {"in", "out"}
Reported(fd) == event[fd] # "none"

\* The connection of a request that is queued or processed is open and its
\* timer has not expired.
BusyInTime == \A fd \in Fds : Busy(fd) => Open(fd) /\ rem[timer[fd]] > 0

\* Exclusive without numbers: the four places an object can be in exclude each
\* other, it is at most once in the queue and with at most one worker.
OnePlace ==
  \A fd \in Fds : /\ Armed(fd) => ~ Reported(fd)
                  /\ Busy(fd) => ~ Armed(fd) /\ ~ Reported(fd)
                  /\ ~ (Queue!Waits(fd) /\ Queue!Served(fd))

QueuedOnce == \A i, j \in 1 .. Len(waiting) : waiting[i] = waiting[j] => i = j

OneWorker == \A v, w \in Workers : serving[v] = serving[w] /\ serving[v] # None => v = w

OneHolder == OnePlace /\ QueuedOnce /\ OneWorker

\* What an open connection's object and the worker that serves it hold is the
\* connection's own.
Own ==
  /\ \A fd \in Fds : Open(fd) => request[fd] \in {None, conn[fd]} /\ response[fd] \in {None, conn[fd]}
  /\ \A w \in Workers : whose[w] # None => serving[w] \in Fds /\ whose[w] = conn[serving[w]]

\* The inductive invariant behind Exclusive and OwnResponse.
KInv == JInv /\ (env = "calm" => BusyInTime /\ OneHolder /\ Own)

\* append puts one object at the end of the queue.
LEMMA EnqueueEffect ==
  ASSUME TypeOK, NEW g \in Fds, waiting' = Append(waiting, g), serving' = serving
  PROVE  /\ \A fd \in Fds : Queue!Waits(fd)' <=> Queue!Waits(fd) \/ fd = g
         /\ \A fd \in Fds : Queue!Served(fd)' <=> Queue!Served(fd)
<1>1. /\ waiting \in Seq(Fds)
      /\ Len(waiting') = Len(waiting) + 1
      /\ \A i \in 1 .. Len(waiting) : waiting'[i] = waiting[i]
      /\ waiting'[Len(waiting) + 1] = g
  BY DEF TypeOK, Queue!QueueType
<1>2. Len(waiting) \in Nat
  BY <1>1
<1>3. ASSUME NEW fd \in Fds PROVE Queue!Waits(fd)' <=> Queue!Waits(fd) \/ fd = g
  BY <1>1, <1>2 DEF Queue!Waits
<1> QED
  BY <1>3 DEF Queue!Served

\* run takes the oldest object: it leaves the queue for the worker.
LEMMA TakeEffect ==
  ASSUME TypeOK, QueuedOnce, NEW w \in Workers, Queue!Take(w)
  PROVE  /\ Head(waiting) \in Fds
         /\ \A fd \in Fds : fd = Head(waiting) => Queue!Waits(fd) /\ ~ Queue!Waits(fd)'
         /\ serving' = [serving EXCEPT ![w] = Head(waiting)]
         /\ serving[w] = None
         /\ \A fd \in Fds : Queue!Waits(fd)' => Queue!Waits(fd)
         /\ \A fd \in Fds : Queue!Served(fd)' => Queue!Served(fd) \/ fd = Head(waiting)
         /\ QueuedOnce'
<1>1. /\ waiting \in Seq(Fds) /\ waiting # <<>>
      /\ serving \in [Workers -> Fds \cup {None}]
      /\ waiting' = Tail(waiting)
      /\ serving' = [serving EXCEPT ![w] = Head(waiting)]
      /\ serving[w] = None
  BY DEF TypeOK, Queue!QueueType, Queue!Take
<1>2. /\ Len(waiting) \in Nat /\ Len(waiting) > 0
      /\ Len(waiting') = Len(waiting) - 1
      /\ \A i \in 1 .. Len(waiting') : waiting'[i] = waiting[i + 1]
      /\ Head(waiting) = waiting[1]
      /\ Head(waiting) \in Fds
  BY <1>1
<1>3. ASSUME NEW fd \in Fds, fd = Head(waiting) PROVE Queue!Waits(fd)
  BY <1>2, <1>3 DEF Queue!Waits
<1>4. ASSUME NEW fd \in Fds, fd = Head(waiting) PROVE ~ Queue!Waits(fd)'
  <2> SUFFICES ASSUME NEW i \in 1 .. Len(waiting'), waiting'[i] = fd PROVE FALSE
    BY DEF Queue!Waits
  <2>1. i + 1 \in 1 .. Len(waiting) /\ 1 \in 1 .. Len(waiting) /\ waiting[i + 1] = waiting[1] /\ i + 1 # 1
    BY <1>2, <1>4
  <2> QED
    BY <2>1 DEF QueuedOnce
<1>5. ASSUME NEW fd \in Fds, Queue!Waits(fd)' PROVE Queue!Waits(fd)
  BY <1>2, <1>5 DEF Queue!Waits
<1>6. ASSUME NEW fd \in Fds, Queue!Served(fd)' PROVE Queue!Served(fd) \/ fd = Head(waiting)
  BY <1>1, <1>6 DEF Queue!Served
<1>7. QueuedOnce'
  <2> SUFFICES ASSUME NEW i \in 1 .. Len(waiting'), NEW j \in 1 .. Len(waiting'), waiting'[i] = waiting'[j]
               PROVE  i = j
    BY DEF QueuedOnce
  <2>1. i + 1 \in 1 .. Len(waiting) /\ j + 1 \in 1 .. Len(waiting) /\ waiting[i + 1] = waiting[j + 1]
    BY <1>2
  <2>2. i + 1 = j + 1
    BY <2>1 DEF QueuedOnce
  <2> QED
    BY <2>2
<1> QED
  BY <1>1, <1>2, <1>3, <1>4, <1>5, <1>6, <1>7

\* A worker that is done gives its object back.
LEMMA ReleaseEffect ==
  ASSUME TypeOK, OneWorker, NEW w \in Workers, serving[w] \in Fds, Queue!Release(w)
  PROVE  /\ \A fd \in Fds : fd = serving[w] => ~ Queue!Served(fd)'
         /\ \A fd \in Fds : Queue!Served(fd)' => Queue!Served(fd)
         /\ \A fd \in Fds : Queue!Waits(fd)' <=> Queue!Waits(fd)
         /\ OneWorker' /\ waiting' = waiting
<1>1. /\ serving \in [Workers -> Fds \cup {None}]
      /\ serving' = [serving EXCEPT ![w] = None]
      /\ waiting' = waiting
      /\ None \notin Fds
  BY ServerAssumption DEF TypeOK, Queue!QueueType, Queue!Release
<1>2. \A v \in Workers \ {w} : serving[v] # serving[w]
  BY <1>1 DEF OneWorker
<1>3. ASSUME NEW fd \in Fds, fd = serving[w] PROVE ~ Queue!Served(fd)'
  BY <1>1, <1>2, <1>3 DEF Queue!Served
<1>4. ASSUME NEW fd \in Fds, Queue!Served(fd)' PROVE Queue!Served(fd)
  BY <1>1, <1>4 DEF Queue!Served
<1>5. OneWorker'
  BY <1>1 DEF OneWorker
<1> QED
  BY <1>1, <1>3, <1>4, <1>5 DEF Queue!Waits

\* In calm surroundings a descriptor in the batch is open, and its timer is the
\* connection's.
LEMMA ReportedOpen ==
  ASSUME JInv, env = "calm", NEW fd \in Fds, Reported(fd)
  PROVE  Open(fd)
<1>1. ~ Misses
  BY DEF Misses
<1>2. timer[fd] \in live /\ timerFd[timer[fd]] = fd
  BY DEF JInv, IInv, TimersLive, Reported
<1>3. conn[fd] = timer[fd]
  BY <1>1, <1>2 DEF JInv, TimerPerConnection
<1>4. timer[fd] # None
  BY <1>2, ServerAssumption DEF JInv, IInv, TypeOK
<1> QED
  BY <1>3, <1>4 DEF Open

\* No step gives an object a second holder: accept takes an object nobody
\* holds, epoll_wait disarms what it reports, the handlers pass on the object
\* whose event they consume, and a worker re-arms the object it gives back.
LEMMA OneHolderStep ==
  ASSUME JInv, env = "calm", BusyInTime, OneHolder, [Next]_vars
  PROVE  OneHolder'
<1> USE DEF OneHolder
<1>0. TypeOK /\ Serving /\ InterestOpen
  BY DEF JInv, IInv
<1>1. ASSUME waiting' = waiting, serving' = serving
      PROVE  /\ QueuedOnce' /\ OneWorker'
             /\ \A fd \in Fds : /\ Queue!Waits(fd)' <=> Queue!Waits(fd)
                                /\ Queue!Served(fd)' <=> Queue!Served(fd)
                                /\ Busy(fd)' <=> Busy(fd)
  BY <1>1 DEF QueuedOnce, OneWorker, Busy, Queue!Waits, Queue!Served
<1>2. ASSUME waiting' = waiting, serving' = serving,
             \A fd \in Fds : (Armed(fd)' => Armed(fd)) /\ (Reported(fd)' => Reported(fd))
      PROVE  OneHolder'
  BY <1>1, <1>2 DEF OnePlace
<1>3. ASSUME waiting' = waiting, serving' = serving, interest' = interest, event' = event
      PROVE  OneHolder'
  BY <1>2, <1>3 DEF Armed, Reported
<1>4. ASSUME NEW S, CloseFds(S), NEW fd \in Fds PROVE Armed(fd)' => Armed(fd)
  BY <1>0, <1>4 DEF CloseFds, Armed, TypeOK
<1>5. CASE (\E c \in Clients : ClientStep(c)) \/ Advance \/ AcceptFails \/ OnSignal
             \/ (\E c \in Clients : TurnAway(c))
  BY <1>3, <1>5 DEF ClientStep, Connect, Send, HangUp, PeerStep, Advance, AcceptFails, OnSignal,
                    TurnAway, kernel, loop, pool
<1>6. CASE EpollWait
  <2>1. waiting' = waiting /\ serving' = serving
    BY <1>6 DEF EpollWait, pool
  <2>2. ASSUME NEW fd \in Fds
        PROVE  /\ Reported(fd)' => Armed(fd) /\ ~ Armed(fd)'
               /\ Armed(fd)' => Armed(fd)
    BY <1>6, ReadyEvent DEF EpollWait, Disarm, Armed, Reported
  <2> QED
    BY <1>1, <2>1, <2>2 DEF OnePlace
<1>7. ASSUME NEW c \in Clients, Accept(c) PROVE OneHolder'
  <2>1. PICK fd \in Fds : ~ Open(fd) /\ interest' = [interest EXCEPT ![fd] = "in"]
    BY <1>7 DEF Accept, Lowest
  <2>2. waiting' = waiting /\ serving' = serving /\ event' = event
    BY <1>7 DEF Accept, pool
  <2>3. ~ Reported(fd) /\ ~ Busy(fd)
    BY <2>1, ReportedOpen DEF BusyInTime
  <2>4. ASSUME NEW g \in Fds \ {fd} PROVE Armed(g)' => Armed(g)
    BY <1>0, <2>1, <2>4 DEF Armed, TypeOK
  <2>5. \A g \in Fds : Reported(g)' <=> Reported(g)
    BY <2>2 DEF Reported
  <2> QED
    BY <1>1, <2>2, <2>3, <2>4, <2>5 DEF OnePlace
<1>8. ASSUME NEW fd \in Fds, Handled(fd)
      PROVE  /\ ~ Reported(fd)'
             /\ \A g \in Fds : Reported(g)' => Reported(g)
  BY <1>0, <1>8 DEF Handled, Reported, TypeOK
<1>9. ASSUME NEW fd \in Fds, OnEvent(fd) PROVE OneHolder'
  <2>1. CASE OnHup(fd) \/ OnInFails(fd) \/ OnOutClose(fd)
    BY <2>1, <1>2, <1>4, <1>8 DEF OnHup, OnInFails, OnOutClose, CloseAndForget, pool
  <2>2. CASE OnIn(fd)
    <3>1. Handled(fd) /\ interest' = interest /\ Reported(fd)
      BY <2>2 DEF OnIn, Reported
    <3>2. \A g \in Fds : Armed(g)' <=> Armed(g)
      BY <3>1 DEF Armed
    <3>3. CASE Queue!HasRoom
      <4>1. waiting' = Append(waiting, fd) /\ serving' = serving
        BY <2>2, <3>3 DEF OnIn, Queue!Enqueue
      <4>2. /\ \A g \in Fds : Queue!Waits(g)' <=> Queue!Waits(g) \/ g = fd
            /\ \A g \in Fds : Queue!Served(g)' <=> Queue!Served(g)
        BY <1>0, <4>1, EnqueueEffect
      <4>3. ~ Armed(fd) /\ ~ Busy(fd)
        BY <3>1 DEF OnePlace
      <4>4. ASSUME NEW g \in Fds
            PROVE  /\ Armed(g)' => ~ Reported(g)'
                   /\ Busy(g)' => ~ Armed(g)' /\ ~ Reported(g)'
                   /\ ~ (Queue!Waits(g)' /\ Queue!Served(g)')
        BY <1>8, <3>1, <3>2, <4>2, <4>3 DEF OnePlace, Busy
      <4>5. QueuedOnce'
        <5>1. /\ waiting \in Seq(Fds) /\ Len(waiting) \in Nat
              /\ Len(waiting') = Len(waiting) + 1
              /\ \A i \in 1 .. Len(waiting) : waiting'[i] = waiting[i]
              /\ waiting'[Len(waiting) + 1] = fd
          BY <1>0, <4>1 DEF TypeOK, Queue!QueueType
        <5>2. \A i \in 1 .. Len(waiting) : waiting[i] # fd
          BY <4>3 DEF Busy, Queue!Waits
        <5> QED
          BY <5>1, <5>2 DEF QueuedOnce
      <4>6. OneWorker'
        BY <4>1 DEF OneWorker
      <4> QED
        BY <4>4, <4>5, <4>6 DEF OnePlace
    <3>4. CASE ~ Queue!HasRoom
      BY <1>2, <1>8, <2>2, <3>1, <3>2, <3>4 DEF OnIn
    <3> QED
      BY <3>3, <3>4
  <2>3. CASE OnOutDone(fd) \/ OnOutAgain(fd)
    <3>1. /\ Handled(fd) /\ Reported(fd)
          /\ waiting' = waiting /\ serving' = serving
          /\ \E ev : Modfd(fd, ev)
      BY <2>3 DEF OnOutDone, OnOutAgain, Reported, pool
    <3>2. ASSUME NEW g \in Fds \ {fd} PROVE Armed(g)' => Armed(g)
      BY <1>0, <3>1, <3>2 DEF Modfd, Armed, TypeOK
    <3>3. ~ Busy(fd) /\ ~ Reported(fd)'
      BY <1>8, <3>1 DEF OnePlace
    <3> QED
      BY <1>1, <1>8, <3>1, <3>2, <3>3 DEF OnePlace
  <2> QED
    BY <1>9, <2>1, <2>2, <2>3 DEF OnEvent
<1>10. CASE EndOfBatch
  <2>1. waiting' = waiting /\ serving' = serving /\ event' = event
    BY <1>10 DEF EndOfBatch, pool
  <2>2. ASSUME NEW fd \in Fds PROVE Armed(fd)' => Armed(fd)
    <3>1. CASE alarm = "timeout"
      BY <1>4, <1>10, <3>1 DEF EndOfBatch, TimerHandler, Tick
    <3>2. CASE alarm # "timeout"
      BY <1>10, <3>2 DEF EndOfBatch, kernel, Armed
    <3> QED
      BY <3>1, <3>2
  <2> QED
    BY <1>2, <2>1, <2>2 DEF Reported
<1>11. ASSUME NEW w \in Workers, WorkerStep(w) PROVE OneHolder'
  <2>1. CASE TakeRequest(w)
    <3>1. Queue!Take(w) /\ interest' = interest /\ event' = event
      BY <2>1 DEF TakeRequest, kernel, loop
    <3>2. PICK h \in Fds :
            /\ Queue!Waits(h) /\ ~ Queue!Waits(h)'
            /\ serving' = [serving EXCEPT ![w] = h] /\ serving[w] = None
            /\ \A fd \in Fds : Queue!Waits(fd)' => Queue!Waits(fd)
            /\ \A fd \in Fds : Queue!Served(fd)' => Queue!Served(fd) \/ fd = h
            /\ QueuedOnce'
      BY <1>0, <3>1, TakeEffect
    <3>3. \A v \in Workers : serving[v] # h
      BY <3>2 DEF OnePlace, Queue!Served
    <3>4. OneWorker'
      BY <1>0, <3>2, <3>3 DEF OneWorker, TypeOK, Queue!QueueType
    <3>5. OnePlace'
      BY <3>1, <3>2 DEF OnePlace, Busy, Armed, Reported
    <3> QED
      BY <3>2, <3>4, <3>5
  <2>2. CASE ReadRequest(w) \/ WriteResponse(w) \/ ClearSockfd(w) \/ LoadCount(w) \/ StoreCount(w)
    BY <1>3, <2>2
       DEF ReadRequest, WriteResponse, ClearSockfd, LoadCount, StoreCount, kernel, loop
  <2>3. CASE CloseConn(w)
    BY <1>2, <1>3, <1>4, <2>3 DEF CloseConn, kernel, loop, Reported
  <2>4. CASE Rearm(w)
    <3>1. /\ pc[w] # "idle"
          /\ Queue!Release(w) /\ event' = event
          /\ \E ev : Modfd(serving[w], ev)
      BY <2>4 DEF Rearm, WorkerGoes, loop
    <3>2. PICK h \in Fds : h = serving[w]
      BY <1>0, <3>1 DEF Serving
    <3>3. /\ ~ Queue!Served(h)'
          /\ \A fd \in Fds : Queue!Served(fd)' => Queue!Served(fd)
          /\ \A fd \in Fds : Queue!Waits(fd)' <=> Queue!Waits(fd)
          /\ OneWorker' /\ waiting' = waiting
      BY <1>0, <3>1, <3>2, ReleaseEffect
    <3>4. Queue!Served(h)
      BY <3>2 DEF Queue!Served
    <3>5. ASSUME NEW g \in Fds \ {h} PROVE Armed(g)' => Armed(g)
      BY <1>0, <3>1, <3>2, <3>5 DEF Modfd, Armed, TypeOK
    <3>6. \A g \in Fds : Reported(g)' <=> Reported(g)
      BY <3>1 DEF Reported
    <3>7. ~ Reported(h) /\ ~ Queue!Waits(h)
      BY <3>4 DEF OnePlace, Busy
    <3>8. OnePlace'
      BY <3>3, <3>5, <3>6, <3>7 DEF OnePlace, Busy
    <3>9. QueuedOnce'
      BY <3>3 DEF QueuedOnce
    <3> QED
      BY <3>3, <3>8, <3>9
  <2> QED
    BY <1>11, <2>1, <2>2, <2>3, <2>4 DEF WorkerStep
<1>12. CASE UNCHANGED vars
  BY <1>3, <1>12 DEF vars, kernel, loop, pool
<1> QED
  BY <1>5, <1>6, <1>7, <1>9, <1>10, <1>11, <1>12 DEF Next, Step, MainStep, OnListen

\* A worker is prompt: while it has the object, the connection stays open and
\* its timer does not expire.  The handlers that close act on descriptors
\* nobody serves, and tick only on expired timers.
LEMMA BusyInTimeStep ==
  ASSUME JInv, env = "calm", BusyInTime, OneHolder, [Next]_vars
  PROVE  BusyInTime'
<1> USE DEF OneHolder
<1>0. /\ TypeOK /\ TimersLive /\ NoWorkerCloses /\ TimerPerConnection /\ ~ Misses
      /\ rem \in [Clients -> 0 .. Timeout] /\ timer \in [Fds -> Clients \cup {None}]
      /\ Timeout \in Nat /\ Timeout > 0
  BY ServerAssumption DEF JInv, IInv, Misses, TypeOK
<1>1. ASSUME waiting' = waiting, serving' = serving, NEW fd \in Fds PROVE Busy(fd)' <=> Busy(fd)
  BY <1>1 DEF Busy, Queue!Waits, Queue!Served
<1>2. ASSUME \A fd \in Fds : Busy(fd)' => Busy(fd), UNCHANGED <<conn, rem, timer>>
      PROVE  BusyInTime'
  BY <1>2 DEF BusyInTime, Open
<1>3. CASE (\E c \in Clients : ClientStep(c)) \/ AcceptFails \/ OnSignal
             \/ (\E c \in Clients : TurnAway(c)) \/ EpollWait
  BY <1>1, <1>2, <1>3 DEF ClientStep, Connect, Send, HangUp, PeerStep, AcceptFails, OnSignal,
                    TurnAway, EpollWait, kernel, timers, pool
<1>4. CASE Advance
  <2>1. /\ waiting' = waiting /\ serving' = serving /\ conn' = conn /\ timer' = timer
        /\ rem' = [t \in Clients |-> IF rem[t] = 0 THEN 0 ELSE rem[t] - 1]
        /\ \A fd \in Fds : Busy(fd) /\ Open(fd) => rem[timer[fd]] > 1
    BY <1>4 DEF Advance, Prompt, pool, kernel
  <2>2. ASSUME NEW fd \in Fds, Busy(fd)' PROVE Open(fd)' /\ rem'[timer'[fd]] > 0
    <3>1. Busy(fd) /\ Open(fd) /\ rem[timer[fd]] > 1
      BY <1>1, <2>1, <2>2 DEF BusyInTime
    <3>2. timer[fd] \in Clients
      BY <1>0, <3>1 DEF TimersLive, TypeOK
    <3>3. rem[timer[fd]] \in 0 .. Timeout
      BY <1>0, <3>2
    <3>4. rem'[timer[fd]] = rem[timer[fd]] - 1
      BY <2>1, <3>1, <3>2, <3>3
    <3> QED
      BY <2>1, <3>1, <3>3, <3>4 DEF Open
  <2> QED
    BY <2>2 DEF BusyInTime
<1>5. ASSUME NEW c \in Clients, Accept(c) PROVE BusyInTime'
  <2>1. PICK fd \in Fds : /\ ~ Open(fd) /\ conn' = [conn EXCEPT ![fd] = c]
                          /\ timer' = [timer EXCEPT ![fd] = c]
    BY <1>5 DEF Accept, Lowest
  <2>2. waiting' = waiting /\ serving' = serving /\ rem' = [rem EXCEPT ![c] = Timeout]
    BY <1>5 DEF Accept, pool
  <2>3. ASSUME NEW g \in Fds, Busy(g)' PROVE Open(g)' /\ rem'[timer'[g]] > 0
    <3>1. Busy(g) /\ Open(g) /\ rem[timer[g]] > 0 /\ g # fd
      BY <1>1, <2>1, <2>2, <2>3 DEF BusyInTime
    <3>2. conn'[g] = conn[g] /\ timer'[g] = timer[g]
      BY <1>0, <2>1, <3>1 DEF TypeOK
    <3>3. timer[g] \in Clients
      BY <1>0, <3>1 DEF TimersLive, TypeOK
    <3>4. rem'[timer[g]] > 0
      BY <1>0, <2>2, <3>1, <3>3
    <3> QED
      BY <3>1, <3>2, <3>4 DEF Open
  <2> QED
    BY <2>3 DEF BusyInTime
<1>6. ASSUME NEW fd \in Fds, Reported(fd), CloseAndForget(fd), waiting' = waiting, serving' = serving
      PROVE  BusyInTime'
  <2>1. ~ Busy(fd)
    BY <1>6 DEF OnePlace
  <2>2. conn' = [g \in Fds |-> IF g = fd THEN None ELSE conn[g]] /\ UNCHANGED <<rem, timer>>
    BY <1>6 DEF CloseAndForget, CloseFds
  <2> QED
    BY <1>1, <1>6, <2>1, <2>2 DEF BusyInTime, Open
<1>7. ASSUME NEW fd \in Fds, Reported(fd), Renew(fd), conn' = conn,
             \A g \in Fds : Busy(g)' => Busy(g) \/ g = fd
      PROVE  BusyInTime'
  <2>1. rem' = [rem EXCEPT ![timer[fd]] = Timeout] /\ timer' = timer
    BY <1>7 DEF Renew
  <2>2. Open(fd)
    BY <1>7, ReportedOpen
  <2>3. ASSUME NEW g \in Fds, Busy(g)' PROVE Open(g)' /\ rem'[timer'[g]] > 0
    <3>1. Open(g) /\ (g = fd \/ rem[timer[g]] > 0)
      BY <1>7, <2>2, <2>3 DEF BusyInTime
    <3>2. timer[g] \in Clients
      BY <1>0, <3>1 DEF TimersLive, TypeOK
    <3>3. rem'[timer[g]] > 0
      BY <1>0, <2>1, <3>1, <3>2
    <3> QED
      BY <1>7, <2>1, <3>1, <3>3 DEF Open
  <2> QED
    BY <2>3 DEF BusyInTime
<1>8. ASSUME NEW fd \in Fds, OnEvent(fd) PROVE BusyInTime'
  <2>1. CASE OnHup(fd) \/ OnInFails(fd) \/ OnOutClose(fd)
    BY <2>1, <1>6 DEF OnHup, OnInFails, OnOutClose, Reported, pool
  <2>2. CASE OnOutDone(fd) \/ OnOutAgain(fd)
    BY <2>2, <1>1, <1>7 DEF OnOutDone, OnOutAgain, Reported, pool
  <2>3. CASE OnIn(fd)
    <3>1. CASE Queue!HasRoom
      <4>1. waiting' = Append(waiting, fd) /\ serving' = serving
        BY <2>3, <3>1 DEF OnIn, Queue!Enqueue
      <4>2. \A g \in Fds : Busy(g)' => Busy(g) \/ g = fd
        BY <1>0, <4>1, EnqueueEffect DEF Busy
      <4> QED
        BY <1>7, <2>3, <4>2 DEF OnIn, Reported
    <3>2. CASE ~ Queue!HasRoom
      BY <1>1, <1>7, <2>3, <3>2 DEF OnIn, Reported
    <3> QED
      BY <3>1, <3>2
  <2> QED
    BY <1>8, <2>1, <2>2, <2>3 DEF OnEvent
<1>9. CASE EndOfBatch
  <2>1. waiting' = waiting /\ serving' = serving /\ rem' = rem /\ timer' = timer
    BY <1>9 DEF EndOfBatch, pool
  <2>2. CASE alarm = "timeout"
    <3>1. conn' = [g \in Fds |-> IF g \in {timerFd[t] : t \in Expired} THEN None ELSE conn[g]]
      BY <1>9, <2>2 DEF EndOfBatch, TimerHandler, Tick, CloseFds
    <3>2. ASSUME NEW g \in Fds, Busy(g)' PROVE Open(g)' /\ rem'[timer'[g]] > 0
      <4>1. Open(g) /\ rem[timer[g]] > 0
        BY <1>1, <2>1, <3>2 DEF BusyInTime
      <4>2. ASSUME NEW t \in Expired, timerFd[t] = g PROVE FALSE
        <5>1. conn[g] = t /\ timer[g] = conn[g] /\ rem[t] = 0
          BY <1>0, <4>1, <4>2 DEF TimerPerConnection, Expired
        <5> QED
          BY <4>1, <5>1
      <4> QED
        BY <2>1, <3>1, <4>1, <4>2 DEF Open
    <3> QED
      BY <3>2 DEF BusyInTime
  <2>3. CASE alarm # "timeout"
    BY <1>1, <1>2, <1>9, <2>1, <2>3 DEF EndOfBatch, kernel
  <2> QED
    BY <2>2, <2>3
<1>10. ASSUME NEW w \in Workers, WorkerStep(w) PROVE BusyInTime'
  <2>1. pc[w] # "close"
    BY <1>0 DEF NoWorkerCloses
  <2>2. CASE TakeRequest(w)
    <3>1. \A fd \in Fds : Busy(fd)' => Busy(fd)
      BY <1>0, <2>2, TakeEffect DEF TakeRequest, Busy
    <3> QED
      BY <1>2, <2>2, <3>1 DEF TakeRequest, kernel, timers
  <2>3. CASE Rearm(w)
    <3>1. serving[w] \in Fds
      BY <2>3 DEF Rearm, WorkerGoes, JInv, IInv, Serving
    <3>2. \A fd \in Fds : Busy(fd)' => Busy(fd)
      BY <1>0, <2>3, <3>1, ReleaseEffect DEF Rearm, Busy
    <3> QED
      BY <1>2, <2>3, <3>2 DEF Rearm, timers
  <2>4. CASE ReadRequest(w) \/ WriteResponse(w) \/ ClearSockfd(w) \/ LoadCount(w) \/ StoreCount(w)
    BY <1>1, <1>2, <2>4
       DEF ReadRequest, WriteResponse, ClearSockfd, LoadCount, StoreCount, kernel, timers
  <2> QED
    BY <1>10, <2>1, <2>2, <2>3, <2>4 DEF WorkerStep, CloseConn
<1>11. CASE UNCHANGED vars
  BY <1>1, <1>2, <1>11 DEF vars, kernel, timers, pool
<1> QED
  BY <1>3, <1>4, <1>5, <1>8, <1>9, <1>10, <1>11 DEF Next, Step, MainStep, OnListen

\* Nobody's bytes stay in an object that changes hands: accept clears it, and
\* while a worker has it the connection cannot change.
LEMMA OwnStep ==
  ASSUME JInv, env = "calm", BusyInTime, OneHolder, Own, [Next]_vars
  PROVE  Own'
<1> USE DEF OneHolder
<1>0. /\ TypeOK /\ Serving /\ NoWorkerCloses /\ ~ Misses
      /\ conn \in [Fds -> Clients \cup {None}]
      /\ request \in [Fds -> Clients \cup {None}] /\ response \in [Fds -> Clients \cup {None}]
      /\ whose \in [Workers -> Clients \cup {None}]
      /\ serving \in [Workers -> Fds \cup {None}]
  BY DEF JInv, IInv, Misses, TypeOK, Queue!QueueType
<1>1. ASSUME \A fd \in Fds : Open(fd)' => Open(fd) /\ conn'[fd] = conn[fd],
             \A w \in Workers : serving[w] \in Fds => conn'[serving[w]] = conn[serving[w]],
             UNCHANGED <<request, response>>, UNCHANGED <<whose, serving>>
      PROVE  Own'
  BY <1>0, <1>1 DEF Own
<1>2. ASSUME conn' = conn, UNCHANGED <<request, response>>, UNCHANGED <<whose, serving>>
      PROVE  Own'
  BY <1>1, <1>2 DEF Open
<1>3. CASE (\E c \in Clients : ClientStep(c)) \/ AcceptFails \/ OnSignal
             \/ (\E c \in Clients : TurnAway(c)) \/ EpollWait \/ Advance
  BY <1>2, <1>3 DEF ClientStep, Connect, Send, HangUp, PeerStep, AcceptFails, OnSignal,
                    TurnAway, EpollWait, Advance, kernel, conns, pool
<1>4. ASSUME NEW c \in Clients, Accept(c) PROVE Own'
  <2>1. PICK fd \in Fds : /\ ~ Open(fd) /\ conn' = [conn EXCEPT ![fd] = c]
                          /\ request' = [request EXCEPT ![fd] = None]
                          /\ response' = [response EXCEPT ![fd] = None]
    BY <1>4 DEF Accept, Lowest, InitConn
  <2>2. whose' = whose /\ serving' = serving
    BY <1>4 DEF Accept, pool
  <2>3. \A w \in Workers : serving[w] # fd
    BY <2>1 DEF BusyInTime, Busy, Queue!Served
  <2>4. \A g \in Fds : Open(g)' => request'[g] \in {None, conn'[g]} /\ response'[g] \in {None, conn'[g]}
    BY <1>0, <2>1 DEF Own, Open
  <2>5. \A w \in Workers : whose'[w] # None => serving'[w] \in Fds /\ whose'[w] = conn'[serving'[w]]
    BY <1>0, <2>1, <2>2, <2>3 DEF Own
  <2> QED
    BY <2>4, <2>5 DEF Own
<1>5. ASSUME NEW fd \in Fds, Reported(fd), CloseAndForget(fd), UNCHANGED <<conns, pool>> PROVE Own'
  <2>1. \A w \in Workers : serving[w] # fd
    BY <1>5 DEF OnePlace, Busy, Queue!Served
  <2>2. conn' = [g \in Fds |-> IF g = fd THEN None ELSE conn[g]]
    BY <1>5 DEF CloseAndForget, CloseFds
  <2> QED
    BY <1>1, <1>5, <2>1, <2>2 DEF Open, conns, pool
<1>6. ASSUME NEW fd \in Fds, OnEvent(fd) PROVE Own'
  <2>1. CASE OnHup(fd) \/ OnInFails(fd) \/ OnOutClose(fd)
    BY <2>1, <1>5 DEF OnHup, OnInFails, OnOutClose, Reported
  <2>2. CASE OnOutAgain(fd)
    BY <2>2, <1>2 DEF OnOutAgain, conns, pool
  <2>3. CASE OnOutDone(fd)
    <3>1. /\ request' = [request EXCEPT ![fd] = None]
          /\ response' = [response EXCEPT ![fd] = None]
          /\ conn' = conn /\ whose' = whose /\ serving' = serving
      BY <2>3 DEF OnOutDone, InitConn, pool
    <3> QED
      BY <1>0, <3>1 DEF Own, Open
  <2>4. CASE OnIn(fd)
    <3>1. /\ request' = [request EXCEPT ![fd] = conn[fd]]
          /\ response' = response
          /\ conn' = conn /\ whose' = whose
      BY <2>4 DEF OnIn
    <3>2. serving' = serving
      BY <2>4 DEF OnIn, Queue!Enqueue
    <3> QED
      BY <1>0, <3>1, <3>2 DEF Own, Open
  <2> QED
    BY <1>6, <2>1, <2>2, <2>3, <2>4 DEF OnEvent
<1>7. CASE EndOfBatch
  <2>1. \A w \in Workers : serving[w] \in Fds => conn[serving[w]] # None /\ conn'[serving[w]] # None
    <3>1. BusyInTime'
      BY BusyInTimeStep
    <3>2. UNCHANGED <<waiting, serving>>
      BY <1>7 DEF EndOfBatch, pool
    <3> QED
      BY <3>1, <3>2 DEF BusyInTime, Busy, Open, Queue!Served
  <2>2. \A g \in Fds : conn'[g] # None => conn'[g] = conn[g]
    <3>1. CASE alarm = "timeout"
      BY <1>7, <3>1 DEF EndOfBatch, TimerHandler, Tick, CloseFds
    <3>2. CASE alarm # "timeout"
      BY <1>7, <3>2 DEF EndOfBatch, kernel
    <3> QED
      BY <3>1, <3>2
  <2>3. UNCHANGED <<request, response>> /\ UNCHANGED <<whose, serving>>
    BY <1>7 DEF EndOfBatch, conns, pool
  <2> QED
    BY <1>1, <2>1, <2>2, <2>3 DEF Open
<1>8. ASSUME NEW w \in Workers, WorkerStep(w) PROVE Own'
  <2>1. pc[w] # "close"
    BY <1>0 DEF NoWorkerCloses
  <2>2. CASE ClearSockfd(w) \/ LoadCount(w) \/ StoreCount(w)
    BY <1>2, <2>2 DEF ClearSockfd, LoadCount, StoreCount, kernel, conns
  <2>3. CASE TakeRequest(w)
    <3>1. /\ conn' = conn /\ request' = request /\ response' = response /\ whose' = whose
          /\ serving[w] = None /\ \A v \in Workers \ {w} : serving'[v] = serving[v]
      BY <1>0, <2>3 DEF TakeRequest, kernel, conns, Queue!Take
    <3>2. whose[w] = None
      BY <3>1, ServerAssumption DEF Own
    <3> QED
      BY <3>1, <3>2 DEF Own, Open
  <2>4. CASE ReadRequest(w)
    <3>1. /\ conn' = conn /\ request' = request /\ response' = response /\ serving' = serving
          /\ whose' = whose \/ whose' = [whose EXCEPT ![w] = request[serving[w]]]
          /\ pc[w] # "idle"
      BY <2>4 DEF ReadRequest, WorkerGoes, kernel, conns
    <3>2. serving[w] \in Fds
      BY <1>0, <3>1 DEF Serving
    <3>3. Open(serving[w])
      BY <3>2 DEF BusyInTime, Busy, Queue!Served
    <3>4. request[serving[w]] \in {None, conn[serving[w]]}
      BY <3>2, <3>3 DEF Own
    <3> QED
      BY <1>0, <3>1, <3>2, <3>4 DEF Own, Open
  <2>5. CASE WriteResponse(w)
    <3>1. /\ conn' = conn /\ request' = request /\ serving' = serving /\ whose' = whose
          /\ response' = [response EXCEPT ![serving[w]] = whose[w]]
      BY <2>5 DEF WriteResponse, kernel
    <3>2. whose[w] \in {None, conn[serving[w]]}
      BY DEF Own
    <3> QED
      BY <1>0, <3>1, <3>2 DEF Own, Open
  <2>6. CASE Rearm(w)
    <3>1. /\ conn' = conn /\ request' = request /\ response' = response
          /\ whose' = [whose EXCEPT ![w] = None]
          /\ serving' = [serving EXCEPT ![w] = None]
      BY <2>6 DEF Rearm, conns, Queue!Release
    <3> QED
      BY <1>0, <3>1 DEF Own, Open
  <2> QED
    BY <1>8, <2>1, <2>2, <2>3, <2>4, <2>5, <2>6 DEF WorkerStep, CloseConn
<1>9. CASE UNCHANGED vars
  BY <1>2, <1>9 DEF vars, kernel, conns, pool
<1> QED
  BY <1>3, <1>4, <1>6, <1>7, <1>8, <1>9 DEF Next, Step, MainStep, OnListen

\* Nothing is held before the first connection.
LEMMA InitKInv == Init => KInv
<1> SUFFICES ASSUME Init PROVE KInv
  OBVIOUS
<1>1. waiting = <<>> /\ Len(waiting) = 0 /\ \A w \in Workers : serving[w] = None
  BY DEF Init, Queue!QueueInit
<1>2. None \notin Fds
  BY ServerAssumption
<1>3. \A fd \in Fds : ~ Queue!Waits(fd) /\ ~ Queue!Served(fd)
  BY <1>1, <1>2 DEF Queue!Waits, Queue!Served
<1>4. QueuedOnce /\ OneWorker
  BY <1>1 DEF QueuedOnce, OneWorker
<1>5. \A fd \in Fds : ~ Armed(fd) /\ ~ Reported(fd) /\ ~ Open(fd)
  BY DEF Init, Armed, Reported, Open
<1>6. Own
  BY <1>5 DEF Init, Own
<1> QED
  BY <1>3, <1>4, <1>5, <1>6, InitJInv DEF KInv, BusyInTime, Busy, OneHolder, OnePlace

\* The third invariant holds in every reachable state.
LEMMA KInvariance == Spec => []KInv
<1>1. KInv /\ [Next]_vars => KInv'
  <2> SUFFICES ASSUME KInv, [Next]_vars PROVE KInv'
    OBVIOUS
  <2>1. JInv'
    <3>1. IInv'
      BY TypeStep, InterestStep, LiveStep, TimersLiveStep DEF KInv, JInv, IInv, Typed
    <3> QED
      BY <3>1, NoWorkerClosesStep, TimerPerConnectionStep, CountExactStep DEF KInv, JInv
  <2>2. env' = env
    BY DEF Next, vars
  <2> QED
    BY <2>1, <2>2, OneHolderStep, BusyInTimeStep, OwnStep DEF KInv
<1> QED
  BY <1>1, InitKInv, PTL DEF Spec

\* One holder, counted.
LEMMA OneHolderCounts ==
  ASSUME OneHolder, NEW fd \in Fds, None \notin Fds
  PROVE    (IF interest[fd] \in {"in", "out"} THEN 1 ELSE 0)
         + (IF event[fd] # "none" THEN 1 ELSE 0)
         + Cardinality({i \in 1 .. Len(waiting) : waiting[i] = fd})
         + Cardinality({w \in Workers : serving[w] = fd}) <= 1
<1> DEFINE Q == {i \in 1 .. Len(waiting) : waiting[i] = fd}
           W == {w \in Workers : serving[w] = fd}
<1>1. Cardinality(Q) = IF Queue!Waits(fd) THEN 1 ELSE 0
  <2>1. CASE Queue!Waits(fd)
    <3>1. PICK i \in 1 .. Len(waiting) : waiting[i] = fd
      BY <2>1 DEF Queue!Waits
    <3>2. Q = {i}
      BY <3>1 DEF OneHolder, QueuedOnce
    <3> QED
      BY <2>1, <3>2, FS_Singleton
  <2>2. CASE ~ Queue!Waits(fd)
    <3>1. Q = {}
      BY <2>2 DEF Queue!Waits
    <3> QED
      BY <2>2, <3>1, FS_EmptySet
  <2> QED
    BY <2>1, <2>2
<1>2. Cardinality(W) = IF Queue!Served(fd) THEN 1 ELSE 0
  <2>1. CASE Queue!Served(fd)
    <3>1. PICK w \in Workers : serving[w] = fd
      BY <2>1 DEF Queue!Served
    <3>2. W = {w}
      BY <3>1 DEF OneHolder, OneWorker
    <3> QED
      BY <2>1, <3>2, FS_Singleton
  <2>2. CASE ~ Queue!Served(fd)
    <3>1. W = {}
      BY <2>2 DEF Queue!Served
    <3> QED
      BY <2>2, <3>1, FS_EmptySet
  <2> QED
    BY <2>1, <2>2
<1> QED
  BY <1>1, <1>2 DEF OneHolder, OnePlace, Busy, Armed, Reported

\* http_conn objects are used without a lock, and rightly so while workers are
\* prompt and close nothing: EPOLLONESHOT (http_conn.cpp:93, 112) and modfd at
\* the end of process give every object to one holder at a time.
THEOREM OneHolderAlways == Spec => []Exclusive
<1>1. KInv => Exclusive
  <2> SUFFICES ASSUME KInv, env = "calm", NEW fd \in Fds
               PROVE    (IF interest[fd] \in {"in", "out"} THEN 1 ELSE 0)
                      + (IF event[fd] # "none" THEN 1 ELSE 0)
                      + Cardinality({i \in 1 .. Len(waiting) : waiting[i] = fd})
                      + Cardinality({w \in Workers : serving[w] = fd}) <= 1
    BY DEF Exclusive
  <2>1. OneHolder /\ None \notin Fds
    BY ServerAssumption DEF KInv
  <2> QED
    BY <2>1, OneHolderCounts
<1> QED
  BY <1>1, KInvariance, PTL

\* No client is sent the response to another client's request, although
\* descriptors and the objects behind them are reused (http_conn.cpp:128-182).
THEOREM NoForeignResponse == Spec => []OwnResponse
<1>1. KInv => OwnResponse
  BY DEF KInv, Own, OwnResponse
<1> QED
  BY <1>1, KInvariance, PTL
=============================================================================
