------------------------------- MODULE Server -------------------------------
(***************************************************************************)
(* version_03 as a whole: the event loop of main.cpp, epoll with           *)
(* EPOLLONESHOT, the tables users and users_timer indexed by descriptor,   *)
(* the timers, the request queue and the worker threads that run           *)
(* http_conn::process.  A handler of the event loop is one action; a       *)
(* worker takes one step per access to something it shares with the loop.  *)
(***************************************************************************)
EXTENDS Integers, Sequences, FiniteSets

CONSTANTS
  Clients,      \* client connections, each made once; also name their timers
  Fds,          \* descriptor numbers accept can return
  Workers,      \* threads of the pool
  MaxRequests,  \* m_max_requests of the pool
  MaxUsers,     \* MAX_FD, compared with m_user_count
  Timeout,      \* 3 * TIMESLOT, in units of TIMESLOT
  Environments, \* what the workers' surroundings are like, see below
  None          \* -1, NULL, nobody

ASSUME ServerAssumption ==
  /\ IsFiniteSet(Clients)
  /\ Fds \subseteq Nat /\ IsFiniteSet(Fds)
  /\ MaxRequests \in Nat \ {0} /\ MaxUsers \in Nat
  /\ Timeout \in Nat \ {0}
  /\ Environments \subseteq {"calm", "stalling", "missing", "wild"}
  /\ None \notin Clients \cup Fds

VARIABLES
  env,          \* the environment of this behaviour, never changed
  (* the kernel and the clients *)
  peer,         \* peer[c]: the client's end of the connection
  conn,         \* conn[fd]: the client whose socket is open as fd
  interest,     \* interest[fd]: what epoll waits for
  alarm,        \* where the SIGALRM of the current TIMESLOT is
  (* the event loop *)
  main,         \* blocked in epoll_wait, or dispatching events
  event,        \* event[fd]: reported by epoll_wait and not yet handled
  listening,    \* the listening socket's event is not yet handled
  live,         \* timers allocated, i.e. in timer_lst
  rem,          \* rem[t]: TIMESLOTs left until timer t expires
  timerFd,      \* timerFd[t]: the entry of users_timer t points to
  timer,        \* timer[fd]: users_timer[fd].timer
  (* http_conn *)
  m_sockfd,
  m_user_count,
  request,      \* request[fd]: whose bytes are in m_read_buf
  response,     \* response[fd]: whose response is waiting, None if bytes_to_send = 0
  (* the pool *)
  waiting, serving,
  pc,           \* pc[w]: control point of worker w in process
  whose,        \* whose[w]: the client whose request w has parsed
  seen          \* seen[w]: the value of m_user_count w is about to decrement

kernel == <<peer, conn, interest>>
timers == <<live, rem, timerFd, timer>>
conns  == <<m_sockfd, request, response>>
pool   == <<waiting, serving, pc, whose, seen>>
loop   == <<main, event, listening>>
vars   == <<env, kernel, alarm, loop, timers, conns, m_user_count, pool>>

\* Workers finish before the deadline of the connection they serve.
Prompt == env \in {"calm", "missing"}

\* Requests may name a missing or an empty file.
Misses == env \in {"missing", "wild"}

Queue == INSTANCE RequestQueue WITH Requests <- Fds

Events == {"in", "out", "hup", "none"}

\* Type invariant of the composed system.
TypeOK ==
  /\ env \in Environments
  /\ peer \in [Clients -> {"new", "connecting", "quiet", "sent", "hup", "closed"}]
  /\ conn \in [Fds -> Clients \cup {None}]
  /\ interest \in [Fds -> {"absent", "disarmed", "in", "out"}]
  /\ alarm \in {"armed", "pipe", "event", "timeout"}
  /\ main \in {"wait", "dispatch"}
  /\ event \in [Fds -> Events]
  /\ listening \in BOOLEAN
  /\ live \subseteq Clients
  /\ rem \in [Clients -> 0 .. Timeout]
  /\ timerFd \in [Clients -> Fds \cup {None}]
  /\ timer \in [Fds -> Clients \cup {None}]
  /\ m_sockfd \in [Fds -> Fds \cup {None}]
  /\ m_user_count \in Int
  /\ request \in [Fds -> Clients \cup {None}]
  /\ response \in [Fds -> Clients \cup {None}]
  /\ Queue!QueueType
  /\ pc \in [Workers -> {"idle", "read", "write", "armIn", "armOut", "close", "clear", "load", "store"}]
  /\ whose \in [Workers -> Clients \cup {None}]
  /\ seen \in [Workers -> Int]

Init ==
  /\ env \in Environments
  /\ peer = [c \in Clients |-> "new"]
  /\ conn = [fd \in Fds |-> None]
  /\ interest = [fd \in Fds |-> "absent"]
  /\ alarm = "armed"
  /\ main = "wait"
  /\ event = [fd \in Fds |-> "none"]
  /\ listening = FALSE
  /\ live = {}
  /\ rem = [c \in Clients |-> 0]
  /\ timerFd = [c \in Clients |-> None]
  /\ timer = [fd \in Fds |-> None]
  /\ m_sockfd = [fd \in Fds |-> None]
  /\ m_user_count = 0
  /\ request = [fd \in Fds |-> None]
  /\ response = [fd \in Fds |-> None]
  /\ Queue!QueueInit
  /\ pc = [w \in Workers |-> "idle"]
  /\ whose = [w \in Workers |-> None]
  /\ seen = [w \in Workers |-> 0]

Open(fd) == conn[fd] # None
-----------------------------------------------------------------------------
(* Clients and time *)

PeerStep(c, from, to) ==
  /\ peer[c] \in from
  /\ peer' = [peer EXCEPT ![c] = to]
  /\ UNCHANGED <<conn, interest, alarm, loop, timers, conns, m_user_count, pool>>

Connect(c) == PeerStep(c, {"new"}, "connecting")
Send(c)    == PeerStep(c, {"quiet"}, "sent")
HangUp(c)  == PeerStep(c, {"quiet", "sent"}, "hup")

\* A request of the connection at fd is queued or being processed.
Busy(fd) == Queue!Waits(fd) \/ Queue!Served(fd)

\* A TIMESLOT passes; SIGALRM, if armed, writes its byte into the pipe.
Advance ==
  /\ Prompt => \A fd \in Fds : Busy(fd) /\ Open(fd) => rem[timer[fd]] > 1
  /\ rem' = [t \in Clients |-> IF rem[t] = 0 THEN 0 ELSE rem[t] - 1]
  /\ alarm' = IF alarm = "armed" THEN "pipe" ELSE alarm
  /\ UNCHANGED <<kernel, loop, live, timerFd, timer, conns, m_user_count, pool>>
-----------------------------------------------------------------------------
(* The descriptors in S leave epoll and are closed. *)
CloseFds(S) ==
  /\ conn' = [fd \in Fds |-> IF fd \in S THEN None ELSE conn[fd]]
  /\ interest' = [fd \in Fds |-> IF fd \in S THEN "absent" ELSE interest[fd]]
  /\ peer' = [c \in Clients |-> IF \E fd \in S : conn[fd] = c THEN "closed" ELSE peer[c]]

\* modfd on users[fd].m_sockfd; epoll_ctl fails on -1 and on a closed descriptor.
Modfd(fd, ev) ==
  interest' = IF m_sockfd[fd] = fd /\ Open(fd) THEN [interest EXCEPT ![fd] = ev] ELSE interest

\* EPOLLONESHOT: what is reported is disarmed.
Disarm_Not(S) == UNCHANGED interest     \* Mutation: no EPOLLONESHOT

Disarm(S) == interest' = [fd \in Fds |-> IF fd \in S THEN "disarmed" ELSE interest[fd]]

\* What epoll_wait would report for fd.
Ready(fd) ==
  CASE interest[fd] \in {"in", "out"} /\ peer[conn[fd]] = "hup"  -> "hup"
    [] interest[fd] = "in"            /\ peer[conn[fd]] = "sent" -> "in"
    [] interest[fd] = "out"           /\ peer[conn[fd]] # "hup"  -> "out"
    [] OTHER                                                     -> "none"

Connecting == {c \in Clients : peer[c] = "connecting"}

EpollWait ==
  /\ main = "wait"
  /\ Connecting # {} \/ alarm = "pipe" \/ \E fd \in Fds : Ready(fd) # "none"
  /\ main' = "dispatch"
  /\ listening' = (Connecting # {})
  /\ alarm' = IF alarm = "pipe" THEN "event" ELSE alarm
  /\ event' = [fd \in Fds |-> Ready(fd)]
  /\ Disarm({fd \in Fds : Ready(fd) # "none"})
  /\ UNCHANGED <<peer, conn, timers, conns, m_user_count, pool>>
-----------------------------------------------------------------------------
(* The listening socket *)

\* http_conn::init() forgets the bytes read and the bytes to send.
InitConn_KeepsResponse(fd) ==     \* Mutation: bytes_to_send is not reset
  /\ request' = [request EXCEPT ![fd] = None]
  /\ UNCHANGED response

InitConn(fd) ==
  /\ request' = [request EXCEPT ![fd] = None]
  /\ response' = [response EXCEPT ![fd] = None]

\* accept returns the lowest descriptor that is free.
Lowest(fd) == ~ Open(fd) /\ \A lower \in Fds : ~ Open(lower) => fd <= lower

Accept(c) ==
  /\ listening
  /\ peer[c] = "connecting"
  /\ m_user_count < MaxUsers
  /\ \E fd \in Fds :
       /\ Lowest(fd)
       /\ conn' = [conn EXCEPT ![fd] = c]
       /\ interest' = [interest EXCEPT ![fd] = "in"]
       /\ m_sockfd' = [m_sockfd EXCEPT ![fd] = fd]
       /\ InitConn(fd)
       /\ timerFd' = [timerFd EXCEPT ![c] = fd]
       /\ timer' = [timer EXCEPT ![fd] = c]
  /\ m_user_count' = m_user_count + 1
  /\ live' = live \cup {c}
  /\ rem' = [rem EXCEPT ![c] = Timeout]
  /\ peer' = [peer EXCEPT ![c] = "quiet"]
  /\ listening' = FALSE
  /\ UNCHANGED <<alarm, main, event, pool>>

\* show_error closes the new descriptor at once.
TurnAway(c) ==
  /\ listening
  /\ peer[c] = "connecting"
  /\ m_user_count >= MaxUsers
  /\ \E fd \in Fds : Lowest(fd)
  /\ peer' = [peer EXCEPT ![c] = "closed"]
  /\ listening' = FALSE
  /\ UNCHANGED <<conn, interest, alarm, main, event, timers, conns, m_user_count, pool>>

\* accept fails, for want of a descriptor or for another reason; the listening
\* socket is level-triggered and will be reported again.
AcceptFails ==
  /\ listening
  /\ listening' = FALSE
  /\ UNCHANGED <<kernel, alarm, main, event, timers, conns, m_user_count, pool>>
-----------------------------------------------------------------------------
(* Events of a connection *)

Handled(fd) == event' = [event EXCEPT ![fd] = "none"] /\ UNCHANGED <<alarm, main, listening>>

\* timer->cb_func(&users_timer[fd]) and del_timer(timer).  users[fd] keeps its m_sockfd.
CloseAndForget_NotCounted(fd) ==     \* Mutation: m_user_count is not decremented
  /\ CloseFds({fd})
  /\ live' = live \ {timer[fd]}
  /\ UNCHANGED <<m_user_count, rem, timerFd, timer>>

CloseAndForget_KeepsTimer(fd) ==     \* Mutation: no del_timer
  /\ CloseFds({fd})
  /\ m_user_count' = m_user_count - 1
  /\ UNCHANGED <<live, rem, timerFd, timer>>

CloseAndForget_NotClosed(fd) ==     \* Mutation: the timer goes, the descriptor stays open
  /\ UNCHANGED kernel
  /\ m_user_count' = m_user_count - 1
  /\ live' = live \ {timer[fd]}
  /\ UNCHANGED <<rem, timerFd, timer>>

CloseAndForget(fd) ==
  /\ CloseFds({fd})
  /\ m_user_count' = m_user_count - 1
  /\ live' = live \ {timer[fd]}
  /\ UNCHANGED <<rem, timerFd, timer>>

\* timer->expire = cur + 3 * TIMESLOT and adjust_timer.
Renew(fd) ==
  /\ rem' = [rem EXCEPT ![timer[fd]] = Timeout]
  /\ UNCHANGED <<live, timerFd, timer, m_user_count>>

OnHup(fd) ==
  /\ event[fd] = "hup"
  /\ CloseAndForget(fd)
  /\ Handled(fd)
  /\ UNCHANGED <<conns, pool>>

\* The pipe holds the byte of SIGALRM.
OnSignal ==
  /\ alarm = "event"
  /\ alarm' = "timeout"
  /\ UNCHANGED <<kernel, loop, timers, conns, m_user_count, pool>>

\* recv on m_sockfd returns data.
Readable(fd) == m_sockfd[fd] = fd /\ Open(fd) /\ peer[conn[fd]] = "sent"

\* read_once succeeds; the result of append is ignored.
OnIn(fd) ==
  /\ event[fd] = "in"
  /\ Readable(fd)
  /\ request' = [request EXCEPT ![fd] = conn[fd]]
  /\ peer' = [peer EXCEPT ![conn[fd]] = "quiet"]
  /\ IF Queue!HasRoom THEN Queue!Enqueue(fd) ELSE UNCHANGED <<waiting, serving>>
  /\ Renew(fd)
  /\ Handled(fd)
  /\ UNCHANGED <<conn, interest, m_sockfd, response, pc, whose, seen>>

\* read_once fails: m_read_buf is full of an unfinished request, end of file, or error.
OnInFails(fd) ==
  /\ event[fd] = "in"
  /\ request[fd] # None \/ ~ Readable(fd)
  /\ CloseAndForget(fd)
  /\ Handled(fd)
  /\ UNCHANGED <<conns, pool>>

\* http_conn::init() and EPOLLIN: nothing to send, or all sent and m_linger.
OnOutDone(fd) ==
  /\ event[fd] = "out"
  /\ response[fd] = None \/ (m_sockfd[fd] = fd /\ Open(fd))
  /\ InitConn(fd)
  /\ Modfd(fd, "in")
  /\ Renew(fd)
  /\ Handled(fd)
  /\ UNCHANGED <<peer, conn, m_sockfd, pool>>

\* EAGAIN: the rest is sent when the socket is writable again.
OnOutAgain(fd) ==
  /\ event[fd] = "out"
  /\ response[fd] # None /\ m_sockfd[fd] = fd /\ Open(fd)
  /\ Modfd(fd, "out")
  /\ Renew(fd)
  /\ Handled(fd)
  /\ UNCHANGED <<peer, conn, conns, pool>>

\* All sent and no m_linger, or writev failed.
OnOutClose(fd) ==
  /\ event[fd] = "out"
  /\ response[fd] # None
  /\ CloseAndForget(fd)
  /\ Handled(fd)
  /\ UNCHANGED <<conns, pool>>

Dispatched == main = "dispatch" /\ ~ listening /\ alarm # "event" /\ \A fd \in Fds : event[fd] = "none"

Expired == {t \in live : rem[t] = 0}

\* tick calls cb_func for every expired timer and deletes it.
Tick ==
  /\ CloseFds({timerFd[t] : t \in Expired})
  /\ m_user_count' = m_user_count - Cardinality(Expired)
  /\ live' = live \ Expired

TimerHandler_Once == Tick /\ UNCHANGED alarm     \* Mutation: no alarm(TIMESLOT)

TimerHandler == Tick /\ alarm' = "armed"

\* After the last event: timer_handler if the timeout flag is set.
EndOfBatch ==
  /\ Dispatched
  /\ main' = "wait"
  /\ IF alarm = "timeout" THEN TimerHandler ELSE UNCHANGED <<kernel, m_user_count, live, alarm>>
  /\ UNCHANGED <<event, listening, rem, timerFd, timer, conns, pool>>
-----------------------------------------------------------------------------
(* Workers: run and http_conn::process *)

WorkerGoes(w, from, to) == pc[w] = from /\ pc' = [pc EXCEPT ![w] = to]

TakeRequest(w) ==
  /\ WorkerGoes(w, "idle", "read")
  /\ Queue!Take(w)
  /\ UNCHANGED <<kernel, alarm, loop, timers, conns, m_user_count, whose, seen>>

\* process_read: NO_REQUEST, a response, or a code process_write refuses.
ReadRequest(w) ==
  /\ pc[w] = "read"
  /\ \/ WorkerGoes(w, "read", "armIn") /\ UNCHANGED whose
     \/ /\ request[serving[w]] # None
        /\ \/ WorkerGoes(w, "read", "write")
           \/ Misses /\ WorkerGoes(w, "read", "close")
        /\ whose' = [whose EXCEPT ![w] = request[serving[w]]]
  /\ UNCHANGED <<kernel, alarm, loop, timers, conns, m_user_count, waiting, serving, seen>>

WriteResponse(w) ==
  /\ WorkerGoes(w, "write", "armOut")
  /\ response' = [response EXCEPT ![serving[w]] = whose[w]]
  /\ UNCHANGED <<kernel, alarm, loop, timers, m_sockfd, request, m_user_count, waiting, serving, whose, seen>>

\* close_conn tests m_sockfd and closes it; the rest of it follows in later steps.
CloseConn(w) ==
  /\ pc[w] = "close"
  /\ IF m_sockfd[serving[w]] # None
       THEN WorkerGoes(w, "close", "clear") /\ CloseFds({serving[w]})
       ELSE WorkerGoes(w, "close", "armOut") /\ UNCHANGED kernel
  /\ UNCHANGED <<alarm, loop, timers, conns, m_user_count, waiting, serving, whose, seen>>

ClearSockfd(w) ==
  /\ WorkerGoes(w, "clear", "load")
  /\ m_sockfd' = [m_sockfd EXCEPT ![serving[w]] = None]
  /\ UNCHANGED <<kernel, alarm, loop, timers, request, response, m_user_count, waiting, serving, whose, seen>>

\* m_user_count-- is not atomic: a concurrent update may be lost, on either side.
LoadCount(w) ==
  /\ WorkerGoes(w, "load", "store")
  /\ seen' = [seen EXCEPT ![w] = m_user_count]
  /\ UNCHANGED <<kernel, alarm, loop, timers, conns, m_user_count, waiting, serving, whose>>

StoreCount(w) ==
  /\ WorkerGoes(w, "store", "armOut")
  /\ m_user_count' \in {seen[w] - 1, m_user_count - 1}
       \cup (IF seen[w] = m_user_count THEN {} ELSE {m_user_count})
  /\ seen' = [seen EXCEPT ![w] = 0]
  /\ UNCHANGED <<kernel, alarm, loop, timers, conns, waiting, serving, whose>>

\* process ends with modfd; the worker goes back for the next request.
Rearm(w) ==
  /\ \/ WorkerGoes(w, "armIn", "idle") /\ Modfd(serving[w], "in")
     \/ WorkerGoes(w, "armOut", "idle") /\ Modfd(serving[w], "out")
  /\ Queue!Release(w)
  /\ whose' = [whose EXCEPT ![w] = None]
  /\ UNCHANGED <<peer, conn, alarm, loop, timers, conns, m_user_count, seen>>
-----------------------------------------------------------------------------
ClientStep(c) == Connect(c) \/ Send(c) \/ HangUp(c)

OnListen == (\E c \in Clients : Accept(c) \/ TurnAway(c)) \/ AcceptFails

OnEvent(fd) == OnHup(fd) \/ OnIn(fd) \/ OnInFails(fd) \/ OnOutDone(fd) \/ OnOutAgain(fd) \/ OnOutClose(fd)

MainStep == EpollWait \/ OnListen \/ OnSignal \/ (\E fd \in Fds : OnEvent(fd)) \/ EndOfBatch

WorkerStep(w) ==
  TakeRequest(w) \/ ReadRequest(w) \/ WriteResponse(w) \/ CloseConn(w)
    \/ ClearSockfd(w) \/ LoadCount(w) \/ StoreCount(w) \/ Rearm(w)

Step == (\E c \in Clients : ClientStep(c)) \/ Advance \/ MainStep \/ \E w \in Workers : WorkerStep(w)

Next == Step /\ UNCHANGED env

Spec == Init /\ [][Next]_vars

\* The loop runs and time passes; workers may stall for ever.
FairSpec == Spec /\ WF_vars(MainStep /\ UNCHANGED env) /\ WF_vars(Advance /\ UNCHANGED env)
-----------------------------------------------------------------------------
(* Properties *)

\* The event loop never uses a timer that tick or del_timer has deleted, and
\* never the NULL of an entry that was never filled: whatever connections and
\* descriptors went before, users_timer[fd].timer is allocated while fd is open
\* or has an event left in the batch, and it points back to users_timer[fd].
TimersLive ==
  \A fd \in Fds : Open(fd) \/ event[fd] # "none" => timer[fd] \in live /\ timerFd[timer[fd]] = fd

\* http_conn objects are not locked: EPOLLONESHOT alone gives each to one
\* holder.  The object of a descriptor is armed in epoll, or in the batch, or
\* once in the queue, or with one worker.
Exclusive ==
  env = "calm" => \A fd \in Fds :
      (IF interest[fd] \in {"in", "out"} THEN 1 ELSE 0)
    + (IF event[fd] # "none" THEN 1 ELSE 0)
    + Cardinality({i \in 1 .. Len(waiting) : waiting[i] = fd})
    + Cardinality({w \in Workers : serving[w] = fd}) <= 1

\* A client is never sent the response to another client's request, although
\* descriptors and the objects behind them are reused.
OwnResponse ==
  env = "calm" => \A fd \in Fds : Open(fd) =>
    /\ response[fd] \in {None, conn[fd]}
    /\ \A w \in Workers : serving[w] = fd => whose[w] \in {None, conn[fd]}

\* One timer per open connection, and no timer without one.
TimerPerConnection == ~ Misses =>
  /\ \A fd \in Fds : Open(fd) => timer[fd] = conn[fd] /\ conn[fd] \in live
  /\ \A t \in live : timerFd[t] \in Fds /\ conn[timerFd[t]] = t

\* m_user_count, "the number of connected clients" (http_conn.h:110).
CountExact == ~ Misses => m_user_count = Cardinality({fd \in Fds : Open(fd)})

\* "Delete inactive connections" (main.cpp:76): tick closes a connection only if
\* its client has let a whole period of its own timer pass.  (With missing files
\* it does not hold: a worker that closes a connection leaves the timer behind,
\* and cb_func closes whatever connection has the descriptor by then.)
TickClosesInactive == [][~ Misses =>
  \A fd \in Fds : Open(fd) /\ conn'[fd] = None /\ main = "dispatch" /\ main' = "wait" => rem[conn[fd]] = 0]_vars

\* No connection is held for ever: it is renewed by data, or it is closed.  This
\* also covers the ones whose request append refused, which nobody re-arms, and
\* those whose worker never comes back.
Reaped == \A c \in Clients : []<>(rem[c] = Timeout \/ \A fd \in Fds : conn[fd] # c)
=============================================================================
