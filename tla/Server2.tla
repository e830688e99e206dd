------------------------------- MODULE Server2 -------------------------------
(***************************************************************************)
(* version_02: main accepts and deals the connections out to threads, each *)
(* with an epoll of its own, which is level-triggered.  A thread receives  *)
(* a request, waits until the socket is writable, sends the response and   *)
(* keeps or closes the connection.                                         *)
(***************************************************************************)
EXTENDS Integers, FiniteSets

CONSTANTS
  Clients,      \* connections, each made once
  ThreadNum,    \* thread_num; threads are 0 .. ThreadNum - 1
  MaxPieces,    \* bound on the pieces of requests a client sends
  Styles,       \* subset of {"whole", "cut"}: how requests arrive
  NoThread

ASSUME Server2Assumption ==
  /\ IsFiniteSet(Clients)
  /\ ThreadNum \in Nat \ {0} /\ MaxPieces \in Nat
  /\ Styles \subseteq {"whole", "cut"}
  /\ NoThread \notin Nat

VARIABLES
  up,         \* the process runs
  (* clients and kernel *)
  style,      \* style[c]: whether its requests arrive in one piece, never changed
  peer,       \* peer[c]: the connection as the client left it
  inbox,      \* inbox[c]: what recv would return
  asked,      \* asked[c]: requests the client has sent
  answered,   \* answered[c]: complete responses it was sent
  owes,       \* owes[c]: the second part of a request is still to come
  broken,     \* broken[c]: it was sent a part of a response
  (* main *)
  turn,       \* the loop variable i
  (* threads *)
  epfd,       \* epfd[c]: the thread whose epoll has c
  interest,   \* interest[c]: what that epoll waits for
  event,      \* event[c]: reported by epoll_wait and not yet handled
  alive       \* http_request_t.alive, FALSE once it is dead

client == <<peer, inbox, asked, owes>>
response == <<answered, broken>>
server2Vars == <<up, style, client, turn, epfd, interest, event, alive, response>>

Threads == 0 .. ThreadNum - 1

\* Type invariant of version_02.
Server2Type ==
  /\ up \in BOOLEAN
  /\ style \in [Clients -> Styles]
  /\ peer \in [Clients -> {"new", "connecting", "open", "fin", "reset"}]
  /\ inbox \in [Clients -> {"empty", "request", "part", "rest"}]
  /\ asked \in [Clients -> 0 .. MaxPieces] /\ answered \in [Clients -> Nat]
  /\ broken \in [Clients -> BOOLEAN] /\ owes \in [Clients -> BOOLEAN]
  /\ turn \in Threads
  /\ epfd \in [Clients -> Threads \cup {NoThread}]
  /\ interest \in [Clients -> {"absent", "in", "out", "closed"}]
  /\ event \in [Clients -> {"none", "in", "out", "mixed"}]
  /\ alive \in [Clients -> BOOLEAN]

Server2Init ==
  /\ up = TRUE
  /\ style \in [Clients -> Styles]
  /\ peer = [c \in Clients |-> "new"]
  /\ inbox = [c \in Clients |-> "empty"]
  /\ asked = [c \in Clients |-> 0] /\ answered = [c \in Clients |-> 0]
  /\ broken = [c \in Clients |-> FALSE] /\ owes = [c \in Clients |-> FALSE]
  /\ turn = 0
  /\ epfd = [c \in Clients |-> NoThread]
  /\ interest = [c \in Clients |-> "absent"]
  /\ event = [c \in Clients |-> "none"]
  /\ alive = [c \in Clients |-> FALSE]
-----------------------------------------------------------------------------
(* Clients *)

\* What the client does after the server has closed is not followed.
Leaves(c, from, to) ==
  /\ peer[c] \in from
  /\ interest[c] # "closed"
  /\ peer' = [peer EXCEPT ![c] = to]
  /\ UNCHANGED <<up, inbox, asked, owes, turn, epfd, interest, event, alive, response>>

Connect(c) == Leaves(c, {"new"}, "connecting")
HangUp(c)  == Leaves(c, {"open"}, "fin")
Reset(c)   == Leaves(c, {"open", "fin"}, "reset")

\* A client sends a request when it has the response to the previous one.
Send(c) ==
  /\ peer[c] = "open"
  /\ asked[c] < IF style[c] = "cut" THEN MaxPieces \div 2 ELSE MaxPieces
  /\ answered[c] >= asked[c] /\ ~ broken[c]
  /\ interest[c] \in {"in", "out"} /\ inbox[c] = "empty" /\ ~ owes[c]
  /\ owes' = [owes EXCEPT ![c] = style[c] = "cut"]
  /\ asked' = [asked EXCEPT ![c] = @ + 1]
  /\ inbox' = [inbox EXCEPT ![c] = IF style[c] = "whole" THEN "request" ELSE "part"]
  /\ UNCHANGED <<up, peer, turn, epfd, interest, event, alive, response>>

\* The rest of a request that was cut, after recv has returned the first part or before.
SendRest(c) ==
  /\ peer[c] = "open" /\ owes[c] /\ interest[c] # "closed"
  /\ owes' = [owes EXCEPT ![c] = FALSE]
  /\ inbox' = [inbox EXCEPT ![c] = IF inbox[c] = "part" THEN "request" ELSE "rest"]
  /\ UNCHANGED <<up, peer, asked, turn, epfd, interest, event, alive, response>>
-----------------------------------------------------------------------------
(* main *)

NextTurn == turn' = (turn + 1) % ThreadNum

Accept(c) ==
  /\ peer[c] = "connecting"
  /\ peer' = [peer EXCEPT ![c] = "open"]
  /\ epfd' = [epfd EXCEPT ![c] = turn]
  /\ interest' = [interest EXCEPT ![c] = "in"]
  /\ NextTurn
  /\ UNCHANGED <<up, inbox, asked, owes, event, alive, response>>

\* A failed accept costs the thread its turn.  It may fail at any time: write_200
\* leaves a descriptor open with every sendfile that fails.
AcceptFails ==
  /\ \E c \in Clients : peer[c] = "connecting"
  /\ NextTurn
  /\ UNCHANGED <<up, client, epfd, interest, event, alive, response>>
-----------------------------------------------------------------------------
(* wait_task *)

\* What a level-triggered epoll reports.  EPOLLERR and EPOLLHUP come unasked,
\* together with what was asked for.
Ready(c) ==
  CASE interest[c] \in {"in", "out"} /\ peer[c] = "reset"                -> "mixed"
    [] interest[c] = "in" /\ (inbox[c] # "empty" \/ peer[c] = "fin")      -> "in"
    [] interest[c] = "out" /\ peer[c] # "reset"                           -> "out"
    [] OTHER                                                              -> "none"

Mine(t) == {c \in Clients : epfd[c] = t}

EpollWait(t) ==
  /\ \A c \in Mine(t) : event[c] = "none"
  /\ \E c \in Mine(t) : Ready(c) # "none"
  /\ event' = [c \in Clients |-> IF c \in Mine(t) THEN Ready(c) ELSE event[c]]
  /\ UNCHANGED <<up, client, turn, epfd, interest, alive, response>>

Handled(c) == event' = [event EXCEPT ![c] = "none"] /\ UNCHANGED <<turn, epfd>>

\* events == EPOLLIN and events == EPOLLOUT are both false.
OnMixed(c) ==
  /\ event[c] = "mixed"
  /\ Handled(c)
  /\ UNCHANGED <<up, client, interest, alive, response>>

\* Mutation: the socket stays registered for EPOLLIN.
Received_KeepsIn(c) ==
  /\ inbox' = [inbox EXCEPT ![c] = "empty"]
  /\ \E a \in BOOLEAN : alive' = [alive EXCEPT ![c] = a]
  /\ UNCHANGED interest

\* What was received is taken for a request.  The buffer is not terminated, so
\* keep-alive may be found in what an earlier request left there.
Received(c) ==
  /\ inbox' = [inbox EXCEPT ![c] = "empty"]
  /\ \E a \in BOOLEAN : alive' = [alive EXCEPT ![c] = a]
  /\ interest' = [interest EXCEPT ![c] = "out"]

\* Mutation: no close.
EndOfStream_KeepsOpen(c) == UNCHANGED <<inbox, alive, interest>>

EndOfStream(c) ==
  /\ interest' = [interest EXCEPT ![c] = "closed"]
  /\ UNCHANGED <<inbox, alive>>

\* recv_http.  n is unsigned, so that an error (a reset since epoll_wait) is
\* taken for a request too.
OnIn(c) ==
  /\ event[c] = "in"
  /\ IF inbox[c] = "empty" /\ peer[c] = "fin" THEN EndOfStream(c) ELSE Received(c)
  /\ Handled(c)
  /\ UNCHANGED <<up, peer, asked, owes, response>>

\* Mutation: the socket stays registered for EPOLLOUT.
CheckAlive_KeepsOut(c) ==
  /\ interest' = [interest EXCEPT ![c] = IF alive[c] THEN "out" ELSE "closed"]
  /\ alive' = [alive EXCEPT ![c] = FALSE]

CheckAlive(c) ==
  /\ interest' = [interest EXCEPT ![c] = IF alive[c] THEN "in" ELSE "closed"]
  /\ alive' = [alive EXCEPT ![c] = FALSE]

\* write_200 or write_405 sends everything.
Complete(c) ==
  /\ peer[c] # "reset"
  /\ answered' = [answered EXCEPT ![c] = @ + 1]
  /\ UNCHANGED <<up, broken>>

\* sendfile stops early, which counts as success, or fails, or the file cannot
\* be opened after the header was sent.  The descriptors that a failed sendfile
\* leaves open are not counted; AcceptFails and this step allow for their effects.
Partial(c) ==
  /\ peer[c] # "reset"
  /\ broken' = [broken EXCEPT ![c] = TRUE]
  /\ UNCHANGED <<up, answered>>

\* The client is gone: a write fails, and the next one raises SIGPIPE, which
\* ends the process.
Fails(c) ==
  /\ peer[c] \in {"fin", "reset"}
  /\ up' \in BOOLEAN
  /\ UNCHANGED response

\* send_http; check_alive follows whatever write_200 and write_405 return.
OnOut(c) ==
  /\ event[c] = "out"
  /\ Complete(c) \/ Partial(c) \/ Fails(c)
  /\ CheckAlive(c)
  /\ Handled(c)
  /\ UNCHANGED client
-----------------------------------------------------------------------------
ClientStep(c) == Connect(c) \/ HangUp(c) \/ Reset(c) \/ Send(c) \/ SendRest(c)

Handle(c) == OnMixed(c) \/ OnIn(c) \/ OnOut(c)

Step ==
  \/ \E c \in Clients : ClientStep(c) \/ Accept(c) \/ Handle(c)
  \/ AcceptFails
  \/ \E t \in Threads : EpollWait(t)

Running == up /\ UNCHANGED style

Server2Next == Running /\ Step

Server2Spec == Server2Init /\ [][Server2Next]_server2Vars

\* Main and the threads are scheduled; clients owe nothing.
FairServer2Spec ==
  /\ Server2Spec
  /\ \A c \in Clients : WF_server2Vars(Running /\ Accept(c)) /\ WF_server2Vars(Running /\ Handle(c))
  /\ \A t \in Threads : WF_server2Vars(Running /\ EpollWait(t))
-----------------------------------------------------------------------------
(* Properties *)

\* Requests and responses stay in step: a client whose requests arrive in one
\* piece is never sent a response it has not asked for, although the same
\* level-triggered socket is reported again and again.
InStep == \A c \in Clients : style[c] = "whole" => answered[c] <= asked[c]

\* A request is answered unless its client has closed its end of the connection or
\* reset it, a response to it was cut off, or the process is gone: no thread forgets
\* a connection between EPOLLIN and EPOLLOUT, whatever else it handles in the same
\* batch.
Answered ==
  \A c \in Clients : asked[c] > answered[c] ~>
    answered[c] >= asked[c] \/ broken[c] \/ peer[c] \in {"fin", "reset"} \/ ~ up

\* Threads come to rest: when clients do nothing more, a level-triggered socket
\* is reported for ever only if its client has reset the connection.
ComesToRest == <>[](~ up \/ \A c \in Clients : Ready(c) = "none" \/ peer[c] = "reset")
=============================================================================
