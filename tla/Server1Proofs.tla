---------------------------- MODULE Server1Proofs ----------------------------
(***************************************************************************)
(* Theorems about Server1 for every number of connections and descriptors, *)
(* every set of requests and every size of the pipes.                      *)
(***************************************************************************)
EXTENDS Server1, TLAPS

\* A thread that answers or runs a script has read a request.
HasRequest == \A t \in Clients :
  pc[t] \in {"reply", "cgi", "fork", "ends", "pump"} => req[t] \in Asks

Typed == TypeOK /\ HasRequest

\* Threads that have read their argument and not yet closed their connection.
Serves(t) == pc[t] \notin {"none", "start", "done"}

\* While threads are in time, client_sock belongs to the connection that main has
\* just accepted and then to the thread started for it, the only one that has not
\* read it; and every thread has the descriptor of its own connection.
Owner == pace = "prompt" =>
  /\ main # None => client_sock \in Fds /\ conn[client_sock] = main
  /\ \A t \in Clients : pc[t] = "start" => main = None /\ client_sock \in Fds /\ conn[client_sock] = t
  /\ \A t \in Clients : Serves(t) => sock[t] \in Fds /\ conn[sock[t]] = t

\* A connection gets its thread once, after it was accepted.
Fresh ==
  /\ main # None => pc[main] = "none"
  /\ \A c \in Clients : peer[c] \in {"new", "connecting"} => pc[c] = "none" /\ main # c

\* The inductive invariant.
IInv == Typed /\ Fresh /\ Owner
-----------------------------------------------------------------------------
\* Types are kept by what main and the clients do.
LEMMA OutsideType ==
  ASSUME Typed, Running,
         MainStep \/ Die \/ \E c \in Clients : Connect(c) \/ Send(c) \/ HangUp(c)
  PROVE  Typed'
<1> USE DEF Typed, TypeOK, HasRequest, Running
<1>1. ASSUME NEW c \in Clients, Accept(c) PROVE Typed'
  BY <1>1 DEF Accept, pipes
<1>2. CASE Spawn
  BY <1>2 DEF Spawn, pipes
<1>3. CASE Die
  BY <1>3 DEF Die, pipes
<1>4. ASSUME NEW c \in Clients, Connect(c) \/ Send(c) \/ HangUp(c) PROVE Typed'
  BY <1>4 DEF Connect, Send, HangUp, pipes
<1> QED
  BY <1>1, <1>2, <1>3, <1>4 DEF MainStep

\* Types are kept by accept_request.
LEMMA RequestType ==
  ASSUME Typed, Running, NEW t \in Clients,
         ReadArg(t) \/ ReadRequest(t) \/ Reply(t) \/ Close(t) \/ CannotOpen(t)
  PROVE  Typed'
<1> USE DEF Typed, TypeOK, HasRequest, Running
<1>1. CASE ReadArg(t)
  BY <1>1 DEF ReadArg, Goto, pipes
<1>2. CASE ReadRequest(t)
  <2>1. peer' \in [Clients -> {"new", "connecting", "silent", "sent", "owes", "read", "gone", "closed"}]
    BY <1>2 DEF ReadRequest
  <2>2. PICK r \in Asks : /\ req' = [req EXCEPT ![t] = r]
                          /\ Goto(t, "line", IF r.what \in Scripts THEN "cgi" ELSE "reply")
    BY <1>2 DEF ReadRequest
  <2> QED
    BY <1>2, <2>1, <2>2 DEF ReadRequest, Goto, pipes
<1>3. CASE Reply(t)
  BY <1>3 DEF Reply, MaySend, Goto, pipes
<1>4. CASE Close(t)
  <2>1. peer' \in [Clients -> {"new", "connecting", "silent", "sent", "owes", "read", "gone", "closed"}]
    BY <1>4 DEF Close, Shut
  <2> QED
    BY <1>4, <2>1 DEF Close, Shut, Goto, pipes
<1>5. CASE CannotOpen(t)
  BY <1>5 DEF CannotOpen, pipes
<1> QED
  BY <1>1, <1>2, <1>3, <1>4, <1>5

\* Types are kept by execute_cgi.
LEMMA CgiType ==
  ASSUME Typed, Running, NEW t \in Clients,
         MakePipes(t) \/ CannotExecute(t) \/ Fork(t) \/ CloseEnds(t) \/ Feed(t) \/ Relay(t) \/ EndOfOutput(t)
  PROVE  Typed'
<1> USE Server1Assumption DEF Typed, TypeOK, HasRequest, Running
<1>1. CASE MakePipes(t)
  BY <1>1 DEF MakePipes, Goto, pipes
<1>2. CASE CannotExecute(t)
  <2>1. up' \in BOOLEAN
    BY <1>2 DEF CannotExecute, MaySend
  <2>2. pc' = [pc EXCEPT ![t] = "close"]
    BY <1>2 DEF CannotExecute, Goto
  <2> QED
    BY <1>2, <2>1, <2>2 DEF CannotExecute, pipes
<1>3. CASE Fork(t)
  <2>1. holders' \in [Clients -> SUBSET Clients]
    BY <1>3 DEF Fork
  <2> QED
    BY <1>3, <2>1 DEF Fork, Goto
<1>4. CASE CloseEnds(t)
  <2>1. req[t].body \in Nat
    BY <1>4 DEF CloseEnds, Goto
  <2> QED
    BY <1>4, <2>1 DEF CloseEnds, MaySend, Goto
<1>5. CASE Feed(t)
  <2>1. up' \in BOOLEAN
    BY <1>5 DEF Feed
  <2>2. CASE holders[t] = {}
    BY <1>5, <2>1, <2>2 DEF Feed
  <2>3. CASE holders[t] # {}
    <3>1. /\ todo[t] > 0 /\ todo' = [todo EXCEPT ![t] = todo[t] - 1]
          /\ input[t] < PipeSize /\ input' = [input EXCEPT ![t] = input[t] + 1]
      BY <1>5, <2>3, Zenon DEF Feed
    <3>2. todo' \in [Clients -> Nat] /\ input' \in [Clients -> 0 .. PipeSize]
      BY <3>1
    <3>3. peer' \in [Clients -> {"new", "connecting", "silent", "sent", "owes", "read", "gone", "closed"}]
      <4>1. peer' = peer \/ peer' = [peer EXCEPT ![Reader(t)] = "owes"]
        BY <1>5, <2>3, Zenon DEF Feed
      <4>2. peer \in [Clients -> {"new", "connecting", "silent", "sent", "owes", "read", "gone", "closed"}]
        OBVIOUS
      <4> QED
        BY <4>1, <4>2
    <3> QED
      BY <1>5, <2>1, <3>2, <3>3 DEF Feed
  <2> QED
    BY <2>2, <2>3
<1>6. CASE Relay(t)
  <2>1. up' \in BOOLEAN
    BY <1>6 DEF Relay, MaySend
  <2>2. output' \in [Clients -> 0 .. PipeSize]
    BY <1>6 DEF Relay
  <2> QED
    BY <1>6, <2>1, <2>2 DEF Relay
<1>7. CASE EndOfOutput(t)
  BY <1>7 DEF EndOfOutput, Goto, pipes
<1> QED
  BY <1>1, <1>2, <1>3, <1>4, <1>5, <1>6, <1>7

\* Types are kept by the scripts; no pipe overflows.
LEMMA ScriptType ==
  ASSUME Typed, Running, NEW t \in Clients, ScriptStep(t)
  PROVE  Typed'
<1> USE Server1Assumption DEF Typed, TypeOK, HasRequest, Running
<1>1. CASE ScriptRead(t)
  BY <1>1 DEF ScriptRead
<1>2. CASE ScriptWrite(t)
  BY <1>2 DEF ScriptWrite
<1>3. CASE ScriptExit(t)
  BY <1>3 DEF ScriptExit
<1> QED
  BY <1>1, <1>2, <1>3 DEF ScriptStep

\* Types are kept by every step.
LEMMA TypeStep ==
  ASSUME Typed, [Next]_vars
  PROVE  Typed'
<1>1. CASE UNCHANGED vars
  BY <1>1 DEF Typed, TypeOK, HasRequest, vars, pipes
<1> QED
  BY <1>1, OutsideType, RequestType, CgiType, ScriptType DEF Next, Step, ThreadStep
-----------------------------------------------------------------------------
\* Connections that were not accepted have no thread.
LEMMA FreshStep ==
  ASSUME IInv, [Next]_vars
  PROVE  Fresh'
<1> USE DEF IInv, Typed, TypeOK
<1>1. ASSUME NEW c \in Clients, Accept(c) PROVE Fresh'
  BY <1>1, Server1Assumption DEF Accept, Fresh
<1>2. CASE Spawn
  BY <1>2, Server1Assumption DEF Spawn, Fresh
<1>3. CASE Die \/ UNCHANGED vars \/ \E c \in Clients : CannotOpen(c)
  <2>1. main' = main /\ pc' = pc /\ peer' = peer
    BY <1>3, Zenon DEF Die, CannotOpen, vars
  <2> QED
    BY <2>1 DEF Fresh
<1>4. ASSUME NEW c \in Clients, Connect(c) \/ Send(c) \/ HangUp(c) PROVE Fresh'
  <2>1. main' = main /\ pc' = pc
    BY <1>4, Zenon DEF Connect, Send, HangUp
  <2>2. \A d \in Clients : peer'[d] \in {"new", "connecting"} => peer[d] \in {"new", "connecting"}
    BY <1>4 DEF Connect, Send, HangUp
  <2> QED
    BY <2>1, <2>2 DEF Fresh
<1>5. ASSUME NEW t \in Clients, ThreadStep(t) \/ ScriptStep(t) PROVE Fresh'
  <2>1. main' = main
    BY <1>5, Zenon DEF ThreadStep, ReadArg, ReadRequest, Reply, Close, MakePipes, CannotExecute, Fork, CloseEnds,
                Feed, Relay, EndOfOutput, ScriptStep, ScriptRead, ScriptWrite, ScriptExit
  <2>2. \A d \in Clients : peer'[d] \in {"new", "connecting"} => peer[d] \in {"new", "connecting"}
    <3>1. peer' = peer \/ ReadRequest(t) \/ Feed(t) \/ Shut(t)
      BY <1>5, Zenon DEF ThreadStep, ReadArg, ReadRequest, Reply, Close, MakePipes, CannotExecute, Fork, CloseEnds,
                  Feed, Relay, EndOfOutput, ScriptStep, ScriptRead, ScriptWrite, ScriptExit
    <3> QED
      BY <3>1 DEF ReadRequest, Feed, Shut
  <2>3. pc' = pc \/ (pc[t] # "none" /\ \A u \in Clients : u # t => pc'[u] = pc[u])
    BY <1>5 DEF ThreadStep, ReadArg, ReadRequest, Reply, Close, MakePipes, CannotExecute, Fork, CloseEnds,
                Feed, Relay, EndOfOutput, ScriptStep, ScriptRead, ScriptWrite, ScriptExit, Goto
  <2> QED
    BY <2>1, <2>2, <2>3 DEF Fresh
<1> QED
  BY <1>1, <1>2, <1>3, <1>4, <1>5 DEF Next, Step, MainStep

\* Every thread keeps the descriptor of its own connection.
LEMMA OwnerStep ==
  ASSUME IInv, [Next]_vars
  PROVE  Owner'
<1> USE DEF IInv, Typed
<1>0. pace' = pace
  BY DEF Next, Running, vars
<1>1. ASSUME NEW c \in Clients, Accept(c) PROVE Owner'
  <2>1. PICK fd \in Fds : Lowest(fd) /\ conn' = [conn EXCEPT ![fd] = c] /\ client_sock' = fd
    BY <1>1 DEF Accept
  <2>2. conn[fd] = None /\ conn'[fd] = c
    BY <2>1, Server1Assumption DEF Lowest, Open, TypeOK
  <2>3. \A t \in Clients : Serves(t) /\ pace = "prompt" => sock[t] # fd
    BY <2>2, Server1Assumption DEF Owner
  <2> QED
    BY <1>0, <1>1, <2>1, <2>2, <2>3 DEF Accept, InTime, Owner, Serves, TypeOK
<1>2. CASE Spawn
  BY <1>0, <1>2 DEF Spawn, Owner, Serves, TypeOK
<1>3. CASE Die \/ \E c \in Clients : Connect(c) \/ Send(c) \/ HangUp(c) \/ CannotOpen(c)
  <2>1. conn' = conn /\ client_sock' = client_sock /\ main' = main /\ sock' = sock /\ pc' = pc
    BY <1>3, Zenon DEF Die, Connect, Send, HangUp, CannotOpen
  <2> QED
    BY <1>0, <2>1 DEF Owner, Serves
<1>4. ASSUME NEW t \in Clients, ReadArg(t) PROVE Owner'
  BY <1>0, <1>4 DEF ReadArg, Goto, Owner, Serves, TypeOK
<1>5. ASSUME NEW t \in Clients, Close(t) PROVE Owner'
  <2>1. \A fd \in Fds : fd # sock[t] => conn'[fd] = conn[fd]
    BY <1>5 DEF Close, Shut
  <2>2. pace = "prompt" => sock[t] \in Fds /\ conn[sock[t]] = t
    BY <1>5 DEF Close, Goto, Owner, Serves
  <2>3. pc' = [pc EXCEPT ![t] = "done"] /\ pc[t] = "close"
    BY <1>5 DEF Close, Goto
  <2>4. Owner'
    <3>1. client_sock' = client_sock /\ main' = main /\ sock' = sock
      BY <1>5, Zenon DEF Close
    <3>2. \A u \in Clients : u # t => pc'[u] = pc[u]
      BY <2>3 DEF TypeOK
    <3>3. ASSUME pace = "prompt", NEW fd \in Fds, conn[fd] # t PROVE conn'[fd] = conn[fd]
      BY <2>1, <2>2, <3>3
    <3>4. main # t
      BY <2>3, Server1Assumption DEF Fresh
    <3> QED
      BY <1>0, <2>3, <3>1, <3>2, <3>3, <3>4 DEF Owner, Serves, TypeOK
  <2> QED
    BY <2>4
<1>6. ASSUME NEW t \in Clients,
             ReadRequest(t) \/ Reply(t) \/ MakePipes(t) \/ CannotExecute(t) \/ Fork(t) \/ CloseEnds(t) \/ EndOfOutput(t)
      PROVE  Owner'
  <2>1. conn' = conn /\ client_sock' = client_sock /\ main' = main /\ sock' = sock
    BY <1>6, Zenon DEF ReadRequest, Reply, MakePipes, CannotExecute, Fork, CloseEnds, EndOfOutput
  <2>2. PICK p \in {"cgi", "reply", "close", "done", "fork", "ends", "pump"} : pc' = [pc EXCEPT ![t] = p]
    BY <1>6 DEF ReadRequest, Reply, MakePipes, CannotExecute, Fork, CloseEnds, EndOfOutput, Goto
  <2>3. pc[t] \in {"line", "reply", "cgi", "fork", "ends", "pump"}
    BY <1>6, Zenon DEF ReadRequest, Reply, MakePipes, CannotExecute, Fork, CloseEnds, EndOfOutput, Goto
  <2> QED
    BY <1>0, <2>1, <2>2, <2>3 DEF Owner, Serves, TypeOK
<1>7. ASSUME NEW t \in Clients, Feed(t) \/ Relay(t) \/ ScriptStep(t) PROVE Owner'
  <2>1. conn' = conn /\ client_sock' = client_sock /\ main' = main /\ sock' = sock /\ pc' = pc
    BY <1>7, Zenon DEF Feed, Relay, ScriptStep, ScriptRead, ScriptWrite, ScriptExit
  <2> QED
    BY <1>0, <2>1 DEF Owner, Serves
<1>8. CASE UNCHANGED vars
  <2>1. conn' = conn /\ client_sock' = client_sock /\ main' = main /\ sock' = sock /\ pc' = pc
    BY <1>8, Zenon DEF vars
  <2> QED
    BY <1>0, <2>1 DEF Owner, Serves
<1> QED
  BY <1>1, <1>2, <1>3, <1>4, <1>5, <1>6, <1>7, <1>8 DEF Next, Step, MainStep, ThreadStep

\* The invariant holds in every reachable state.
LEMMA Invariance == Spec => []IInv
<1>1. Init => IInv
  BY Server1Assumption DEF Init, IInv, Typed, TypeOK, HasRequest, Fresh, Owner, Serves, Zero
<1>2. IInv /\ [Next]_vars => IInv'
  BY TypeStep, FreshStep, OwnerStep DEF IInv
<1> QED
  BY <1>1, <1>2, PTL DEF Spec

\* Every variable of version_01 keeps its type: in particular no pipe between a thread
\* and its script holds more than its size, whatever children hold its ends.
THEOREM TypeCorrect == Spec => []TypeOK
<1>1. IInv => TypeOK
  BY DEF IInv, Typed
<1> QED
  BY <1>1, Invariance, PTL

\* accept_request works on its own connection from its first read of the shared
\* client_sock (httpd.c:125) to its close, if main never overtakes a starting thread:
\* descriptors are closed once, so that a reused number never meets its old owner.
THEOREM OwnConnectionAlways == Spec => []OwnConnection
<1>1. IInv => OwnConnection
  BY Server1Assumption DEF IInv, Typed, TypeOK, Owner, Serves, OwnConnection, Open, Reader
<1> QED
  BY <1>1, Invariance, PTL
=============================================================================
