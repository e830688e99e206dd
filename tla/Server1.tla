------------------------------- MODULE Server1 -------------------------------
(***************************************************************************)
(* version_01: main accepts and starts a thread per connection, which      *)
(* reads the request and serves a page or runs a CGI script.  All threads  *)
(* get the address of the one variable client_sock.  A script is a child   *)
(* process joined to its thread by two pipes; fork copies every descriptor *)
(* of the process, the pipes of other threads too.                         *)
(***************************************************************************)
EXTENDS Integers, FiniteSets

CONSTANTS
  Clients,    \* connections, each made once; thread c is the one started for c
  Fds,        \* descriptor numbers accept can return
  Asks,       \* requests: [what, body], body is its Content-Length
  PipeSize,   \* bytes a pipe holds
  Output,     \* bytes a script writes, unless it copies its input
  Paces,      \* subset of {"prompt", "late"}, see InTime
  None

Scripts == {"length", "echo", "eof", "deaf"}

ASSUME Server1Assumption ==
  /\ IsFiniteSet(Clients)
  /\ Fds \subseteq Nat
  /\ Asks \subseteq [what : Scripts \cup {"page", "other"}, body : Nat]
  /\ PipeSize \in Nat \ {0} /\ Output \in Nat
  /\ Paces \subseteq {"prompt", "late"}
  /\ None \notin Clients /\ None \notin Fds /\ None \notin Asks

VARIABLES
  pace,         \* whether threads may be late, never changed
  up,           \* the server process runs
  (* clients and kernel *)
  peer,         \* peer[c]: the connection as the client sees it: its request is not there
                \* ("silent"), is, or has been read and the next byte of its body is not
                \* there ("owes"), is or is not needed ("read"); "closed" once the server
                \* has closed it (the client is told when no child has a copy either)
  conn,         \* conn[fd]: the client whose socket is open as fd
  (* main *)
  client_sock, main,
  (* threads *)
  pc, sock,     \* control point and the local client_sock
  req,          \* req[t]: the request t has read
  todo,         \* todo[t]: bytes of the body that execute_cgi has not yet written
  (* CGI scripts *)
  input, output,  \* bytes in the pipes
  holders,      \* holders[t]: children with copies of input[0] and output[1] of t
  child, did, wrote   \* state of the script, bytes it has read and written

pipes == <<todo, input, output, holders, child, did, wrote>>
vars == <<pace, up, peer, conn, client_sock, main, pc, sock, req, pipes>>

\* Type invariant of version_01.
TypeOK ==
  /\ pace \in Paces /\ up \in BOOLEAN
  /\ peer \in [Clients -> {"new", "connecting", "silent", "sent", "owes", "read", "gone", "closed"}]
  /\ conn \in [Fds -> Clients \cup {None}]
  /\ client_sock \in Fds \cup {None} /\ main \in Clients \cup {None}
  /\ pc \in [Clients -> {"none", "start", "line", "reply", "cgi", "fork", "ends", "pump", "close", "done"}]
  /\ sock \in [Clients -> Fds \cup {None}]
  /\ req \in [Clients -> Asks \cup {None}]
  /\ todo \in [Clients -> Nat] /\ did \in [Clients -> Nat] /\ wrote \in [Clients -> Nat]
  /\ input \in [Clients -> 0 .. PipeSize] /\ output \in [Clients -> 0 .. PipeSize]
  /\ holders \in [Clients -> SUBSET Clients]
  /\ child \in [Clients -> {"none", "runs", "exited"}]

Zero == [c \in Clients |-> 0]

Init ==
  /\ pace \in Paces /\ up = TRUE
  /\ peer = [c \in Clients |-> "new"]
  /\ conn = [fd \in Fds |-> None]
  /\ client_sock = None /\ main = None
  /\ pc = [c \in Clients |-> "none"]
  /\ sock = [c \in Clients |-> None]
  /\ req = [c \in Clients |-> None]
  /\ todo = Zero /\ input = Zero /\ output = Zero /\ did = Zero /\ wrote = Zero
  /\ holders = [c \in Clients |-> {}]
  /\ child = [c \in Clients |-> "none"]

Open(fd) == fd # None /\ conn[fd] # None
-----------------------------------------------------------------------------
(* Clients *)

Connect(c) ==
  /\ peer[c] = "new"
  /\ peer' = [peer EXCEPT ![c] = "connecting"]
  /\ UNCHANGED <<up, conn, client_sock, main, pc, sock, req, pipes>>

\* All that is read of the request, or more of its body: early, late or never.
Send(c) ==
  /\ peer[c] \in {"silent", "owes"}
  /\ peer' = [peer EXCEPT ![c] = IF peer[c] = "silent" THEN "sent" ELSE "read"]
  /\ UNCHANGED <<up, conn, client_sock, main, pc, sock, req, pipes>>

\* The client waits neither for the end of the answer nor with hanging up until it
\* has sent everything; a whole request is read all the same.
HangUp(c) ==
  /\ peer[c] \in {"silent", "owes", "read"}
  /\ peer' = [peer EXCEPT ![c] = "gone"]
  /\ UNCHANGED <<up, conn, client_sock, main, pc, sock, req, pipes>>
-----------------------------------------------------------------------------
(* main *)

Lowest(fd) == ~ Open(fd) /\ \A lower \in Fds : ~ Open(lower) => fd <= lower

\* Threads read *client before main stores the next descriptor in it.
InTime == pace = "late" \/ \A t \in Clients : pc[t] # "start"

Accept(c) ==
  /\ main = None
  /\ InTime
  /\ peer[c] = "connecting"
  /\ \E fd \in Fds :
       /\ Lowest(fd)
       /\ conn' = [conn EXCEPT ![fd] = c]
       /\ client_sock' = fd
  /\ peer' = [peer EXCEPT ![c] = "silent"]
  /\ main' = c
  /\ UNCHANGED <<up, pc, sock, req, pipes>>

\* error_die: accept or pthread_create fails, for instance for want of descriptors,
\* which sockets, pipes and the ends that CannotExecute leaves open take up.
Die ==
  /\ main # None \/ \E c \in Clients : peer[c] = "connecting"
  /\ up' = FALSE
  /\ UNCHANGED <<peer, conn, client_sock, main, pc, sock, req, pipes>>

Spawn ==
  /\ main # None
  /\ pc' = [pc EXCEPT ![main] = "start"]
  /\ main' = None
  /\ UNCHANGED <<up, peer, conn, client_sock, sock, req, pipes>>
-----------------------------------------------------------------------------
(* accept_request *)

Goto(t, from, to) == pc[t] = from /\ pc' = [pc EXCEPT ![t] = to]

ReadArg(t) ==
  /\ Goto(t, "start", "line")
  /\ sock' = [sock EXCEPT ![t] = client_sock]
  /\ UNCHANGED <<up, peer, conn, client_sock, main, req, pipes>>

Reader(t) == conn[sock[t]]     \* the client whose bytes recv returns

\* recv blocks while there is nothing to read: the client has not sent it, or
\* another thread has read it.
Blocks(t) == Open(sock[t]) /\ peer[Reader(t)] \in {"silent", "owes", "read"}

\* All lines of the request, and what it asks for.  On a closed descriptor and at the
\* end of the connection get_line returns what was in the uninitialised buffer.
ReadRequest(t) ==
  /\ ~ Blocks(t)
  /\ \E r \in Asks :
       /\ req' = [req EXCEPT ![t] = r]
       /\ Goto(t, "line", IF r.what \in Scripts THEN "cgi" ELSE "reply")
       /\ \/ peer' = [c \in Clients |-> IF Open(sock[t]) /\ c = Reader(t) /\ peer[c] = "sent" THEN "read" ELSE peer[c]]
          \/ /\ r.body > 0
             /\ peer' = [c \in Clients |-> IF Open(sock[t]) /\ c = Reader(t) /\ peer[c] = "sent" THEN "owes" ELSE peer[c]]
  /\ UNCHANGED <<up, conn, client_sock, main, sock, pipes>>

\* Writing to a client that is gone raises SIGPIPE, which nobody ignores; the
\* first write still succeeds.
MaySend(t) == up' \in IF Open(sock[t]) /\ peer[Reader(t)] = "gone" THEN {TRUE, FALSE} ELSE {TRUE}

\* close(client_sock)
Shut(t) ==
  /\ conn' = [fd \in Fds |-> IF fd = sock[t] THEN None ELSE conn[fd]]
  /\ peer' = IF Open(sock[t]) THEN [peer EXCEPT ![Reader(t)] = "closed"] ELSE peer

\* Mutation: one of the answers closes the socket, and accept_request again.
Reply_Closes(t) ==
  /\ Goto(t, "reply", IF req[t].what = "other" THEN "done" ELSE "close")
  /\ MaySend(t)
  /\ Shut(t)
  /\ UNCHANGED <<client_sock, main, sock, req, pipes>>


\* unimplemented returns to a caller that does not close; the other answers
\* (headers and cat, not_found, bad_request) end in close.
Reply(t) ==
  /\ Goto(t, "reply", IF req[t].what = "other" THEN "done" ELSE "close")
  /\ MaySend(t)
  /\ UNCHANGED <<peer, conn, client_sock, main, sock, req, pipes>>

\* The file exists but fopen fails: not_found, then fclose(NULL), which crashes.
CannotOpen(t) ==
  /\ pc[t] = "reply" /\ req[t].what = "page"
  /\ up' = FALSE
  /\ UNCHANGED <<peer, conn, client_sock, main, pc, sock, req, pipes>>

Close(t) ==
  /\ Goto(t, "close", "done")
  /\ Shut(t)
  /\ UNCHANGED <<up, client_sock, main, sock, req, pipes>>
-----------------------------------------------------------------------------
(* execute_cgi: the thread *)

MakePipes(t) ==
  /\ Goto(t, "cgi", "fork")
  /\ UNCHANGED <<up, peer, conn, client_sock, main, sock, req, pipes>>

\* bad_request for a POST without a length; cannot_execute if pipe or fork fails,
\* which leaves the ends of the pipes made so far open for good.
CannotExecute(t) ==
  /\ Goto(t, "cgi", "close") \/ Goto(t, "fork", "close")
  /\ MaySend(t)
  /\ UNCHANGED <<peer, conn, client_sock, main, sock, req, pipes>>

\* The child gets copies of all the ends that the process still has.
Fork(t) ==
  /\ Goto(t, "fork", "ends")
  /\ child' = [child EXCEPT ![t] = "runs"]
  /\ holders' = [u \in Clients |-> IF pc[u] \in {"fork", "ends"} THEN holders[u] \cup {t} ELSE holders[u]]
  /\ UNCHANGED <<up, peer, conn, client_sock, main, sock, req, todo, input, output, did, wrote>>


\* close(output[1]), close(input[0])
CloseEnds(t) ==
  /\ Goto(t, "ends", "pump")
  /\ todo' = [todo EXCEPT ![t] = req[t].body]
  /\ MaySend(t)
  /\ UNCHANGED <<peer, conn, client_sock, main, sock, req, input, output, holders, child, did, wrote>>

\* recv blocks: the client is connected and has not sent the next byte of its body.
Owed(t) == pc[t] = "pump" /\ todo[t] > 0 /\ Open(sock[t]) /\ peer[Reader(t)] = "owes"

\* One byte of the body goes into the pipe, an old one if the client is gone; SIGPIPE
\* if nobody can read it.  The byte after it may not be there yet.
Feed(t) ==
  /\ pc[t] = "pump"
  /\ todo[t] > 0
  /\ ~ Owed(t)
  /\ IF holders[t] = {}
       THEN up' = FALSE /\ UNCHANGED <<peer, todo, input>>
       ELSE /\ input[t] < PipeSize
            /\ input' = [input EXCEPT ![t] = @ + 1]
            /\ todo' = [todo EXCEPT ![t] = @ - 1]
            /\ \/ UNCHANGED peer
               \/ /\ todo[t] > 1 /\ Open(sock[t]) /\ peer[Reader(t)] = "read"
                  /\ peer' = [peer EXCEPT ![Reader(t)] = "owes"]
            /\ UNCHANGED up
  /\ UNCHANGED <<conn, client_sock, main, pc, sock, req, output, holders, child, did, wrote>>

\* The output is read when the whole body has been written.
Relay(t) ==
  /\ pc[t] = "pump"
  /\ todo[t] = 0
  /\ output[t] > 0
  /\ output' = [output EXCEPT ![t] = @ - 1]
  /\ MaySend(t)
  /\ UNCHANGED <<peer, conn, client_sock, main, pc, sock, req, todo, input, holders, child, did, wrote>>

\* read returns 0 when nobody holds the other end any more; then waitpid.
EndOfOutput(t) ==
  /\ Goto(t, "pump", "close")
  /\ todo[t] = 0 /\ output[t] = 0 /\ holders[t] = {}
  /\ child[t] = "exited"
  /\ UNCHANGED <<up, peer, conn, client_sock, main, sock, req, pipes>>
-----------------------------------------------------------------------------
(* The scripts.  "length" reads CONTENT_LENGTH bytes, then writes; "echo"     *)
(* writes each byte it reads; "eof" reads to the end of its input, which does *)
(* not come while the thread holds input[1]; "deaf" only writes.              *)

ScriptRead(t) ==
  /\ child[t] = "runs"
  /\ input[t] > 0
  /\ CASE req[t].what = "length" -> did[t] < req[t].body
       [] req[t].what = "echo"   -> did[t] = wrote[t]
       [] OTHER                  -> req[t].what = "eof"
  /\ input' = [input EXCEPT ![t] = @ - 1]
  /\ did' = [did EXCEPT ![t] = @ + 1]
  /\ UNCHANGED <<up, peer, conn, client_sock, main, pc, sock, req, todo, output, holders, child, wrote>>

Total(t) == IF req[t].what = "echo" THEN req[t].body ELSE Output

ScriptWrite(t) ==
  /\ child[t] = "runs"
  /\ output[t] < PipeSize
  /\ wrote[t] < Total(t)
  /\ CASE req[t].what = "length" -> did[t] = req[t].body
       [] req[t].what = "echo"   -> wrote[t] < did[t]
       [] OTHER                  -> req[t].what = "deaf"
  /\ output' = [output EXCEPT ![t] = @ + 1]
  /\ wrote' = [wrote EXCEPT ![t] = @ + 1]
  /\ UNCHANGED <<up, peer, conn, client_sock, main, pc, sock, req, todo, input, holders, child, did>>

ScriptExit(t) ==
  /\ child[t] = "runs"
  /\ wrote[t] = Total(t)
  /\ child' = [child EXCEPT ![t] = "exited"]
  /\ holders' = [u \in Clients |-> holders[u] \ {t}]
  /\ UNCHANGED <<up, peer, conn, client_sock, main, pc, sock, req, todo, input, output, did, wrote>>
-----------------------------------------------------------------------------
ThreadStep(t) ==
  ReadArg(t) \/ ReadRequest(t) \/ Reply(t) \/ Close(t) \/ MakePipes(t) \/ CannotExecute(t) \/ Fork(t)
    \/ CloseEnds(t) \/ Feed(t) \/ Relay(t) \/ EndOfOutput(t)

ScriptStep(t) == ScriptRead(t) \/ ScriptWrite(t) \/ ScriptExit(t)

MainStep == (\E c \in Clients : Accept(c)) \/ Spawn

Step == MainStep \/ Die \/ \E c \in Clients : Connect(c) \/ Send(c) \/ HangUp(c) \/ ThreadStep(c) \/ ScriptStep(c) \/ CannotOpen(c)

Running == up /\ UNCHANGED pace

Next == Running /\ Step

Spec == Init /\ [][Next]_vars

\* Threads and scripts are scheduled, and main too.  Clients need not do anything:
\* neither send what is waited for nor hang up.
FairSpec ==
  /\ Spec
  /\ WF_vars(Running /\ MainStep)
  /\ \A c \in Clients : WF_vars(Running /\ ThreadStep(c)) /\ WF_vars(Running /\ ScriptStep(c))
-----------------------------------------------------------------------------
(* Properties *)

\* When threads read their argument in time, every thread works on the
\* connection it was started for until it closes it: descriptors are closed
\* once, so that no thread meets the reused number of its own.
OwnConnection ==
  pace = "prompt" => \A t \in Clients :
    pc[t] \notin {"none", "start", "done"} => Open(sock[t]) /\ Reader(t) = t

\* Scripts the thread can get stuck with: one that waits for the end of its
\* input; one that copies a body which the two pipes, and the byte it holds, cannot
\* take before the thread starts to read; and one that reads nothing and writes more
\* than its pipe takes, while the thread still writes.
Jams(r) ==
  \/ r.what = "eof"
  \/ r.what = "echo" /\ r.body > 2 * PipeSize + 1
  \/ r.what = "deaf" /\ r.body > PipeSize /\ Output > PipeSize

\* A script that jams, or that is held up by its client, runs; it may hold ends of
\* the pipes of t.
HeldUp(t) ==
  Owed(t) \/ \E u \in Clients : child[u] = "runs" /\ (Jams(req[u]) \/ Owed(u))


=============================================================================
