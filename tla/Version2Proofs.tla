--------------------------- MODULE Version2Proofs ---------------------------
(***************************************************************************)
(* Theorems about version_02: its server, Server2, for every number of     *)
(* clients, threads and requests; its log, Log2, for every number of       *)
(* messages and every size of buffer and file, the last one being that it  *)
(* implements LineQueue.  The two share no variable.                       *)
(***************************************************************************)
EXTENDS Server2, Log2, FiniteSetTheorems, TLAPS

(* Part 1: Server2 *)

\* An event that waits to be handled is still what epoll would report: only the
\* handler itself changes the interest and empties the socket, and it does not know
\* connections that were not accepted.
Current == \A c \in Clients :
  /\ event[c] = "in" => interest[c] = "in" /\ (inbox[c] # "empty" \/ peer[c] \in {"fin", "reset"})
  /\ event[c] = "out" => interest[c] = "out"
  /\ peer[c] \in {"new", "connecting"} => interest[c] = "absent"

One(b) == IF b THEN 1 ELSE 0

\* Requests received and not yet answered, and those still in the socket, have
\* been asked for.  After a reset recv reports errors, which the code takes for
\* requests; but no response reaches that client any more.
Owed == \A c \in Clients : style[c] = "whole" =>
  /\ ~ owes[c]
  /\ answered[c] <= asked[c]
  /\ peer[c] # "reset" => answered[c] + One(interest[c] = "out") + One(inbox[c] # "empty") <= asked[c]

\* The inductive invariant.
Server2Inv == Server2Type /\ Current /\ Owed

\* Types are kept by every step.
LEMMA Server2TypeStep ==
  ASSUME Server2Type, [Server2Next]_server2Vars
  PROVE  Server2Type'
<1> USE Server2Assumption DEF Server2Type
<1>1. (turn + 1) % ThreadNum \in Threads
  BY DEF Threads
<1>2. ASSUME NEW c \in Clients, Running, ClientStep(c) PROVE Server2Type'
  <2>1. CASE Connect(c) \/ HangUp(c) \/ Reset(c)
    BY <1>2, <2>1 DEF Running, Connect, HangUp, Reset, Leaves, response
  <2>2. CASE Send(c)
    BY <1>2, <2>2 DEF Running, Send, response
  <2>3. CASE SendRest(c)
    BY <1>2, <2>3 DEF Running, SendRest, response
  <2> QED
    BY <1>2, <2>1, <2>2, <2>3 DEF ClientStep
<1>3. ASSUME NEW c \in Clients, Running, Accept(c) PROVE Server2Type'
  BY <1>1, <1>3 DEF Running, Accept, NextTurn, response
<1>4. CASE Running /\ AcceptFails
  BY <1>1, <1>4 DEF Running, AcceptFails, NextTurn, client, response
<1>5. ASSUME NEW c \in Clients, Running, Handle(c) PROVE Server2Type'
  <2>1. CASE OnMixed(c)
    BY <1>5, <2>1 DEF Running, OnMixed, Handled, client, response
  <2>2. CASE OnIn(c)
    BY <1>5, <2>2 DEF Running, OnIn, EndOfStream, Received, Handled, response
  <2>3. CASE OnOut(c)
    <3>1. up' \in BOOLEAN /\ broken' \in [Clients -> BOOLEAN] /\ alive' \in [Clients -> BOOLEAN]
      BY <2>3 DEF OnOut, Complete, Partial, Fails, CheckAlive, response
    <3>2. answered' \in [Clients -> Nat]
      BY <2>3 DEF OnOut, Complete, Partial, Fails, response
    <3>3. interest' \in [Clients -> {"absent", "in", "out", "closed"}]
      BY <2>3 DEF OnOut, CheckAlive
    <3> QED
      BY <1>5, <2>3, <3>1, <3>2, <3>3 DEF Running, OnOut, Handled, client
  <2> QED
    BY <1>5, <2>1, <2>2, <2>3 DEF Handle
<1>6. ASSUME NEW t \in Threads, Running, EpollWait(t) PROVE Server2Type'
  <2>1. \A c \in Clients : Ready(c) \in {"none", "in", "out", "mixed"}
    BY DEF Ready
  <2> QED
    BY <1>6, <2>1 DEF Running, EpollWait, client, response
<1>7. CASE UNCHANGED server2Vars
  BY <1>7 DEF server2Vars, client, response
<1> QED
  BY <1>2, <1>3, <1>4, <1>5, <1>6, <1>7 DEF Server2Next, Step

\* The events of a batch stay current while other connections are handled.
LEMMA CurrentStep ==
  ASSUME Server2Inv, [Server2Next]_server2Vars
  PROVE  Current'
<1> USE DEF Server2Inv, Server2Type, Current
<1>1. ASSUME NEW c \in Clients, ClientStep(c) PROVE Current'
  <2>1. CASE Connect(c) \/ HangUp(c) \/ Reset(c)
    BY <2>1 DEF Connect, HangUp, Reset, Leaves
  <2>2. CASE Send(c)
    BY <2>2 DEF Send
  <2>3. CASE SendRest(c)
    BY <2>3 DEF SendRest
  <2> QED
    BY <1>1, <2>1, <2>2, <2>3 DEF ClientStep
<1>2. ASSUME NEW c \in Clients, Accept(c) PROVE Current'
  BY <1>2 DEF Accept
<1>3. CASE AcceptFails
  BY <1>3 DEF AcceptFails, client
<1>4. ASSUME NEW c \in Clients, Handle(c) PROVE Current'
  <2>1. CASE OnMixed(c)
    BY <2>1 DEF OnMixed, Handled, client
  <2>2. CASE OnIn(c)
    BY <2>2 DEF OnIn, EndOfStream, Received, Handled
  <2>3. CASE OnOut(c)
    BY <2>3 DEF OnOut, CheckAlive, Handled, client
  <2> QED
    BY <1>4, <2>1, <2>2, <2>3 DEF Handle
<1>5. ASSUME NEW t \in Threads, EpollWait(t) PROVE Current'
  BY <1>5 DEF EpollWait, Ready, client
<1>6. CASE UNCHANGED server2Vars
  BY <1>6 DEF server2Vars, client
<1> QED
  BY <1>1, <1>2, <1>3, <1>4, <1>5, <1>6 DEF Server2Next, Step

\* What is owed to a client stays covered by what it has asked for.
LEMMA OwedStep ==
  ASSUME Server2Inv, [Server2Next]_server2Vars
  PROVE  Owed'
<1> USE DEF Server2Inv, Server2Type, Owed, One
<1>0. style' = style
  BY DEF Server2Next, Running, server2Vars
<1>1. ASSUME NEW c \in Clients, ClientStep(c) PROVE Owed'
  <2>1. CASE Connect(c) \/ HangUp(c) \/ Reset(c)
    BY <1>0, <2>1 DEF Connect, HangUp, Reset, Leaves, response
  <2>2. CASE Send(c)
    BY <1>0, <2>2 DEF Send, response
  <2>3. CASE SendRest(c)
    BY <1>0, <2>3 DEF SendRest, response
  <2> QED
    BY <1>1, <2>1, <2>2, <2>3 DEF ClientStep
<1>2. ASSUME NEW c \in Clients, Accept(c) PROVE Owed'
  BY <1>0, <1>2 DEF Accept, response
<1>3. CASE AcceptFails
  BY <1>0, <1>3 DEF AcceptFails, client, response
<1>4. ASSUME NEW c \in Clients, Handle(c) PROVE Owed'
  <2>1. CASE OnMixed(c)
    BY <1>0, <2>1 DEF OnMixed, client, response
  <2>2. CASE OnIn(c)
    BY <1>0, <2>2 DEF OnIn, EndOfStream, Received, Current, response
  <2>3. CASE OnOut(c)
    BY <1>0, <2>3 DEF OnOut, Complete, Partial, Fails, CheckAlive, Current, client, response
  <2> QED
    BY <1>4, <2>1, <2>2, <2>3 DEF Handle
<1>5. ASSUME NEW t \in Threads, EpollWait(t) PROVE Owed'
  BY <1>0, <1>5 DEF EpollWait, client, response
<1>6. CASE UNCHANGED server2Vars
  BY <1>6 DEF server2Vars, client, response
<1> QED
  BY <1>1, <1>2, <1>3, <1>4, <1>5, <1>6 DEF Server2Next, Step

\* The invariant holds in every reachable state.
LEMMA Server2Invariance == Server2Spec => []Server2Inv
<1>1. Server2Init => Server2Inv
  BY Server2Assumption DEF Server2Init, Server2Inv, Server2Type, Current, Owed, One, Threads
<1>2. Server2Inv /\ [Server2Next]_server2Vars => Server2Inv'
  BY Server2TypeStep, CurrentStep, OwedStep DEF Server2Inv
<1> QED
  BY <1>1, <1>2, PTL DEF Server2Spec

\* Every variable of version_02 keeps its type; the turn of main's loop stays among
\* the threads (http.c) and no client is counted beyond its bound.
THEOREM Server2TypeCorrect == Server2Spec => []Server2Type
<1>1. Server2Inv => Server2Type
  BY DEF Server2Inv
<1> QED
  BY <1>1, Server2Invariance, PTL

\* recv_http and send_http keep requests and responses in step: nobody is sent a
\* response it has not asked for, for any number of connections per thread.
THEOREM StaysInStep == Server2Spec => []InStep
<1>1. Server2Inv => InStep
  BY DEF Server2Inv, Owed, InStep
<1> QED
  BY <1>1, Server2Invariance, PTL
-----------------------------------------------------------------------------
(* Part 2: Log2 *)

NCopied == Len(out) + Len(buf)
NPopped == IF consumer = "pop" THEN NCopied - 1 ELSE NCopied

\* The links describe pushed from the first message that was not popped on.
Linked ==
  /\ NCopied <= Len(pushed)
  /\ consumer = "pop" => NCopied > 0
  /\ size = Len(pushed) - NPopped
  /\ size > 0 => head = pushed[NPopped + 1] /\ tail = pushed[Len(pushed)]
  /\ \A i \in NPopped + 1 .. Len(pushed) - 1 : next[pushed[i]] = pushed[i + 1]

\* What was copied is what was pushed, in the same order.
InOrder ==
  /\ \A i \in 1 .. Len(out) : out[i] = pushed[i]
  /\ \A i \in 1 .. Len(buf) : buf[i] = pushed[Len(out) + i]

Given == {m \in Messages : pc[m] # "push"}

\* Each call of push_log links its message once.
Once ==
  /\ \A i, j \in 1 .. Len(pushed) : pushed[i] = pushed[j] => i = j
  /\ \A i \in 1 .. Len(pushed) : pushed[i] \in Given
  /\ Len(pushed) = Cardinality(Given)

\* What log_work knows without the lock: the list stays non-empty and its head the
\* same until it removes it itself.
Knows ==
  /\ consumer \in {"flush", "read", "copy", "pop"} => size > 0
  /\ consumer \in {"copy", "pop"} => ptr = head

\* The inductive invariant.
IInv == TypeOK /\ Linked /\ InOrder /\ Once /\ Knows
-----------------------------------------------------------------------------
\* Types are kept by every step.
LEMMA TypeStep ==
  ASSUME IInv, [Next]_vars
  PROVE  TypeOK'
<1> USE Log2Assumption DEF IInv, TypeOK
<1>1. ASSUME NEW m \in Messages, Link(m) PROVE TypeOK'
  <2>1. next' \in [Messages -> Messages \cup {None}]
    BY <1>1 DEF Link
  <2>2. size' \in Nat /\ head' \in Messages \cup {None} /\ tail' \in Messages \cup {None}
    BY <1>1 DEF Link
  <2>3. pushed' \in Seq(Messages) /\ pc' \in [Messages -> {"push", "signal", "done"}]
    BY <1>1 DEF Link
  <2>4. UNCHANGED <<consumer, ptr, buf, index, total, out>>
    BY <1>1, Zenon DEF Link, files
  <2> QED
    BY <2>1, <2>2, <2>3, <2>4
<1>2. ASSUME NEW m \in Messages, Signal(m) PROVE TypeOK'
  BY <1>2 DEF Signal, list, files
<1>3. CASE TestSize \/ SpuriousWakeup \/ Exit
  BY <1>3 DEF TestSize, SpuriousWakeup, Exit, Goto, list, files
<1>4. CASE Flush
  <2>1. CASE size > 0 /\ index > BufSize
    <3>1. out' = out \o buf /\ buf' = <<>> /\ index' = 0 /\ total' \in {index, total + index}
      BY <1>4, <2>1 DEF Flush
    <3>2. out' \in Seq(Messages) /\ buf' \in Seq(Messages) /\ index' \in Nat /\ total' \in Nat
      BY <3>1
    <3> QED
      BY <1>4, <3>2 DEF Flush, list
  <2>2. CASE ~ (size > 0 /\ index > BufSize)
    BY <1>4, <2>2 DEF Flush, list
  <2> QED
    BY <2>1, <2>2
<1>5. CASE ReadHead
  BY <1>5 DEF ReadHead, Goto, list, files
<1>6. CASE CopyMessage
  <2>1. ptr \in Messages
    BY <1>6 DEF CopyMessage, Goto, Knows, Linked, NPopped, NCopied
  <2>2. index' \in Nat
    BY <1>6 DEF CopyMessage
  <2> QED
    BY <1>6, <2>1, <2>2 DEF CopyMessage, Goto, list
<1>7. CASE PopHead
  <2>1. size > 0
    BY <1>7 DEF PopHead, Goto, Knows
  <2>2. size > 0 => head \in Messages
    BY DEF Linked, NPopped, NCopied
  <2> QED
    BY <1>7, <2>1, <2>2 DEF PopHead, Goto, files
<1>8. CASE UNCHANGED vars
  BY <1>8 DEF vars, list, files
<1> QED
  BY <1>1, <1>2, <1>3, <1>4, <1>5, <1>6, <1>7, <1>8 DEF Next, PushLog, LogWork

\* push_log keeps the invariant: tail, which it overwrites the link of, is the last
\* message, and no earlier one is the same.
LEMMA LinkStep ==
  ASSUME IInv, NEW m \in Messages, Link(m)
  PROVE  (Linked /\ InOrder /\ Once /\ Knows)'
<1> USE DEF IInv, TypeOK
<1>1. /\ pushed' = Append(pushed, m)
      /\ Len(pushed') = Len(pushed) + 1 /\ pushed'[Len(pushed) + 1] = m
      /\ \A i \in 1 .. Len(pushed) : pushed'[i] = pushed[i]
  BY DEF Link
<1>2. out' = out /\ buf' = buf /\ consumer' = consumer /\ ptr' = ptr
  BY DEF Link, files
<1>3. NCopied' = NCopied /\ NPopped' = NPopped /\ NPopped \in Nat /\ NCopied \in Nat /\ NPopped <= Len(pushed)
  BY <1>2 DEF NCopied, NPopped, Linked
<1>4. /\ size' = size + 1 /\ tail' = m
      /\ head' = IF size = 0 THEN m ELSE head
      /\ next' = IF size = 0 THEN next ELSE [next EXCEPT ![tail] = m]
  BY DEF Link
<1>5. Linked'
  <2>1. ASSUME NEW i \in NPopped + 1 .. Len(pushed) PROVE next'[pushed'[i]] = pushed'[i + 1]
    <3>1. size > 0 /\ tail = pushed[Len(pushed)] /\ i \in 1 .. Len(pushed)
      BY <1>3, <2>1 DEF Linked
    <3>2. CASE i = Len(pushed)
      BY <1>1, <1>4, <3>1, <3>2
    <3>3. CASE i < Len(pushed)
      <4>0. Len(pushed) \in 1 .. Len(pushed) /\ i \in NPopped + 1 .. Len(pushed) - 1 /\ i + 1 \in 1 .. Len(pushed)
        BY <1>3, <3>1, <3>3
      <4>1. pushed[i] # tail /\ next[pushed[i]] = pushed[i + 1]
        BY <3>1, <3>3, <4>0 DEF Linked, Once
      <4>2. next'[pushed[i]] = next[pushed[i]]
        BY <1>4, <3>1, <4>1
      <4> QED
        BY <1>1, <3>1, <4>0, <4>1, <4>2
    <3> QED
      BY <3>1, <3>2, <3>3
  <2>2. size' > 0 => head' = pushed'[NPopped + 1] /\ tail' = pushed'[Len(pushed')]
    BY <1>1, <1>3, <1>4 DEF Linked
  <2>3. size' = Len(pushed') - NPopped' /\ NCopied' <= Len(pushed') /\ (consumer' = "pop" => NCopied' > 0)
    BY <1>1, <1>2, <1>3, <1>4 DEF Linked
  <2>4. Linked'
    <3>1. NPopped' + 1 .. Len(pushed') - 1 = NPopped + 1 .. Len(pushed)
      BY <1>1, <1>3
    <3> QED
      BY <1>3, <2>1, <2>2, <2>3, <3>1 DEF Linked
  <2> QED
    BY <2>4
<1>6. InOrder'
  <2>1. Len(out) \in Nat /\ Len(buf) \in Nat /\ Len(out) + Len(buf) <= Len(pushed)
    BY DEF NCopied, Linked
  <2>2. \A i \in 1 .. Len(out) : out[i] = pushed'[i]
    BY <1>1, <2>1 DEF InOrder
  <2>3. \A i \in 1 .. Len(buf) : buf[i] = pushed'[Len(out) + i]
    BY <1>1, <2>1 DEF InOrder
  <2> QED
    BY <1>2, <2>2, <2>3 DEF InOrder
<1>7. Once'
  <2>1. pc[m] = "push" /\ pc' = [pc EXCEPT ![m] = "signal"]
    BY DEF Link
  <2>2. Given' = Given \cup {m} /\ m \notin Given
    BY <2>1 DEF Given
  <2>3. IsFiniteSet(Given)
    BY Log2Assumption, FS_Subset DEF Given
  <2>4. Cardinality(Given') = Cardinality(Given) + 1
    BY <2>2, <2>3, FS_AddElement
  <2>5. Len(pushed) \in Nat /\ \A i \in 1 .. Len(pushed) : pushed[i] \in Given /\ pushed[i] # m
    BY <2>2 DEF Once
  <2>6. \A i \in 1 .. Len(pushed) + 1 : i \in 1 .. Len(pushed) \/ i = Len(pushed) + 1
    BY <2>5
  <2>7. \A i, j \in 1 .. Len(pushed) : pushed[i] = pushed[j] => i = j
    BY DEF Once
  <2>8. \A i, j \in 1 .. Len(pushed) + 1 : pushed'[i] = pushed'[j] => i = j
    BY <1>1, <2>5, <2>6, <2>7, Zenon
  <2>9. \A i \in 1 .. Len(pushed) + 1 : pushed'[i] \in Given'
    BY <1>1, <2>2, <2>5, <2>6
  <2>10. Len(pushed) + 1 = Cardinality(Given')
    BY <2>4 DEF Once
  <2> QED
    BY <1>1, <2>8, <2>9, <2>10, Zenon DEF Once
<1>8. Knows'
  BY <1>2, <1>4 DEF Knows
<1> QED
  BY <1>5, <1>6, <1>7, <1>8

\* log_work, the signals and wake-ups keep the invariant.
LEMMA ConsumerStep ==
  ASSUME IInv, TypeOK', LogWork \/ SpuriousWakeup \/ Exit \/ (\E m \in Messages : Signal(m)) \/ UNCHANGED vars
  PROVE  (Linked /\ InOrder /\ Once /\ Knows)'
<1> USE DEF IInv, TypeOK
<1>0. pushed' = pushed /\ next' = next /\ Len(out) \in Nat /\ Len(buf) \in Nat /\ Len(pushed) \in Nat
  BY DEF LogWork, TestSize, Flush, ReadHead, CopyMessage, PopHead, SpuriousWakeup, Exit, Signal, vars, list
<1>1. Once'
  <2>1. Given' = Given
    BY DEF Given, LogWork, TestSize, Flush, ReadHead, CopyMessage, PopHead, SpuriousWakeup, Exit, Signal, vars
  <2> QED
    BY <1>0, <2>1 DEF Once
<1>2. CASE TestSize \/ ReadHead \/ SpuriousWakeup \/ Exit \/ (\E m \in Messages : Signal(m)) \/ UNCHANGED vars
  <2>1. size' = size /\ head' = head /\ tail' = tail /\ out' = out /\ buf' = buf
    BY <1>2 DEF TestSize, ReadHead, SpuriousWakeup, Exit, Signal, vars, list, files
  <2>2. consumer' = "pop" <=> consumer = "pop"
    BY <1>2 DEF TestSize, ReadHead, SpuriousWakeup, Exit, Signal, Goto, vars
  <2>3. NCopied' = NCopied /\ NPopped' = NPopped
    BY <2>1, <2>2 DEF NCopied, NPopped
  <2>4. Linked' /\ InOrder'
    BY <1>0, <2>1, <2>2, <2>3 DEF Linked, InOrder
  <2>5. Knows'
    BY <1>2, <2>1 DEF TestSize, ReadHead, SpuriousWakeup, Exit, Signal, Goto, vars, Knows
  <2> QED
    BY <1>1, <2>4, <2>5
<1>3. CASE Flush
  <2>1. size' = size /\ head' = head /\ tail' = tail /\ consumer = "flush" /\ size > 0 /\ consumer' = "read"
    BY <1>3 DEF Flush, list, Knows
  <2>2. CASE out' = out /\ buf' = buf
    <3>1. NCopied' = NCopied /\ NPopped' = NPopped
      BY <2>1, <2>2 DEF NCopied, NPopped
    <3> QED
      BY <1>0, <1>1, <2>1, <2>2, <3>1 DEF Linked, InOrder, Knows
  <2>3. CASE out' = out \o buf /\ buf' = <<>>
    <3>1. /\ Len(out') = Len(out) + Len(buf) /\ Len(buf') = 0
          /\ \A i \in 1 .. Len(out) : out'[i] = out[i]
          /\ \A i \in 1 .. Len(buf) : out'[Len(out) + i] = buf[i]
      BY <2>3
    <3>2. NCopied' = NCopied /\ NPopped' = NPopped
      BY <1>0, <2>1, <3>1 DEF NCopied, NPopped
    <3>3. InOrder'
      <4>1. ASSUME NEW i \in 1 .. Len(out') PROVE out'[i] = pushed[i]
        <5>1. CASE i <= Len(out)
          <6>1. i \in 1 .. Len(out)
            BY <1>0, <3>1, <5>1
          <6>2. out'[i] = out[i] /\ out[i] = pushed[i]
            BY <3>1, <6>1 DEF InOrder
          <6> QED
            BY <6>2
        <5>2. CASE i > Len(out)
          <6>1. i - Len(out) \in 1 .. Len(buf) /\ Len(out) + (i - Len(out)) = i
            BY <1>0, <3>1, <5>2
          <6>2. out'[i] = buf[i - Len(out)] /\ buf[i - Len(out)] = pushed[i]
            BY <3>1, <6>1 DEF InOrder
          <6> QED
            BY <6>2
        <5> QED
          BY <1>0, <3>1, <5>1, <5>2
      <4> QED
        BY <1>0, <3>1, <4>1 DEF InOrder
    <3> QED
      BY <1>0, <1>1, <2>1, <3>2, <3>3 DEF Linked, Knows
  <2> QED
    BY <1>3, <2>2, <2>3 DEF Flush
<1>4. CASE CopyMessage
  <2>1. /\ size' = size /\ head' = head /\ tail' = tail /\ ptr' = ptr /\ out' = out
        /\ consumer = "copy" /\ consumer' = "pop" /\ buf' = Append(buf, ptr)
    BY <1>4 DEF CopyMessage, Goto, list
  <2>2. size > 0 /\ ptr = head /\ NPopped = NCopied /\ head = pushed[NCopied + 1] /\ NCopied + 1 <= Len(pushed)
    BY <1>0, <2>1 DEF Knows, Linked, NPopped, NCopied
  <2>3. /\ Len(buf') = Len(buf) + 1 /\ buf'[Len(buf) + 1] = ptr
        /\ \A i \in 1 .. Len(buf) : buf'[i] = buf[i]
    BY <2>1, <2>2 DEF Linked
  <2>4. NCopied' = NCopied + 1 /\ NPopped' = NPopped
    BY <1>0, <2>1, <2>2, <2>3 DEF NCopied, NPopped
  <2>5. Linked'
    BY <1>0, <2>1, <2>2, <2>4 DEF Linked, NCopied
  <2>6. InOrder'
    BY <1>0, <2>1, <2>2, <2>3 DEF InOrder, NCopied
  <2>7. Knows'
    BY <2>1, <2>2 DEF Knows
  <2> QED
    BY <1>1, <2>5, <2>6, <2>7
<1>5. CASE PopHead
  <2>1. /\ out' = out /\ buf' = buf /\ consumer = "pop" /\ consumer' = "test" /\ size' = size - 1
        /\ head' = IF size = 1 THEN None ELSE next[head]
        /\ tail' = IF size = 1 THEN None ELSE tail
    BY <1>5 DEF PopHead, Goto, files
  <2>2. size > 0 /\ NCopied' = NCopied /\ NPopped = NCopied - 1 /\ NPopped' = NCopied /\ NCopied > 0
    BY <2>1 DEF Knows, Linked, NCopied, NPopped
  <2>3. size' = Len(pushed) - NPopped'
    BY <1>0, <2>1, <2>2 DEF Linked, NCopied
  <2>4. size' > 0 => head' = pushed[NPopped' + 1] /\ tail' = pushed[Len(pushed)]
    <3> SUFFICES ASSUME size' > 0 PROVE head' = pushed[NPopped' + 1] /\ tail' = pushed[Len(pushed)]
      OBVIOUS
    <3>1. head' = next[head] /\ tail' = tail
      BY <2>1
    <3>2. head = pushed[NCopied] /\ tail = pushed[Len(pushed)]
      BY <1>0, <2>2 DEF Linked, NCopied
    <3>3. NCopied \in NPopped + 1 .. Len(pushed) - 1
      BY <1>0, <2>2, <2>3 DEF NCopied
    <3> QED
      BY <2>2, <3>1, <3>2, <3>3 DEF Linked
  <2>5. Linked'
    <3>1. \A i \in NPopped' + 1 .. Len(pushed) - 1 : next[pushed[i]] = pushed[i + 1]
      BY <1>0, <2>2 DEF Linked, NCopied
    <3>2. NCopied' <= Len(pushed)
      BY <2>2 DEF Linked
    <3> QED
      BY <1>0, <2>1, <2>3, <2>4, <3>1, <3>2 DEF Linked
  <2>6. InOrder' /\ Knows'
    BY <1>0, <2>1 DEF InOrder, Knows
  <2> QED
    BY <1>1, <2>5, <2>6
<1> QED
  BY <1>2, <1>3, <1>4, <1>5 DEF LogWork

\* The invariant holds in every reachable state.
LEMMA Invariance == Spec => []IInv
<1>1. Init => IInv
  <2> SUFFICES ASSUME Init PROVE IInv
    OBVIOUS
  <2>1. Given = {}
    BY DEF Init, Given
  <2>2. Cardinality(Given) = 0
    BY <2>1, FS_EmptySet
  <2>3. IInv
    <3>1. TypeOK
      BY DEF Init, TypeOK
    <3>2. NCopied = 0 /\ NPopped = 0 /\ Len(pushed) = 0 /\ Len(out) = 0 /\ Len(buf) = 0 /\ size = 0 /\ consumer = "test"
      BY DEF Init, NCopied, NPopped
    <3> QED
      BY <2>2, <3>1, <3>2 DEF IInv, Linked, InOrder, Once, Knows
  <2> QED
    BY <2>3
<1>2. IInv /\ [Next]_vars => IInv'
  <2> SUFFICES ASSUME IInv, [Next]_vars PROVE IInv'
    OBVIOUS
  <2>1. TypeOK'
    BY TypeStep
  <2>2. ASSUME NEW m \in Messages, Link(m) PROVE IInv'
    BY <2>1, <2>2, LinkStep DEF IInv
  <2>3. CASE LogWork \/ SpuriousWakeup \/ Exit \/ (\E m \in Messages : Signal(m)) \/ UNCHANGED vars
    BY <2>1, <2>3, ConsumerStep DEF IInv
  <2> QED
    BY <2>2, <2>3 DEF Next, PushLog
<1> QED
  BY <1>1, <1>2, PTL DEF Spec

\* Every variable of the log of version_02 keeps its type: log_work never takes a
\* message from an empty list.
THEOREM TypeCorrect == Spec => []TypeOK
<1>1. IInv => TypeOK
  BY DEF IInv
<1> QED
  BY <1>1, Invariance, PTL

\* The consumer is done with the first NPopped messages of pushed.
PoppedPrefix ==
  /\ NCopied \in Nat /\ NPopped \in Nat /\ NPopped <= NCopied /\ NCopied <= Len(pushed) /\ Len(pushed) \in Nat
  /\ Popped \in Seq(Messages) /\ Len(Popped) = NPopped /\ \A i \in 1 .. NPopped : Popped[i] = pushed[i]

\* What was copied is a prefix of what was pushed.
LEMMA CopiedIs ==
  ASSUME IInv
  PROVE  PoppedPrefix
<1> USE DEF IInv, TypeOK, PoppedPrefix
<1>1. Len(out) \in Nat /\ Len(buf) \in Nat /\ Len(pushed) \in Nat
  OBVIOUS
<1>2. /\ Copied \in Seq(Messages) /\ Len(Copied) = NCopied
      /\ \A i \in 1 .. Len(out) : Copied[i] = out[i]
      /\ \A i \in 1 .. Len(buf) : Copied[Len(out) + i] = buf[i]
  BY <1>1 DEF Copied, NCopied
<1>3. ASSUME NEW i \in 1 .. NCopied PROVE Copied[i] = pushed[i]
  <2>1. CASE i <= Len(out)
    BY <1>1, <1>2, <2>1 DEF InOrder, NCopied
  <2>2. CASE i > Len(out)
    <3>1. i - Len(out) \in 1 .. Len(buf) /\ Len(out) + (i - Len(out)) = i
      BY <1>1, <2>2 DEF NCopied
    <3>2. Copied[i] = buf[i - Len(out)] /\ buf[i - Len(out)] = pushed[i]
      BY <1>2, <3>1 DEF InOrder
    <3> QED
      BY <3>2
  <2> QED
    BY <1>1, <2>1, <2>2 DEF NCopied
<1>4. NCopied \in Nat /\ NPopped \in Nat /\ NPopped <= NCopied /\ NCopied <= Len(pushed)
  BY <1>1 DEF NCopied, NPopped, Linked
<1>5. Popped \in Seq(Messages) /\ Len(Popped) = NPopped /\ \A i \in 1 .. NPopped : Popped[i] = Copied[i]
  <2>1. CASE consumer = "pop"
    <3>1. Popped = SubSeq(Copied, 1, NPopped) /\ NPopped = NCopied - 1
      BY <1>2, <2>1 DEF Popped, NPopped
    <3> QED
      BY <1>2, <1>4, <3>1
  <2>2. CASE consumer # "pop"
    BY <1>2, <2>2 DEF Popped, NPopped
  <2> QED
    BY <2>1, <2>2
<1> QED
  BY <1>1, <1>2, <1>3, <1>4, <1>5

\* A suffix of a sequence.
LEMMA SuffixIs ==
  ASSUME NEW S, NEW s \in Seq(S), NEW n \in 0 .. Len(s)
  PROVE  /\ SubSeq(s, n + 1, Len(s)) \in Seq(S)
         /\ Len(SubSeq(s, n + 1, Len(s))) = Len(s) - n
         /\ \A i \in 1 .. Len(s) - n : SubSeq(s, n + 1, Len(s))[i] = s[n + i]
OBVIOUS

\* The links of version_02's log describe the messages that were pushed and not yet
\* popped, although log_work follows head outside the lock.
THEOREM AlwaysWellLinked == Spec => []WellLinked
<1>1. IInv => WellLinked
  <2> SUFFICES ASSUME IInv PROVE WellLinked
    OBVIOUS
  <2>1. /\ Contents \in Seq(Messages) /\ Len(Contents) = Len(pushed) - NPopped
        /\ \A i \in 1 .. Len(pushed) - NPopped : Contents[i] = pushed[NPopped + i]
        /\ NPopped \in Nat /\ Len(pushed) \in Nat /\ NPopped <= Len(pushed)
    <3>1. NPopped \in 0 .. Len(pushed) /\ Len(Popped) = NPopped /\ Len(pushed) \in Nat /\ pushed \in Seq(Messages)
      BY CopiedIs DEF PoppedPrefix, IInv, TypeOK
    <3> QED
      BY <3>1, SuffixIs DEF Contents
  <2>2. size = Len(Contents)
    BY <2>1 DEF IInv, Linked
  <2>3. size > 0 => head = Contents[1] /\ tail = Contents[size]
    BY <2>1 DEF IInv, Linked
  <2>4. ASSUME NEW i \in 1 .. size - 1 PROVE next[Contents[i]] = Contents[i + 1]
    <3>1. size = Len(pushed) - NPopped
      BY DEF IInv, Linked
    <3>2. /\ NPopped + i \in NPopped + 1 .. Len(pushed) - 1
          /\ Contents[i] = pushed[NPopped + i] /\ Contents[i + 1] = pushed[(NPopped + i) + 1]
      BY <2>1, <3>1
    <3> QED
      BY <3>2 DEF IInv, Linked
  <2> QED
    BY <2>2, <2>3, <2>4 DEF WellLinked
<1> QED
  BY <1>1, Invariance, PTL
-----------------------------------------------------------------------------
(* Refinement *)

\* Sequences with the same elements are the same.
LEMMA SameSeq ==
  ASSUME NEW S, NEW s \in Seq(S), NEW t \in Seq(S), Len(s) = Len(t), \A i \in 1 .. Len(s) : s[i] = t[i]
  PROVE  s = t
OBVIOUS

Waiting == IF consumer = "pop" THEN Tail(Contents) ELSE Contents
Taken == IF consumer = "pop" THEN ptr ELSE None

\* The abstract queue holds the messages after the first NCopied ones.
WaitingSuffix ==
  /\ Waiting \in Seq(Messages) /\ Len(Waiting) = Len(pushed) - NCopied
  /\ \A i \in 1 .. Len(pushed) - NCopied : Waiting[i] = pushed[NCopied + i]

\* The abstract queue holds what was pushed and not yet copied.
LEMMA WaitingIs ==
  ASSUME IInv
  PROVE  WaitingSuffix
<1> USE DEF WaitingSuffix
<1>1. NPopped \in 0 .. Len(pushed) /\ Len(Popped) = NPopped /\ Len(pushed) \in Nat /\ pushed \in Seq(Messages)
  BY CopiedIs DEF PoppedPrefix, IInv, TypeOK
<1>2. /\ Contents \in Seq(Messages) /\ Len(Contents) = Len(pushed) - NPopped
      /\ \A i \in 1 .. Len(pushed) - NPopped : Contents[i] = pushed[NPopped + i]
  BY <1>1, SuffixIs DEF Contents
<1>3. CASE consumer = "pop"
  <2>1. NPopped = NCopied - 1 /\ NCopied > 0 /\ NCopied <= Len(pushed) /\ NCopied \in Nat
    BY <1>3, CopiedIs DEF PoppedPrefix, NPopped, IInv, Linked
  <2>2. Contents # <<>>
    BY <1>1, <1>2, <2>1
  <2>3. /\ Tail(Contents) \in Seq(Messages) /\ Len(Tail(Contents)) = Len(Contents) - 1
        /\ \A i \in 1 .. Len(Contents) - 1 : Tail(Contents)[i] = Contents[i + 1]
    BY <1>2, <2>2
  <2>4. ASSUME NEW i \in 1 .. Len(pushed) - NCopied PROVE Tail(Contents)[i] = pushed[NCopied + i]
    <3>1. i \in 1 .. Len(Contents) - 1 /\ i + 1 \in 1 .. Len(pushed) - NPopped /\ NPopped + (i + 1) = NCopied + i
      BY <1>1, <1>2, <2>1
    <3> QED
      BY <1>2, <2>3, <3>1
  <2> QED
    BY <1>1, <1>2, <1>3, <2>1, <2>3, <2>4 DEF Waiting
<1>4. CASE consumer # "pop"
  BY <1>2, <1>4 DEF Waiting, NPopped
<1> QED
  BY <1>3, <1>4

\* Both hold in every reachable state, so before and after each step.
RInv == IInv /\ PoppedPrefix /\ WaitingSuffix

\* What the refinement needs to know of a state.
LEMMA RefineInvariance == Spec => []RInv
<1>1. IInv => RInv
  BY CopiedIs, WaitingIs DEF RInv
<1> QED
  BY <1>1, Invariance, PTL

\* An empty log is an empty queue.
LEMMA RefineInit == Init => LQ!QueueInit
<1> SUFFICES ASSUME Init PROVE LQ!QueueInit
  OBVIOUS
<1>1. Cardinality(Messages) \in Nat
  BY Log2Assumption, FS_CardinalityType
<1>2. Given = {} /\ Popped = <<>> /\ Contents = <<>>
  BY DEF Init, Given, Popped, Contents, Copied
<1> QED
  BY <1>1, <1>2 DEF Init, LQ!QueueInit, Given

\* Link puts a message in, CopyMessage takes it out, PopHead delivers it; no other
\* step is seen.
LEMMA RefineStep ==
  ASSUME RInv, RInv', [Next]_vars
  PROVE  LQ!QueueNext \/ UNCHANGED <<Cardinality(Messages), Given, Waiting, Taken, Popped>>
<1>0. /\ Cardinality(Messages)' = Cardinality(Messages)
      /\ pushed \in Seq(Messages) /\ pushed' \in Seq(Messages) /\ Len(pushed) \in Nat /\ Len(pushed') \in Nat
  BY DEF RInv, IInv, TypeOK
<1>1. /\ Waiting \in Seq(Messages) /\ Len(Waiting) = Len(pushed) - NCopied
      /\ \A i \in 1 .. Len(pushed) - NCopied : Waiting[i] = pushed[NCopied + i]
  BY DEF RInv, WaitingSuffix
<1>2. /\ Waiting' \in Seq(Messages) /\ Len(Waiting') = Len(pushed') - NCopied'
      /\ \A i \in 1 .. Len(pushed') - NCopied' : Waiting'[i] = pushed'[NCopied' + i]
  BY DEF RInv, WaitingSuffix
<1>3. /\ NCopied \in Nat /\ NPopped \in Nat /\ NPopped <= NCopied /\ NCopied <= Len(pushed)
      /\ Popped \in Seq(Messages) /\ Len(Popped) = NPopped /\ \A i \in 1 .. NPopped : Popped[i] = pushed[i]
  BY DEF RInv, PoppedPrefix
<1>4. /\ NCopied' \in Nat /\ NPopped' \in Nat /\ NPopped' <= NCopied' /\ NCopied' <= Len(pushed')
      /\ Popped' \in Seq(Messages) /\ Len(Popped') = NPopped' /\ \A i \in 1 .. NPopped' : Popped'[i] = pushed'[i]
  BY DEF RInv, PoppedPrefix
<1> USE DEF RInv
<1>5. ASSUME NEW m \in Messages, Link(m) PROVE LQ!QueueNext
  <2>1. /\ pc[m] = "push" /\ pc' = [pc EXCEPT ![m] = "signal"] /\ pushed' = Append(pushed, m)
        /\ consumer' = consumer /\ ptr' = ptr /\ out' = out /\ buf' = buf
    BY <1>5 DEF Link, files
  <2>2. NCopied' = NCopied /\ Popped' = Popped /\ Taken' = Taken
    BY <2>1 DEF NCopied, Popped, Copied, Taken
  <2>3. Given' = Given \cup {m} /\ m \notin Given
    BY <2>1 DEF Given, IInv, TypeOK
  <2>4. Len(Waiting) < Cardinality(Messages)
    <3>1. Given \cup {m} \subseteq Messages /\ IsFiniteSet(Messages) /\ IsFiniteSet(Given)
      BY Log2Assumption, FS_Subset DEF Given
    <3>2. Cardinality(Given \cup {m}) = Cardinality(Given) + 1
      BY <2>3, <3>1, FS_AddElement
    <3>3. Cardinality(Given \cup {m}) <= Cardinality(Messages) /\ Cardinality(Messages) \in Nat
      BY <3>1, FS_Subset, FS_CardinalityType
    <3> QED
      BY <1>0, <1>1, <1>3, <3>2, <3>3 DEF IInv, Once
  <2>5. Waiting' = Append(Waiting, m)
    <3>1. /\ Len(pushed') = Len(pushed) + 1 /\ pushed'[Len(pushed) + 1] = m
          /\ \A i \in 1 .. Len(pushed) : pushed'[i] = pushed[i]
      BY <1>0, <2>1
    <3>2. /\ Append(Waiting, m) \in Seq(Messages) /\ Len(Append(Waiting, m)) = Len(Waiting) + 1
          /\ Append(Waiting, m)[Len(Waiting) + 1] = m
          /\ \A i \in 1 .. Len(Waiting) : Append(Waiting, m)[i] = Waiting[i]
      BY <1>1
    <3>3. ASSUME NEW i \in 1 .. Len(Waiting') PROVE Waiting'[i] = Append(Waiting, m)[i]
      <4>1. Waiting'[i] = pushed'[NCopied + i]
        BY <1>2, <2>2
      <4>2. CASE i = Len(Waiting) + 1
        BY <1>0, <1>1, <1>3, <3>1, <3>2, <4>1, <4>2
      <4>3. CASE i <= Len(Waiting)
        BY <1>0, <1>1, <1>3, <3>1, <3>2, <4>1, <4>3
      <4> QED
        BY <1>0, <1>1, <1>2, <1>3, <2>2, <3>1, <4>2, <4>3
    <3>4. Len(Waiting') = Len(Append(Waiting, m))
      BY <1>0, <1>1, <1>2, <1>3, <2>2, <3>1, <3>2
    <3> QED
      BY <1>2, <3>2, <3>3, <3>4, SameSeq
  <2>6. LQ!Put(m)
    BY <2>2, <2>3, <2>4, <2>5 DEF LQ!Put, Given, Waiting, Taken
  <2> QED
    BY <1>0, <2>6 DEF LQ!QueueNext
<1>6. CASE CopyMessage
  <2>1. /\ consumer = "copy" /\ consumer' = "pop" /\ buf' = Append(buf, ptr) /\ out' = out
        /\ ptr' = ptr /\ pc' = pc /\ pushed' = pushed
    BY <1>6 DEF CopyMessage, Goto
  <2>2. ptr = head /\ size > 0 /\ NPopped = NCopied /\ head = pushed[NCopied + 1] /\ size = Len(pushed) - NCopied
    BY <2>1 DEF IInv, Knows, Linked, NPopped
  <2>3. ptr \in Messages /\ Len(buf') = Len(buf) + 1
    BY <1>0, <1>3, <2>1, <2>2 DEF IInv, TypeOK
  <2>4. NCopied' = NCopied + 1 /\ NPopped' = NPopped
    BY <2>1, <2>2, <2>3 DEF NCopied, NPopped, IInv, TypeOK
  <2>5. Given' = Given
    BY <2>1 DEF Given
  <2>6. Popped' = Popped
    BY <1>3, <1>4, <2>1, <2>4, SameSeq
  <2>7. Taken = None /\ Taken' = ptr /\ Waiting # <<>> /\ Head(Waiting) = ptr
    <3>1. Len(Waiting) > 0 /\ Waiting[1] = pushed[NCopied + 1]
      BY <1>0, <1>1, <1>3, <2>2
    <3>2. Waiting # <<>> /\ Head(Waiting) = Waiting[1]
      BY <1>1, <3>1
    <3> QED
      BY <2>1, <2>2, <3>1, <3>2 DEF Taken
  <2>8. Waiting' = Tail(Waiting)
    <3>1. /\ Tail(Waiting) \in Seq(Messages) /\ Len(Tail(Waiting)) = Len(Waiting) - 1
          /\ \A i \in 1 .. Len(Waiting) - 1 : Tail(Waiting)[i] = Waiting[i + 1]
      BY <1>1, <2>7
    <3>2. ASSUME NEW i \in 1 .. Len(Waiting') PROVE Waiting'[i] = Tail(Waiting)[i]
      <4>1. /\ i \in 1 .. Len(pushed') - NCopied' /\ i \in 1 .. Len(Waiting) - 1
            /\ i + 1 \in 1 .. Len(pushed) - NCopied /\ NCopied' + i = NCopied + (i + 1)
        BY <1>0, <1>1, <1>2, <1>3, <2>1, <2>4
      <4> QED
        BY <1>1, <1>2, <2>1, <3>1, <4>1
    <3>3. Len(Waiting') = Len(Tail(Waiting))
      BY <1>0, <1>1, <1>2, <1>3, <2>1, <2>4, <3>1
    <3> QED
      BY <1>2, <3>1, <3>2, <3>3, SameSeq
  <2>9. LQ!Get
    BY <2>5, <2>6, <2>7, <2>8 DEF LQ!Get, Given, Waiting, Taken
  <2> QED
    BY <1>0, <2>9 DEF LQ!QueueNext
<1>7. CASE PopHead
  <2>1. /\ consumer = "pop" /\ consumer' = "test" /\ buf' = buf /\ out' = out
        /\ ptr' = ptr /\ pc' = pc /\ pushed' = pushed
    BY <1>7 DEF PopHead, Goto, files
  <2>2. ptr = head /\ NPopped = NCopied - 1 /\ head = pushed[NCopied] /\ NCopied > 0
    BY <1>0, <1>3, <2>1 DEF IInv, Knows, Linked, NPopped
  <2>3. NCopied' = NCopied /\ NPopped' = NCopied
    BY <2>1 DEF NCopied, NPopped
  <2>4. ptr \in Messages /\ ptr # None
    BY <1>0, <1>3, <2>2, Log2Assumption
  <2>5. Given' = Given /\ Taken = ptr /\ Taken' = None
    BY <2>1 DEF Given, Taken
  <2>6. Waiting' = Waiting
    BY <1>1, <1>2, <2>1, <2>3, SameSeq
  <2>7. Popped' = Append(Popped, ptr)
    <3>1. /\ Append(Popped, ptr) \in Seq(Messages) /\ Len(Append(Popped, ptr)) = NPopped + 1
          /\ Append(Popped, ptr)[NPopped + 1] = ptr
          /\ \A i \in 1 .. NPopped : Append(Popped, ptr)[i] = Popped[i]
      BY <1>3, <2>4
    <3>2. \A i \in 1 .. Len(Popped') : Popped'[i] = Append(Popped, ptr)[i]
      BY <1>3, <1>4, <2>1, <2>2, <2>3, <3>1
    <3>3. Len(Popped') = Len(Append(Popped, ptr))
      BY <1>3, <1>4, <2>2, <2>3, <3>1
    <3> QED
      BY <1>4, <3>1, <3>2, <3>3, SameSeq
  <2>8. LQ!Deliver
    BY <2>4, <2>5, <2>6, <2>7 DEF LQ!Deliver, Given, Waiting, Taken
  <2> QED
    BY <1>0, <2>8 DEF LQ!QueueNext
<1>8. CASE TestSize \/ ReadHead \/ Flush \/ SpuriousWakeup \/ Exit \/ (\E m \in Messages : Signal(m)) \/ UNCHANGED vars
  <2>1. consumer' = "pop" <=> consumer = "pop"
    BY <1>8 DEF TestSize, ReadHead, Flush, SpuriousWakeup, Exit, Signal, Goto, vars, IInv, Knows
  <2>2. pushed' = pushed /\ (consumer = "pop" => ptr' = ptr)
    BY <1>8 DEF TestSize, ReadHead, Flush, SpuriousWakeup, Exit, Signal, Goto, vars
  <2>3. NCopied' = NCopied
    <3>1. CASE Flush
      <4>1. (out' = out /\ buf' = buf) \/ (out' = out \o buf /\ buf' = <<>>)
        BY <3>1 DEF Flush
      <4>2. out \in Seq(Messages) /\ buf \in Seq(Messages)
        BY DEF IInv, TypeOK
      <4>3. Len(out \o buf) = Len(out) + Len(buf) /\ Len(<<>>) = 0 /\ Len(out) \in Nat /\ Len(buf) \in Nat
        BY <4>2
      <4>4. Len(out') + Len(buf') = Len(out) + Len(buf)
        BY <4>1, <4>3
      <4> QED
        BY <4>4 DEF NCopied
    <3>2. CASE ~ Flush
      BY <1>8, <3>2 DEF TestSize, ReadHead, SpuriousWakeup, Exit, Signal, vars, files, NCopied
    <3> QED
      BY <3>1, <3>2
  <2>4. NPopped' = NPopped /\ Taken' = Taken
    BY <2>1, <2>2, <2>3 DEF NPopped, Taken
  <2>5. Given' = Given
    <3>1. \A m \in Messages : pc'[m] # "push" <=> pc[m] # "push"
      BY <1>8 DEF TestSize, ReadHead, Flush, SpuriousWakeup, Exit, Signal, vars, IInv, TypeOK
    <3> QED
      BY <3>1 DEF Given
  <2>6. Waiting' = Waiting /\ Popped' = Popped
    BY <1>1, <1>2, <1>3, <1>4, <2>2, <2>3, <2>4, SameSeq
  <2> QED
    BY <1>0, <2>4, <2>5, <2>6
<1> QED
  BY <1>5, <1>6, <1>7, <1>8 DEF Next, PushLog, LogWork

\* push_log and log_work implement an unbounded FIFO queue with one consumer: every
\* message is copied once and in the order of the pushes, however these fall between
\* the consumer's unlocked reads of size and head (log.c:134).
THEOREM ListIsAQueue == Spec => ImplementsLineQueue
<1>1. RInv /\ RInv' /\ [Next]_vars =>
        [LQ!QueueNext]_<<Cardinality(Messages), {m \in Messages : pc[m] # "push"},
                         IF consumer = "pop" THEN Tail(Contents) ELSE Contents,
                         IF consumer = "pop" THEN ptr ELSE None, Popped>>
  BY RefineStep DEF Given, Waiting, Taken
<1> QED
  BY <1>1, RefineInit, RefineInvariance, PTL DEF Spec, ImplementsLineQueue, LQ!QueueSpec
=============================================================================
