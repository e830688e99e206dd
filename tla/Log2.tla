-------------------------------- MODULE Log2 --------------------------------
(***************************************************************************)
(* The log of version_02: push_log appends a message to a linked list      *)
(* under a lock; log_work, the one consumer, reads head outside the lock,  *)
(* collects messages in a buffer and writes it when it is full enough.     *)
(* The loop of add_logbuf ends where the old contents of the buffer have a *)
(* zero byte, so how much of a message it copies is anybody's guess: the   *)
(* first byte at least, and at most what the model lets it, although the   *)
(* loop may run on behind the message and behind buf.  A message counts as *)
(* copied when its first byte is, and as written when it is given to write,*)
(* which may lose bytes of it: nothing is said of the text in the file.    *)
(***************************************************************************)
EXTENDS Integers, Sequences, FiniteSets

CONSTANTS
  Messages,    \* calls of push_log, each with a node of its own
  MaxCopy,     \* most units add_logbuf copies of a message and its time
  BufSize,     \* the 1024 bytes that make buf full enough, in units
  FileSize,    \* the 1 MB that make a file full enough, in units
  None         \* NULL

ASSUME Log2Assumption ==
  /\ IsFiniteSet(Messages)
  /\ MaxCopy \in Nat \ {0} /\ BufSize \in Nat /\ FileSize \in Nat
  /\ None \notin Messages

VARIABLES
  size, head, tail, next,   \* log_thread_t and the links of its nodes
  pc,          \* pc[m]: control point of push_log
  consumer,    \* control point of log_work
  ptr,         \* its local ptr
  buf, index,  \* the messages it has collected, and their size
  total,       \* what it has written to the current file
  (* history *)
  pushed,      \* all messages, in the order in which they were linked
  out          \* all messages given to write

list == <<size, head, tail, next>>
files == <<buf, index, total, out>>
vars == <<list, pc, consumer, ptr, files, pushed>>

\* Type invariant of the list and of the consumer's locals.
TypeOK ==
  /\ size \in Nat
  /\ head \in Messages \cup {None} /\ tail \in Messages \cup {None}
  /\ next \in [Messages -> Messages \cup {None}]
  /\ pc \in [Messages -> {"push", "signal", "done"}]
  /\ consumer \in {"test", "asleep", "flush", "read", "copy", "pop", "ended"}
  /\ ptr \in Messages \cup {None}
  /\ buf \in Seq(Messages) /\ index \in Nat /\ total \in Nat
  /\ pushed \in Seq(Messages) /\ out \in Seq(Messages)

Init ==
  /\ size = 0 /\ head = None /\ tail = None
  /\ next = [m \in Messages |-> None]
  /\ pc = [m \in Messages |-> "push"]
  /\ consumer = "test"
  /\ ptr = None
  /\ buf = <<>> /\ index = 0 /\ total = 0
  /\ pushed = <<>> /\ out = <<>>
-----------------------------------------------------------------------------
(* push_log *)

\* Mutation: the last node is not linked to the new one.
Link_NoNext(m) ==
  /\ pc[m] = "push" /\ consumer # "ended"
  /\ head' = IF size = 0 THEN m ELSE head
  /\ tail' = m
  /\ size' = size + 1
  /\ pushed' = Append(pushed, m)
  /\ pc' = [pc EXCEPT ![m] = "signal"]
  /\ UNCHANGED <<next, consumer, ptr, files>>

\* Mutation: the new message is put in front.
Link_AtHead(m) ==
  /\ pc[m] = "push" /\ consumer # "ended"
  /\ head' = m
  /\ next' = [next EXCEPT ![m] = head]
  /\ tail' = IF size = 0 THEN m ELSE tail
  /\ size' = size + 1
  /\ pushed' = Append(pushed, m)
  /\ pc' = [pc EXCEPT ![m] = "signal"]
  /\ UNCHANGED <<consumer, ptr, files>>

Link(m) ==
  /\ pc[m] = "push" /\ consumer # "ended"
  /\ head' = IF size = 0 THEN m ELSE head
  /\ next' = IF size = 0 THEN next ELSE [next EXCEPT ![tail] = m]
  /\ tail' = m
  /\ size' = size + 1
  /\ pushed' = Append(pushed, m)
  /\ pc' = [pc EXCEPT ![m] = "signal"]
  /\ UNCHANGED <<consumer, ptr, files>>

\* Mutation: nobody is woken.
Signal_None(m) ==
  /\ pc[m] = "signal" /\ consumer # "ended"
  /\ pc' = [pc EXCEPT ![m] = "done"]
  /\ UNCHANGED <<list, consumer, ptr, files, pushed>>

\* The lock has been released before the signal.
Signal(m) ==
  /\ pc[m] = "signal" /\ consumer # "ended"
  /\ pc' = [pc EXCEPT ![m] = "done"]
  /\ consumer' = IF consumer = "asleep" THEN "test" ELSE consumer
  /\ UNCHANGED <<list, ptr, files, pushed>>

PushLog(m) == Link(m) \/ Signal(m)
-----------------------------------------------------------------------------
(* log_work *)

Goto(from, to) == consumer = from /\ consumer' = to

TestSize ==
  /\ Goto("test", IF size = 0 THEN "asleep" ELSE "flush")
  /\ UNCHANGED <<list, pc, ptr, files, pushed>>

SpuriousWakeup ==
  /\ Goto("asleep", "test")
  /\ UNCHANGED <<list, pc, ptr, files, pushed>>

\* The next file when this one is big enough, then the buffer when it is full
\* enough, whatever write returns short of an error.  size is read without the lock.
Flush ==
  /\ consumer = "flush"
  /\ LET fresh == IF size > 0 /\ total > FileSize THEN 0 ELSE total IN
       IF size > 0 /\ index > BufSize
         THEN out' = out \o buf /\ total' = fresh + index /\ buf' = <<>> /\ index' = 0
         ELSE total' = fresh /\ UNCHANGED <<out, buf, index>>
  /\ consumer' = IF size > 0 THEN "read" ELSE "test"
  /\ UNCHANGED <<list, pc, ptr, pushed>>

\* open or write fails, the former at the latest when the files that log_work never
\* closes have used up the descriptors: exit(1) ends the process.
Exit ==
  /\ Goto("flush", "ended")
  /\ size > 0 /\ (total > FileSize \/ index > BufSize)
  /\ UNCHANGED <<list, pc, ptr, files, pushed>>

\* ptr = head, without the lock.
ReadHead ==
  /\ Goto("read", "copy")
  /\ ptr' = head
  /\ UNCHANGED <<list, pc, files, pushed>>

CopyMessage ==
  /\ Goto("copy", "pop")
  /\ buf' = Append(buf, ptr)
  /\ \E n \in 1 .. MaxCopy : index' = index + n
  /\ UNCHANGED <<list, pc, ptr, total, out, pushed>>

PopHead ==
  /\ Goto("pop", "test")
  /\ size' = size - 1
  /\ head' = IF size = 1 THEN None ELSE next[head]
  /\ tail' = IF size = 1 THEN None ELSE tail
  /\ UNCHANGED <<next, pc, ptr, files, pushed>>

LogWork == TestSize \/ Flush \/ ReadHead \/ CopyMessage \/ PopHead

Next == (\E m \in Messages : PushLog(m)) \/ LogWork \/ Exit \/ SpuriousWakeup

Spec == Init /\ [][Next]_vars

\* Threads are scheduled; that anything is logged is not assumed.
FairSpec == Spec /\ WF_vars(LogWork) /\ \A m \in Messages : WF_vars(Signal(m))
-----------------------------------------------------------------------------
(* Properties *)

Copied == out \o buf

\* The messages the consumer is done with; the one it has copied stays in the
\* list until it is popped.
Popped == IF consumer = "pop" THEN SubSeq(Copied, 1, Len(Copied) - 1) ELSE Copied

Contents == SubSeq(pushed, Len(Popped) + 1, Len(pushed))

\* Whenever no thread is inside the lock the links describe the messages that
\* were pushed and not popped, in order: head, which the consumer follows without
\* the lock, is the first of them, and tail, which push_log links to, the last.
WellLinked ==
  /\ size = Len(Contents)
  /\ size > 0 => head = Contents[1] /\ tail = Contents[size]
  /\ \A i \in 1 .. size - 1 : next[Contents[i]] = Contents[i + 1]

\* The list is an unbounded FIFO queue with one consumer: every message gets into
\* buffer and file once and in the order of the pushes, however these fall
\* between the unlocked reads of size and head.
LQ == INSTANCE LineQueue WITH
        Lines <- Messages,
        capacity <- Cardinality(Messages),
        given <- {m \in Messages : pc[m] # "push"},
        queue <- IF consumer = "pop" THEN Tail(Contents) ELSE Contents,
        taken <- IF consumer = "pop" THEN ptr ELSE None,
        delivered <- Popped

ImplementsLineQueue == LQ!QueueSpec

\* A message in the list gets into the buffer although nothing more is logged:
\* the consumer never sleeps through the only signal.  (Into a file it gets only
\* when later messages fill the buffer.)  Unless the process has ended.
Drained == size > 0 ~> size = 0 \/ consumer = "ended"
=============================================================================
