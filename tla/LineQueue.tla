------------------------------ MODULE LineQueue ------------------------------
(***************************************************************************)
(* What a log's queue promises: lines come out in the order in which they  *)
(* were put in, each once, to the one thread that writes them, and are     *)
(* written in that order.  Both the ring of version_03 and the list of     *)
(* version_02 implement it.                                                *)
(***************************************************************************)
EXTENDS Integers, Sequences

CONSTANTS
  Lines,      \* the lines that can be logged, each once
  None

VARIABLES
  capacity,   \* how many the queue holds, chosen at the start
  given,      \* lines that were put in so far
  queue,      \* those that are still there
  taken,      \* the line the writing thread is busy with
  delivered   \* the lines it has written

QueueInit ==
  /\ capacity \in Nat
  /\ given = {}
  /\ queue = <<>>
  /\ taken = None
  /\ delivered = <<>>

Put(l) ==
  /\ l \notin given
  /\ Len(queue) < capacity
  /\ given' = given \cup {l}
  /\ queue' = Append(queue, l)
  /\ UNCHANGED <<taken, delivered>>

Get ==
  /\ taken = None
  /\ queue # <<>>
  /\ taken' = Head(queue)
  /\ queue' = Tail(queue)
  /\ UNCHANGED <<given, delivered>>

Deliver ==
  /\ taken # None
  /\ delivered' = Append(delivered, taken)
  /\ taken' = None
  /\ UNCHANGED <<given, queue>>

QueueNext == UNCHANGED capacity /\ ((\E l \in Lines : Put(l)) \/ Get \/ Deliver)

QueueSpec == QueueInit /\ [][QueueNext]_<<capacity, given, queue, taken, delivered>>
=============================================================================
