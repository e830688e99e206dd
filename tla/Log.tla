--------------------------------- MODULE Log ---------------------------------
(***************************************************************************)
(* The log of version_03: write_log, called by the event loop and by the   *)
(* workers; the ring of block_queue.h; the thread that writes what is in   *)
(* it.  A critical section is one action, except the one that formats a    *)
(* line in the shared m_buf.  A call with m_fp = NULL does not return.     *)
(***************************************************************************)
EXTENDS Integers, Sequences, FiniteSets

CONSTANTS
  Calls,      \* how many calls of write_log there are; call l logs line l
  Threads,    \* how many threads call it
  MaxLines,   \* m_max_lines
  Sizes,      \* values of max_queue_size; 0 makes the log synchronous
  LastDay,    \* days are 0 .. LastDay
  None        \* no line, mutex free, NULL

ASSUME LogAssumption ==
  /\ Calls \in Nat /\ Threads \in Nat \ {0} /\ MaxLines \in Nat \ {0}
  /\ Sizes \subseteq Nat /\ LastDay \in Nat
  /\ None \notin Nat \cup (Nat \X Nat)

VARIABLES
  clock,      \* today, as gettimeofday tells it
  (* Log *)
  m_mutex, m_buf, m_count, m_today,
  m_fp,       \* the open file: its day and the number behind its name, 0 for none; or None
  output,     \* the lines written, whatever the file
  inFile,     \* how many of them since the last fopen
  lines,      \* lines[f]: how many of them in f, for each f that was opened
  opened,     \* opened[f]: how often f was opened, for the same f
  flips,      \* how often the log went back to an earlier day
  (* block_queue *)
  m_max_size, m_array, m_size, m_front, m_back,
  (* threads *)
  pc,         \* pc[l]: control point of call l
  my_tm,      \* my_tm[l]: the day on which the line was logged
  log_str,    \* log_str[l]: the formatted line; locals and m_buf are None once dead
  consumer,   \* control point of asyn_write_log
  single_log  \* the line it has popped

names == <<m_fp, lines, opened, flips>>
file == <<m_count, m_today, output, inFile, names>>
ring == <<m_array, m_size, m_front, m_back>>
locals == <<my_tm, log_str>>
vars == <<clock, m_mutex, m_buf, file, m_max_size, ring, pc, locals, consumer, single_log>>

Lines == 1 .. Calls

Files == (0 .. LastDay) \X Nat

m_is_async == m_max_size > 0

\* The open file is one of those that were opened.
FilesOK ==
  /\ m_fp \in Files \cup {None} /\ flips \in Nat
  /\ DOMAIN lines \subseteq Files /\ lines \in [DOMAIN lines -> Nat]
  /\ opened \in [DOMAIN lines -> Nat]
  /\ m_fp # None => m_fp \in DOMAIN lines

\* Type invariant of the log.
TypeOK ==
  /\ clock \in 0 .. LastDay
  /\ m_mutex \in Lines \cup {None} /\ m_buf \in Lines \cup {None}
  /\ m_count \in Nat /\ m_today \in 0 .. LastDay
  /\ output \in Seq(Lines) /\ inFile \in Nat
  /\ FilesOK
  /\ m_max_size \in Sizes
  /\ m_array \in [0 .. m_max_size - 1 -> Lines \cup {None}]
  /\ m_size \in 0 .. m_max_size
  /\ m_front \in -1 .. m_max_size - 1 /\ m_back \in -1 .. m_max_size - 1
  /\ pc \in [Lines -> {"idle", "count", "format", "copy", "test", "push", "put",
                       "pushed", "refused", "queued", "lost", "written"}]
  /\ my_tm \in [Lines -> 0 .. LastDay]
  /\ log_str \in [Lines -> Lines \cup {None}]
  /\ consumer \in {"absent", "pop", "asleep", "write"}
  /\ single_log \in Lines \cup {None}

Init ==
  /\ clock = 0
  /\ m_mutex = None /\ m_buf = None /\ m_count = 0 /\ m_today = 0
  /\ output = <<>> /\ inFile = 0 /\ flips = 0
  /\ m_fp \in {<<0, 0>>, None}
  /\ lines = [f \in {m_fp} \ {None} |-> 0]
  /\ opened = [f \in {m_fp} \ {None} |-> 1]
  /\ m_max_size \in Sizes
  /\ m_array = [i \in 0 .. m_max_size - 1 |-> None]
  /\ m_size = 0 /\ m_front = -1 /\ m_back = -1
  /\ pc = [l \in Lines |-> "idle"]
  /\ my_tm = [l \in Lines |-> 0]
  /\ log_str = [l \in Lines |-> None]
  /\ consumer = IF m_is_async THEN "pop" ELSE "absent"
  /\ single_log = None
-----------------------------------------------------------------------------
(* write_log *)

Goto(l, from, to) == pc[l] = from /\ pc' = [pc EXCEPT ![l] = to]

Active == {l \in Lines : pc[l] \notin {"idle", "queued", "lost", "written"}}

Midnight ==
  /\ clock < LastDay
  /\ clock' = clock + 1
  /\ UNCHANGED <<m_mutex, m_buf, file, m_max_size, ring, pc, locals, consumer, single_log>>

\* The time is read before the mutex is taken.  localtime has one buffer for all
\* threads, so that this may be the day of a call that began earlier.
Start(l) ==
  /\ \A k \in 1 .. l - 1 : pc[k] # "idle"
  /\ Cardinality(Active) < Threads
  /\ Goto(l, "idle", "count")
  /\ \E day \in 0 .. clock : (day = clock \/ Threads > 1) /\ my_tm' = [my_tm EXCEPT ![l] = day]
  /\ UNCHANGED <<clock, m_mutex, m_buf, file, m_max_size, ring, log_str, consumer, single_log>>

\* fopen(new_log, "a"): the file may have lines already; the result may be NULL.
Open(f) ==
  /\ inFile' = 0
  /\ \/ /\ m_fp' = f
        /\ lines' = [g \in DOMAIN lines \cup {f} |-> IF g \in DOMAIN lines THEN lines[g] ELSE 0]
        /\ opened' = [g \in DOMAIN lines \cup {f} |->
             (IF g \in DOMAIN lines THEN opened[g] ELSE 0) + (IF g = f THEN 1 ELSE 0)]
     \/ m_fp' = None /\ UNCHANGED <<lines, opened>>

\* Mutation: a new file every day only.
Count_Daily(l) ==
  /\ m_mutex = None
  /\ Goto(l, "count", "format")
  /\ m_count' = IF m_today = my_tm[l] THEN m_count + 1 ELSE 0
  /\ m_today' = my_tm[l]
  /\ flips' = IF my_tm[l] < m_today THEN flips + 1 ELSE flips
  /\ IF m_today = my_tm[l]
       THEN UNCHANGED <<m_fp, lines, opened, inFile>>
       ELSE m_fp # None /\ Open(<<my_tm[l], 0>>)
  /\ my_tm' = [my_tm EXCEPT ![l] = 0]
  /\ UNCHANGED <<clock, m_mutex, m_buf, output, m_max_size, ring, log_str, consumer, single_log>>

\* A new file every day and every m_max_lines lines, after fclose of the old one.  A
\* line of yesterday goes back to the first file of yesterday and counts from 0.
Count(l) ==
  /\ m_mutex = None
  /\ Goto(l, "count", "format")
  /\ m_count' = IF m_today = my_tm[l] THEN m_count + 1 ELSE 0
  /\ m_today' = my_tm[l]
  /\ flips' = IF my_tm[l] < m_today THEN flips + 1 ELSE flips
  /\ IF m_today = my_tm[l] /\ (m_count + 1) % MaxLines # 0
       THEN UNCHANGED <<m_fp, lines, opened, inFile>>
       ELSE m_fp # None /\ Open(<<my_tm[l], m_count' \div MaxLines>>)
  /\ my_tm' = [my_tm EXCEPT ![l] = 0]
  /\ UNCHANGED <<clock, m_mutex, m_buf, output, m_max_size, ring, log_str, consumer, single_log>>

\* Mutation: the mutex covers the formatting only, not the copy.
Format_Unlocked(l) ==
  /\ m_mutex = None
  /\ Goto(l, "format", "copy")
  /\ m_buf' = l
  /\ UNCHANGED <<clock, m_mutex, file, m_max_size, ring, locals, consumer, single_log>>

\* The line is given as one that fits m_buf: a longer one overruns it here.
Format(l) ==
  /\ m_mutex = None
  /\ Goto(l, "format", "copy")
  /\ m_mutex' = l
  /\ m_buf' = l
  /\ UNCHANGED <<clock, file, m_max_size, ring, locals, consumer, single_log>>

CopyLine(l) ==
  /\ Goto(l, "copy", "test")
  /\ log_str' = [log_str EXCEPT ![l] = m_buf]
  /\ m_mutex' = None
  /\ m_buf' = None
  /\ UNCHANGED <<clock, file, m_max_size, ring, my_tm, consumer, single_log>>

TestFull(l) ==
  /\ Goto(l, "test", IF m_is_async /\ m_size < m_max_size THEN "push" ELSE "put")
  /\ UNCHANGED <<clock, m_mutex, m_buf, file, m_max_size, ring, locals, consumer, single_log>>

Insert(line) ==
  /\ m_back' = (m_back + 1) % m_max_size
  /\ m_array' = [m_array EXCEPT ![(m_back + 1) % m_max_size] = line]
  /\ m_size' = m_size + 1
  /\ UNCHANGED m_front

\* The ring may have filled up since full(); then the line is lost.
Push(l) ==
  /\ IF m_size >= m_max_size
       THEN Goto(l, "push", "refused") /\ UNCHANGED ring
       ELSE Goto(l, "push", "pushed") /\ Insert(log_str[l])
  /\ UNCHANGED <<clock, m_mutex, m_buf, file, m_max_size, locals, consumer, single_log>>

\* Mutation: push wakes nobody.
Broadcast_None(l) ==
  /\ Goto(l, "pushed", "queued") \/ Goto(l, "refused", "lost")
  /\ UNCHANGED <<clock, m_mutex, m_buf, file, m_max_size, ring, locals, consumer, single_log>>

\* push has released the mutex before it wakes the consumer.
Broadcast(l) ==
  /\ Goto(l, "pushed", "queued") \/ Goto(l, "refused", "lost")
  /\ consumer' = IF consumer = "asleep" THEN "pop" ELSE consumer
  /\ log_str' = [log_str EXCEPT ![l] = None]
  /\ UNCHANGED <<clock, m_mutex, m_buf, file, m_max_size, ring, my_tm, single_log>>

Puts(line) ==
  /\ m_mutex = None
  /\ m_fp # None
  /\ output' = Append(output, line)
  /\ inFile' = inFile + 1
  /\ lines' = [lines EXCEPT ![m_fp] = lines[m_fp] + 1]
  /\ UNCHANGED <<m_count, m_today, m_fp, opened, flips>>

PutLine(l) ==
  /\ Goto(l, "put", "written")
  /\ Puts(log_str[l])
  /\ log_str' = [log_str EXCEPT ![l] = None]
  /\ UNCHANGED <<clock, m_mutex, m_buf, m_max_size, ring, my_tm, consumer, single_log>>

Continue(l) ==
  Count(l) \/ Format(l) \/ CopyLine(l) \/ TestFull(l) \/ Push(l) \/ Broadcast(l) \/ PutLine(l)

WriteLog(l) == Start(l) \/ Continue(l)
-----------------------------------------------------------------------------
(* asyn_write_log *)

Sleep ==
  /\ consumer = "pop"
  /\ m_size <= 0
  /\ consumer' = "asleep"
  /\ UNCHANGED <<clock, m_mutex, m_buf, file, m_max_size, ring, pc, locals, single_log>>

\* pthread_cond_wait may return for no reason; pop tests m_size again.
SpuriousWakeup ==
  /\ consumer = "asleep"
  /\ consumer' = "pop"
  /\ UNCHANGED <<clock, m_mutex, m_buf, file, m_max_size, ring, pc, locals, single_log>>

\* Mutation: m_front taken for the first line instead of the place before it.
Pop_AtFront ==
  /\ consumer = "pop"
  /\ m_size > 0
  /\ m_front' = (m_front + 1) % m_max_size
  /\ single_log' = m_array[IF m_front = -1 THEN 0 ELSE m_front]
  /\ m_size' = m_size - 1
  /\ consumer' = "write"
  /\ UNCHANGED <<clock, m_mutex, m_buf, file, m_max_size, m_array, m_back, pc, locals>>

Pop ==
  /\ consumer = "pop"
  /\ m_size > 0
  /\ m_front' = (m_front + 1) % m_max_size
  /\ single_log' = m_array[m_front']
  /\ m_size' = m_size - 1
  /\ consumer' = "write"
  /\ UNCHANGED <<clock, m_mutex, m_buf, file, m_max_size, m_array, m_back, pc, locals>>

WritePopped ==
  /\ consumer = "write"
  /\ Puts(single_log)
  /\ consumer' = "pop"
  /\ single_log' = None
  /\ UNCHANGED <<clock, m_mutex, m_buf, m_max_size, ring, pc, locals>>

AsynWriteLog == Sleep \/ Pop \/ WritePopped

Next == Midnight \/ (\E l \in Lines : WriteLog(l)) \/ AsynWriteLog \/ SpuriousWakeup

Spec == Init /\ [][Next]_vars

\* Threads are scheduled, and the consumer gets m_mutex if it is released again
\* and again; that anything more is logged is not assumed.
FairSpec ==
  Spec /\ WF_vars(AsynWriteLog) /\ SF_vars(WritePopped) /\ \A l \in Lines : WF_vars(Continue(l))
-----------------------------------------------------------------------------
(* Properties *)

\* The lines in the ring, from the place after m_front on.
Contents == [i \in 1 .. m_size |-> m_array[(m_front + i) % m_max_size]]

Times(l, s) == Cardinality({i \in DOMAIN s : s[i] = l})

\* No line is lost without notice, doubled or mixed with another's: from its
\* formatting on it is with its own call, in the ring, with the consumer or in a
\* file, once; the lines push refused are the only ones that are nowhere.
LinesAccounted ==
  \A l \in Lines :
    /\ pc[l] \in {"test", "push", "put"} => log_str[l] = l
    /\ Times(l, Contents) + Times(l, output) + (IF consumer = "write" /\ single_log = l THEN 1 ELSE 0)
         = IF pc[l] \in {"pushed", "queued", "written"} THEN 1 ELSE 0

\* Counting a line and writing it are separate steps, and a line may wait in the
\* ring in between: after it was opened a file gets m_max_lines lines and what was on
\* its way then.  It is opened again, with "a" and m_count = 0, only when a call of an
\* earlier day goes back over midnight: then it may get as many lines once more.
FileBounded ==
  \A f \in DOMAIN lines :
    lines[f] <= (1 + flips) * (MaxLines + (Threads - 1) + (IF m_is_async THEN m_max_size + 1 ELSE 0))

\* The lines that were put into the ring.
ByPush == {l \in Lines : pc[l] \in {"pushed", "queued"}}

\* What is left of s without the lines that are not in S.
Kept(s, S) ==
  LET kept[i \in 0 .. Len(s)] ==
        IF i = 0 THEN <<>> ELSE IF s[i] \in S THEN Append(kept[i - 1], s[i]) ELSE kept[i - 1]
  IN  kept[Len(s)]

\* The ring is a bounded FIFO queue with one consumer: the lines that pass
\* through it are written in the order in which they were pushed.
LQ == INSTANCE LineQueue WITH
        capacity <- m_max_size,
        given <- ByPush,
        queue <- Contents,
        taken <- IF consumer = "write" THEN single_log ELSE None,
        delivered <- Kept(output, ByPush)

ImplementsLineQueue == LQ!QueueSpec

\* What is in the ring gets into a file although nothing more is logged: the
\* consumer never sleeps through the only wake-up.  Unless fopen has failed.
QueuedIsWritten == m_size > 0 ~> (m_size = 0 /\ consumer # "write") \/ m_fp = None
=============================================================================
