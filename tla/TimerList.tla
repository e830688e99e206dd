----------------------------- MODULE TimerList -----------------------------
(***************************************************************************)
(* sort_timer_lst of version_03/timer/lst_timer.h: a doubly linked list    *)
(* with head and tail pointers, kept in the order of expiry.  An operation *)
(* of the class is one action; it is only called by the event loop.        *)
(***************************************************************************)
EXTENDS Integers, Sequences, FiniteSets

CONSTANTS
  Timers,     \* util_timer objects
  Times,      \* values of time_t
  Null        \* NULL

ASSUME TimerListAssumption ==
  /\ Times \subseteq Nat
  /\ Null \notin Timers

VARIABLES
  lst,        \* head and tail, and the prev and next of every timer
  expire,
  live        \* timers allocated and in the list

timerVars == <<lst, expire, live>>

Pointer == Timers \cup {Null}

TimersType ==
  /\ lst \in [head : Pointer, tail : Pointer, prev : [Timers -> Pointer], next : [Timers -> Pointer]]
  /\ expire \in [Timers -> Times]
  /\ live \subseteq Timers

NoLinks == [t \in Timers |-> Null]

TimersInit ==
  /\ lst = [head |-> Null, tail |-> Null, prev |-> NoLinks, next |-> NoLinks]
  /\ expire \in [Timers -> Times]
  /\ live = {}
-----------------------------------------------------------------------------
\* The timer reached from start along next after which a timer that expires at
\* e belongs: the first whose successor expires later, or the last one.
Predecessor_BeforeEqual(l, start, e) ==     \* Mutation: <= for <
  LET last[t \in Timers] ==
        IF l.next[t] = Null \/ e <= expire[l.next[t]] THEN t ELSE last[l.next[t]]
  IN  last[start]

Predecessor(l, start, e) ==
  LET last[t \in Timers] ==
        IF l.next[t] = Null \/ e < expire[l.next[t]] THEN t ELSE last[l.next[t]]
  IN  last[start]

\* add_timer(timer, lst_head)
InsertFrom(l, t, e, start) ==
  LET p == Predecessor(l, start, e)
      n == l.next[p]
  IN  IF n # Null
        THEN [l EXCEPT !.next[p] = t, !.next[t] = n, !.prev[n] = t, !.prev[t] = p]
        ELSE [l EXCEPT !.next[p] = t, !.prev[t] = p, !.next[t] = Null, !.tail = t]

\* add_timer(timer); new has set both links to NULL
Add(t, e) ==
  /\ t \notin live
  /\ lst' = IF lst.head = Null
              THEN [lst EXCEPT !.head = t, !.tail = t]
            ELSE IF e < expire[lst.head]
              THEN [lst EXCEPT !.next[t] = lst.head, !.prev[lst.head] = t, !.head = t]
            ELSE InsertFrom(lst, t, e, lst.head)
  /\ expire' = [expire EXCEPT ![t] = e]
  /\ live' = live \cup {t}

\* timer->expire = e and adjust_timer.  The event loop only postpones: a clock
\* set back between two events of a connection is not covered.
Adjust(t, e) ==
  /\ t \in live
  /\ e >= expire[t]
  /\ expire' = [expire EXCEPT ![t] = e]
  /\ lst' = LET n == lst.next[t]
                p == lst.prev[t]
            IN  IF n = Null \/ e < expire[n]
                  THEN lst
                ELSE IF t = lst.head
                  THEN InsertFrom([lst EXCEPT !.head = n, !.prev[n] = Null, !.next[t] = Null], t, e, n)
                ELSE InsertFrom([lst EXCEPT !.next[p] = n, !.prev[n] = p], t, e, n)
  /\ UNCHANGED live

\* delete: the links of the object are gone.
Freed(l, S) ==
  [l EXCEPT !.prev = [t \in Timers |-> IF t \in S THEN Null ELSE l.prev[t]],
            !.next = [t \in Timers |-> IF t \in S THEN Null ELSE l.next[t]]]

Unlinked_NoTail(l, t) ==     \* Mutation: the tail pointer is not moved
  LET n == l.next[t]
      p == l.prev[t]
  IN  IF t = l.head /\ t = l.tail THEN [l EXCEPT !.head = Null, !.tail = Null]
      ELSE IF t = l.head THEN [l EXCEPT !.head = n, !.prev[n] = Null]
      ELSE IF t = l.tail THEN [l EXCEPT !.next[p] = Null]
      ELSE [l EXCEPT !.next[p] = n, !.prev[n] = p]

Unlinked(l, t) ==
  LET n == l.next[t]
      p == l.prev[t]
  IN  IF t = l.head /\ t = l.tail THEN [l EXCEPT !.head = Null, !.tail = Null]
      ELSE IF t = l.head THEN [l EXCEPT !.head = n, !.prev[n] = Null]
      ELSE IF t = l.tail THEN [l EXCEPT !.tail = p, !.next[p] = Null]
      ELSE [l EXCEPT !.next[p] = n, !.prev[n] = p]

\* del_timer
Del(t) ==
  /\ t \in live
  /\ lst' = Freed(Unlinked(lst, t), {t})
  /\ live' = live \ {t}
  /\ UNCHANGED expire

\* The first timer from head that has not expired at now, Null if all have.
FirstPending(now) ==
  LET first[t \in Pointer] ==
        IF t = Null THEN Null ELSE IF now < expire[t] THEN t ELSE first[lst.next[t]]
  IN  first[lst.head]

\* The timers from head up to, and without, stop.
Before(stop) ==
  LET from[t \in Pointer] == IF t \in {Null, stop} THEN {} ELSE {t} \cup from[lst.next[t]]
  IN  from[lst.head]

\* tick runs cb_func on and deletes timers until one is pending; tail is not updated.
Tick(now) ==
  /\ lst' = LET h == FirstPending(now)
            IN  Freed(IF h = Null THEN [lst EXCEPT !.head = Null]
                      ELSE [lst EXCEPT !.head = h, !.prev[h] = Null],
                      Before(h))
  /\ live' = live \ Before(FirstPending(now))
  /\ UNCHANGED expire

TimersNext ==
  \/ \E t \in Timers, e \in Times : Add(t, e) \/ Adjust(t, e)
  \/ \E t \in Timers : Del(t)
  \/ \E now \in Times : Tick(now)

TimersSpec == TimersInit /\ [][TimersNext]_timerVars
-----------------------------------------------------------------------------
(* Properties *)

\* The list read from head along next.
ForwardFrom(l) ==
  LET walk[t \in Pointer] == IF t = Null THEN <<>> ELSE <<t>> \o walk[l.next[t]]
  IN  walk[l.head]

\* The list read from tail along prev, put in order.
BackwardFrom(l) ==
  LET walk[t \in Pointer] == IF t = Null THEN <<>> ELSE walk[l.prev[t]] \o <<t>>
  IN  walk[l.tail]

Forward  == ForwardFrom(lst)
Backward == BackwardFrom(lst)

\* Both directions give the same list, which holds the allocated timers: no
\* timer is lost or linked after its deletion.  tail may dangle, but only while
\* the list is empty, when add_timer does not read it.
WellLinked ==
  /\ TimersType
  /\ {Forward[i] : i \in 1 .. Len(Forward)} = live
  /\ Len(Forward) = Cardinality(live)
  /\ lst.head # Null => lst.tail \in live /\ Backward = Forward

\* The pointers implement the sorted list: every operation puts a timer where
\* its expiry belongs, and tick, which stops at the first pending timer, removes
\* all the expired ones and no other.
Sorted == INSTANCE SortedTimers WITH order <- Forward

ImplementsSortedTimers == Sorted!SortedSpec
=============================================================================
