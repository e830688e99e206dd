---------------------------- MODULE SortedTimers ----------------------------
(***************************************************************************)
(* What sort_timer_lst promises to the event loop: the timers in the order *)
(* of their expiry, the older one first among equals; tick removes exactly *)
(* those that have expired.                                                *)
(***************************************************************************)
EXTENDS Integers, Sequences, SequencesExt

CONSTANTS Timers, Times

VARIABLES
  order,        \* the timers in the list, first to expire first
  expire        \* expire[t], meaningful while t is in the list

sortedVars == <<order, expire>>

\* The first k timers of s expire at e or before, and the others later.
Divides(s, k, e) == \A i \in 1 .. Len(s) : expire[s[i]] <= e <=> i <= k

\* order' is s with t behind all that expire no later than e.
Place(s, t, e) == \E k \in 0 .. Len(s) : Divides(s, k, e) /\ order' = InsertAt(s, k + 1, t)

SortedInit ==
  /\ order = <<>>
  /\ expire \in [Timers -> Times]

Insert(t, e) ==
  /\ \A i \in 1 .. Len(order) : order[i] # t
  /\ Place(order, t, e)
  /\ expire' = [expire EXCEPT ![t] = e]

\* The new expiry is not before the old one.
Postpone(t, e) ==
  /\ e >= expire[t]
  /\ \E i \in 1 .. Len(order) : order[i] = t /\ Place(RemoveAt(order, i), t, e)
  /\ expire' = [expire EXCEPT ![t] = e]

Delete(t) ==
  /\ \E i \in 1 .. Len(order) : order[i] = t /\ order' = RemoveAt(order, i)
  /\ UNCHANGED expire

Expire(now) ==
  /\ \E k \in 0 .. Len(order) : Divides(order, k, now) /\ order' = SubSeq(order, k + 1, Len(order))
  /\ UNCHANGED expire

SortedNext ==
  \/ \E t \in Timers, e \in Times : Insert(t, e) \/ Postpone(t, e)
  \/ \E t \in Timers : Delete(t)
  \/ \E now \in Times : Expire(now)

SortedSpec == SortedInit /\ [][SortedNext]_sortedVars
=============================================================================
