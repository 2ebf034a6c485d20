--------------------------------- MODULE QueueOps ---------------------------------
(***************************************************************************)
(* The pending list of excimer_timer.c as a value: a sequence of timers,   *)
(* head first, and what the list functions of the code do to it.           *)
(***************************************************************************)
EXTENDS Integers, Sequences

\* The timers of a queue.
Elements(q) == {q[i] : i \in 1..Len(q)}

\* No timer is in the queue twice.
NoDuplicates(q) == \A i, j \in 1..Len(q) : q[i] = q[j] => i = j

\* Plausible bug: the timer is put at the head instead of the tail.
list_enqueue_lifo(q, t) == IF t \in Elements(q) THEN q ELSE <<t>> \o q

\* excimer_timer_list_enqueue: a timer already in the list keeps its place.
list_enqueue(q, t) == IF t \in Elements(q) THEN q ELSE Append(q, t)

\* The queue without its i-th element.
DropAt(q, i) == [j \in 1..(Len(q) - 1) |-> IF j < i THEN q[j] ELSE q[j + 1]]

\* Plausible bug: the head of the list is not unlinked.
list_remove_not_head(q, t) ==
  IF t \in Elements(q) /\ Head(q) # t
  THEN DropAt(q, CHOOSE i \in 1..Len(q) : q[i] = t)
  ELSE q

\* excimer_timer_list_remove: nothing happens if the timer is not in the list.
list_remove(q, t) ==
  IF t \in Elements(q)
  THEN DropAt(q, CHOOSE i \in 1..Len(q) : q[i] = t)
  ELSE q
===================================================================================
