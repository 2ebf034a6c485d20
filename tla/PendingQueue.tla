------------------------------- MODULE PendingQueue -------------------------------
(***************************************************************************)
(* What the pending list of excimer_timer.c promises to its users: a FIFO  *)
(* queue in which a timer occurs at most once.  PendingList shows that the *)
(* circular doubly linked list of the code implements this specification,  *)
(* and ExcimerTimer uses the same operators for its pending lists.         *)
(***************************************************************************)
EXTENDS QueueOps

CONSTANT Timers

VARIABLES
  queue,      \* the pending timers, head first
  returned    \* what the last call returned: a set with at most one timer

vars == <<queue, returned>>

Init == queue = <<>> /\ returned = {}

Enqueue(t) ==
  /\ queue' = list_enqueue(queue, t)
  /\ returned' = {}

\* The caller is handed the oldest timer, and nothing if there is none.
Dequeue ==
  IF queue = <<>>
  THEN returned' = {} /\ UNCHANGED queue
  ELSE returned' = {Head(queue)} /\ queue' = Tail(queue)

Remove(t) ==
  /\ queue' = list_remove(queue, t)
  /\ returned' = {}

Next == Dequeue \/ \E t \in Timers : Enqueue(t) \/ Remove(t)

Spec == Init /\ [][Next]_vars
===================================================================================
