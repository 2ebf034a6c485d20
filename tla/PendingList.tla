------------------------------- MODULE PendingList --------------------------------
(***************************************************************************)
(* The pending list of excimer_timer.c as the code has it: a circular      *)
(* doubly linked list threaded through the timers.  The callers hold the   *)
(* mutex, so each function is one step.  order is a history variable: the  *)
(* queue the list should stand for.  An EXCEPT makes its assignments in order,   *)
(* as the code does, also where two pointers are equal.                    *)
(***************************************************************************)
EXTENDS QueueOps, FiniteSets

CONSTANTS
  Timers,
  NULL

ASSUME NullAssumption == NULL \notin Timers /\ IsFiniteSet(Timers)

VARIABLES
  pending_head,   \* excimer_timer_tls.pending_head
  pending_next,   \* the links of the timers
  pending_prev,
  returned,       \* the timer handed to the caller, if any
  order           \* history: the timers in the list, oldest first

listVars == <<pending_head, pending_next, pending_prev, returned, order>>

ListInit ==
  /\ pending_head = NULL
  /\ pending_next = [t \in Timers |-> NULL]
  /\ pending_prev = [t \in Timers |-> NULL]
  /\ returned = {}
  /\ order = <<>>

\* Plausible bug: the old tail is not linked to the new one.
link_tail_forgotten(t) ==
  /\ pending_next' = [pending_next EXCEPT ![t] = pending_head]
  /\ pending_prev' = [pending_prev EXCEPT ![t] = pending_prev[pending_head],
                                          ![pending_head] = t]
  /\ UNCHANGED pending_head

\* The list is not empty: put the timer between its tail and its head.
link_tail(t) ==
  /\ pending_next' = [pending_next EXCEPT ![t] = pending_head,
                                          ![pending_prev[pending_head]] = t]
  /\ pending_prev' = [pending_prev EXCEPT ![t] = pending_prev[pending_head],
                                          ![pending_head] = t]
  /\ UNCHANGED pending_head

link_first(t) ==
  /\ pending_head' = t
  /\ pending_next' = [pending_next EXCEPT ![t] = t]
  /\ pending_prev' = [pending_prev EXCEPT ![t] = t]

excimer_timer_list_enqueue(t) ==
  /\ IF pending_next[t] # NULL
     THEN UNCHANGED <<pending_head, pending_next, pending_prev>>
     ELSE IF pending_head # NULL THEN link_tail(t) ELSE link_first(t)
  /\ returned' = {}
  /\ order' = list_enqueue(order, t)

\* Join the neighbours of a timer and clear its links.
unlink(t) ==
  /\ pending_next' = IF pending_next[t] = t
                     THEN [pending_next EXCEPT ![t] = NULL]
                     ELSE [pending_next EXCEPT ![pending_prev[t]] = pending_next[t],
                                               ![t] = NULL]
  /\ pending_prev' = IF pending_next[t] = t
                     THEN [pending_prev EXCEPT ![t] = NULL]
                     ELSE [pending_prev EXCEPT ![pending_next[t]] = pending_prev[t],
                                               ![t] = NULL]

excimer_timer_list_dequeue ==
  IF pending_head = NULL
  THEN returned' = {} /\ UNCHANGED <<pending_head, pending_next, pending_prev, order>>
  ELSE /\ returned' = {pending_head}
       /\ unlink(pending_head)
       /\ pending_head' = IF pending_next[pending_head] = pending_head
                          THEN NULL ELSE pending_next[pending_head]
       /\ order' = Tail(order)

\* Plausible bug: the head is not moved on when it is the timer removed.
head_after_kept(t) == IF pending_next[t] = t THEN NULL ELSE pending_head

\* The head once t, which is in the list, is removed.
head_after(t) ==
  IF pending_next[t] = t THEN NULL
  ELSE IF pending_head = t THEN pending_next[t] ELSE pending_head

excimer_timer_list_remove(t) ==
  /\ IF pending_next[t] # NULL
     THEN unlink(t) /\ pending_head' = head_after(t)
     ELSE UNCHANGED <<pending_head, pending_next, pending_prev>>
  /\ returned' = {}
  /\ order' = list_remove(order, t)

ListNext ==
  \/ excimer_timer_list_dequeue
  \/ \E t \in Timers : excimer_timer_list_enqueue(t) \/ excimer_timer_list_remove(t)

ListSpec == ListInit /\ [][ListNext]_listVars

-----------------------------------------------------------------------------------

ListTypeOK ==
  /\ pending_head \in Timers \cup {NULL}
  /\ pending_next \in [Timers -> Timers \cup {NULL}]
  /\ pending_prev \in [Timers -> Timers \cup {NULL}]
  /\ returned \in SUBSET Timers
  /\ order \in Seq(Timers)

Successor(i) == IF i = Len(order) THEN 1 ELSE i + 1

\* The links of the timers in the list form a ring in the order of the queue, in
\* both directions; the head is the oldest timer; and, as the comment on
\* excimer_timer_tls_t.pending_head says, a timer has links if and only if it is
\* in the list.
Ring ==
  /\ ListTypeOK
  /\ NoDuplicates(order)
  /\ pending_head = IF order = <<>> THEN NULL ELSE order[1]
  /\ \A i \in 1..Len(order) :
        /\ pending_next[order[i]] = order[Successor(i)]
        /\ pending_prev[order[Successor(i)]] = order[i]
  /\ \A t \in Timers \ Elements(order) : pending_next[t] = NULL /\ pending_prev[t] = NULL

\* The timers met from pending_head along pending_next, until it comes round.
Traversal ==
  LET at[n \in 0..Cardinality(Timers)] ==
        IF n = 0 THEN pending_head
        ELSE IF at[n - 1] = NULL \/ pending_next[at[n - 1]] = pending_head THEN NULL
        ELSE pending_next[at[n - 1]]
  IN  [i \in 1..Cardinality({n \in 0..Cardinality(Timers) : at[n] # NULL}) |-> at[i - 1]]

Queue == INSTANCE PendingQueue WITH queue <- Traversal

\* The list is a FIFO queue that holds a timer at most once: what is found by
\* following the links, and what excimer_timer_list_dequeue returns, are those of
\* the queue.
ImplementsQueue == Queue!Spec
===================================================================================
