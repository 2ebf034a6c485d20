----------------------------- MODULE ListKqueueProofs -----------------------------
(***************************************************************************)
(* Proofs about PendingList: the circular doubly linked list of            *)
(* excimer_timer.c is the queue it stands for, for every set of timers.    *)
(* Ring is inductive as it stands: the links are read through the          *)
(* positions of the history variable order.                                *)
(*                                                                         *)
(* About TimerlibKqueue: its threads, its descriptors, who reports errors, *)
(* and that timerlib_kqueue.c implements the promise of timerlib.h, for    *)
(* every bound and whichever of the calls may fail.                        *)
(***************************************************************************)
EXTENDS PendingList, TimerlibKqueue, FiniteSetTheorems, WellFoundedInduction, TLAPS

-----------------------------------------------------------------------------------
(* PendingList.                                                            *)

\* In a ring, a timer has a forward link exactly if it is in the list.
LEMMA LinkedIsIn ==
  ASSUME Ring, NEW t \in Timers
  PROVE  pending_next[t] # NULL <=> t \in Elements(order)
<1>1. ASSUME NEW i \in 1..Len(order) PROVE pending_next[order[i]] \in Timers
  <2>1. Successor(i) \in 1..Len(order)
    BY DEF Successor, Ring, ListTypeOK
  <2> QED
    BY <2>1 DEF Ring, ListTypeOK
<1> QED
  BY <1>1, NullAssumption DEF Ring, Elements

\* A timer that is not in the list is put at its tail.
LEMMA AppendRing ==
  ASSUME Ring, NEW t \in Timers, t \notin Elements(order),
         IF pending_head # NULL THEN link_tail(t) ELSE link_first(t),
         order' = Append(order, t), returned' = {}
  PROVE  Ring'
<1> DEFINE n == Len(order)
<1>1. n \in Nat /\ order \in Seq(Timers)
  BY DEF Ring, ListTypeOK
<1>2. /\ order' \in Seq(Timers)
      /\ Len(order') = n + 1
      /\ order'[n + 1] = t
      /\ \A i \in 1..n : order'[i] = order[i]
  BY <1>1
<1>3. \A i \in 1..n : order[i] \in Timers /\ order[i] # t
  BY <1>1 DEF Elements
<1>4. NoDuplicates(order)'
  BY <1>1, <1>2, <1>3 DEF Ring, NoDuplicates
<1>5. \A s \in Timers \ Elements(order)' : s # t /\ s \in Timers \ Elements(order)
  BY <1>1, <1>2 DEF Elements
<1>6. CASE n = 0
  <2>1. order = <<>> /\ link_first(t)
    BY <1>1, <1>6 DEF Ring
  <2>2. /\ pending_head' = t
        /\ pending_next' = [pending_next EXCEPT ![t] = t]
        /\ pending_prev' = [pending_prev EXCEPT ![t] = t]
    BY <2>1 DEF link_first
  <2>3. Len(order') = 1 /\ order'[1] = t /\ order' # <<>>
    BY <1>1, <1>2, <1>6
  <2>4. ListTypeOK'
    BY <1>2, <2>2 DEF Ring, ListTypeOK
  <2>5. \A s \in Timers \ Elements(order)' : pending_next'[s] = NULL /\ pending_prev'[s] = NULL
    BY <1>5, <2>2 DEF Ring, ListTypeOK
  <2>6. ASSUME NEW i \in 1..Len(order')
        PROVE  /\ pending_next'[order'[i]] = order'[Successor(i)']
               /\ pending_prev'[order'[Successor(i)']] = order'[i]
    <3>1. i = 1 /\ Successor(i)' = 1
      BY <2>3 DEF Successor
    <3>2. pending_next'[t] = t /\ pending_prev'[t] = t
      BY <2>2 DEF Ring, ListTypeOK
    <3> QED
      BY <2>3, <3>1, <3>2
  <2> QED
    BY <1>4, <2>2, <2>3, <2>4, <2>5, <2>6, Zenon DEF Ring
<1>7. CASE n > 0
  <2>1. order # <<>> /\ pending_head = order[1] /\ order[1] \in Timers
    BY <1>1, <1>3, <1>7 DEF Ring
  <2>2. link_tail(t)
    BY <2>1, NullAssumption
  <2>3. pending_prev[order[1]] = order[n] /\ order[n] \in Timers
    <3>1. n \in 1..n /\ Successor(n) = 1
      BY <1>1, <1>7 DEF Successor
    <3> QED
      BY <1>3, <3>1 DEF Ring
  <2>4. /\ pending_next' = [pending_next EXCEPT ![t] = order[1], ![order[n]] = t]
        /\ pending_prev' = [pending_prev EXCEPT ![t] = order[n], ![order[1]] = t]
        /\ pending_head' = order[1]
    BY <2>1, <2>2, <2>3 DEF link_tail
  <2>5. ListTypeOK'
    BY <1>2, <2>1, <2>3, <2>4, Zenon DEF Ring, ListTypeOK
  <2>6. /\ pending_next'[order[n]] = t
        /\ pending_next'[t] = order[1]
        /\ \A s \in Timers : s # t /\ s # order[n] => pending_next'[s] = pending_next[s]
    BY <1>1, <1>3, <1>7, <2>3, <2>4 DEF Ring, ListTypeOK
  <2>7. /\ pending_prev'[order[1]] = t
        /\ pending_prev'[t] = order[n]
        /\ \A s \in Timers : s # t /\ s # order[1] => pending_prev'[s] = pending_prev[s]
    BY <1>1, <1>3, <1>7, <2>3, <2>4 DEF Ring, ListTypeOK
  <2>8. \A s \in Timers \ Elements(order)' : pending_next'[s] = NULL /\ pending_prev'[s] = NULL
    <3>1. order[1] \in Elements(order) /\ order[n] \in Elements(order)
      BY <1>1, <1>7 DEF Elements
    <3> QED
      BY <1>5, <2>6, <2>7, <3>1 DEF Ring
  <2>9. ASSUME NEW i \in 1..(n + 1)
        PROVE  /\ pending_next'[order'[i]] = order'[Successor(i)']
               /\ pending_prev'[order'[Successor(i)']] = order'[i]
    <3>1. CASE i = n + 1
      <4>1. Successor(i)' = 1 /\ order'[1] = order[1]
        BY <1>1, <1>2, <1>7, <3>1 DEF Successor
      <4> QED
        BY <1>2, <2>6, <2>7, <3>1, <4>1
    <3>2. CASE i = n
      <4>1. Successor(i)' = n + 1 /\ order'[i] = order[n] /\ order'[n + 1] = t
        BY <1>1, <1>2, <1>7, <3>2 DEF Successor
      <4> QED
        BY <2>6, <2>7, <3>2, <4>1
    <3>3. CASE i < n
      <4>1. /\ Successor(i)' = i + 1 /\ Successor(i) = i + 1
            /\ i \in 1..n /\ i + 1 \in 1..n /\ i # n /\ i + 1 # 1
        BY <1>1, <1>2, <1>7, <3>3 DEF Successor
      <4>2. order'[i] = order[i] /\ order'[i + 1] = order[i + 1]
        BY <1>2, <4>1, Zenon
      <4>3. order[i] # order[n] /\ order[i + 1] # order[1]
        BY <1>1, <1>7, <4>1 DEF Ring, NoDuplicates
      <4>4. pending_next[order[i]] = order[i + 1] /\ pending_prev[order[i + 1]] = order[i]
        BY <4>1 DEF Ring
      <4> QED
        BY <1>3, <2>6, <2>7, <4>1, <4>2, <4>3, <4>4
    <3>4. i = n + 1 \/ i = n \/ i < n
      BY <1>1, <2>9
    <3> QED
      BY <3>1, <3>2, <3>3, <3>4, Zenon
  <2>10. order'[1] = order[1] /\ order' # <<>>
    BY <1>1, <1>2, <1>7
  <2> QED
    BY <1>2, <1>4, <2>4, <2>5, <2>8, <2>9, <2>10, Zenon DEF Ring
<1> QED
  BY <1>1, <1>6, <1>7

\* The timer at position k is unlinked.
LEMMA UnlinkRing ==
  ASSUME Ring, NEW k \in 1..Len(order), unlink(order[k]),
         pending_head' = head_after(order[k]), order' = DropAt(order, k),
         returned' \in SUBSET Timers
  PROVE  Ring'
<1> DEFINE n == Len(order)
           t == order[k]
<1>1. n \in Nat /\ n > 0 /\ k \in 1..n /\ order \in Seq(Timers) /\ t \in Timers
  BY DEF Ring, ListTypeOK
<1>2. order' \in Seq(Timers) /\ Len(order') = n - 1
  BY <1>1 DEF DropAt
<1>3. \A i \in 1..(n - 1) : order'[i] = IF i < k THEN order[i] ELSE order[i + 1]
  BY <1>1 DEF DropAt
<1>4. NoDuplicates(order)'
  <2>1. \A i, j \in 1..n : i # j => order[i] # order[j]
    BY <1>1 DEF Ring, NoDuplicates
  <2>2. ASSUME NEW i \in 1..(n - 1), NEW j \in 1..(n - 1), i # j PROVE order'[i] # order'[j]
    <3> DEFINE from(m) == IF m < k THEN m ELSE m + 1
    <3>1. from(i) \in 1..n /\ from(j) \in 1..n /\ from(i) # from(j)
      BY <1>1, <2>2
    <3>2. order'[i] = order[from(i)] /\ order'[j] = order[from(j)]
      BY <1>3, Zenon
    <3> QED
      BY <2>1, <3>1, <3>2, Zenon
  <2> QED
    BY <1>2, <2>2, Zenon DEF NoDuplicates
<1>5. \A i \in 1..n : order[i] \in Timers /\ (order[i] = t => i = k)
  BY <1>1 DEF Ring, NoDuplicates
<1>6. \A s \in Timers \ Elements(order)' : s = t \/ s \in Timers \ Elements(order)
  <2>1. ASSUME NEW i \in 1..n, i # k PROVE order[i] \in Elements(order)'
    <3>1. CASE i < k
      BY <1>1, <1>2, <1>3, <3>1 DEF Elements
    <3>2. CASE i > k
      <4>1. i - 1 \in 1..(n - 1) /\ order'[i - 1] = order[i]
        BY <1>1, <1>3, <3>2
      <4> QED
        BY <1>2, <4>1 DEF Elements
    <3> QED
      BY <1>1, <2>1, <3>1, <3>2
  <2> QED
    BY <2>1 DEF Elements
<1>7. Successor(k) \in 1..n /\ pending_next[t] = order[Successor(k)]
  BY <1>1 DEF Ring, Successor
<1>8. CASE n = 1
  <2>1. k = 1 /\ pending_next[t] = t
    BY <1>1, <1>7, <1>8 DEF Successor
  <2>2. /\ pending_next' = [pending_next EXCEPT ![t] = NULL]
        /\ pending_prev' = [pending_prev EXCEPT ![t] = NULL]
        /\ pending_head' = NULL
    BY <2>1 DEF unlink, head_after
  <2>3. ListTypeOK'
    BY <1>1, <1>2, <2>2 DEF Ring, ListTypeOK
  <2>4. order' = <<>> /\ 1..Len(order') = {}
    BY <1>2, <1>8
  <2>5. \A s \in Timers \ Elements(order)' : pending_next'[s] = NULL /\ pending_prev'[s] = NULL
    BY <1>1, <1>6, <2>2 DEF Ring, ListTypeOK
  <2> QED
    BY <1>4, <2>2, <2>3, <2>4, <2>5, Zenon DEF Ring
<1>9. CASE n > 1
  <2> DEFINE b == IF k = 1 THEN n ELSE k - 1
             a == Successor(k)
  <2>1. /\ b \in 1..n /\ b # k /\ Successor(b) = k
        /\ a \in 1..n /\ a # k /\ (k < n => a = k + 1)
    BY <1>1, <1>9 DEF Successor
  <2>2. pending_next[t] = order[a] /\ pending_prev[t] = order[b]
    BY <1>7, <2>1 DEF Ring
  <2>3. order[a] # t /\ order[b] # t /\ order[a] \in Timers /\ order[b] \in Timers
    BY <1>5, <2>1
  <2>4. /\ pending_next' = [pending_next EXCEPT ![order[b]] = order[a], ![t] = NULL]
        /\ pending_prev' = [pending_prev EXCEPT ![order[a]] = order[b], ![t] = NULL]
        /\ pending_head' = IF pending_head = t THEN order[a] ELSE pending_head
    BY <2>2, <2>3, Zenon DEF unlink, head_after
  <2>5. pending_head = order[1]
    BY <1>1 DEF Ring
  <2>6. ListTypeOK'
    <3>1. order' \in Seq(Timers)
      BY <1>1, <1>2, Zenon DEF Ring, ListTypeOK
    <3>2. pending_head' \in Timers \cup {NULL}
      BY <1>1, <1>5, <2>3, <2>4, <2>5, Zenon DEF Ring, ListTypeOK
    <3>3. pending_next' \in [Timers -> Timers \cup {NULL}]
          /\ pending_prev' \in [Timers -> Timers \cup {NULL}]
      BY <2>3, <2>4, Zenon DEF Ring, ListTypeOK
    <3> QED
      BY <3>1, <3>2, <3>3 DEF ListTypeOK
  <2>7. /\ pending_next'[order[b]] = order[a]
        /\ pending_next'[t] = NULL
        /\ \A s \in Timers : s # t /\ s # order[b] => pending_next'[s] = pending_next[s]
    BY <1>1, <2>3, <2>4, Zenon DEF Ring, ListTypeOK
  <2>8. /\ pending_prev'[order[a]] = order[b]
        /\ pending_prev'[t] = NULL
        /\ \A s \in Timers : s # t /\ s # order[a] => pending_prev'[s] = pending_prev[s]
    BY <1>1, <2>3, <2>4, Zenon DEF Ring, ListTypeOK
  <2>9. \A s \in Timers \ Elements(order)' : pending_next'[s] = NULL /\ pending_prev'[s] = NULL
    <3>1. order[a] \in Elements(order) /\ order[b] \in Elements(order)
      BY <2>1 DEF Elements
    <3> QED
      BY <1>6, <2>7, <2>8, <3>1 DEF Ring
  <2> HIDE DEF a, b
  <2>10. pending_head' = order'[1] /\ order' # <<>>
    <3>1. order' # <<>> /\ 1 \in 1..(n - 1)
      BY <1>2, <1>9
    <3>2. CASE k = 1
      <4>1. a = 2
        BY <1>1, <1>9, <2>1, <3>2
      <4> QED
        BY <1>3, <2>4, <2>5, <3>1, <3>2, <4>1
    <3>3. CASE k # 1
      BY <1>1, <1>3, <1>5, <2>4, <2>5, <3>1, <3>3
    <3> QED
      BY <3>2, <3>3
  <2>11. ASSUME NEW i \in 1..(n - 1)
         PROVE  /\ pending_next'[order'[i]] = order'[Successor(i)']
                /\ pending_prev'[order'[Successor(i)']] = order'[i]
    <3> DEFINE j == IF i < k THEN i ELSE i + 1
               m == IF Successor(i)' < k THEN Successor(i)' ELSE Successor(i)' + 1
    <3>1. Successor(i)' \in 1..(n - 1) /\ Successor(i)' = IF i = n - 1 THEN 1 ELSE i + 1
      BY <1>2, <1>9 DEF Successor
    <3>2. order'[i] = order[j] /\ order'[Successor(i)'] = order[m]
      BY <1>3, <3>1
    <3>3. j \in 1..n /\ j # k /\ m \in 1..n /\ m # k
      BY <1>1, <1>9, <3>1
    <3>4. CASE j = b
      <4>1. m = a
        BY <1>1, <1>9, <3>1, <3>4 DEF a, b, Successor
      <4> QED
        BY <2>7, <2>8, <3>2, <3>4, <4>1, Zenon
    <3>5. CASE j # b
      <4>1. Successor(j) = m /\ m # a
        BY <1>1, <1>9, <3>1, <3>5 DEF a, b, Successor
      <4>2. order[j] # order[b] /\ order[m] # order[a]
        BY <2>1, <3>3, <3>5, <4>1 DEF Ring, NoDuplicates
      <4>3. pending_next[order[j]] = order[m] /\ pending_prev[order[m]] = order[j]
        BY <3>3, <4>1 DEF Ring
      <4>4. order[j] \in Timers \ {t} /\ order[m] \in Timers \ {t}
        BY <1>5, <3>3, Zenon
      <4>5. pending_next'[order[j]] = order[m]
        BY <2>7, <4>2, <4>3, <4>4, Zenon
      <4>6. pending_prev'[order[m]] = order[j]
        BY <2>8, <4>2, <4>3, <4>4, Zenon
      <4> QED
        BY <3>2, <4>5, <4>6, Zenon
    <3> QED
      BY <3>4, <3>5
  <2> QED
    BY <1>2, <1>4, <2>6, <2>9, <2>10, <2>11, Zenon DEF Ring
<1> QED
  BY <1>1, <1>8, <1>9

\* The queue and the links after a timer is taken out, however it is found.
LEMMA RemoveRing ==
  ASSUME Ring, NEW t \in Elements(order), unlink(t), pending_head' = head_after(t),
         order' = list_remove(order, t), returned' \in SUBSET Timers
  PROVE  Ring'
<1> DEFINE k == CHOOSE i \in 1..Len(order) : order[i] = t
<1>1. k \in 1..Len(order) /\ order[k] = t
  BY DEF Elements
<1>2. order' = DropAt(order, k)
  BY DEF list_remove
<1> QED
  BY <1>1, <1>2, UnlinkRing

\* The list starts as an empty ring.
LEMMA InitRing == ListInit => Ring
<1> SUFFICES ASSUME ListInit PROVE Ring
  OBVIOUS
<1>1. Len(order) = 0 /\ 1..Len(order) = {}
  BY DEF ListInit
<1>2. ListTypeOK
  BY DEF ListInit, ListTypeOK
<1> QED
  BY <1>1, <1>2 DEF ListInit, Ring, NoDuplicates, Elements

\* Every function of the list keeps it a ring.
LEMMA NextRing == Ring /\ [ListNext]_listVars => Ring'
<1> SUFFICES ASSUME Ring, [ListNext]_listVars PROVE Ring'
  OBVIOUS
<1>1. ASSUME UNCHANGED <<pending_head, pending_next, pending_prev, order>>,
             returned' \in SUBSET Timers
      PROVE  Ring'
  BY <1>1 DEF Ring, ListTypeOK, Successor, NoDuplicates, Elements
<1>2. CASE excimer_timer_list_dequeue
  <2>1. CASE pending_head = NULL
    BY <1>1, <1>2, <2>1 DEF excimer_timer_list_dequeue
  <2>2. CASE pending_head # NULL
    <3>1. order # <<>> /\ 1 \in 1..Len(order) /\ pending_head = order[1] /\ order[1] \in Timers
      BY <2>2 DEF Ring, ListTypeOK
    <3>2. Tail(order) = DropAt(order, 1)
      <4>1. order \in Seq(Timers)
        BY DEF Ring, ListTypeOK
      <4>2. /\ DropAt(order, 1) \in Seq(Timers) /\ Len(DropAt(order, 1)) = Len(order) - 1
            /\ \A j \in 1..(Len(order) - 1) : DropAt(order, 1)[j] = order[j + 1]
        BY <3>1, <4>1 DEF DropAt
      <4>3. /\ Tail(order) \in Seq(Timers) /\ Len(Tail(order)) = Len(order) - 1
            /\ \A j \in 1..(Len(order) - 1) : Tail(order)[j] = order[j + 1]
        BY <3>1, <4>1
      <4> QED
        BY <3>1, <4>1, <4>2, <4>3
    <3>3. /\ unlink(order[1])
          /\ pending_head' = head_after(order[1])
          /\ order' = DropAt(order, 1)
          /\ returned' \in SUBSET Timers
      BY <1>2, <2>2, <3>1, <3>2 DEF excimer_timer_list_dequeue, head_after
    <3> QED
      BY <3>1, <3>3, UnlinkRing
  <2> QED
    BY <2>1, <2>2
<1>3. ASSUME NEW t \in Timers, excimer_timer_list_enqueue(t) PROVE Ring'
  <2>1. CASE t \in Elements(order)
    <3>1. UNCHANGED <<pending_head, pending_next, pending_prev, order>> /\ returned' = {}
      BY <1>3, <2>1, LinkedIsIn DEF excimer_timer_list_enqueue, list_enqueue
    <3> QED
      BY <1>1, <3>1
  <2>2. CASE t \notin Elements(order)
    <3>1. /\ IF pending_head # NULL THEN link_tail(t) ELSE link_first(t)
          /\ order' = Append(order, t) /\ returned' = {}
      BY <1>3, <2>2, LinkedIsIn, Zenon DEF excimer_timer_list_enqueue, list_enqueue
    <3> QED
      BY <2>2, <3>1, AppendRing
  <2> QED
    BY <2>1, <2>2
<1>4. ASSUME NEW t \in Timers, excimer_timer_list_remove(t) PROVE Ring'
  <2>1. CASE t \in Elements(order)
    <3>1. /\ unlink(t) /\ pending_head' = head_after(t)
          /\ order' = list_remove(order, t) /\ returned' = {}
      BY <1>4, <2>1, LinkedIsIn, Zenon DEF excimer_timer_list_remove
    <3> QED
      BY <2>1, <3>1, RemoveRing
  <2>2. CASE t \notin Elements(order)
    <3>1. UNCHANGED <<pending_head, pending_next, pending_prev, order>> /\ returned' = {}
      BY <1>4, <2>2, LinkedIsIn, Zenon DEF excimer_timer_list_remove, list_remove
    <3> QED
      BY <1>1, <3>1
  <2> QED
    BY <2>1, <2>2
<1>5. CASE UNCHANGED listVars
  BY <1>1, <1>5 DEF listVars, Ring, ListTypeOK
<1> QED
  BY <1>2, <1>3, <1>4, <1>5 DEF ListNext

\* The links of the pending list form a ring in the order in which the timers were
\* enqueued, in both directions, and a timer has links exactly if it is in the
\* list, whatever timers are enqueued, dequeued and removed, and in whatever order.
THEOREM ListIsRing == ListSpec => []Ring
  BY InitRing, NextRing, PTL DEF ListSpec

\* A set of naturals that is not empty has a least element, which is how induction
\* over the steps of a traversal is carried out.
LEMMA LeastElement ==
  ASSUME NEW T, T \subseteq Nat, T # {}
  PROVE  \E x \in T : \A y \in T : x <= y
<1>1. \E R : /\ IsWellFoundedOn(R, Nat)
             /\ \A a, b \in Nat : a < b => <<a, b>> \in R
  <2>1. \A a, b \in Nat : a < b => <<a, b>> \in OpToRel(<, Nat)
    BY DEF OpToRel
  <2> QED
    BY <2>1, NatLessThanWellFounded
<1>2. PICK R : /\ IsWellFoundedOn(R, Nat)
               /\ \A a, b \in Nat : a < b => <<a, b>> \in R
  BY <1>1
<1>3. \E x \in T : \A y \in T : ~ (<<y, x>> \in R)
  <2>1. IsWellFoundedOn(R, Nat) /\ T \subseteq Nat /\ T # {}
    BY <1>2
  <2> QED
    BY <2>1, WFMin, Zenon
<1>4. PICK x \in T : \A y \in T : ~ (<<y, x>> \in R)
  BY <1>3, Zenon
<1>5. ASSUME NEW y \in T PROVE x <= y
  <2>1. ~ (y < x)
    <3>1. x \in Nat /\ y \in Nat
      BY <1>4, <1>5
    <3> QED
    BY <1>2, <1>4, <1>5, <3>1, Zenon
  <2>2. x \in Nat /\ y \in Nat
    OBVIOUS
  <2> QED
    BY <2>1, <2>2
<1> QED
  BY <1>5

\* The sizes of the two intervals by which sequences are indexed.
LEMMA IntervalSize ==
  ASSUME NEW n \in Nat
  PROVE  Cardinality(1..n) = n /\ Cardinality(0..(n - 1)) = n
<1>1. \A a, b \in Int : Cardinality(a..b) = IF a > b THEN 0 ELSE b - a + 1
  BY FS_Interval, Zenon
<1>2. /\ Cardinality(1..n) = IF 1 > n THEN 0 ELSE n - 1 + 1
      /\ Cardinality(0..(n - 1)) = IF 0 > n - 1 THEN 0 ELSE (n - 1) - 0 + 1
  <2>1. 0 \in Int /\ 1 \in Int /\ n \in Int /\ n - 1 \in Int
    OBVIOUS
  <2> QED
    BY <1>1, <2>1, Zenon
<1> QED
  BY <1>2

\* Following the links of a ring from its head meets the timers of the queue in
\* order.  The recursive function that follows them exists, because w satisfies its
\* equation, and has no other value, because a least position at which it differed
\* from w would have a predecessor at which it does not.
LEMMA RingTraversal == Ring => Traversal = order
<1> SUFFICES ASSUME Ring PROVE Traversal = order
  OBVIOUS
<1> DEFINE C == Cardinality(Timers)
           N == Len(order)
           at[n \in 0..C] ==
             IF n = 0 THEN pending_head
             ELSE IF at[n - 1] = NULL \/ pending_next[at[n - 1]] = pending_head THEN NULL
             ELSE pending_next[at[n - 1]]
           w == [n \in 0..C |-> IF n < N THEN order[n + 1] ELSE NULL]
<1>1. Traversal = [i \in 1..Cardinality({n \in 0..C : at[n] # NULL}) |-> at[i - 1]]
  BY DEF Traversal
<1>2. N \in Nat /\ order \in Seq(Timers) /\ C \in Nat
  BY NullAssumption, FS_CardinalityType DEF Ring, ListTypeOK
<1>3. N <= C
  <2>1. order \in Injection(1..N, Timers)
    BY <1>2 DEF Ring, NoDuplicates, Injection, IsInjective
  <2>2. Cardinality(1..N) <= C
    BY <2>1, FS_Injection, NullAssumption
  <2>3. Cardinality(1..N) = N
    BY <1>2, IntervalSize
  <2> QED
    BY <1>2, <2>2, <2>3
<1>4. \A i \in 1..N : order[i] \in Timers /\ order[i] # NULL
  BY <1>2, NullAssumption
<1>5. ASSUME NEW n \in 0..C
      PROVE  w[n] = IF n = 0 THEN pending_head
                    ELSE IF w[n - 1] = NULL \/ pending_next[w[n - 1]] = pending_head THEN NULL
                    ELSE pending_next[w[n - 1]]
  <2>1. CASE n = 0
    BY <1>2, <2>1 DEF Ring
  <2>2. CASE n > 0 /\ n <= N
    <3>1. w[n - 1] = order[n] /\ w[n - 1] # NULL /\ order # <<>> /\ pending_head = order[1]
      BY <1>2, <1>3, <1>4, <2>2 DEF Ring
    <3>2. CASE n = N
      <4>1. pending_next[order[n]] = order[1]
        BY <1>2, <2>2, <3>2 DEF Ring, Successor
      <4> QED
        BY <1>2, <2>2, <3>1, <3>2, <4>1
    <3>3. CASE n < N
      <4>1. pending_next[order[n]] = order[n + 1] /\ n + 1 \in 1..N /\ 1 \in 1..N
        BY <1>2, <2>2, <3>3 DEF Ring, Successor
      <4>2. order[n + 1] # order[1]
        BY <1>2, <2>2, <4>1 DEF Ring, NoDuplicates
      <4> QED
        BY <1>2, <2>2, <3>1, <3>3, <4>1, <4>2
    <3> QED
      BY <1>2, <2>2, <3>2, <3>3
  <2>3. CASE n > N
    BY <1>2, <2>3
  <2> QED
    BY <1>2, <2>1, <2>2, <2>3
<1>6. at = [n \in 0..C |->
              IF n = 0 THEN pending_head
              ELSE IF at[n - 1] = NULL \/ pending_next[at[n - 1]] = pending_head THEN NULL
              ELSE pending_next[at[n - 1]]]
  <2>1. w = [n \in 0..C |->
               IF n = 0 THEN pending_head
               ELSE IF w[n - 1] = NULL \/ pending_next[w[n - 1]] = pending_head THEN NULL
               ELSE pending_next[w[n - 1]]]
    BY <1>5
  <2> HIDE DEF w
  <2> QED
    BY <2>1, Zenon
<1>7. \A n \in 0..C : at[n] = w[n]
  <2> DEFINE T == {n \in 0..C : at[n] # w[n]}
  <2> HIDE DEF at, w
  <2> SUFFICES ASSUME T # {} PROVE FALSE
    OBVIOUS
  <2>1. T \subseteq Nat
    BY <1>2
  <2>2. PICK n \in T : \A m \in T : n <= m
    BY <2>1, LeastElement, Zenon
  <2>3. n \in 0..C /\ at[n] # w[n]
    BY <2>2
  <2>4. CASE n = 0
    <3>1. at[n] = pending_head /\ w[n] = pending_head
      BY <1>5, <1>6, <2>3, <2>4, Zenon
    <3> QED
      BY <2>3, <3>1
  <2>5. CASE n > 0
    <3>1. n - 1 \in 0..C /\ ~ (n <= n - 1) /\ n # 0
      BY <1>2, <2>3, <2>5
    <3>2. at[n - 1] = w[n - 1]
      BY <2>2, <3>1, Zenon
    <3>3. at[n] = IF at[n - 1] = NULL \/ pending_next[at[n - 1]] = pending_head THEN NULL
                  ELSE pending_next[at[n - 1]]
      BY <1>6, <2>3, <3>1, Zenon
    <3>4. w[n] = IF w[n - 1] = NULL \/ pending_next[w[n - 1]] = pending_head THEN NULL
                 ELSE pending_next[w[n - 1]]
      BY <1>5, <2>3, <3>1
    <3> QED
      BY <2>3, <3>2, <3>3, <3>4
  <2> QED
    BY <1>2, <2>3, <2>4, <2>5
<1> HIDE DEF at
<1>8. {n \in 0..C : at[n] # NULL} = 0..(N - 1)
  <2>1. \A n \in 0..C : at[n] # NULL <=> n < N
    BY <1>2, <1>4, <1>7
  <2> QED
    BY <1>2, <1>3, <2>1
<1>9. Cardinality(0..(N - 1)) = N
  BY <1>2, IntervalSize
<1>10. Traversal = [i \in 1..N |-> at[i - 1]]
  BY <1>1, <1>8, <1>9, Zenon
<1>11. \A i \in 1..N : at[i - 1] = order[i]
  BY <1>2, <1>3, <1>7
<1>12. order = [i \in 1..N |-> order[i]]
  BY <1>2
<1> QED
  BY <1>10, <1>11, <1>12

\* Every function of the list is the operation of the queue it stands for.
LEMMA QueueStep == Ring /\ Ring' /\ [ListNext]_listVars => [Queue!Next]_(Queue!vars)
<1> SUFFICES ASSUME Ring, Ring', [ListNext]_listVars PROVE [Queue!Next]_(Queue!vars)
  OBVIOUS
<1>1. Traversal = order
  BY RingTraversal
<1>2. (Traversal = order)'
  BY RingTraversal, PTL
<1>3. CASE excimer_timer_list_dequeue
  <2>1. pending_head = NULL <=> order = <<>>
    BY NullAssumption DEF Ring, ListTypeOK
  <2>2. order # <<>> => pending_head = Head(order)
    BY DEF Ring, ListTypeOK
  <2>3. Queue!Dequeue
    BY <1>1, <1>2, <1>3, <2>1, <2>2, Zenon DEF excimer_timer_list_dequeue, Queue!Dequeue
  <2> QED
    BY <2>3 DEF Queue!Next
<1>4. ASSUME NEW t \in Timers, excimer_timer_list_enqueue(t) PROVE Queue!Enqueue(t)
  BY <1>1, <1>2, <1>4 DEF excimer_timer_list_enqueue, Queue!Enqueue, list_enqueue,
     Queue!list_enqueue, Elements, Queue!Elements
<1>5. ASSUME NEW t \in Timers, excimer_timer_list_remove(t) PROVE Queue!Remove(t)
  BY <1>1, <1>2, <1>5 DEF excimer_timer_list_remove, Queue!Remove, list_remove,
     Queue!list_remove, Elements, Queue!Elements, DropAt, Queue!DropAt
<1>6. CASE UNCHANGED listVars
  BY <1>1, <1>2, <1>6 DEF listVars, Queue!vars
<1> QED
  BY <1>3, <1>4, <1>5, <1>6 DEF ListNext, Queue!Next

\* The linked list implements the FIFO queue without duplicates: what is found by
\* following the links from pending_head, and what excimer_timer_list_dequeue
\* returns, are those of the queue, for every set of timers.
THEOREM ListIsQueue == ListSpec => ImplementsQueue
<1>1. ListInit => Queue!Init
  <2> SUFFICES ASSUME ListInit PROVE Queue!Init
    OBVIOUS
  <2>1. Traversal = order
    BY InitRing, RingTraversal
  <2> QED
    BY <2>1 DEF ListInit, Queue!Init
<1> QED
  BY <1>1, InitRing, NextRing, QueueStep, PTL DEF ListSpec, ImplementsQueue, Queue!Spec

-----------------------------------------------------------------------------------
(* TimerlibKqueue.                                                         *)

\* What excimer_timer.c knows of the timer, against where main is.
ClientInv ==
  /\ main \in {"live", "absent"} => ~destroying
  /\ main = "destroy" => destroying
  /\ main \in {"destroy", "absent"} \/ destroying => ~is_running
  /\ main \in {"close", "join"} => is_running \/ destroying

\* A started timer has the kqueue that its start created, until stop closes it.
KqueueInv ==
  /\ main = "close" \/ (is_running /\ main = "live") => kq = "open"
  /\ main = "join" => kq \in {"closed", "foreign"}
  /\ kq # "open" => knote = "off" /\ owed = 0
  /\ kq = "open" => open > 0
  /\ kq = "foreign" => "reuse" \in faults

\* Only a started timer has a handler thread, or one whose kqueue could not be closed.
ThreadInv ==
  /\ main = "live" => (is_running <=> handler # "none")
  /\ main \in {"destroy", "absent"} => handler = "none" \/ "close" \in faults
  /\ main \in {"close", "join"} => handler # "none"
  /\ handler = "none" => owed = 0

\* The handler sets up a periodic timer only if start was asked for one, and waits in its
\* loop for that timer.
PeriodInv ==
  /\ period => mode = "periodic"
  /\ handler \in {"setup", "loop", "notify_loop"} => mode = "periodic"
  /\ main = "live" /\ is_running /\ "close" \notin faults => (period <=> mode = "periodic")
  /\ kq = "open" /\ handler \in {"loop", "notify_loop"} => knote = "periodic"
  /\ main = "live" /\ is_running /\ mode = "periodic" /\ faults \cap {"setup", "close"} = {}
        => handler # "exited"

\* If no start and no close failed, the descriptor of a started timer is the only one.
DescriptorInv ==
  faults \cap {"start", "close"} = {} =>
     /\ open = IF kq = "open" THEN 1 ELSE 0
     /\ kq = "open" => main = "close" \/ (main = "live" /\ is_running)

\* The first wait is for one expiration, and when it has been taken no other follows until
\* the timer is set up anew.  It is only left without that when a signal ends it.
FirstInv ==
  /\ handler = "first" => knote = "off" \/ (knote = "oneshot" /\ owed = 0)
  /\ handler \in {"notify_first", "check", "setup"} /\ ~interrupted
        => knote = "off" /\ owed = 0

\* The invariant that the properties below and the refinement rest on.
KqInv ==
  /\ TypeOK /\ ClientInv /\ KqueueInv /\ ThreadInv /\ PeriodInv /\ DescriptorInv
  /\ FirstInv

\* Init establishes the invariant.
LEMMA InitKq == Init => KqInv
<1> SUFFICES ASSUME Init PROVE KqInv
  OBVIOUS
<1> USE DEF Init
<1>1. TypeOK
  <2>1. owed \in 0 .. MaxOwed /\ open \in 0 .. MaxOpen
    BY KqueueAssumption
  <2>q. QED
    BY <2>1, Zenon DEF TypeOK
<1>2. ClientInv /\ KqueueInv /\ ThreadInv
  BY DEF ClientInv, KqueueInv, ThreadInv
<1>3. PeriodInv /\ DescriptorInv /\ FirstInv
  BY DEF PeriodInv, DescriptorInv, FirstInv
<1>q. QED
  BY <1>1, <1>2, <1>3 DEF KqInv

\* The invariant is inductive: every step of the two threads and of the kernel keeps it.
LEMMA NextKq == KqInv /\ [Next]_vars => KqInv'
<1> SUFFICES ASSUME KqInv, [Next]_vars PROVE KqInv'
  OBVIOUS
<1> USE KqueueAssumption
    DEF KqInv, TypeOK, ClientInv, KqueueInv, ThreadInv, PeriodInv, DescriptorInv,
        FirstInv, clientVars, kernelVars, historyVars
<1>1. CASE timerlib_timer_init
  <2>1. TypeOK'
    BY <1>1 DEF timerlib_timer_init
  <2>2. ClientInv' /\ KqueueInv' /\ ThreadInv' /\ PeriodInv' /\ DescriptorInv' /\ FirstInv'
    BY <1>1, Zenon DEF timerlib_timer_init
  <2>q. QED
    BY <2>1, <2>2, Zenon
<1>2. ASSUME NEW m \in {"oneshot", "periodic"}, NEW initial \in BOOLEAN,
             timerlib_timer_start(m, initial)
      PROVE  KqInv'
  <2>1. TypeOK'
    <3>1. open' \in 0 .. MaxOpen /\ owed' \in 0 .. MaxOwed
      <4>1. open < MaxOpen /\ open' \in {open, open + 1} /\ owed' \in {0, owed}
        BY <1>2, Zenon DEF timerlib_timer_start, start_fails, start_succeeds
      <4>q. QED
        BY <4>1
    <3>2. handler' \in {handler, "first", "loop"} /\ knote' \in {knote, "off", "oneshot", "periodic"}
      BY <1>2 DEF timerlib_timer_start, start_fails, start_succeeds
    <3>3. is_running' \in BOOLEAN /\ period' \in BOOLEAN
      BY <1>2, Zenon DEF timerlib_timer_start, start_fails, start_succeeds
    <3>4. kq' \in {kq, "open"} /\ interrupted' \in BOOLEAN
          /\ faults' \subseteq {"start", "setup", "close", "reuse"}
      BY <1>2, Zenon DEF timerlib_timer_start, start_fails, start_succeeds
    <3>q. QED
      BY <1>2, <3>1, <3>2, <3>3, <3>4, ZenonT(40) DEF timerlib_timer_start
  <2>2. ClientInv' /\ KqueueInv' /\ ThreadInv'
    BY <1>2 DEF timerlib_timer_start, start_fails, start_succeeds
  <2>3. PeriodInv'
    BY <1>2, Zenon DEF timerlib_timer_start, start_fails, start_succeeds
  <2>4. DescriptorInv'
    BY <1>2 DEF timerlib_timer_start, start_fails, start_succeeds
  <2>5. FirstInv'
    BY <1>2, Zenon DEF timerlib_timer_start, start_fails, start_succeeds
  <2>q. QED
    BY <2>1, <2>2, <2>3, <2>4, <2>5, Zenon
<1>3. CASE timerlib_timer_stop
  BY <1>3, ZenonT(40) DEF timerlib_timer_stop
<1>4. CASE destroy_stop
  BY <1>4, ZenonT(40) DEF destroy_stop
<1>5. CASE stop_close
  <2>1. TypeOK'
    <3>1. open' \in 0 .. MaxOpen /\ owed' \in 0 .. MaxOwed
      <4>1. open > 0 /\ open' \in {open, open - 1} /\ owed' \in {0, owed}
        BY <1>5, Zenon DEF stop_close
      <4>q. QED
        BY <4>1
    <3>2. main' \in {"live", "join", "destroy"} /\ kq' \in {kq, "closed", "foreign"}
          /\ knote' \in {knote, "off"}
      BY <1>5, Zenon DEF stop_close, stop_returns
    <3>3. is_running' \in BOOLEAN
      BY <1>5 DEF stop_close, stop_returns
    <3>4. interrupted' \in BOOLEAN
          /\ faults' \subseteq {"start", "setup", "close", "reuse"}
      BY <1>5, Zenon DEF stop_close
    <3>q. QED
      BY <1>5, <3>1, <3>2, <3>3, <3>4, ZenonT(40) DEF stop_close
  <2>2. CASE /\ kq' \in {"closed", "foreign"} /\ (kq' = "foreign" => "reuse" \in faults')
             /\ knote' = "off" /\ owed' = 0 /\ open' = open - 1 /\ main' = "join"
             /\ faults \subseteq faults' /\ UNCHANGED is_running
    <3>1. ClientInv' /\ KqueueInv' /\ ThreadInv'
      BY <1>5, <2>2, Zenon DEF stop_close
    <3>2. PeriodInv' /\ FirstInv'
      BY <1>5, <2>2, Zenon DEF stop_close
    <3>3. DescriptorInv'
      BY <1>5, <2>2 DEF stop_close
    <3>q. QED
      BY <2>1, <3>1, <3>2, <3>3, Zenon
  <2>3. CASE faults' = faults \cup {"close"} /\ stop_returns(FALSE) /\ UNCHANGED kernelVars
    <3>1. ClientInv' /\ KqueueInv' /\ ThreadInv'
      BY <1>5, <2>3, Zenon DEF stop_close, stop_returns
    <3>2. PeriodInv' /\ DescriptorInv' /\ FirstInv'
      BY <1>5, <2>3, Zenon DEF stop_close, stop_returns
    <3>q. QED
      BY <2>1, <3>1, <3>2, Zenon
  <2>q. QED
    BY <1>5, <2>2, <2>3, Zenon DEF stop_close
<1>6. CASE stop_join
  BY <1>6 DEF stop_join, stop_returns
<1>7. CASE timerlib_timer_destroy
  BY <1>7, ZenonT(40) DEF timerlib_timer_destroy
<1>8. ASSUME NEW at \in {"first", "loop"}, handle_timer_event(at) PROVE KqInv'
  BY <1>8 DEF handle_timer_event, wait_interrupted, after, notifying
<1>9. ASSUME NEW at \in {"first", "loop"}, notify_return(at) PROVE KqInv'
  <2>1. TypeOK'
    BY <1>9, Zenon DEF notify_return, after
  <2>2. ClientInv' /\ KqueueInv' /\ ThreadInv' /\ DescriptorInv'
    BY <1>9, Zenon DEF notify_return, after, notifying
  <2>3. PeriodInv' /\ FirstInv'
    BY <1>9, Zenon DEF notify_return, after, notifying
  <2>q. QED
    BY <2>1, <2>2, <2>3, Zenon
<1>10. CASE check_period
  BY <1>10 DEF check_period
<1>11. CASE setup_kqueue_timer
  <2>1. TypeOK'
    <3>1. owed' \in 0 .. MaxOwed
      BY <1>11 DEF setup_kqueue_timer
    <3>2. handler' \in {"loop", "exited"} /\ knote' \in {knote, "periodic"}
      BY <1>11 DEF setup_kqueue_timer
    <3>3. interrupted' \in BOOLEAN
          /\ faults' \subseteq {"start", "setup", "close", "reuse"}
      BY <1>11, Zenon DEF setup_kqueue_timer
    <3>q. QED
      BY <1>11, <3>1, <3>2, <3>3, Zenon DEF setup_kqueue_timer
  <2>2. ClientInv' /\ KqueueInv' /\ ThreadInv'
    BY <1>11, Zenon DEF setup_kqueue_timer
  <2>3. PeriodInv' /\ DescriptorInv' /\ FirstInv'
    BY <1>11, Zenon DEF setup_kqueue_timer
  <2>q. QED
    BY <2>1, <2>2, <2>3, Zenon
<1>12. CASE expire
  <2>1. owed' \in 0 .. MaxOwed
    BY <1>12 DEF expire
  <2>2. TypeOK'
    BY <1>12, <2>1, Zenon DEF expire
  <2>3. ClientInv' /\ KqueueInv' /\ ThreadInv' /\ PeriodInv' /\ DescriptorInv'
    BY <1>12, Zenon DEF expire
  <2>4. FirstInv'
    BY <1>12, Zenon DEF expire
  <2>q. QED
    BY <2>2, <2>3, <2>4, Zenon
<1>13. ASSUME NEW at \in {"first", "loop"}, foreign_event(at) PROVE KqInv'
  BY <1>13, ZenonT(40) DEF foreign_event, notifying
<1>14. CASE UNCHANGED vars
  BY <1>14 DEF vars
<1>q. QED
  BY <1>1, <1>2, <1>3, <1>4, <1>5, <1>6, <1>7, <1>8, <1>9, <1>10, <1>11, <1>12, <1>13,
     <1>14, Zenon
     DEF Next, StopNext, HandlerNext

\* KqInv holds in every reachable state.
LEMMA KqInvariant == Spec => []KqInv
  BY InitKq, NextKq, PTL DEF Spec

\* A timer that excimer_timer.c takes to be stopped has no handler thread, whichever calls
\* other than close failed before: so timerlib_timer_start never makes a second one for the same structure.
THEOREM StoppedHasNoThread == Spec => []NoThreadWhenStopped
<1>1. KqInv => NoThreadWhenStopped
  BY Zenon DEF KqInv, ThreadInv, NoThreadWhenStopped
<1>q. QED
  BY <1>1, KqInvariant, PTL

\* A running periodic timer keeps its handler, and a kernel timer that goes on expiring:
\* nothing ends the thread but stop, a failed setup, or a stop that failed half-way and
\* left the period cleared.
THEOREM PeriodicIsServed == Spec => []PeriodicServed
<1>1. KqInv => PeriodicServed
  BY DEF KqInv, KqueueInv, PeriodInv, PeriodicServed
<1>q. QED
  BY <1>1, KqInvariant, PTL

\* No descriptor is left open by a timer that was destroyed, if no start and no close
\* failed: timerlib_timer_destroy itself closes none, and relies on stop.
THEOREM DescriptorsClosed == Spec => []NoDescriptorLeft
<1>1. KqInv => NoDescriptorLeft
  BY DEF KqInv, DescriptorInv, NoDescriptorLeft
<1>q. QED
  BY <1>1, KqInvariant, PTL

-----------------------------------------------------------------------------------
(* timerlib_kqueue.c implements the promise of timerlib.h.                 *)

\* After a close failed, or the number of the descriptor was used again, nothing is
\* promised.
LEMMA KqueueBroken == faults' \cap {"close", "reuse"} # {} => Promise!OtherNext
  BY Zenon DEF Promise!OtherNext, Promise!fail, promised_state

\* Some or all of the expirations that are owed.
LEMMA Upto ==
  \A k \in Nat : \A n \in 0 .. k :
     0 \in 0 .. n /\ n \in 0 .. n /\ n - n = 0 /\ (n > 0 => n \in 1 .. n)
  OBVIOUS

\* A step of the promise in which only the client sets the timer, or the handler after an
\* interrupted first wait.
KqueueKept ==
  \/ /\ \/ \E m \in {"oneshot", "periodic"}, initial \in BOOLEAN : timerlib_timer_start(m, initial)
        \/ stop_close
        \/ setup_kqueue_timer /\ interrupted
     /\ Promise!SetNext
  \/ Promise!OtherNext

\* Every step of timerlib_kqueue.c is such a step or changes nothing of the promise.
LEMMA KqueueStep == KqInv /\ [Next]_vars => [KqueueKept]_Promise!vars
<1> SUFFICES ASSUME KqInv, [Next]_vars, faults' \cap {"close", "reuse"} = {}
             PROVE  [KqueueKept]_Promise!vars
  BY KqueueBroken, Zenon DEF KqueueKept
<1>0. /\ 0 \in 0 .. owed /\ owed \in 0 .. owed
      /\ owed > 0 => owed \in 1 .. owed /\ owed - owed = 0
  BY Upto, KqueueAssumption, Zenon DEF KqInv, TypeOK
<1> USE DEF KqInv, TypeOK, ClientInv, KqueueInv, ThreadInv, PeriodInv, FirstInv, clientVars,
            kernelVars, historyVars, promised_state, promised_armed
<1>1. CASE timerlib_timer_init
  <2>1. Promise!timer_init
    BY <1>1, Zenon DEF timerlib_timer_init, Promise!timer_init
  <2>q. QED
    BY <2>1, Zenon DEF KqueueKept, Promise!OtherNext
<1>2. ASSUME NEW m \in {"oneshot", "periodic"}, NEW initial \in BOOLEAN,
             timerlib_timer_start(m, initial)
      PROVE  [KqueueKept]_Promise!vars
  <2>1. handler = "none" /\ owed = 0 /\ owed' = 0
    BY <1>2, Zenon DEF timerlib_timer_start, start_fails, start_succeeds
  <2>2. CASE start_fails
    BY <1>2, <2>1, <2>2, Zenon DEF timerlib_timer_start, start_fails, Promise!vars
  <2>3. CASE start_succeeds(initial)
    <3>1. promised_state = "live" /\ promised_state' = "live" /\ promised_armed' = m
      BY <1>2, <2>3, Zenon DEF timerlib_timer_start, start_succeeds
    <3>2. owed' \in 0 .. owed
      BY <1>0, <2>1, Zenon
    <3>3. handler' \in {"first", "loop"}
      BY <2>3, Zenon DEF start_succeeds
    <3>4. Promise!settime(m)
      <4> HIDE DEF promised_state, promised_armed, KqInv
      <4>q. QED
        BY <2>1, <3>1, <3>2, <3>3 DEF Promise!settime
    <3>q. QED
      BY <1>2, <3>4, Zenon DEF KqueueKept, Promise!SetNext, Promise!timer_start
  <2>q. QED
    BY <1>2, <2>2, <2>3, Zenon DEF timerlib_timer_start
<1>3. CASE timerlib_timer_stop
  BY <1>3 DEF timerlib_timer_stop, Promise!vars
<1>4. CASE destroy_stop
  <2>1. owed' \in 0 .. owed
    BY <1>0, <1>4, Zenon DEF destroy_stop
  <2>2. Promise!destroy
    BY <1>4, <2>1, Zenon DEF destroy_stop, Promise!destroy
  <2>q. QED
    BY <2>2, Zenon DEF KqueueKept, Promise!OtherNext
<1>5. CASE stop_close
  <2>1. promised_state' = promised_state /\ promised_armed' = "off" /\ owed' = 0
        /\ UNCHANGED handler
    BY <1>5, Zenon DEF stop_close
  <2>2. owed' \in 0 .. owed
    BY <1>0, <2>1, Zenon
  <2>3. CASE destroying
    <3>1. Promise!destroy
      BY <1>5, <2>1, <2>2, <2>3, Zenon DEF stop_close, Promise!destroy
    <3>q. QED
      BY <3>1, Zenon DEF KqueueKept, Promise!OtherNext
  <2>4. CASE ~destroying
    <3>1. Promise!settime("off")
      BY <1>5, <2>1, <2>2, <2>4, Zenon DEF stop_close, Promise!settime
    <3>q. QED
      BY <1>5, <3>1, Zenon DEF KqueueKept, Promise!SetNext, Promise!timer_stop
  <2>q. QED
    BY <2>3, <2>4, Zenon
<1>6. CASE stop_join
  BY <1>6 DEF stop_join, stop_returns, Promise!vars
<1>7. CASE timerlib_timer_destroy
  <2>1. Promise!destroy_return
    BY <1>7, Zenon DEF timerlib_timer_destroy, Promise!destroy_return
  <2>q. QED
    BY <2>1 DEF KqueueKept, Promise!OtherNext
<1>8. ASSUME NEW at \in {"first", "loop"}, handle_timer_event(at)
      PROVE  [KqueueKept]_Promise!vars
  <2>1. promised_state' = promised_state /\ promised_armed' = promised_armed
    BY <1>8 DEF handle_timer_event, wait_interrupted, after, notifying
  <2>2. CASE owed > 0 /\ owed' = 0 /\ handler' = notifying(at)
    <3>1. owed \in 1 .. owed /\ owed' = owed - owed
      BY <1>0, <2>2, Zenon
    <3>2. \E n \in 1 .. owed : owed' = owed - n
      BY <3>1, ZenonT(40)
    <3>3. Promise!notify
      BY <1>8, <2>1, <2>2, <3>2 DEF handle_timer_event, wait_interrupted, notifying, Promise!notify
    <3>q. QED
      BY <3>3 DEF KqueueKept, Promise!OtherNext
  <2>3. CASE owed' = owed /\ handler' \in {after(at), "exited"}
    BY <1>8, <2>1, <2>3 DEF handle_timer_event, wait_interrupted, after, Promise!vars
  <2>q. QED
    BY <1>8, <2>2, <2>3, Zenon DEF handle_timer_event, wait_interrupted
<1>9. ASSUME NEW at \in {"first", "loop"}, notify_return(at) PROVE [KqueueKept]_Promise!vars
  <2>1. Promise!return
    BY <1>9 DEF notify_return, notifying, after, Promise!return
  <2>q. QED
    BY <2>1 DEF KqueueKept, Promise!OtherNext
<1>10. CASE check_period
  BY <1>10 DEF check_period, Promise!vars
<1>11. CASE setup_kqueue_timer
  <2>1. promised_state' = promised_state /\ promised_state \in {"live", "closing"}
        /\ promised_armed' = promised_armed
    BY <1>11, Zenon DEF setup_kqueue_timer
  <2>2. CASE kq = "open" /\ handler' = "loop" /\ owed' \in {0, owed}
    <3>1. promised_armed = "periodic"
      BY <1>11, <2>2 DEF setup_kqueue_timer
    <3>2. owed' \in 0 .. owed
      BY <1>0, <2>2, Zenon
    <3>3. Promise!settime("periodic") \/ Promise!destroy
      <4>1. handler = "setup"
        BY <1>11, Zenon DEF setup_kqueue_timer
      <4> HIDE DEF promised_state, promised_armed, KqInv
      <4>q. QED
        BY <2>1, <2>2, <3>1, <3>2, <4>1 DEF Promise!settime, Promise!destroy
    <3>4. CASE interrupted
      BY <1>11, <3>3, <3>4, ZenonT(40)
         DEF KqueueKept, Promise!SetNext, Promise!OtherNext, Promise!timer_start
    <3>5. CASE ~interrupted
      <4>1. owed' = owed
        BY <1>11, <2>2, <3>5, Zenon DEF setup_kqueue_timer
      <4>q. QED
        <5>1. handler = "setup"
          BY <1>11, Zenon DEF setup_kqueue_timer
        <5> HIDE DEF promised_state, promised_armed, KqInv
        <5>q. QED
          BY <2>1, <2>2, <4>1, <5>1 DEF Promise!vars
    <3>q. QED
      BY <3>4, <3>5, Zenon
  <2>3. CASE owed' = owed /\ handler' \in {"loop", "exited"}
    <3>1. handler = "setup"
      BY <1>11, Zenon DEF setup_kqueue_timer
    <3> HIDE DEF promised_state, promised_armed, KqInv
    <3>q. QED
      BY <2>1, <2>3, <3>1 DEF Promise!vars
  <2>q. QED
    BY <1>11, <2>2, <2>3, Zenon DEF setup_kqueue_timer
<1>12. CASE expire
  <2>1. Promise!expire
    BY <1>12, Zenon DEF expire, Promise!expire
  <2>q. QED
    BY <2>1, Zenon DEF KqueueKept, Promise!OtherNext
<1>13. ASSUME NEW at \in {"first", "loop"}, foreign_event(at) PROVE [KqueueKept]_Promise!vars
  BY <1>13, Zenon DEF foreign_event
<1>14. CASE UNCHANGED vars
  BY <1>14 DEF vars, Promise!vars
<1>q. QED
  BY <1>1, <1>2, <1>3, <1>4, <1>5, <1>6, <1>7, <1>8, <1>9, <1>10, <1>11, <1>12, <1>13,
     <1>14, Zenon
     DEF Next, StopNext, HandlerNext

\* timerlib_kqueue.c implements Timerlib too, though each start creates a thread of its
\* own and the kernel's timer changes from one-shot to periodic while it runs: events are
\* reported one at a time, none is made up, and none is reported after destroy returned.
\* None is lost but by a call of the client, or by the setup after an interrupted wait.
THEOREM KqueueKeepsPromise == Spec => ImplementsTimerlib
<1>1. Init => Promise!Init
  BY DEF Init, Promise!Init, promised_state, promised_armed
<1>2. [KqueueKept]_Promise!vars =>
        /\ [Promise!Next]_Promise!vars
        /\ [\/ \E m \in {"oneshot", "periodic"}, initial \in BOOLEAN :
                   timerlib_timer_start(m, initial)
            \/ stop_close
            \/ setup_kqueue_timer /\ interrupted
            \/ Promise!OtherNext]_Promise!vars
  BY Zenon DEF KqueueKept, Promise!Next
<1>q. QED
  BY <1>1, <1>2, KqueueStep, KqInvariant, PTL DEF Spec, Promise!Spec, ImplementsTimerlib
===================================================================================
