---------------------------- MODULE ObjectsPosixProofs ----------------------------
(***************************************************************************)
(* Proofs about ExcimerTimerObjects: the queue of the timers that have     *)
(* events, the timers of objects that were released, and the expiries that *)
(* are passed to the callbacks, for every set of objects and any number of *)
(* expiries.                                                               *)
(*                                                                         *)
(* About TimerlibPosix: what destroy leaves behind, and that               *)
(* timerlib_posix.c implements the promise of timerlib.h, for every bound  *)
(* and whichever of the calls may fail.                                    *)
(*                                                                         *)
(* About KqueueGetTime: the arithmetic of Timespec is exact and the        *)
(* estimate right for periodic timers, whatever a second, the periods and  *)
(* the delay of the handler thread are.                                    *)
(***************************************************************************)
EXTENDS ExcimerTimerObjects, TimerlibPosix, KqueueGetTime, TLAPS

-----------------------------------------------------------------------------------
(* What the operators of QueueOps do to the timers of a queue.             *)

\* Enqueueing adds the timer and nothing else, and no second occurrence.
LEMMA EnqueueElements ==
  ASSUME NEW S, NEW q \in Seq(S), NEW t \in S
  PROVE  /\ list_enqueue(q, t) \in Seq(S)
         /\ Elements(list_enqueue(q, t)) = Elements(q) \cup {t}
         /\ NoDuplicates(q) => NoDuplicates(list_enqueue(q, t))
<1>1. CASE t \in Elements(q)
  BY <1>1 DEF list_enqueue
<1>2. CASE t \notin Elements(q)
  <2>1. list_enqueue(q, t) = Append(q, t) /\ Append(q, t) \in Seq(S)
    BY <1>2 DEF list_enqueue
  <2>2. Elements(Append(q, t)) = Elements(q) \cup {t}
    <3>1. \A i \in 1..Len(q) : Append(q, t)[i] = q[i]
      OBVIOUS
    <3>2. Len(Append(q, t)) = Len(q) + 1 /\ Append(q, t)[Len(q) + 1] = t
      OBVIOUS
    <3> QED
      BY <3>1, <3>2 DEF Elements
  <2>3. ASSUME NoDuplicates(q) PROVE NoDuplicates(Append(q, t))
    BY <1>2, <2>3 DEF NoDuplicates, Elements
  <2> QED
    BY <2>1, <2>2, <2>3
<1> QED
  BY <1>1, <1>2

\* Dequeueing removes the head and nothing else.
LEMMA DequeueElements ==
  ASSUME NEW S, NEW q \in Seq(S), q # <<>>
  PROVE  /\ Head(q) \in Elements(q)
         /\ Tail(q) \in Seq(S)
         /\ Elements(q) = Elements(Tail(q)) \cup {Head(q)}
         /\ NoDuplicates(q) => Head(q) \notin Elements(Tail(q)) /\ NoDuplicates(Tail(q))
<1>1. Len(q) \in Nat /\ Len(q) > 0 /\ Head(q) = q[1]
  OBVIOUS
<1>2. Tail(q) \in Seq(S) /\ Len(Tail(q)) = Len(q) - 1
  OBVIOUS
<1>3. \A i \in 1..Len(Tail(q)) : Tail(q)[i] = q[i + 1]
  OBVIOUS
<1>4. Elements(q) = Elements(Tail(q)) \cup {Head(q)}
  <2>1. ASSUME NEW i \in 1..Len(q) PROVE q[i] \in Elements(Tail(q)) \cup {Head(q)}
    <3>1. CASE i = 1
      BY <1>1, <3>1
    <3>2. CASE i # 1
      <4>1. i - 1 \in 1..Len(Tail(q)) /\ Tail(q)[i - 1] = q[i]
        BY <1>1, <1>2, <1>3, <3>2
      <4> QED
        BY <4>1 DEF Elements
    <3> QED
      BY <3>1, <3>2
  <2>2. ASSUME NEW i \in 1..Len(Tail(q)) PROVE Tail(q)[i] \in Elements(q)
    BY <1>1, <1>2, <1>3 DEF Elements
  <2>3. Head(q) \in Elements(q)
    BY <1>1 DEF Elements
  <2> QED
    BY <2>1, <2>2, <2>3 DEF Elements
<1>5. ASSUME NoDuplicates(q)
      PROVE  Head(q) \notin Elements(Tail(q)) /\ NoDuplicates(Tail(q))
  BY <1>1, <1>2, <1>3, <1>5 DEF NoDuplicates, Elements
<1> QED
  BY <1>2, <1>4, <1>5

\* Removing takes the timer out and nothing else.
LEMMA RemoveElements ==
  ASSUME NEW S, NEW q \in Seq(S), NEW t, NoDuplicates(q)
  PROVE  /\ list_remove(q, t) \in Seq(S)
         /\ Elements(list_remove(q, t)) = Elements(q) \ {t}
         /\ NoDuplicates(list_remove(q, t))
<1>1. CASE t \notin Elements(q)
  BY <1>1 DEF list_remove
<1>2. CASE t \in Elements(q)
  <2> DEFINE k == CHOOSE i \in 1..Len(q) : q[i] = t
             r == DropAt(q, k)
  <2>1. k \in 1..Len(q) /\ q[k] = t
    BY <1>2 DEF Elements
  <2>2. list_remove(q, t) = r
    BY <1>2 DEF list_remove
  <2> HIDE DEF k
  <2>3. Len(q) \in Nat /\ Len(q) - 1 \in Nat
    BY <2>1
  <2>4. r \in Seq(S) /\ Len(r) = Len(q) - 1
    BY <2>1, <2>3 DEF DropAt
  <2>5. \A i \in 1..Len(r) : r[i] = IF i < k THEN q[i] ELSE q[i + 1]
    BY <2>4, Zenon DEF DropAt
  <2> HIDE DEF r
  <2>6. \A i \in 1..Len(q) : q[i] = t => i = k
    BY <2>1 DEF NoDuplicates
  <2>7. Elements(r) = Elements(q) \ {t}
    <3>1. ASSUME NEW i \in 1..Len(r) PROVE r[i] \in Elements(q) /\ r[i] # t
      BY <2>1, <2>3, <2>4, <2>5, <2>6 DEF Elements
    <3>2. ASSUME NEW i \in 1..Len(q), q[i] # t PROVE q[i] \in Elements(r)
      <4>1. CASE i < k
        <5>1. i \in 1..Len(r) /\ r[i] = q[i]
          BY <2>1, <2>3, <2>4, <2>5, <4>1
        <5> QED
          BY <5>1 DEF Elements
      <4>2. CASE i > k
        <5>1. i - 1 \in 1..Len(r) /\ r[i - 1] = q[i]
          BY <2>1, <2>3, <2>4, <2>5, <4>2
        <5> QED
          BY <5>1 DEF Elements
      <4> QED
        BY <2>1, <3>2, <4>1, <4>2
    <3> QED
      BY <3>1, <3>2, Zenon DEF Elements
  <2>8. NoDuplicates(r)
    <3> DEFINE at(i) == IF i < k THEN i ELSE i + 1
    <3>1. ASSUME NEW i \in 1..Len(r) PROVE at(i) \in 1..Len(q) /\ r[i] = q[at(i)]
      BY <2>1, <2>3, <2>4, <2>5
    <3>2. \A i, j \in 1..Len(r) : at(i) = at(j) => i = j
      BY <2>1, <2>3, <2>4
    <3> HIDE DEF at
    <3> QED BY <3>1, <3>2, Zenon DEF NoDuplicates
  <2> QED
    BY <2>2, <2>4, <2>7, <2>8
<1> QED
  BY <1>1, <1>2

-----------------------------------------------------------------------------------
(* ExcimerTimer objects.                                                   *)

\* The queue of the timers with events.
Queued(q, counts) ==
  /\ q \in Seq(Timers) /\ NoDuplicates(q) /\ counts \in [Timers -> Nat]
  /\ Elements(q) = {t \in Timers : counts[t] > 0}

\* The types of the rest.
Fields ==
  /\ obj \in [Timers -> {"absent", "live", "freed"}]
  /\ need_reinit \in [Timers -> BOOLEAN]
  /\ callback \in [Timers -> {"null", "callable", "broken"}]
  /\ calls \in Seq(Timers)
  /\ exception \in {"none", "event", "php"}

\* A timer that is not initialised, as that of an object before its construction, has
\* no events and will have none.
Idle(timers, arming, counts, objects) ==
  /\ timers \in [Timers -> {"invalid", "stopped", "running"}]
  /\ arming \in [Timers -> {"none", "one", "many"}]
  /\ \A t \in Timers :
        /\ timers[t] = "invalid" => counts[t] = 0 /\ arming[t] = "none"
        /\ objects[t] = "absent" => timers[t] = "invalid"

ObjectsInv == Fields /\ Queued(queue, event_count) /\ Idle(timer_state, expiries, event_count, obj)

\* An expiry puts the timer on the queue.
LEMMA QueuedExpire ==
  ASSUME NEW q, NEW counts, Queued(q, counts), NEW t \in Timers
  PROVE  Queued(list_enqueue(q, t), [counts EXCEPT ![t] = @ + 1])
<1> DEFINE r == list_enqueue(q, t)
           c == [counts EXCEPT ![t] = @ + 1]
<1>1. r \in Seq(Timers) /\ Elements(r) = Elements(q) \cup {t} /\ NoDuplicates(r)
  BY EnqueueElements DEF Queued
<1>2. /\ c \in [Timers -> Nat] /\ c[t] > 0
      /\ \A u \in Timers : u # t => c[u] = counts[u]
  BY DEF Queued
<1> HIDE DEF r, c
<1>3. Elements(r) = {u \in Timers : c[u] > 0}
  BY <1>1, <1>2 DEF Queued
<1> QED BY <1>1, <1>2, <1>3, Zenon DEF Queued, r, c

\* A timer whose events are dropped leaves it.
LEMMA QueuedDrop ==
  ASSUME NEW q, NEW counts, Queued(q, counts), NEW t \in Timers
  PROVE  Queued(list_remove(q, t), [counts EXCEPT ![t] = 0])
<1> DEFINE r == list_remove(q, t)
           c == [counts EXCEPT ![t] = 0]
<1>1. r \in Seq(Timers) /\ Elements(r) = Elements(q) \ {t} /\ NoDuplicates(r)
  BY RemoveElements, Zenon DEF Queued
<1>2. /\ c \in [Timers -> Nat] /\ c[t] = 0
      /\ \A u \in Timers : u # t => c[u] = counts[u]
  BY DEF Queued
<1> HIDE DEF r, c
<1>3. Elements(r) = {u \in Timers : c[u] > 0}
  BY <1>1, <1>2 DEF Queued
<1> QED BY <1>1, <1>2, <1>3, Zenon DEF Queued, r, c

\* The interrupt takes the head.
LEMMA QueuedHead ==
  ASSUME NEW q, NEW counts, Queued(q, counts), q # <<>>
  PROVE  Head(q) \in Timers /\ Queued(Tail(q), [counts EXCEPT ![Head(q)] = 0])
<1> DEFINE t == Head(q)
           r == Tail(q)
           c == [counts EXCEPT ![t] = 0]
<1>1. /\ r \in Seq(Timers) /\ Elements(q) = Elements(r) \cup {t} /\ t \notin Elements(r)
      /\ NoDuplicates(r) /\ t \in Elements(q)
  BY DequeueElements, Zenon DEF Queued
<1>2. t \in Timers
  BY <1>1, Zenon DEF Queued
<1> HIDE DEF r, t
<1>3. /\ c \in [Timers -> Nat] /\ c[t] = 0
      /\ \A u \in Timers : u # t => c[u] = counts[u]
  BY <1>2 DEF Queued
<1> HIDE DEF c
<1>4. Elements(r) = {u \in Timers : c[u] > 0}
  <2>1. Elements(q) = {u \in Timers : counts[u] > 0}
    BY Zenon DEF Queued
  <2>2. Elements(r) = Elements(q) \ {t}
    BY <1>1, Zenon
  <2>3. ~(c[t] > 0)
    BY <1>3
  <2>4. \A u \in Timers : u # t => (c[u] > 0 <=> counts[u] > 0)
    BY <1>3, Zenon
  <2> HIDE DEF c, r, t
  <2> QED
    BY <1>2, <2>1, <2>2, <2>3, <2>4, Zenon
<1> QED BY <1>1, <1>2, <1>3, <1>4, Zenon DEF Queued, r, c, t

\* How a timer is armed.
LEMMA ArmsType ==
  ASSUME NEW init, NEW per
  PROVE  arms(init, per) \in {"none", "one", "many"}
  BY Zenon DEF arms

\* A step that changes only timer t keeps the others idle.
LEMMA IdleOthers ==
  ASSUME ObjectsInv, NEW t \in Timers, NEW v \in {"invalid", "stopped", "running"},
         NEW a \in {"none", "one", "many"},
         timer_state' = [timer_state EXCEPT ![t] = v], expiries' = [expiries EXCEPT ![t] = a],
         \A u \in Timers : u # t => event_count'[u] = event_count[u] /\ obj'[u] = obj[u],
         v = "invalid" => event_count'[t] = 0 /\ a = "none",
         obj'[t] = "absent" => v = "invalid"
  PROVE  Idle(timer_state, expiries, event_count, obj)'
<1>1. /\ timer_state' \in [Timers -> {"invalid", "stopped", "running"}]
      /\ expiries' \in [Timers -> {"none", "one", "many"}]
      /\ timer_state'[t] = v /\ expiries'[t] = a
      /\ \A u \in Timers : u # t => timer_state'[u] = timer_state[u] /\ expiries'[u] = expiries[u]
  BY DEF ObjectsInv, Idle
<1>2. ASSUME NEW u \in Timers
      PROVE  /\ timer_state'[u] = "invalid" => event_count'[u] = 0 /\ expiries'[u] = "none"
             /\ obj'[u] = "absent" => timer_state'[u] = "invalid"
  <2>1. CASE u = t
    BY <1>1, <2>1, Zenon
  <2>2. CASE u # t
    <3>1. timer_state'[u] = timer_state[u] /\ expiries'[u] = expiries[u]
      BY <1>1, <2>2, Zenon
    <3>2. event_count'[u] = event_count[u] /\ obj'[u] = obj[u]
      BY <2>2, Zenon
    <3>3. /\ timer_state[u] = "invalid" => event_count[u] = 0 /\ expiries[u] = "none"
          /\ obj[u] = "absent" => timer_state[u] = "invalid"
      BY Zenon DEF ObjectsInv, Idle
    <3> QED BY <3>1, <3>2, <3>3
  <2> QED BY <2>1, <2>2
<1> QED BY <1>1, <1>2, Zenon DEF Idle

\* excimer_timer_destroy
LEMMA DropStep ==
  ASSUME ObjectsInv, NEW t \in Timers, drop_events(t)
  PROVE  /\ Queued(queue, event_count)' /\ event_count'[t] = 0
         /\ \A u \in Timers : u # t => event_count'[u] = event_count[u]
<1>1. Queued(queue, event_count)'
  BY QueuedDrop, Zenon DEF ObjectsInv, drop_events
<1>2. event_count \in [Timers -> Nat] /\ event_count' = [event_count EXCEPT ![t] = 0]
  BY Zenon DEF ObjectsInv, Queued, drop_events
<1> QED BY <1>1, <1>2

\* ExcimerTimer_start
LEMMA StartStep ==
  ASSUME ObjectsInv, NEW t \in Timers, NEW init, start_timer(t, init),
         \A u \in Timers : u # t => obj'[u] = obj[u], obj'[t] # "absent"
  PROVE  /\ need_reinit' \in [Timers -> BOOLEAN]
         /\ Queued(queue, event_count)' /\ Idle(timer_state, expiries, event_count, obj)'
         /\ \A u \in Timers : event_count'[u] < event_count[u] =>
               u = t /\ (need_reinit[t] \/ timer_state[t] = "invalid")
<1> DEFINE reinit == need_reinit[t] \/ timer_state[t] = "invalid"
<1>1. need_reinit' \in [Timers -> BOOLEAN]
  <2>1. need_reinit' = need_reinit \/ need_reinit' = [need_reinit EXCEPT ![t] = FALSE]
    BY Zenon DEF start_timer
  <2> QED BY <2>1, Zenon DEF ObjectsInv, Fields
<1>2. event_count \in [Timers -> Nat] /\ Queued(queue, event_count)
  BY Zenon DEF ObjectsInv, Queued
<1>3. /\ Queued(queue, event_count)'
      /\ \A u \in Timers : u # t => event_count'[u] = event_count[u]
      /\ reinit => event_count'[t] = 0
      /\ ~reinit => event_count' = event_count
  <2>1. CASE reinit
    <3>1. drop_events(t)
      BY <2>1, Zenon DEF start_timer
    <3> QED BY <2>1, <3>1, DropStep, Zenon
  <2>2. CASE ~reinit
    <3>1. event_count' = event_count /\ queue' = queue
      BY <2>2, Zenon DEF start_timer
    <3> QED BY <1>2, <2>2, <3>1, Zenon
  <2> QED BY <2>1, <2>2, Zenon
<1>4. \A u \in Timers : event_count'[u] < event_count[u] => u = t /\ reinit
  <2>1. \A u \in Timers : event_count[u] \in Nat
    BY <1>2
  <2>2. \A u \in Timers : u # t \/ ~reinit => event_count'[u] = event_count[u]
    BY <1>3, Zenon
  <2> HIDE DEF reinit
  <2> QED BY <2>1, <2>2
<1>5. PICK v \in {"invalid", "stopped", "running"}, a \in {"none", "one", "many"} :
         /\ timer_state' = [timer_state EXCEPT ![t] = v] /\ expiries' = [expiries EXCEPT ![t] = a]
         /\ v = "invalid" => reinit /\ a = "none"
  <2>1. arms(init, period[t]) \in {"none", "one", "many"}
    BY ArmsType, Zenon
  <2> QED BY <2>1, Zenon DEF start_timer
<1>6. Idle(timer_state, expiries, event_count, obj)'
  BY <1>3, <1>5, IdleOthers, Zenon
<1> QED BY <1>1, <1>3, <1>4, <1>6, Zenon

\* excimer_set_timeout
LEMMA TimeoutStep ==
  ASSUME ObjectsInv, NEW t \in Timers, NEW c, NEW d, excimer_set_timeout(t, c, d)
  PROVE  /\ ObjectsInv'
         /\ \A u \in Timers : ~(event_count'[u] < event_count[u])
<1>1. /\ obj \in [Timers -> {"absent", "live", "freed"}]
      /\ callback \in [Timers -> {"null", "callable", "broken"}]
      /\ obj[t] = "absent" /\ timer_state[t] = "invalid" /\ event_count[t] = 0
  BY Zenon DEF ObjectsInv, Fields, Idle, excimer_set_timeout
<1>2. obj' = [obj EXCEPT ![t] = "live"] \/ obj' = [obj EXCEPT ![t] = "freed"]
  BY Zenon DEF excimer_set_timeout
<1>3. callback' = [callback EXCEPT ![t] = "callable"] \/ callback' = [callback EXCEPT ![t] = "null"]
  BY Zenon DEF excimer_set_timeout
<1>4. /\ obj' \in [Timers -> {"absent", "live", "freed"}] /\ obj'[t] # "absent"
      /\ \A u \in Timers : u # t => obj'[u] = obj[u]
  BY <1>1, <1>2
<1>5. callback' \in [Timers -> {"null", "callable", "broken"}]
  BY <1>1, <1>3, Zenon
<1>6. start_timer(t, d) /\ calls' = calls /\ exception' = exception
  BY Zenon DEF excimer_set_timeout
<1>7. /\ need_reinit' \in [Timers -> BOOLEAN]
      /\ Queued(queue, event_count)' /\ Idle(timer_state, expiries, event_count, obj)'
      /\ \A u \in Timers : event_count'[u] < event_count[u] => u = t
  BY <1>4, <1>6, StartStep, Zenon
<1>8. Fields'
  BY <1>4, <1>5, <1>6, <1>7, Zenon DEF ObjectsInv, Fields
<1>9. event_count'[t] \in Nat
  BY <1>7, Zenon DEF Queued
<1>10. ~(event_count'[t] < event_count[t])
  BY <1>1, <1>9
<1> QED BY <1>7, <1>8, <1>10, Zenon DEF ObjectsInv

\* The method start.
LEMMA StartMethodStep ==
  ASSUME ObjectsInv, NEW t \in Timers, start(t)
  PROVE  /\ ObjectsInv'
         /\ \A u \in Timers : event_count'[u] < event_count[u] =>
              u = t /\ need_reinit[t] /\ (~need_reinit'[t] \/ timer_state'[t] = "invalid")
<1>1. /\ obj' = obj /\ callback' = callback /\ calls' = calls /\ exception' = exception
      /\ obj[t] # "absent" /\ start_timer(t, initial[t])
  BY DEF start, php
<1>2. /\ need_reinit' \in [Timers -> BOOLEAN]
      /\ Queued(queue, event_count)' /\ Idle(timer_state, expiries, event_count, obj)'
      /\ \A u \in Timers : event_count'[u] < event_count[u] =>
            u = t /\ (need_reinit[t] \/ timer_state[t] = "invalid")
  BY <1>1, StartStep, Zenon
<1>3. Fields'
  BY <1>1, <1>2, Zenon DEF ObjectsInv, Fields
<1>4. timer_state[t] = "invalid" => event_count[t] = 0
  BY Zenon DEF ObjectsInv, Idle
<1>5. event_count'[t] \in Nat
  BY <1>2, Zenon DEF Queued
<1>6. ASSUME timer_state[t] = "invalid" PROVE ~(event_count'[t] < event_count[t])
  BY <1>4, <1>5, <1>6
<1>7. ~need_reinit'[t] \/ timer_state'[t] = "invalid"
  <2>1. /\ need_reinit \in [Timers -> BOOLEAN]
        /\ timer_state \in [Timers -> {"invalid", "stopped", "running"}]
    BY Zenon DEF ObjectsInv, Fields, Idle
  <2>2. \/ need_reinit' = [need_reinit EXCEPT ![t] = FALSE]
        \/ timer_state' = [timer_state EXCEPT ![t] = "invalid"]
    BY <1>1, Zenon DEF start_timer
  <2> QED BY <2>1, <2>2
<1> QED BY <1>2, <1>3, <1>6, <1>7, Zenon DEF ObjectsInv

\* ExcimerTimer_stop, and the end of an event that finds its callback broken.
LEMMA StoppedStep ==
  ASSUME ObjectsInv, NEW t \in Timers, stopped(t),
         \A u \in Timers : event_count'[u] = event_count[u] \/ event_count'[u] = 0,
         \A u \in Timers : u # t => event_count'[u] = event_count[u], obj' = obj
  PROVE  Idle(timer_state, expiries, event_count, obj)'
<1> DEFINE v == IF timer_state[t] = "running" THEN "stopped" ELSE timer_state[t]
<1>1. v \in {"invalid", "stopped", "running"} /\ (v = "invalid" => timer_state[t] = "invalid")
  BY DEF ObjectsInv, Idle
<1>2. timer_state' = [timer_state EXCEPT ![t] = v] /\ expiries' = [expiries EXCEPT ![t] = "none"]
  BY DEF stopped
<1>3. /\ v = "invalid" => event_count'[t] = 0
      /\ obj'[t] = "absent" => v = "invalid"
  BY <1>1, Zenon DEF ObjectsInv, Idle
<1> HIDE DEF v
<1> QED BY <1>1, <1>2, <1>3, IdleOthers, Zenon

\* ExcimerTimer_free_object
LEMMA FreeObjectStep ==
  ASSUME ObjectsInv, NEW t \in Timers, free_object(t)
  PROVE  /\ ObjectsInv' /\ obj'[t] = "freed"
         /\ \A u \in Timers : u # t => event_count'[u] = event_count[u]
<1>1. /\ obj \in [Timers -> {"absent", "live", "freed"}] /\ obj' = [obj EXCEPT ![t] = "freed"]
      /\ callback \in [Timers -> {"null", "callable", "broken"}]
      /\ callback' = [callback EXCEPT ![t] = "null"]
  BY Zenon DEF ObjectsInv, Fields, free_object
<1>2. /\ obj' \in [Timers -> {"absent", "live", "freed"}] /\ obj'[t] = "freed"
      /\ \A u \in Timers : u # t => obj'[u] = obj[u]
  BY <1>1
<1>3. callback' \in [Timers -> {"null", "callable", "broken"}]
  BY <1>1, Zenon
<1>4. Fields'
  BY <1>2, <1>3, Zenon DEF ObjectsInv, Fields, free_object
<1>5. /\ Queued(queue, event_count)' /\ event_count'[t] = 0
      /\ \A u \in Timers : u # t => event_count'[u] = event_count[u]
  BY DropStep, Zenon DEF free_object
<1>6. timer_state' = [timer_state EXCEPT ![t] = "invalid"] /\ expiries' = [expiries EXCEPT ![t] = "none"]
  BY Zenon DEF free_object
<1>7. Idle(timer_state, expiries, event_count, obj)'
  BY <1>2, <1>5, <1>6, IdleOthers, Zenon
<1> QED BY <1>2, <1>4, <1>5, <1>7, Zenon DEF ObjectsInv

\* A timer expires.
LEMMA ExpireStep ==
  ASSUME ObjectsInv, NEW t \in Timers, timer_expires(t)
  PROVE  /\ ObjectsInv'
         /\ \A u \in Timers : ~(event_count'[u] < event_count[u])
<1>1. /\ expiries \in [Timers -> {"none", "one", "many"}] /\ expiries[t] # "none"
      /\ timer_state \in [Timers -> {"invalid", "stopped", "running"}] /\ timer_state[t] # "invalid"
      /\ event_count \in [Timers -> Nat]
  BY Zenon DEF ObjectsInv, Idle, Queued, timer_expires
<1>2. /\ expiries' = [expiries EXCEPT ![t] = "none"] \/ expiries' = [expiries EXCEPT ![t] = expiries[t]]
      /\ event_count' = [event_count EXCEPT ![t] = @ + 1]
  BY Zenon DEF timer_expires
<1>3. timer_state' = timer_state /\ obj' = obj /\ need_reinit' = need_reinit /\ callback' = callback
      /\ calls' = calls /\ exception' = exception /\ queue' = list_enqueue(queue, t)
  BY DEF timer_expires, objVars
<1>4. timer_state' = [timer_state EXCEPT ![t] = timer_state[t]]
  BY <1>1, <1>3
<1>5. \A u \in Timers : /\ ~(event_count'[u] < event_count[u])
                        /\ u # t => event_count'[u] = event_count[u]
  BY <1>1, <1>2
<1>6. Queued(queue, event_count)'
  BY <1>2, <1>3, QueuedExpire, Zenon DEF ObjectsInv
<1>7. PICK a \in {"none", "one", "many"} : expiries' = [expiries EXCEPT ![t] = a]
  BY <1>1, <1>2, Zenon
<1>8. timer_state[t] \in {"invalid", "stopped", "running"} /\ obj[t] # "absent"
  BY <1>1 DEF ObjectsInv, Idle
<1>9. Idle(timer_state, expiries, event_count, obj)'
  BY <1>1, <1>3, <1>4, <1>5, <1>7, <1>8, IdleOthers, Zenon
<1>10. Fields'
  BY <1>3, Zenon DEF ObjectsInv, Fields
<1> QED BY <1>5, <1>6, <1>9, <1>10, Zenon DEF ObjectsInv

\* One iteration of excimer_timer_interrupt.
LEMMA ObjectEventStep ==
  ASSUME ObjectsInv, event
  PROVE  /\ ObjectsInv'
         /\ \A u \in Timers : event_count'[u] < event_count[u] =>
               calls' = Append(calls, u) \/ callback[u] # "callable" \/ exception # "none"
<1> DEFINE t == Head(queue)
<1>1. t \in Timers /\ Queued(Tail(queue), [event_count EXCEPT ![t] = 0])
  BY QueuedHead, Zenon DEF ObjectsInv, event
<1>2. /\ queue' = Tail(queue) /\ event_count' = [event_count EXCEPT ![t] = 0]
      /\ calls' = IF event_calls(t) THEN Append(calls, t) ELSE calls
      /\ IF callback[t] = "broken" THEN stopped(t) ELSE UNCHANGED <<timer_state, expiries>>
      /\ obj' = obj /\ need_reinit' = need_reinit /\ callback' = callback
      /\ exception' = exception
  BY DEF event, objVars
<1> HIDE DEF t
<1>3. Queued(queue, event_count)'
  BY <1>1, <1>2, Zenon
<1>4. event_count \in [Timers -> Nat] /\ calls \in Seq(Timers)
  BY DEF ObjectsInv, Queued, Fields
<1>5. /\ event_count'[t] = 0 /\ \A u \in Timers : u # t => event_count'[u] = event_count[u]
      /\ \A u \in Timers : event_count'[u] = event_count[u] \/ event_count'[u] = 0
  BY <1>1, <1>2, <1>4
<1>6. Idle(timer_state, expiries, event_count, obj)'
  <2>1. CASE callback[t] = "broken"
    BY <1>1, <1>2, <1>5, <2>1, StoppedStep, Zenon
  <2>2. CASE callback[t] # "broken"
    <3>1. timer_state' = timer_state /\ expiries' = expiries /\ obj' = obj
      BY <1>2, <2>2
    <3>2. \A u \in Timers : event_count[u] = 0 => event_count'[u] = 0
      BY <1>5, Zenon
    <3> QED BY <3>1, <3>2, Zenon DEF ObjectsInv, Idle
  <2> QED BY <2>1, <2>2, Zenon
<1>7. calls' \in Seq(Timers)
  BY <1>1, <1>2, <1>4
<1>8. Fields'
  BY <1>2, <1>7, Zenon DEF ObjectsInv, Fields
<1>9. ASSUME NEW u \in Timers, event_count'[u] < event_count[u]
      PROVE  calls' = Append(calls, u) \/ callback[u] # "callable" \/ exception # "none"
  <2>1. u = t
    BY <1>4, <1>5, <1>9
  <2> QED BY <1>2, <2>1, Zenon DEF event_calls
<1> QED BY <1>3, <1>6, <1>8, <1>9, Zenon DEF ObjectsInv

\* The methods and the PHP code that leave the timers alone.
LEMMA FieldStep ==
  ASSUME ObjectsInv, UNCHANGED timerVars,
         \/ \E t \in Timers :
               \/ ExcimerTimer_new(t) \/ setEventType(t) \/ callback_breaks(t)
               \/ \E d \in Durations : setInterval(t, d) \/ setPeriod(t, d)
               \/ \E c \in {"null", "callable"} : setCallback(t, c)
         \/ callback_return \/ throw_or_catch
  PROVE  ObjectsInv'
<1>1. timer_state' = timer_state /\ expiries' = expiries /\ event_count' = event_count /\ queue' = queue
  BY DEF timerVars
<1>2. Queued(queue, event_count)'
  BY <1>1, Zenon DEF ObjectsInv
<1>3. obj' = obj \/ \E t \in Timers : obj' = [obj EXCEPT ![t] = "live"]
  BY Zenon DEF ExcimerTimer_new, setEventType, callback_breaks, setInterval, setPeriod,
               setCallback, callback_return, throw_or_catch, objVars
<1>4. obj \in [Timers -> {"absent", "live", "freed"}]
  BY DEF ObjectsInv, Fields
<1>5. /\ obj' \in [Timers -> {"absent", "live", "freed"}]
      /\ \A u \in Timers : obj'[u] = "absent" => obj[u] = "absent"
  BY <1>3, <1>4
<1>6. Idle(timer_state, expiries, event_count, obj)'
  BY <1>1, <1>5, Zenon DEF ObjectsInv, Idle
<1>7. need_reinit' = need_reinit \/ \E t \in Timers : need_reinit' = [need_reinit EXCEPT ![t] = TRUE]
  BY Zenon DEF ExcimerTimer_new, setEventType, callback_breaks, setInterval, setPeriod,
               setCallback, callback_return, throw_or_catch, objVars
<1>8. \/ callback' = callback
      \/ \E t \in Timers, c \in {"null", "callable", "broken"} :
            callback' = [callback EXCEPT ![t] = c]
  BY Zenon DEF ExcimerTimer_new, setEventType, callback_breaks, setInterval, setPeriod,
               setCallback, callback_return, throw_or_catch, objVars
<1>9. calls' = calls \/ (calls # <<>> /\ calls' = SubSeq(calls, 1, Len(calls) - 1))
  BY Zenon DEF ExcimerTimer_new, setEventType, callback_breaks, setInterval, setPeriod,
               setCallback, callback_return, throw_or_catch, objVars
<1>10. exception' \in {exception, "none", "event", "php"}
  BY Zenon DEF ExcimerTimer_new, setEventType, callback_breaks, setInterval, setPeriod,
               setCallback, callback_return, throw_or_catch, objVars
<1>11. calls \in Seq(Timers)
  BY DEF ObjectsInv, Fields
<1>12. calls' \in Seq(Timers)
  BY <1>9, <1>11
<1>13. /\ callback' \in [Timers -> {"null", "callable", "broken"}]
       /\ need_reinit' \in [Timers -> BOOLEAN] /\ exception' \in {"none", "event", "php"}
  BY <1>7, <1>8, <1>10, Zenon DEF ObjectsInv, Fields
<1>14. Fields'
  BY <1>5, <1>12, <1>13, Zenon DEF Fields
<1> QED BY <1>2, <1>6, <1>14, Zenon DEF ObjectsInv

\* ExcimerTimer::stop
LEMMA StopStep ==
  ASSUME ObjectsInv, NEW t \in Timers, stop(t)
  PROVE  ObjectsInv' /\ event_count' = event_count
<1>1. /\ stopped(t) /\ obj' = obj /\ need_reinit' = need_reinit /\ callback' = callback
      /\ event_count' = event_count /\ queue' = queue /\ calls' = calls /\ exception' = exception
  BY DEF stop, objVars
<1>2. Idle(timer_state, expiries, event_count, obj)'
  BY <1>1, StoppedStep, Zenon
<1>3. Fields' /\ Queued(queue, event_count)'
  BY <1>1, Zenon DEF ObjectsInv, Fields
<1> QED BY <1>1, <1>2, <1>3, Zenon DEF ObjectsInv

\* The disjuncts of Next, those that leave the timers alone together.
LEMMA NextCases ==
  ASSUME ObjectsNext
  PROVE  \/ \E t \in Timers :
               \/ start(t) \/ stop(t) \/ free_object(t) \/ timer_expires(t)
               \/ \E c \in TimeoutCallbacks, d \in Durations : excimer_set_timeout(t, c, d)
         \/ event
         \/ /\ UNCHANGED timerVars
            /\ \/ \E t \in Timers :
                     \/ ExcimerTimer_new(t) \/ setEventType(t) \/ callback_breaks(t)
                     \/ \E d \in Durations : setInterval(t, d) \/ setPeriod(t, d)
                     \/ \E c \in {"null", "callable"} : setCallback(t, c)
               \/ callback_return \/ throw_or_catch
  BY Zenon DEF ObjectsNext, ExcimerTimer_new, setEventType, callback_breaks, setInterval, setPeriod,
               setCallback, callback_return, throw_or_catch

\* Initially no object exists.
LEMMA InitObjects == ObjectsInit => ObjectsInv
<1> SUFFICES ASSUME ObjectsInit PROVE ObjectsInv
  OBVIOUS
<1>1. Fields
  BY DEF ObjectsInit, Fields
<1>2. Elements(<<>>) = {} /\ NoDuplicates(<<>>) /\ <<>> \in Seq(Timers)
  BY DEF Elements, NoDuplicates
<1>3. event_count \in [Timers -> Nat] /\ \A t \in Timers : event_count[t] = 0
  BY DEF ObjectsInit
<1>4. {t \in Timers : event_count[t] > 0} = {}
  BY <1>3
<1>5. Queued(queue, event_count)
  BY <1>2, <1>3, <1>4, Zenon DEF ObjectsInit, Queued
<1>6. Idle(timer_state, expiries, event_count, obj)
  BY <1>3 DEF ObjectsInit, Idle
<1> QED BY <1>1, <1>5, <1>6 DEF ObjectsInv

\* The invariant is inductive, whatever excimer_set_timeout is called with.
LEMMA NextObjects == ObjectsInv /\ [ObjectsNext]_objectsVars => ObjectsInv'
<1> SUFFICES ASSUME ObjectsInv, [ObjectsNext]_objectsVars PROVE ObjectsInv'
  OBVIOUS
<1>1. CASE ObjectsNext
  BY <1>1, NextCases, StartMethodStep, StopStep, FreeObjectStep, ExpireStep, TimeoutStep,
     ObjectEventStep, FieldStep, Zenon
<1>2. CASE UNCHANGED objectsVars
  BY <1>2, Zenon DEF objectsVars, objVars, timerVars, ObjectsInv, Fields, Queued, Idle
<1> QED BY <1>1, <1>2

LEMMA ObjectsInvariant == ObjectsSpec => []ObjectsInv
  BY InitObjects, NextObjects, PTL DEF ObjectsSpec

\* The queue has exactly the timers with events, each once, through every start, stop,
\* release and expiry.
THEOREM TimersQueuedOnce == ObjectsSpec => []ObjectsTypeOK
<1>1. ObjectsInv => ObjectsTypeOK
  BY Zenon DEF ObjectsInv, Fields, Queued, Idle, ObjectsTypeOK
<1> QED BY <1>1, ObjectsInvariant, PTL

\* Timers that have gone are not initialised.
Gone == \A t \in Timers : obj[t] = "freed" => timer_state[t] = "invalid"

\* A step does not bring them back, if excimer_set_timeout is called with callables.
LEMMA GoneStep ==
  ASSUME "other" \notin TimeoutCallbacks, ObjectsInv, Gone, ObjectsNext
  PROVE  Gone'
<1>1. /\ timer_state \in [Timers -> {"invalid", "stopped", "running"}]
      /\ obj \in [Timers -> {"absent", "live", "freed"}]
  BY DEF ObjectsInv, Fields, Idle
<1>2. ASSUME NEW t \in Timers, NEW d, start_timer(t, d),
             obj'[t] = "live", \A u \in Timers : u # t => obj'[u] = obj[u]
      PROVE  Gone'
  <2>1. \E v \in {"invalid", "stopped", "running"} : timer_state' = [timer_state EXCEPT ![t] = v]
    BY <1>2, Zenon DEF start_timer
  <2>2. \A u \in Timers : u # t => timer_state'[u] = timer_state[u]
    BY <1>1, <2>1
  <2> QED BY <1>2, <2>2 DEF Gone
<1>3. ASSUME NEW t \in Timers, start(t) PROVE Gone'
  BY <1>2, <1>3, Zenon DEF start, php
<1>4. ASSUME NEW t \in Timers, stopped(t), obj' = obj PROVE Gone'
  <2>1. \A u \in Timers : timer_state[u] = "invalid" => timer_state'[u] = "invalid"
    BY <1>1, <1>4 DEF stopped
  <2> QED BY <1>4, <2>1, Zenon DEF Gone
<1>5. ASSUME NEW t \in Timers, free_object(t) PROVE Gone'
  <2>1. /\ timer_state' = [timer_state EXCEPT ![t] = "invalid"] /\ obj' = [obj EXCEPT ![t] = "freed"]
    BY <1>5, Zenon DEF free_object
  <2>2. /\ timer_state'[t] = "invalid"
        /\ \A u \in Timers : u # t => timer_state'[u] = timer_state[u] /\ obj'[u] = obj[u]
    BY <1>1, <2>1
  <2> QED BY <2>2, Zenon DEF Gone
<1>6. ASSUME NEW t \in Timers, NEW c \in TimeoutCallbacks, NEW d, excimer_set_timeout(t, c, d)
      PROVE  Gone'
  <2>1. c = "callable"
    BY TimerObjectsAssumption
  <2>2. obj' = [obj EXCEPT ![t] = "live"] /\ start_timer(t, d)
    BY <1>6, <2>1, Zenon DEF excimer_set_timeout
  <2>3. obj'[t] = "live" /\ \A u \in Timers : u # t => obj'[u] = obj[u]
    BY <1>1, <2>2
  <2> QED BY <1>2, <2>2, <2>3, Zenon
<1>7. CASE event
  <2>1. Head(queue) \in Timers
    BY <1>7, QueuedHead, Zenon DEF ObjectsInv, event
  <2>2. obj' = obj /\ (timer_state' = timer_state \/ stopped(Head(queue)))
    BY <1>7, Zenon DEF event, objVars
  <2> QED BY <1>4, <2>1, <2>2, Zenon DEF Gone
<1>8. ASSUME timer_state' = timer_state, obj' = obj \/ \E t \in Timers : obj' = [obj EXCEPT ![t] = "live"]
      PROVE  Gone'
  <2>1. \A u \in Timers : obj'[u] = "freed" => obj[u] = "freed"
    BY <1>1, <1>8
  <2> QED BY <1>8, <2>1, Zenon DEF Gone
<1>9. \/ timer_state' = timer_state /\ (obj' = obj \/ \E t \in Timers : obj' = [obj EXCEPT ![t] = "live"])
      \/ event
      \/ \E t \in Timers :
            \/ start(t) \/ (stopped(t) /\ obj' = obj) \/ free_object(t)
            \/ \E c \in TimeoutCallbacks, d \in Durations : excimer_set_timeout(t, c, d)
  BY Zenon DEF ObjectsNext, ExcimerTimer_new, setEventType, callback_breaks, setInterval, setPeriod,
               setCallback, callback_return, throw_or_catch, timer_expires, stop, timerVars, objVars
<1> QED BY <1>3, <1>4, <1>5, <1>6, <1>7, <1>8, <1>9, Zenon

\* If excimer_set_timeout is given callables, only a timer of an object that exists can
\* expire, is on the queue or will be called back.  (MCExcimerTimerObjectsTimeout shows
\* that it is not so otherwise.)
THEOREM ReleasedTimersAreGone ==
  ASSUME "other" \notin TimeoutCallbacks
  PROVE  ObjectsSpec => []Released
<1>1. ObjectsInit => Gone
  BY DEF ObjectsInit, Gone
<1>2. ObjectsInv /\ Gone /\ [ObjectsNext]_objectsVars => Gone'
  <2>1. ASSUME Gone, UNCHANGED objectsVars PROVE Gone'
    BY <2>1, Zenon DEF objectsVars, objVars, timerVars, Gone
  <2> QED BY <2>1, GoneStep
<1>3. ObjectsInv /\ Gone => Released
  <2> SUFFICES ASSUME ObjectsInv, Gone, NEW t \in Timers, obj[t] # "live"
               PROVE  timer_state[t] = "invalid" /\ expiries[t] = "none" /\ t \notin Elements(queue)
    BY Zenon DEF Released
  <2>1. timer_state[t] = "invalid"
    BY DEF ObjectsInv, Fields, Idle, Gone
  <2>2. event_count[t] = 0 /\ expiries[t] = "none"
    BY <2>1, Zenon DEF ObjectsInv, Idle
  <2>3. t \notin Elements(queue)
    BY <2>2 DEF ObjectsInv, Queued
  <2> QED BY <2>1, <2>2, <2>3
<1> QED BY <1>1, <1>2, <1>3, ObjectsInvariant, PTL DEF ObjectsSpec

\* No expiry is forgotten: the count goes down only in an event that calls the callback or
\* cannot, when the object is released, and in a start after setEventType.
THEOREM ExpiriesAreReported == ObjectsSpec => EventsReported
<1> DEFINE Reported(t) == event_count'[t] < event_count[t] =>
                            \/ calls' = Append(calls, t)
                            \/ callback[t] # "callable" \/ exception # "none"
                            \/ obj'[t] = "freed"
                            \/ need_reinit[t] /\ (~need_reinit'[t] \/ timer_state'[t] = "invalid")
<1>1. ObjectsInv /\ [ObjectsNext]_objectsVars => [\A t \in Timers : Reported(t)]_objectsVars
  <2> SUFFICES ASSUME ObjectsInv, ObjectsNext, NEW u \in Timers PROVE Reported(u)
    BY Zenon
  <2>0. event_count[u] \in Nat
    BY DEF ObjectsInv, Queued
  <2>1. ASSUME event_count'[u] = event_count[u] PROVE Reported(u)
    BY <2>0, <2>1
  <2>2. ASSUME NEW t \in Timers, start(t) PROVE Reported(u)
    BY <2>2, StartMethodStep, Zenon
  <2>3. ASSUME NEW t \in Timers, stop(t) PROVE Reported(u)
    <3>1. event_count' = event_count
      BY <2>3, StopStep, Zenon
    <3> QED BY <2>1, <3>1, Zenon
  <2>4. ASSUME NEW t \in Timers, free_object(t) PROVE Reported(u)
    BY <2>1, <2>4, FreeObjectStep, Zenon
  <2>5. ASSUME NEW t \in Timers, timer_expires(t) PROVE Reported(u)
    BY <2>5, ExpireStep, Zenon
  <2>6. ASSUME NEW t \in Timers, NEW c, NEW d, excimer_set_timeout(t, c, d) PROVE Reported(u)
    BY <2>6, TimeoutStep, Zenon
  <2>7. CASE event
    BY <2>7, ObjectEventStep, Zenon
  <2>8. CASE UNCHANGED timerVars
    <3>1. event_count' = event_count
      BY <2>8 DEF timerVars
    <3> QED BY <2>1, <3>1, Zenon
  <2> HIDE DEF Reported
  <2> QED BY <2>2, <2>3, <2>4, <2>5, <2>6, <2>7, <2>8, NextCases, Zenon
<1> QED BY <1>1, ObjectsInvariant, PTL DEF ObjectsSpec, EventsReported

-----------------------------------------------------------------------------------

\* Division and remainder by a second, as the clock uses them.
LEMMA Division ==
  ASSUME NEW n \in Int
  PROVE  /\ n \div BILLION \in Int /\ n % BILLION \in Int
         /\ 0 <= n % BILLION /\ n % BILLION < BILLION
         /\ (n \div BILLION) * BILLION + (n % BILLION) = n
BY TimespecAssumption, SMT

\* The clock's timespec is normal, and stands for the clock's nanoseconds.
LEMMA ClockExact ==
  ASSUME NEW n \in Int
  PROVE  Normal(ToTimespec(n)) /\ NsValue(ToTimespec(n)) = n
BY Division, TimespecAssumption DEF Normal, ToTimespec, Timespec, NsValue

\* Products with a second, which the provers do not multiply out by themselves.
LEMMA Distributes ==
  ASSUME NEW i \in Int, NEW j \in Int
  PROVE  /\ i * BILLION \in Int
         /\ (i + j) * BILLION = i * BILLION + j * BILLION
         /\ (i - j) * BILLION = i * BILLION - j * BILLION
         /\ (i + j + 1) * BILLION = i * BILLION + j * BILLION + BILLION
         /\ (i - j - 1) * BILLION = i * BILLION - j * BILLION - BILLION
BY TimespecAssumption, SMT

\* timerlib_timespec_add loses nothing, though it leaves a whole second of nanoseconds
\* where the parts add up to it (timerlib_common.c).
LEMMA AddExact ==
  ASSUME NEW a, NEW b, Normal(a), Normal(b)
  PROVE  /\ timespec_add(a, b) \in Timespec
         /\ timespec_add(a, b).tv_nsec \in 0..BILLION
         /\ NsValue(timespec_add(a, b)) = NsValue(a) + NsValue(b)
<1>1. /\ a.tv_sec \in Int /\ b.tv_sec \in Int /\ a.tv_nsec \in Int /\ b.tv_nsec \in Int
      /\ 0 <= a.tv_nsec /\ a.tv_nsec < BILLION /\ 0 <= b.tv_nsec /\ b.tv_nsec < BILLION
  BY DEF Normal, Timespec
<1>2. CASE a.tv_nsec + b.tv_nsec > BILLION
  BY <1>1, <1>2, Distributes, TimespecAssumption DEF timespec_add, NsValue, Timespec
<1>3. CASE ~(a.tv_nsec + b.tv_nsec > BILLION)
  BY <1>1, <1>3, Distributes, TimespecAssumption DEF timespec_add, NsValue, Timespec
<1> QED BY <1>2, <1>3

\* timerlib_timespec_subtract is exact, also for such a sum.
LEMMA SubtractExact ==
  ASSUME NEW a, NEW b, a \in Timespec, a.tv_nsec \in 0..BILLION, Normal(b)
  PROVE  /\ timespec_subtract(a, b) \in Timespec
         /\ timespec_subtract(a, b).tv_nsec \in 0..BILLION
         /\ Normal(a) => Normal(timespec_subtract(a, b))
         /\ NsValue(timespec_subtract(a, b)) = NsValue(a) - NsValue(b)
<1>1. /\ a.tv_sec \in Int /\ b.tv_sec \in Int /\ a.tv_nsec \in Int /\ b.tv_nsec \in Int
      /\ 0 <= a.tv_nsec /\ a.tv_nsec <= BILLION /\ 0 <= b.tv_nsec /\ b.tv_nsec < BILLION
  BY TimespecAssumption DEF Normal, Timespec
<1>2. CASE a.tv_nsec < b.tv_nsec
  BY <1>1, <1>2, Distributes, TimespecAssumption DEF timespec_subtract, NsValue, Timespec, Normal
<1>3. CASE ~(a.tv_nsec < b.tv_nsec)
  BY <1>1, <1>3, Distributes, TimespecAssumption DEF timespec_subtract, NsValue, Timespec, Normal
<1> QED BY <1>2, <1>3

\* timerlib_timer_get_time computes the end of the period after last_fired_at.
LEMMA GetTimeExact ==
  ASSUME timer.period \in Nat, now \in Nat, Normal(last_fired_at)
  PROVE  /\ timer_get_time \in Timespec /\ timer_get_time.tv_nsec \in 0..BILLION
         /\ NsValue(timer_get_time) = timer.period + NsValue(last_fired_at) - now
<1>1. /\ Normal(ToTimespec(timer.period)) /\ NsValue(ToTimespec(timer.period)) = timer.period
      /\ Normal(ToTimespec(now)) /\ NsValue(ToTimespec(now)) = now
  BY ClockExact
<1> DEFINE w == timespec_add(ToTimespec(timer.period), last_fired_at)
<1>2. /\ w \in Timespec /\ w.tv_nsec \in 0..BILLION
      /\ NsValue(w) = timer.period + NsValue(last_fired_at)
  BY <1>1, AddExact
<1> DEFINE d == timespec_subtract(w, ToTimespec(now))
<1>3. timer_get_time = d
  BY DEF timer_get_time
<1> HIDE DEF w
<1>4. /\ d \in Timespec /\ d.tv_nsec \in 0..BILLION
      /\ NsValue(d) = NsValue(w) - now
  BY <1>1, <1>2, SubtractExact
<1> HIDE DEF d
<1>5. NsValue(last_fired_at) \in Int
  BY Distributes, TimespecAssumption DEF Normal, Timespec, NsValue
<1>6. NsValue(d) = timer.period + NsValue(last_fired_at) - now
  BY <1>2, <1>4, <1>5
<1> QED BY <1>3, <1>4, <1>6, Zenon

\* The inductive invariant: while a periodic timer runs its expiration is due, and once an
\* expiration was handled it is due a period after the last one was due, which is at
\* most MaxLate before that was handled.
GetTimeInv ==
  /\ now \in Nat /\ running \in BOOLEAN
  /\ timer \in [period : Nat, initial : Nat \ {0}]
  /\ due \in Nat \cup {Never} /\ first \in BOOLEAN /\ initial_wait \in BOOLEAN
  /\ Normal(last_fired_at) /\ NsValue(last_fired_at) \in Int
  /\ NsValue(last_fired_at) <= now
  /\ initial_wait => first
  /\ running /\ timer.period # 0 => due # Never
  /\ running /\ timer.period # 0 /\ ~first =>
        /\ due <= timer.period + NsValue(last_fired_at)
        /\ timer.period + NsValue(last_fired_at) <= due + MaxLate
  /\ due # Never => now <= due + MaxLate

\* The invariant holds in every state of timerlib_kqueue.c's timer.
THEOREM GetTimeInvariant == GetTimeSpec => []GetTimeInv
<1>1. GetTimeInit => GetTimeInv
  <2> SUFFICES ASSUME GetTimeInit PROVE GetTimeInv OBVIOUS
  <2>1. Normal(last_fired_at) /\ NsValue(last_fired_at) = 0
    BY ClockExact DEF GetTimeInit
  <2>2. now \in Nat /\ timer \in [period : Nat, initial : Nat \ {0}]
    BY GetTimeAssumption, TimespecAssumption DEF GetTimeInit
  <2>3. /\ running = FALSE /\ first = FALSE /\ initial_wait = FALSE /\ due = Never
        /\ NsValue(last_fired_at) \in Int /\ NsValue(last_fired_at) <= now
    <3>1. 0 \in Int /\ 0 <= now
      BY <2>2
    <3> QED BY <2>1, <3>1, Zenon DEF GetTimeInit
  <2> QED BY <2>1, <2>2, <2>3, Zenon DEF GetTimeInv
<1>2. GetTimeInv /\ [GetTimeNext]_getTimeVars => GetTimeInv'
  <2> SUFFICES ASSUME GetTimeInv, [GetTimeNext]_getTimeVars PROVE GetTimeInv' OBVIOUS
  <2> USE GetTimeAssumption DEF GetTimeInv, Never
  <2>c. Normal(ToTimespec(now)) /\ NsValue(ToTimespec(now)) = now
    BY ClockExact
  <2>1. CASE tick
    <3>1. last_fired_at' = last_fired_at /\ NsValue(last_fired_at)' = NsValue(last_fired_at)
          /\ Normal(last_fired_at)'
      BY <2>1 DEF tick, NsValue, Normal
    <3> QED BY <2>1, <3>1 DEF tick
  <2>2. ASSUME NEW m \in Modes, timer_start(m) PROVE GetTimeInv'
    <3>1. Normal(last_fired_at)' /\ NsValue(last_fired_at)' = now
      BY <2>2, <2>c DEF timer_start, Normal, NsValue
    <3> QED BY <2>2, <3>1 DEF timer_start
  <2>3. CASE timerlib_handle_timer_event
    <3>1. Normal(last_fired_at)' /\ NsValue(last_fired_at)' = now
      BY <2>3, <2>c DEF timerlib_handle_timer_event, noted, Normal, NsValue
    <3>2. /\ due \in Nat /\ due <= now /\ now <= due + MaxLate
          /\ timer.period \in Nat /\ now \in Nat /\ MaxLate \in Nat
      BY <2>3 DEF timerlib_handle_timer_event
    <3>3. /\ timer' = timer /\ now' = now /\ running' = running
          /\ first' = FALSE /\ initial_wait' = FALSE
          /\ due' = IF timer.period = 0 THEN Never
                    ELSE (IF initial_wait THEN now ELSE due) + timer.period
      BY <2>3 DEF timerlib_handle_timer_event
    <3>4. /\ due' \in Nat \cup {Never}
          /\ due' # Never => now' <= due' + MaxLate
          /\ timer'.period # 0 =>
                /\ due' # Never
                /\ due' <= timer'.period + now
                /\ timer'.period + now <= due' + MaxLate
      BY <3>2, <3>3 DEF Never
    <3>5. /\ now' \in Nat /\ running' \in BOOLEAN /\ first' \in BOOLEAN
          /\ initial_wait' \in BOOLEAN
          /\ timer' \in [period : Nat, initial : Nat \ {0}]
      BY <3>3, Zenon
    <3> QED BY <3>1, <3>2, <3>3, <3>4, <3>5
  <2>6. CASE interrupted
    <3>1. NsValue(last_fired_at)' = NsValue(last_fired_at) /\ Normal(last_fired_at)'
      BY <2>6 DEF interrupted, NsValue, Normal
    <3>2. timer.period \in Nat /\ now \in Nat /\ MaxLate \in Nat /\ first
      BY <2>6 DEF interrupted
    <3>3. /\ timer' = timer /\ now' = now /\ running' = running
          /\ first' = first /\ initial_wait' = FALSE
          /\ due' = IF timer.period = 0 THEN Never ELSE now + timer.period
      BY <2>6 DEF interrupted
    <3>4. /\ due' \in Nat \cup {Never} /\ (due' # Never => now' <= due' + MaxLate)
          /\ timer.period # 0 => due' # Never
      BY <3>2, <3>3
    <3>5. first' = TRUE
      BY <3>2, <3>3, Zenon
    <3> QED BY <3>1, <3>3, <3>4, <3>5, Zenon
  <2>4. CASE timer_stop
    <3>1. NsValue(last_fired_at)' = NsValue(last_fired_at) /\ Normal(last_fired_at)'
      BY <2>4 DEF timer_stop, NsValue, Normal
    <3>2. timer'.period = 0 /\ timer' \in [period : Nat, initial : Nat \ {0}]
      BY <2>4, Zenon DEF timer_stop
    <3> QED BY <2>4, <3>1, <3>2, Zenon DEF timer_stop
  <2>5. CASE UNCHANGED getTimeVars
    BY <2>5 DEF getTimeVars, NsValue, Normal
  <2> QED BY <2>1, <2>2, <2>3, <2>6, <2>4, <2>5, Zenon DEF GetTimeNext
<1> QED BY <1>1, <1>2, PTL DEF GetTimeSpec

\* The type invariant: what getTime returns is a timespec, with a whole second of
\* nanoseconds at most.
THEOREM GetTimeTypeCorrect == GetTimeSpec => []GetTimeTypeOK
<1>1. GetTimeInv => GetTimeTypeOK
  <2> SUFFICES ASSUME GetTimeInv PROVE GetTimeTypeOK OBVIOUS
  <2>1. get_time \in Timespec /\ get_time.tv_nsec \in 0..BILLION
    <3>1. CASE running
      BY <3>1, GetTimeExact DEF GetTimeInv, get_time
    <3>2. CASE ~running
      <4>1. ToTimespec(0) \in Timespec /\ ToTimespec(0).tv_nsec \in 0..BILLION
        BY ClockExact, TimespecAssumption DEF Normal, Timespec
      <4>2. get_time = ToTimespec(0)
        BY <3>2 DEF get_time
      <4> QED BY <4>1, <4>2, Zenon
    <3> QED BY <3>1, <3>2
  <2> QED BY <2>1 DEF GetTimeInv, GetTimeTypeOK
<1> QED BY <1>1, GetTimeInvariant, PTL

\* What fits in 64 bits is not changed by them.
LEMMA WordExact ==
  ASSUME NEW n \in Nat, n < WORD
  PROVE  n % WORD = n
<1>1. /\ n \div WORD \in Int /\ n % WORD \in Int /\ 0 <= n % WORD /\ n % WORD < WORD
      /\ n = (n \div WORD) * WORD + (n % WORD)
  BY TimespecAssumption, SMT
<1>2. CASE n \div WORD = 0
  <2>1. (n \div WORD) * WORD = 0
    BY <1>2, TimespecAssumption
  <2> QED
    BY <1>1, <2>1
<1>3. CASE n \div WORD >= 1
  <2>1. (n \div WORD) * WORD >= WORD
    BY <1>1, <1>3, TimespecAssumption, SMT
  <2> QED
    BY <1>1, <2>1, TimespecAssumption
<1>4. CASE n \div WORD <= -1
  <2>1. (n \div WORD) * WORD <= -WORD
    BY <1>1, <1>4, TimespecAssumption, SMT
  <2> QED
    BY <1>1, <2>1, TimespecAssumption
<1> QED
  BY <1>1, <1>2, <1>3, <1>4

\* A negative number that is not below -2^64 becomes what it is short of 2^64.
LEMMA WordWraps ==
  ASSUME NEW n \in Int, n < 0, -WORD <= n
  PROVE  n % WORD = n + WORD
<1>1. /\ n \div WORD \in Int /\ n % WORD \in Int /\ 0 <= n % WORD /\ n % WORD < WORD
      /\ n = (n \div WORD) * WORD + (n % WORD)
  BY TimespecAssumption, SMT
<1>2. CASE n \div WORD = -1
  <2>1. (n \div WORD) * WORD = -WORD
    BY <1>2, TimespecAssumption
  <2> QED
    BY <1>1, <2>1, TimespecAssumption
<1>3. CASE n \div WORD >= 0
  <2>1. (n \div WORD) * WORD >= 0
    BY <1>1, <1>3, TimespecAssumption, SMT
  <2> QED
    BY <1>1, <2>1, TimespecAssumption
<1>4. CASE n \div WORD <= -2
  <2>1. (n \div WORD) * WORD <= -WORD - WORD
    BY <1>1, <1>4, TimespecAssumption, SMT
  <2> QED
    BY <1>1, <2>1, TimespecAssumption
<1> QED
  BY <1>1, <1>2, <1>3, <1>4

\* The conversion to uint64_t takes the nanoseconds that a timespec stands for.
LEMMA ToNsValue ==
  ASSUME NEW ts \in Timespec
  PROVE  NsValue(ts) \in Int /\ timespec_to_ns(ts) = NsValue(ts) % WORD
<1>1. ts.tv_sec * BILLION \in Int /\ ts.tv_nsec \in Int
  BY TimespecAssumption, SMT DEF Timespec
<1>2. ts.tv_nsec + ts.tv_sec * BILLION = ts.tv_sec * BILLION + ts.tv_nsec
  BY <1>1
<1> QED
  BY <1>1, <1>2 DEF timespec_to_ns, NsValue

\* timerlib_timespec_from_double makes a whole second of a product that was rounded up
\* to it.
LEMMA FromDoubleExact ==
  ASSUME NEW secs \in Nat, NEW nsec \in 0..BILLION
  PROVE  /\ Normal(timespec_from_double(secs, nsec))
         /\ NsValue(timespec_from_double(secs, nsec)) = secs * BILLION + nsec
<1>1. (secs + 1) * BILLION = secs * BILLION + BILLION /\ secs * BILLION \in Int
  BY TimespecAssumption, SMT
<1> QED
  BY <1>1, TimespecAssumption DEF timespec_from_double, Normal, Timespec, NsValue

\* Adding, subtracting and converting times is exact, for any second, clock and word
\* that the clock does not outrun, and for any number of seconds.
LEMMA TimesExact ==
  ASSUME NEW n \in Nat, n < WORD, NEW b \in [tv_sec : Nat, tv_nsec : 0..(BILLION - 1)]
  PROVE  LET a == ToTimespec(n) IN
         /\ NsValue(timespec_add(a, b)) = NsValue(a) + NsValue(b)
         /\ timespec_add(a, b).tv_nsec \in 0..BILLION
         /\ NsValue(timespec_subtract(a, b)) = NsValue(a) - NsValue(b)
         /\ Normal(timespec_subtract(a, b))
         /\ NsValue(b) <= n => timespec_to_ns(timespec_subtract(a, b)) = n - NsValue(b)
         /\ \A rounded \in {b.tv_nsec, b.tv_nsec + 1} :
              LET d == timespec_from_double(b.tv_sec, rounded)
              IN  Normal(d) /\ NsValue(d) = NsValue(b) + (rounded - b.tv_nsec)
<1> DEFINE a == ToTimespec(n)
<1>1. Normal(a) /\ NsValue(a) = n /\ a \in Timespec /\ a.tv_nsec \in 0..BILLION
  BY ClockExact, TimespecAssumption DEF Normal, Timespec
<1>2. Normal(b) /\ NsValue(b) \in Nat /\ b.tv_sec \in Nat /\ b.tv_nsec \in 0..(BILLION - 1)
  <2>1. b.tv_sec * BILLION \in Nat
    BY TimespecAssumption, SMT
  <2> QED
    BY <2>1, TimespecAssumption DEF Normal, Timespec, NsValue
<1> HIDE DEF a
<1>3. /\ NsValue(timespec_add(a, b)) = NsValue(a) + NsValue(b)
      /\ timespec_add(a, b).tv_nsec \in 0..BILLION
  BY <1>1, <1>2, AddExact
<1>4. /\ NsValue(timespec_subtract(a, b)) = NsValue(a) - NsValue(b)
      /\ Normal(timespec_subtract(a, b))
  BY <1>1, <1>2, SubtractExact
<1>5. ASSUME NsValue(b) <= n
      PROVE  timespec_to_ns(timespec_subtract(a, b)) = n - NsValue(b)
  <2> DEFINE s == timespec_subtract(a, b)
  <2>1. timespec_to_ns(s) = NsValue(s) % WORD
    BY <1>4, ToNsValue, Zenon DEF Normal
  <2>2. NsValue(s) = n - NsValue(b) /\ n - NsValue(b) \in Nat /\ n - NsValue(b) < WORD
    BY <1>1, <1>2, <1>4, <1>5, TimespecAssumption
  <2> QED
    BY <2>1, <2>2, WordExact
<1>6. ASSUME NEW rounded \in {b.tv_nsec, b.tv_nsec + 1}
      PROVE  LET d == timespec_from_double(b.tv_sec, rounded)
             IN  Normal(d) /\ NsValue(d) = NsValue(b) + (rounded - b.tv_nsec)
  <2>1. rounded \in 0..BILLION
    BY <1>2, TimespecAssumption
  <2>2. b.tv_sec * BILLION + rounded = NsValue(b) + (rounded - b.tv_nsec)
    <3>1. b.tv_sec * BILLION \in Int
      BY <1>2, TimespecAssumption, SMT
    <3> QED
      BY <1>2, <2>1, <3>1, TimespecAssumption DEF NsValue
  <2> QED
    BY <1>2, <2>1, <2>2, FromDoubleExact
<1> QED
  BY <1>3, <1>4, <1>5, <1>6 DEF a

\* What the clock shows, and a period, fit into 64 bits.
ClockFits ==
  /\ now \in Nat /\ now < WORD
  /\ timer \in [period : 0..(WORD - 1), initial : Nat \ {0}]

\* The clock and the period stay within their 64 bits.
LEMMA ClockBounded == GetTimeSpec => []ClockFits
<1>0. Modes \subseteq [period : 0..(WORD - 1), initial : Nat \ {0}]
  BY GetTimeAssumption, ClockAssumption, TimespecAssumption
<1>1. GetTimeInit => ClockFits
  BY <1>0, ClockAssumption, TimespecAssumption DEF GetTimeInit, ClockFits
<1>2. ClockFits /\ [GetTimeNext]_getTimeVars => ClockFits'
  BY <1>0, ClockAssumption, TimespecAssumption, GetTimeAssumption
     DEF ClockFits, GetTimeNext, getTimeVars, tick, timer_start, timerlib_handle_timer_event,
         interrupted, timer_stop
<1> QED
  BY <1>1, <1>2, PTL DEF GetTimeSpec

\* getTime is right for a periodic timer after its first expiration, up to the delay of
\* the handler thread, and never less than it really is, as long as no expiration is
\* overdue; then it is close to zero, or wraps to almost 2^64 nanoseconds.
THEOREM EstimateHolds == GetTimeSpec => []PeriodicEstimate
<1>1. GetTimeInv /\ ClockFits => PeriodicEstimate
  <2> SUFFICES ASSUME GetTimeInv, ClockFits, running, timer.period # 0, ~first
               PROVE  IF now <= due
                      THEN due - now <= getTime /\ getTime <= due - now + MaxLate
                      ELSE getTime < MaxLate \/ WORD - getTime <= now - due
    BY DEF PeriodicEstimate
  <2> DEFINE v == NsValue(get_time)
  <2>1. get_time \in Timespec /\ v = timer.period + NsValue(last_fired_at) - now
    BY GetTimeExact DEF GetTimeInv, get_time
  <2>2. v \in Int /\ getTime = v % WORD
    BY <2>1, ToNsValue DEF getTime
  <2> HIDE DEF v
  <2>3. /\ due \in Nat /\ now \in Nat /\ WORD \in Nat /\ MaxLate \in Nat /\ MaxLate < WORD
        /\ due - now <= v /\ v <= due - now + MaxLate /\ v < WORD /\ now <= due + MaxLate
    BY <2>1, GetTimeAssumption, ClockAssumption, TimespecAssumption
       DEF GetTimeInv, ClockFits, Never
  <2>4. CASE v >= 0
    <3>1. getTime = v
      BY <2>2, <2>3, <2>4, WordExact
    <3> QED BY <2>2, <2>3, <3>1
  <2>5. CASE v < 0
    <3>1. -WORD <= v
      BY <2>2, <2>3
    <3>2. getTime = v + WORD
      BY <2>2, <2>5, <3>1, WordWraps
    <3> QED BY <2>2, <2>3, <2>5, <3>2
  <2> QED BY <2>2, <2>4, <2>5
<1> QED BY <1>1, GetTimeInvariant, ClockBounded, PTL

\* The arithmetic of timerlib_common.c is exact at every time of the clock, although
\* a sum may be left with a whole second of nanoseconds.
THEOREM ArithmeticHolds == GetTimeSpec => []ArithmeticExact
<1>1. GetTimeTypeOK /\ ClockFits => ArithmeticExact
  <2> SUFFICES ASSUME GetTimeTypeOK, ClockFits PROVE ArithmeticExact
    OBVIOUS
  <2>1. now \in Nat /\ now < WORD
    BY DEF ClockFits
  <2>2. ASSUME NEW b \in [tv_sec : 0..3, tv_nsec : 0..(BILLION - 1)]
        PROVE  b \in [tv_sec : Nat, tv_nsec : 0..(BILLION - 1)]
    OBVIOUS
  <2> QED
    BY <2>1, <2>2, TimesExact DEF ArithmeticExact
<1> QED
  BY <1>1, GetTimeTypeCorrect, ClockBounded, PTL

-----------------------------------------------------------------------------------
(* TimerlibPosix.                                                          *)

\* The handler has been through timerlib_notify_ready, and has signalled it.
past_ready == {"ready_unlock", "sigwait", "check", "notify", "exited"}

\* Where main is while timer->thread_valid is set, and where it is not any more.
threaded == {"lock", "check", "wait", "cond_wait", "timer_create", "live"}
unthreaded == {"kill", "join", "delete", "absent"}

\* The fields of timerlib_timer_t follow the progress of the two threads: tid is
\* written before ready is set, ready is set before the kernel timer is created, killed
\* is set once thread_valid is cleared.
FieldsInv ==
  /\ (main \in threaded => thread_valid) /\ (main \in unthreaded => ~thread_valid)
  /\ timer_valid => tid /\ main \in {"live", "kill", "join", "delete"}
  /\ main = "live" => timer_valid
  /\ main = "timer_create" => ready
  /\ handler \in past_ready => ready
  /\ ready \/ handler = "ready_lock" => tid
  /\ killed => main \in unthreaded
  /\ handler = "exited" => killed
  /\ thread_valid => handler # "none"

\* Who holds ready_mutex.  After pthread_cond_wait failed it stays with main, and the
\* handler never gets past timerlib_notify_ready.
MutexInv ==
  /\ ready_mutex = "handler" <=> handler = "ready_unlock"
  /\ main \in {"check", "wait"} => ready_mutex = "main"
  /\ main = "wait" => ~ready
  /\ ready_mutex = "main" =>
       \/ main = "check"
       \/ ~ready /\ handler \in {"start", "ready_lock"}

\* Expirations are pending only for a kernel timer that exists, and a thread that was
\* joined has none.
PendingInv ==
  /\ armed # "off" => timer_valid
  /\ handler \notin {"check", "notify", "exited"} => si = 0
  /\ ~timer_valid \/ handler = "none" => (owed = 0 /\ si = 0) \/ "pthread_kill" \in faults

\* When there is no handler, or main does not expect one.
HandlerInv ==
  /\ handler = "none" => main \in {"absent", "failed", "delete"}
  /\ main = "failed" /\ ~thread_valid => handler = "none"
  /\ main \in {"absent", "delete"} => handler = "none" \/ "pthread_kill" \in faults

\* The invariant that NothingLeft and the refinement rest on.
PosixInv == TypeOK /\ FieldsInv /\ MutexInv /\ PendingInv /\ HandlerInv

\* Init establishes the invariant: nothing exists before timerlib_timer_init.
LEMMA InitPosix == Init => PosixInv
<1> SUFFICES ASSUME Init PROVE PosixInv
  OBVIOUS
<1> USE DEF Init
<1>1. TypeOK
  BY Zenon DEF TypeOK
<1>2. FieldsInv
  BY DEF FieldsInv, past_ready, threaded, unthreaded
<1>3. MutexInv
  BY DEF MutexInv
<1>4. PendingInv
  BY DEF PendingInv
<1>5. HandlerInv
  BY DEF HandlerInv
<1>q. QED
  BY <1>1, <1>2, <1>3, <1>4, <1>5 DEF PosixInv

\* The invariant is inductive: every step of the two threads, of the kernel and of other
\* senders of the signal keeps it.
LEMMA NextPosix == PosixInv /\ [Next]_vars => PosixInv'
<1> SUFFICES ASSUME PosixInv, [Next]_vars PROVE PosixInv'
  OBVIOUS
<1> USE DEF PosixInv, TypeOK, FieldsInv, MutexInv, PendingInv, HandlerInv, past_ready,
            threaded, unthreaded, fieldVars, readyVars, kernelVars
<1>1. CASE init_thread
  BY <1>1, Zenon DEF init_thread
<1>2. CASE init_lock
  BY <1>2, ZenonT(40) DEF init_lock
<1>3. CASE init_check
  BY <1>3 DEF init_check
<1>4. CASE init_wait
  BY <1>4, Zenon DEF init_wait
<1>5. CASE init_wakeup
  BY <1>5 DEF init_wakeup
<1>6. CASE spurious_wakeup
  BY <1>6 DEF spurious_wakeup
<1>7. CASE init_timer
  <2>1. CASE timer_valid' = TRUE /\ main' = "live"
    BY <1>7, <2>1, Zenon DEF init_timer
  <2>2. CASE main' = "failed" /\ UNCHANGED timer_valid
    BY <1>7, <2>2 DEF init_timer
  <2>q. QED
    BY <1>7, <2>1, <2>2, Zenon DEF init_timer
<1>8. ASSUME NEW m \in {"off", "oneshot", "periodic"}, settime(m) PROVE PosixInv'
  <2>1. TypeOK'
    BY <1>8 DEF settime
  <2>2. FieldsInv' /\ MutexInv'
    BY <1>8, ZenonT(40) DEF settime
  <2>3. PendingInv' /\ HandlerInv'
    BY <1>8, Zenon DEF settime
  <2>q. QED
    BY <2>1, <2>2, <2>3, Zenon
<1>9. CASE timerlib_timer_start \/ timerlib_timer_stop
  BY <1>8, <1>9, Zenon DEF timerlib_timer_start, timerlib_timer_stop
<1>10. CASE timerlib_timer_destroy
  BY <1>10, ZenonT(40) DEF timerlib_timer_destroy
<1>11. CASE graceful_exit
  <2>1. TypeOK'
    BY <1>11, ZenonT(40) DEF graceful_exit
  <2>2. FieldsInv' /\ MutexInv'
    BY <1>11, Zenon DEF graceful_exit
  <2>3. PendingInv' /\ HandlerInv'
    BY <1>11, ZenonT(40) DEF graceful_exit
  <2>q. QED
    BY <2>1, <2>2, <2>3, Zenon
<1>12. CASE timerlib_join
  BY <1>12 DEF timerlib_join
<1>13. CASE destroy_delete
  BY <1>13, Zenon DEF destroy_delete
<1>14. CASE thread_start
  <2>1. TypeOK'
    BY <1>14, ZenonT(40) DEF thread_start
  <2>2. FieldsInv' /\ MutexInv'
    BY <1>14, ZenonT(40) DEF thread_start
  <2>3. PendingInv' /\ HandlerInv'
    BY <1>14, ZenonT(40) DEF thread_start
  <2>q. QED
    BY <2>1, <2>2, <2>3, Zenon
<1>15. CASE notify_ready
  BY <1>15 DEF notify_ready
<1>16. CASE notify_ready_unlock
  BY <1>16 DEF notify_ready_unlock
<1>17. CASE sigwaitinfo
  BY <1>17, ZenonT(40) DEF sigwaitinfo
<1>18. CASE thread_check
  BY <1>18 DEF thread_check
<1>19. CASE notify_return
  BY <1>19 DEF notify_return
<1>20. CASE expire
  <2>0. owed' \in Nat
    BY <1>20 DEF expire
  <2>1. TypeOK'
    BY <1>20, <2>0, ZenonT(40) DEF expire
  <2>2. FieldsInv' /\ MutexInv'
    BY <1>20, ZenonT(40) DEF expire
  <2>3. PendingInv' /\ HandlerInv'
    BY <1>20, ZenonT(40) DEF expire
  <2>q. QED
    BY <2>1, <2>2, <2>3, Zenon
<1>21. CASE foreign_signal
  <2>1. TypeOK'
    BY <1>21 DEF foreign_signal
  <2>2. FieldsInv' /\ MutexInv' /\ PendingInv' /\ HandlerInv'
    BY <1>21, ZenonT(40) DEF foreign_signal
  <2>q. QED
    BY <2>1, <2>2, Zenon
<1>22. CASE UNCHANGED vars
  <2>1. /\ main' = main /\ handler' = handler /\ ready' = ready /\ killed' = killed /\ tid' = tid
        /\ thread_valid' = thread_valid /\ timer_valid' = timer_valid
        /\ ready_mutex' = ready_mutex /\ woken' = woken
        /\ armed' = armed /\ owed' = owed /\ si' = si /\ signals' = signals /\ faults' = faults
    BY <1>22, Zenon DEF vars
  <2>2. TypeOK'
    BY <2>1, ZenonT(40)
  <2>3. FieldsInv'
    <3>1. FieldsInv
      BY Zenon
    <3> HIDE DEF PosixInv, TypeOK, MutexInv, PendingInv, HandlerInv
    <3>q. QED
      BY <2>1, <3>1, SMT
  <2>4. MutexInv' /\ PendingInv' /\ HandlerInv'
    BY <2>1, ZenonT(40)
  <2>q. QED
    BY <2>2, <2>3, <2>4, Zenon
<1>q. QED
  BY <1>1, <1>2, <1>3, <1>4, <1>5, <1>6, <1>7, <1>9, <1>10, <1>11, <1>12, <1>13, <1>14,
     <1>15, <1>16, <1>17, <1>18, <1>19, <1>20, <1>21, <1>22, Zenon
     DEF Next, InitNext, DestroyNext, HandlerNext

\* PosixInv holds in every reachable state.
LEMMA PosixInvariant == Spec => []PosixInv
  BY InitPosix, NextPosix, PTL DEF Spec

\* timerlib_timer_destroy leaves nothing of a timer behind, however far timerlib_timer_init
\* came: no thread, no kernel timer, no locked mutex; and the kernel timer is only ever
\* created for a thread whose id has been written.  It rests on PosixInv: that destroy
\* finds the thread to join, or none, follows from the order in which the fields are set.
THEOREM DestroyLeavesNothing == Spec => []NothingLeft
<1>1. PosixInv => NothingLeft
  BY DEF PosixInv, NothingLeft, FieldsInv, MutexInv, PendingInv, HandlerInv, threaded,
         unthreaded, TypeOK
<1>q. QED
  BY <1>1, PosixInvariant, PTL

-----------------------------------------------------------------------------------
(* timerlib_posix.c implements the promise of timerlib.h.                  *)

\* An interval has its end.
LEMMA WholeInterval == \A n \in Nat : n \in 0 .. n
  OBVIOUS

\* Once a call has failed that timerlib.h does not speak of, nothing is promised.
LEMMA PosixBroken == faults' # {} => Promise!OtherNext
  BY DEF Promise!OtherNext, Promise!fail, promised_state

\* A step of the promise in which only the client sets the timer.
PosixKept ==
  \/ (timerlib_timer_start \/ timerlib_timer_stop) /\ Promise!SetNext
  \/ Promise!OtherNext

\* Every step of timerlib_posix.c is such a step or changes nothing of the promise.
LEMMA PosixStep == PosixInv /\ [Next]_vars => [PosixKept]_Promise!vars
<1> SUFFICES ASSUME PosixInv, [Next]_vars, faults' = {} PROVE [PosixKept]_Promise!vars
  BY PosixBroken DEF PosixKept
<1> USE DEF PosixInv, TypeOK, FieldsInv, MutexInv, PendingInv, HandlerInv, past_ready,
            threaded, unthreaded, fieldVars, readyVars, kernelVars, promised_state
<1>1. CASE init_thread
  BY <1>1, Zenon DEF init_thread, not_notified, Promise!vars
<1>2. CASE init_lock
  BY <1>2, Zenon DEF init_lock, not_notified, Promise!vars
<1>3. CASE init_check
  BY <1>3, Zenon DEF init_check, not_notified, Promise!vars
<1>4. CASE init_wait
  BY <1>4, Zenon DEF init_wait, not_notified, Promise!vars
<1>5. CASE init_wakeup
  BY <1>5, Zenon DEF init_wakeup, not_notified, Promise!vars
<1>6. CASE spurious_wakeup
  BY <1>6, Zenon DEF spurious_wakeup, not_notified, Promise!vars
<1>7. CASE graceful_exit
  BY <1>7, Zenon DEF graceful_exit, not_notified, Promise!vars
<1>8. CASE thread_start
  BY <1>8, Zenon DEF thread_start, not_notified, Promise!vars
<1>9. CASE notify_ready
  BY <1>9, Zenon DEF notify_ready, not_notified, Promise!vars
<1>10. CASE notify_ready_unlock
  BY <1>10, Zenon DEF notify_ready_unlock, not_notified, Promise!vars
<1>11. CASE sigwaitinfo
  <2>1. handler' = "check" /\ not_notified' = owed' + si' /\ not_notified = owed
    BY <1>11, Zenon DEF sigwaitinfo, not_notified
  <2>2. owed' + si' = owed
    BY <1>11 DEF sigwaitinfo
  <2>3. promised_state' = promised_state
    BY <1>11, Zenon DEF sigwaitinfo
  <2>q. QED
    BY <1>11, <2>1, <2>2, <2>3, Zenon DEF sigwaitinfo, Promise!vars
<1>12. CASE foreign_signal
  BY <1>12, Zenon DEF foreign_signal, not_notified, Promise!vars
<1>13. ASSUME NEW m \in {"off", "oneshot", "periodic"}, settime(m) PROVE Promise!settime(m)
  <2>1. promised_state = "live" /\ promised_state' = "live"
    BY <1>13, Zenon DEF settime
  <2>2. not_notified' \in 0 .. not_notified
    <3>1. handler' = handler /\ si' = si /\ owed' \in {0, owed} /\ owed \in Nat /\ si \in Nat
      BY <1>13 DEF settime
    <3>2. owed' \in Nat /\ owed' <= owed
      BY <3>1
    <3>3. not_notified \in Nat /\ not_notified' \in Nat /\ not_notified' <= not_notified
      <4>1. CASE handler = "check"
        <5>1. not_notified = owed + si /\ not_notified' = owed' + si
          BY <3>1, <4>1, Zenon DEF not_notified
        <5>2. ASSUME NEW a \in Nat, NEW b \in Nat, NEW c \in Nat, b <= a
              PROVE a + c \in Nat /\ b + c \in Nat /\ b + c <= a + c
          BY <5>2
        <5>q. QED
          BY <3>1, <3>2, <5>1, <5>2, Zenon
      <4>2. CASE handler # "check"
        <5>1. not_notified = owed /\ not_notified' = owed'
          BY <3>1, <4>2 DEF not_notified
        <5>q. QED
          BY <3>1, <3>2, <5>1, Zenon
      <4>q. QED
        BY <4>1, <4>2
    <3>q. QED
      BY <3>3
  <2>q. QED
    BY <1>13, <2>1, <2>2 DEF settime, Promise!settime
<1>14. CASE init_timer
  <2>1. CASE timer_valid' = TRUE /\ main' = "live"
    <3>1. Promise!timer_init
      BY <1>14, <2>1, Zenon DEF init_timer, Promise!timer_init, not_notified
    <3>q. QED
      BY <3>1 DEF PosixKept, Promise!OtherNext
  <2>2. CASE main' = "failed" /\ UNCHANGED timer_valid
    BY <1>14, <2>2, Zenon DEF init_timer, not_notified, Promise!vars
  <2>q. QED
    BY <1>14, <2>1, <2>2, Zenon DEF init_timer
<1>15. CASE timerlib_timer_destroy
  <2>1. not_notified' = not_notified /\ not_notified \in Nat
    BY <1>15 DEF timerlib_timer_destroy, not_notified
  <2>2. CASE main = "live"
    <3>1. promised_state = "live" /\ promised_state' = "closing"
      BY <1>15, <2>2, Zenon DEF timerlib_timer_destroy
    <3>2. not_notified' \in 0 .. not_notified
      BY <2>1, WholeInterval, Zenon
    <3>3. Promise!destroy
      BY <1>15, <3>1, <3>2 DEF timerlib_timer_destroy, Promise!destroy
    <3>q. QED
      BY <3>3 DEF PosixKept, Promise!OtherNext
  <2>3. CASE main = "failed"
    BY <1>15, <2>1, <2>3, Zenon DEF timerlib_timer_destroy, Promise!vars
  <2>q. QED
    BY <1>15, <2>2, <2>3, ZenonT(40) DEF timerlib_timer_destroy
<1>16. CASE timerlib_join
  <2>1. not_notified' = 0 /\ not_notified = owed
    BY <1>16 DEF timerlib_join, not_notified
  <2>2. CASE timer_valid
    <3>1. promised_state = "closing" /\ promised_state' = "closing"
      BY <1>16, <2>2, Zenon DEF timerlib_join
    <3>2. not_notified' \in 0 .. not_notified
      BY <2>1
    <3>3. Promise!destroy
      BY <1>16, <3>1, <3>2, Zenon DEF timerlib_join, Promise!destroy
    <3>q. QED
      BY <3>3 DEF PosixKept, Promise!OtherNext
  <2>3. CASE ~timer_valid
    BY <1>16, <2>1, <2>3, Zenon DEF timerlib_join, Promise!vars
  <2>q. QED
    BY <2>2, <2>3, Zenon
<1>17. CASE destroy_delete
  <2>1. handler = "none" /\ not_notified = 0 /\ not_notified' = 0
    BY <1>17, Zenon DEF destroy_delete, not_notified
  <2>2. CASE timer_valid
    <3>1. Promise!destroy_return
      BY <1>17, <2>1, <2>2, Zenon DEF destroy_delete, Promise!destroy_return
    <3>q. QED
      BY <3>1 DEF PosixKept, Promise!OtherNext
  <2>3. CASE ~timer_valid
    BY <1>17, <2>1, <2>3, Zenon DEF destroy_delete, Promise!vars
  <2>q. QED
    BY <2>2, <2>3
<1>18. CASE thread_check
  <2>1. not_notified = owed + si /\ not_notified' = owed
    BY <1>18 DEF thread_check, not_notified
  <2>2. promised_state' = promised_state
    BY <1>18, ZenonT(40) DEF thread_check
  <2>3. CASE si = 0
    BY <1>18, <2>1, <2>2, <2>3 DEF thread_check, Promise!vars
  <2>4. si > 0 => faults = {} /\ timer_valid
    <3>1. faults = {} /\ "pthread_kill" \notin faults
      BY <1>18 DEF thread_check
    <3>q. QED
      BY <3>1
  <2>5. si > 0 => promised_state # "none"
    BY <2>4
  <2>6. CASE si > 0 /\ killed
    <3>1. promised_state = "closing"
      BY <1>18, <2>6, <2>4, Zenon DEF thread_check
    <3>2. not_notified' \in 0 .. not_notified
      BY <2>1
    <3>3. Promise!destroy
      BY <1>18, <2>2, <2>6, <3>1, <3>2, Zenon DEF thread_check, Promise!destroy
    <3>q. QED
      BY <3>3 DEF PosixKept, Promise!OtherNext
  <2>7. CASE si > 0 /\ ~killed
    <3>1. si \in 1 .. not_notified /\ not_notified' = not_notified - si
      BY <2>1, <2>7
    <3>2. \E n \in 1 .. not_notified : not_notified' = not_notified - n
      BY <3>1, Zenon
    <3>3. Promise!notify
      BY <1>18, <2>2, <2>7, <2>5, <3>2, Zenon DEF thread_check, Promise!notify
    <3>q. QED
      BY <3>3, Zenon DEF PosixKept, Promise!OtherNext
  <2>8. si = 0 \/ si > 0
    BY <2>1
  <2>q. QED
    BY <2>3, <2>6, <2>7, <2>8, Zenon
<1>19. CASE notify_return
  <2>1. Promise!return
    BY <1>19, Zenon DEF notify_return, Promise!return, not_notified
  <2>q. QED
    BY <2>1 DEF PosixKept, Promise!OtherNext
<1>20. CASE expire
  <2>1. not_notified' = not_notified + 1
    BY <1>20 DEF expire, not_notified
  <2>2. Promise!expire
    BY <1>20, <2>1, Zenon DEF expire, Promise!expire
  <2>q. QED
    BY <2>2 DEF PosixKept, Promise!OtherNext
<1>21. CASE UNCHANGED vars
  BY <1>21, Zenon DEF vars, not_notified, Promise!vars
<1>22. CASE timerlib_timer_start \/ timerlib_timer_stop
  <2>1. Promise!SetNext
    BY <1>13, <1>22, Zenon DEF timerlib_timer_start, timerlib_timer_stop, Promise!SetNext,
       Promise!timer_start, Promise!timer_stop
  <2>q. QED
    BY <1>22, <2>1, Zenon DEF PosixKept
<1>q. QED
  BY <1>1, <1>2, <1>3, <1>4, <1>5, <1>6, <1>7, <1>8, <1>9, <1>10, <1>11, <1>12,
     <1>14, <1>15, <1>16, <1>17, <1>18, <1>19, <1>20, <1>21, <1>22, Zenon
     DEF Next, InitNext, DestroyNext, HandlerNext

\* timerlib_posix.c implements Timerlib, on which excimer_timer.c relies: expirations are
\* reported and none is made up or reported twice, none is lost unless the client starts,
\* stops or destroys the timer, calls of notify_function do not overlap, destroy waits for
\* one that is executing and none follows it.
THEOREM PosixKeepsPromise == Spec => ImplementsTimerlib
<1>1. Init => Promise!Init
  BY DEF Init, Promise!Init, promised_state, not_notified
<1>2. [PosixKept]_Promise!vars =>
        /\ [Promise!Next]_Promise!vars
        /\ [timerlib_timer_start \/ timerlib_timer_stop \/ Promise!OtherNext]_Promise!vars
  BY Zenon DEF PosixKept, Promise!Next
<1>q. QED
  BY <1>1, <1>2, PosixStep, PosixInvariant, PTL DEF Spec, Promise!Spec, ImplementsTimerlib
===================================================================================
