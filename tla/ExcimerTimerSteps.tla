---------------------------- MODULE ExcimerTimerSteps ------------------------------
(***************************************************************************)
(* Lemmas for ExcimerTimerProofs: what the operators of QueueOps do to the *)
(* timers of a queue, and what the steps of ExcimerTimer keep of its types *)
(* and of the parts of its inductive invariant.                            *)
(***************************************************************************)
EXTENDS ExcimerTimer, TLAPS


\* A queue of length 0, and only that, has no elements.
LEMMA ElementsEmpty ==
  ASSUME NEW S, NEW q \in Seq(S)
  PROVE  Elements(q) = {} <=> q = <<>>
<1>1. CASE q = <<>>
  BY <1>1 DEF Elements
<1>2. CASE q # <<>>
  <2>1. 1 \in 1..Len(q)
    BY <1>2
  <2> QED
    BY <1>2, <2>1 DEF Elements
<1> QED
  BY <1>1, <1>2

\* The elements of a queue of timers are timers.
LEMMA ElementsType ==
  ASSUME NEW S, NEW q \in Seq(S)
  PROVE  Elements(q) \subseteq S
  BY DEF Elements

\* Enqueueing adds the timer and nothing else, and no second occurrence.
LEMMA EnqueueElements ==
  ASSUME NEW S, NEW q \in Seq(S), NEW t \in S
  PROVE  /\ list_enqueue(q, t) \in Seq(S)
         /\ Elements(list_enqueue(q, t)) = Elements(q) \cup {t}
         /\ NoDuplicates(q) => NoDuplicates(list_enqueue(q, t))
<1>1. CASE t \in Elements(q)
  BY <1>1 DEF list_enqueue
<1>2. CASE t \notin Elements(q)
  <2>1. list_enqueue(q, t) = Append(q, t) /\ Append(q, t) \in Seq(S)
    BY <1>2 DEF list_enqueue
  <2>2. Elements(Append(q, t)) = Elements(q) \cup {t}
    <3>1. \A i \in 1..Len(q) : Append(q, t)[i] = q[i]
      OBVIOUS
    <3>2. Len(Append(q, t)) = Len(q) + 1 /\ Append(q, t)[Len(q) + 1] = t
      OBVIOUS
    <3> QED
      BY <3>1, <3>2 DEF Elements
  <2>3. ASSUME NoDuplicates(q) PROVE NoDuplicates(Append(q, t))
    BY <1>2, <2>3 DEF NoDuplicates, Elements
  <2> QED
    BY <2>1, <2>2, <2>3
<1> QED
  BY <1>1, <1>2

\* Dequeueing removes the head and nothing else.
LEMMA DequeueElements ==
  ASSUME NEW S, NEW q \in Seq(S), q # <<>>
  PROVE  /\ Head(q) \in Elements(q)
         /\ Tail(q) \in Seq(S)
         /\ Elements(q) = Elements(Tail(q)) \cup {Head(q)}
         /\ NoDuplicates(q) => Head(q) \notin Elements(Tail(q)) /\ NoDuplicates(Tail(q))
<1>1. Len(q) \in Nat /\ Len(q) > 0 /\ Head(q) = q[1]
  OBVIOUS
<1>2. Tail(q) \in Seq(S) /\ Len(Tail(q)) = Len(q) - 1
  OBVIOUS
<1>3. \A i \in 1..Len(Tail(q)) : Tail(q)[i] = q[i + 1]
  OBVIOUS
<1>4. Elements(q) = Elements(Tail(q)) \cup {Head(q)}
  <2>1. ASSUME NEW i \in 1..Len(q) PROVE q[i] \in Elements(Tail(q)) \cup {Head(q)}
    <3>1. CASE i = 1
      BY <1>1, <3>1
    <3>2. CASE i # 1
      <4>1. i - 1 \in 1..Len(Tail(q)) /\ Tail(q)[i - 1] = q[i]
        BY <1>1, <1>2, <1>3, <3>2
      <4> QED
        BY <4>1 DEF Elements
    <3> QED
      BY <3>1, <3>2
  <2>2. ASSUME NEW i \in 1..Len(Tail(q)) PROVE Tail(q)[i] \in Elements(q)
    BY <1>1, <1>2, <1>3 DEF Elements
  <2>3. Head(q) \in Elements(q)
    BY <1>1 DEF Elements
  <2> QED
    BY <2>1, <2>2, <2>3 DEF Elements
<1>5. ASSUME NoDuplicates(q)
      PROVE  Head(q) \notin Elements(Tail(q)) /\ NoDuplicates(Tail(q))
  BY <1>1, <1>2, <1>3, <1>5 DEF NoDuplicates, Elements
<1> QED
  BY <1>2, <1>4, <1>5

\* Removing a timer from a queue of timers leaves one.
LEMMA RemoveType ==
  ASSUME NEW S, NEW q \in Seq(S), NEW t
  PROVE  list_remove(q, t) \in Seq(S)
<1>1. CASE t \notin Elements(q)
  BY <1>1 DEF list_remove
<1>2. CASE t \in Elements(q)
  <2>1. ASSUME NEW k \in 1..Len(q) PROVE DropAt(q, k) \in Seq(S)
    BY <2>1 DEF DropAt
  <2>2. (CHOOSE i \in 1..Len(q) : q[i] = t) \in 1..Len(q)
    BY <1>2 DEF Elements
  <2> QED
    BY <1>2, <2>1, <2>2 DEF list_remove
<1> QED
  BY <1>1, <1>2

\* Removing takes the timer out and nothing else.
LEMMA RemoveElements ==
  ASSUME NEW S, NEW q \in Seq(S), NEW t, NoDuplicates(q)
  PROVE  /\ list_remove(q, t) \in Seq(S)
         /\ Elements(list_remove(q, t)) = Elements(q) \ {t}
         /\ NoDuplicates(list_remove(q, t))
<1>1. CASE t \notin Elements(q)
  BY <1>1 DEF list_remove
<1>2. CASE t \in Elements(q)
  <2> DEFINE k == CHOOSE i \in 1..Len(q) : q[i] = t
             r == DropAt(q, k)
  <2>1. k \in 1..Len(q) /\ q[k] = t
    BY <1>2 DEF Elements
  <2>2. list_remove(q, t) = r
    BY <1>2 DEF list_remove
  <2> HIDE DEF k
  <2>3. Len(q) \in Nat /\ Len(q) - 1 \in Nat
    BY <2>1
  <2>4. r \in Seq(S) /\ Len(r) = Len(q) - 1
    BY <2>1, <2>3 DEF DropAt
  <2>5. \A i \in 1..Len(r) : r[i] = IF i < k THEN q[i] ELSE q[i + 1]
    BY <2>4, Zenon DEF DropAt
  <2> HIDE DEF r
  <2>6. \A i \in 1..Len(q) : q[i] = t => i = k
    BY <2>1 DEF NoDuplicates
  <2>7. Elements(r) = Elements(q) \ {t}
    <3>1. ASSUME NEW i \in 1..Len(r) PROVE r[i] \in Elements(q) /\ r[i] # t
      BY <2>1, <2>3, <2>4, <2>5, <2>6 DEF Elements
    <3>2. ASSUME NEW i \in 1..Len(q), q[i] # t PROVE q[i] \in Elements(r)
      <4>1. CASE i < k
        BY <2>1, <2>3, <2>4, <2>5, <4>1 DEF Elements
      <4>2. CASE i > k
        <5>1. i - 1 \in 1..Len(r) /\ r[i - 1] = q[i]
          BY <2>1, <2>3, <2>4, <2>5, <4>2
        <5> QED
          BY <5>1 DEF Elements
      <4> QED
        BY <2>1, <3>2, <4>1, <4>2
    <3> QED
      BY <3>1, <3>2, Zenon DEF Elements
  <2>8. NoDuplicates(r)
    BY <2>1, <2>3, <2>4, <2>5 DEF NoDuplicates
  <2> QED
    BY <2>2, <2>4, <2>7, <2>8
<1> QED
  BY <1>1, <1>2

-----------------------------------------------------------------------------------
(* The types.                                                              *)

\* Main sees its own excimer_timer_tls in both builds, and a handler sees some
\* thread's.
LEMMA TlsFacts ==
  /\ tls(Main) = Main
  /\ \A t \in Timers : tls(t) \in Threads
  /\ Main \in Threads
  /\ Timers \subseteq Threads
  BY DEF tls, Threads

\* The threads are told apart.
LEMMA ThreadFacts == Main \notin Timers /\ None \notin Threads
  BY ConstantsAssumption DEF Threads

\* The empty list.
LEMMA EmptyFacts == NoDuplicates(<<>>) /\ Elements(<<>>) = {}
  BY DEF NoDuplicates, Elements

\* The types hold initially.
LEMMA TypeInit == Init => TypeOK /\ MainInv
  BY ConstantsAssumption DEF Init, TypeOK, MainInv

\* Every step keeps the types.
LEMMA TypeStep == TypeOK /\ MainInv /\ [Next]_vars => TypeOK' /\ MainInv'
<1> SUFFICES ASSUME TypeOK, MainInv, [Next]_vars PROVE TypeOK' /\ MainInv'
  OBVIOUS
<1> USE DEF TypeOK, MainInv, timerVars, tlsVars, kernelVars, handlerVars, mainVars
<1>1. ASSUME NEW t \in Timers, expire(t) PROVE TypeOK' /\ MainInv'
  <2>1. owed' \in [Timers -> Nat] /\ debt' \in [Timers -> Int]
    <3>1. owed \in [Timers -> Nat] /\ debt \in [Timers -> Int]
      BY Zenon
    <3>2. owed' = [owed EXCEPT ![t] = @ + 1] /\ debt' = [debt EXCEPT ![t] = @ + 1]
      BY <1>1, Zenon DEF expire
    <3> HIDE DEF TypeOK, MainInv
    <3> QED
      BY <3>1, <3>2
  <2>2. armed' \in [Timers -> {"off", "oneshot", "periodic"}]
    BY <1>1 DEF expire
  <2> QED
    BY <1>1, <2>1, <2>2, Zenon DEF expire
<1>2. ASSUME NEW t \in Timers, notify(t) PROVE TypeOK' /\ MainInv'
  <2>1. PICK n \in 1..owed[t] :
           /\ overrun' = [overrun EXCEPT ![t] = IF n - 1 > INT_MAX THEN INT_MAX ELSE n - 1]
           /\ owed' = [owed EXCEPT ![t] = @ - n]
    BY <1>2, Zenon DEF notify
  <2>2. owed' \in [Timers -> Nat]
    BY <2>1
  <2>3. overrun' \in [Timers -> Nat]
    BY <2>1, ConstantsAssumption
  <2> QED
    BY <1>2, <2>2, <2>3, Zenon DEF notify
<1>3. ASSUME NEW t \in Timers, handle_count(t) PROVE TypeOK' /\ MainInv'
  <2>1. PICK n \in IntSum(overrun[t] + 1) : event_count' = [event_count EXCEPT ![t] = @ + n]
    BY <1>3, Zenon DEF handle_count
  <2>2. n \in Int
    BY ConstantsAssumption DEF IntSum
  <2>3. event_count' \in [Timers -> Int]
    BY <2>1, <2>2
  <2>4. mutex' \in [Threads -> Threads \cup {None}]
    BY <1>3, TlsFacts DEF handle_count, mutex_lock
  <2> QED
    BY <1>3, <2>3, <2>4, Zenon DEF handle_count
<1>4. ASSUME NEW t \in Timers, handle_enqueue(t) PROVE TypeOK' /\ MainInv'
  <2>1. list_enqueue(pending[tls(t)], t) \in Seq(Timers)
    BY TlsFacts, EnqueueElements
  <2> QED
    BY <1>4, <2>1, Zenon DEF handle_enqueue, mutex_unlock
<1>5. ASSUME NEW t \in Timers, handle_store(t) PROVE TypeOK' /\ MainInv'
  BY <1>5 DEF handle_store
<1>6. CASE vm_check
  BY <1>6 DEF vm_check
<1>7. CASE pending_dequeue
  <2>1. Head(pending[Main]) \in Timers /\ Tail(pending[Main]) \in Seq(Timers)
    BY <1>7, TlsFacts, DequeueElements, ElementsType DEF pending_dequeue
  <2> QED
    BY <1>7, <2>1, TlsFacts, Zenon DEF pending_dequeue, mutex_lock
<1>8. CASE callback
  <2>1. debt' \in [Timers -> Int] /\ event_count' \in [Timers -> Int]
    BY <1>8 DEF callback
  <2>2. mutex' \in [Threads -> Threads \cup {None}]
    BY <1>8, Zenon DEF callback, mutex_unlock
  <2> QED
    BY <1>8, <2>1, <2>2 DEF callback
<1>9. CASE callback_return
  BY <1>9 DEF callback_return
<1>10. CASE interrupt_return
  BY <1>10 DEF interrupt_return
<1>11. CASE bailout
  BY <1>11 DEF bailout
<1>12. ASSUME NEW t \in Timers, timer_init(t) PROVE TypeOK' /\ MainInv'
  <2>1. event_count' \in [Timers -> Int]
    BY <1>12 DEF timer_init, zero_struct
  <2>2. timers_active' \in Int
    BY <1>12 DEF timer_init
  <2>3. is_valid' \in [Timers -> BOOLEAN]
    BY <1>12, Zenon DEF timer_init
  <2>4. handler' \in [Timers -> {"none", "wait", "handle", "enqueue", "store"}]
    BY <1>12, Zenon DEF timer_init
  <2> QED
    BY <1>12, <2>1, <2>2, <2>3, <2>4, Zenon DEF timer_init
<1>13. ASSUME NEW t \in Timers, timer_start(t) PROVE TypeOK' /\ MainInv'
  BY <1>13 DEF timer_start, settime
<1>14. ASSUME NEW t \in Timers, timer_stop(t) PROVE TypeOK' /\ MainInv'
  BY <1>14 DEF timer_stop, settime
<1>15. ASSUME NEW t \in Timers, timer_destroy(t) PROVE TypeOK' /\ MainInv'
  <2>1. is_running' \in [Timers -> BOOLEAN]
    BY <1>15 DEF timer_destroy
  <2>2. armed' \in [Timers -> {"off", "oneshot", "periodic"}]
    BY <1>15, Zenon DEF timer_destroy, settime
  <2>3. owed' \in [Timers -> Nat] /\ debt' \in [Timers -> Int]
    <3>1. CASE settime(t, "off")
      <4>1. owed \in [Timers -> Nat] /\ debt \in [Timers -> Int]
        BY Zenon
      <4> HIDE DEF TypeOK, MainInv
      <4> QED
        BY <3>1, <4>1 DEF settime
    <3>2. CASE UNCHANGED <<kernelVars, debt>>
      BY <3>2, Zenon
    <3> QED
      BY <1>15, <3>1, <3>2 DEF timer_destroy
  <2> QED
    BY <1>15, <2>1, <2>2, <2>3, Zenon DEF timer_destroy
<1>16. CASE destroy_join
  <2>1. handler' \in [Timers -> {"none", "wait", "handle", "enqueue", "store"}]
    BY <1>16 DEF destroy_join
  <2>2. owed' \in [Timers -> Nat] /\ debt' \in [Timers -> Int] /\ timers_active' \in Int
    <3>1. /\ owed \in [Timers -> Nat] /\ debt \in [Timers -> Int] /\ timers_active \in Int
          /\ cur \in Timers
      BY <1>16, Zenon DEF destroy_join
    <3>2. /\ owed' = [owed EXCEPT ![cur] = 0] /\ debt' = [debt EXCEPT ![cur] = @ - owed[cur]]
          /\ timers_active' = timers_active - 1
      BY <1>16, Zenon DEF destroy_join, timers_active_decrement
    <3> HIDE DEF TypeOK, MainInv
    <3> QED
      BY <3>1, <3>2
  <2>3. <<>> \in Seq(Timers)
    OBVIOUS
  <2>4. pending' \in [Threads -> Seq(Timers)]
    BY <1>16, <2>3, Zenon DEF destroy_join
  <2> QED
    BY <1>16, <2>1, <2>2, <2>4, Zenon DEF destroy_join
<1>17. CASE destroy_remove
  <2>1. list_remove(pending[Main], cur) \in Seq(Timers)
    BY TlsFacts, RemoveType
  <2>2. pending' \in [Threads -> Seq(Timers)]
    BY <1>17, <2>1, TlsFacts DEF destroy_remove
  <2>3. debt' \in [Timers -> Int] /\ is_valid' \in [Timers -> BOOLEAN]
    BY <1>17 DEF destroy_remove
  <2> QED
    BY <1>17, <2>1, <2>2, <2>3, Zenon DEF destroy_remove
<1>18. CASE thread_shutdown
  BY <1>18 DEF thread_shutdown
<1>19. CASE thread_init
  <2>1. <<>> \in Seq(Timers)
    OBVIOUS
  <2>2. pending' \in [Threads -> Seq(Timers)]
    BY <1>19, <2>1, Zenon DEF thread_init
  <2>3. mutex' \in [Threads -> Threads \cup {None}]
    BY <1>19, Zenon DEF thread_init
  <2> QED
    BY <1>19, <2>2, <2>3 DEF thread_init
<1>20. CASE UNCHANGED vars
  BY <1>20, Zenon DEF vars
<1> QED
  BY <1>1, <1>2, <1>3, <1>4, <1>5, <1>6, <1>7, <1>8, <1>9, <1>10, <1>11, <1>12, <1>13,
     <1>14, <1>15, <1>16, <1>17, <1>18, <1>19, <1>20, Zenon
     DEF Next, HandlerNext, InterruptNext, OperationNext

-----------------------------------------------------------------------------------
(* The wakeup protocol.                                                    *)

\* A handler that enqueues a timer has yet to raise vm_interrupt, and an interrupt
\* that has cleared vm_interrupt goes on until the list is empty.
LEMMA WakeupStep == TypeOK /\ LifeInv /\ NoLostWakeup /\ [Next]_vars => NoLostWakeup'
<1> SUFFICES ASSUME TypeOK, LifeInv, NoLostWakeup, [Next]_vars PROVE NoLostWakeup'
  OBVIOUS
<1> USE DEF NoLostWakeup, timerVars, tlsVars, kernelVars, handlerVars, mainVars
<1>1. ASSUME NEW t \in Timers, expire(t) PROVE NoLostWakeup'
  BY <1>1 DEF expire
<1>2. ASSUME NEW t \in Timers, notify(t) PROVE NoLostWakeup'
  BY <1>2 DEF notify, TypeOK
<1>3. ASSUME NEW t \in Timers, handle_count(t) PROVE NoLostWakeup'
  BY <1>3 DEF handle_count, TypeOK
<1>4. ASSUME NEW t \in Timers, handle_enqueue(t) PROVE NoLostWakeup'
  BY <1>4 DEF handle_enqueue, TypeOK
<1>5. ASSUME NEW t \in Timers, handle_store(t) PROVE NoLostWakeup'
  BY <1>5 DEF handle_store
<1>6. CASE vm_check
  BY <1>6 DEF vm_check, TypeOK
<1>7. CASE pending_dequeue
  BY <1>7 DEF pending_dequeue
<1>8. CASE callback
  BY <1>8 DEF callback
<1>9. CASE callback_return
  BY <1>9 DEF callback_return
<1>10. CASE interrupt_return
  BY <1>10 DEF interrupt_return
<1>11. CASE bailout
  BY <1>11 DEF bailout
<1>12. ASSUME NEW t \in Timers, timer_init(t) PROVE NoLostWakeup'
  BY <1>12 DEF timer_init, TypeOK, LifeInv
<1>13. ASSUME NEW t \in Timers, timer_start(t) PROVE NoLostWakeup'
  BY <1>13 DEF timer_start
<1>14. ASSUME NEW t \in Timers, timer_stop(t) PROVE NoLostWakeup'
  BY <1>14 DEF timer_stop
<1>15. ASSUME NEW t \in Timers, timer_destroy(t) PROVE NoLostWakeup'
  BY <1>15 DEF timer_destroy
<1>16. CASE destroy_join
  BY <1>16 DEF destroy_join, TypeOK
<1>17. CASE destroy_remove
  <2>1. list_remove(<<>>, cur) = <<>>
    BY DEF list_remove, Elements
  <2> QED
    BY <1>17, <2>1, TlsFacts DEF destroy_remove, TypeOK
<1>18. CASE thread_shutdown
  BY <1>18 DEF thread_shutdown
<1>19. CASE thread_init
  BY <1>19, TlsFacts DEF thread_init, TypeOK
<1>20. CASE UNCHANGED vars
  BY <1>20 DEF vars
<1> QED
  BY <1>1, <1>2, <1>3, <1>4, <1>5, <1>6, <1>7, <1>8, <1>9, <1>10, <1>11, <1>12, <1>13,
     <1>14, <1>15, <1>16, <1>17, <1>18, <1>19, <1>20, Zenon
     DEF Next, HandlerNext, InterruptNext, OperationNext

-----------------------------------------------------------------------------------
(* The mutex, the lists and the life of a timer.                           *)

\* The mutex is held where the code has locked it, and by no other thread.
LEMMA MutexStep == TypeOK /\ LifeInv /\ MutexInv /\ [Next]_vars => MutexInv'
<1> SUFFICES ASSUME TypeOK, LifeInv, MutexInv, [Next]_vars PROVE MutexInv'
  OBVIOUS
<1> USE DEF MutexInv, TypeOK, timerVars, tlsVars, kernelVars, handlerVars, mainVars
<1>1. ASSUME NEW t \in Timers, expire(t) PROVE MutexInv'
  BY <1>1 DEF expire
<1>2. ASSUME NEW t \in Timers, notify(t) PROVE MutexInv'
  BY <1>2 DEF notify
<1>3. ASSUME NEW t \in Timers, handle_count(t) PROVE MutexInv'
  <2>1. /\ mutex \in [Threads -> Threads \cup {None}]
        /\ handler \in [Timers -> {"none", "wait", "handle", "enqueue", "store"}]
    BY Zenon
  <2>2. /\ mutex[tls(t)] = None /\ mutex' = [mutex EXCEPT ![tls(t)] = t]
        /\ handler' = [handler EXCEPT ![t] = "enqueue"] /\ UNCHANGED pc
    BY <1>3, Zenon DEF handle_count, mutex_lock
  <2> HIDE DEF TypeOK
  <2> QED
    BY <2>1, <2>2, TlsFacts, ThreadFacts
<1>4. ASSUME NEW t \in Timers, handle_enqueue(t) PROVE MutexInv'
  <2>1. /\ mutex \in [Threads -> Threads \cup {None}]
        /\ handler \in [Timers -> {"none", "wait", "handle", "enqueue", "store"}]
    BY Zenon
  <2>2. /\ handler[t] = "enqueue" /\ mutex' = [mutex EXCEPT ![tls(t)] = None]
        /\ handler' = [handler EXCEPT ![t] = "store"] /\ UNCHANGED pc
    BY <1>4, Zenon DEF handle_enqueue, mutex_unlock
  <2> HIDE DEF TypeOK
  <2> QED
    BY <2>1, <2>2, TlsFacts, ThreadFacts
<1>5. ASSUME NEW t \in Timers, handle_store(t) PROVE MutexInv'
  BY <1>5 DEF handle_store
<1>6. CASE vm_check
  BY <1>6 DEF vm_check
<1>7. CASE pending_dequeue
  <2>1. mutex[Main] = None /\ mutex' = [mutex EXCEPT ![Main] = Main]
    BY <1>7, TlsFacts DEF pending_dequeue, mutex_lock
  <2>2. handler' = handler /\ pc' = "count"
    BY <1>7 DEF pending_dequeue
  <2>3. mutex'[Main] = Main
    BY <2>1, TlsFacts
  <2>4. ASSUME NEW u \in Timers
        PROVE  (handler'[u] = "enqueue" <=> mutex'[tls(u)] = u) /\ mutex'[Main] # u
    BY <2>1, <2>2, TlsFacts, ThreadFacts
  <2> QED
    BY <2>2, <2>3, <2>4 DEF tls
<1>8. CASE callback
  BY <1>8, TlsFacts, ThreadFacts DEF callback, mutex_unlock
<1>9. CASE callback_return
  BY <1>9 DEF callback_return
<1>10. CASE interrupt_return
  BY <1>10 DEF interrupt_return
<1>11. CASE bailout
  BY <1>11 DEF bailout
<1>12. ASSUME NEW t \in Timers, timer_init(t) PROVE MutexInv'
  <2>1. \A u \in Timers : handler'[u] = "enqueue" <=> handler[u] = "enqueue"
    BY <1>12 DEF timer_init, LifeInv
  <2> QED
    BY <1>12, <2>1, Zenon DEF timer_init
<1>13. ASSUME NEW t \in Timers, timer_start(t) PROVE MutexInv'
  BY <1>13 DEF timer_start
<1>14. ASSUME NEW t \in Timers, timer_stop(t) PROVE MutexInv'
  BY <1>14 DEF timer_stop
<1>15. ASSUME NEW t \in Timers, timer_destroy(t) PROVE MutexInv'
  BY <1>15 DEF timer_destroy
<1>16. CASE destroy_join
  BY <1>16, TlsFacts, Zenon DEF destroy_join
<1>17. CASE destroy_remove
  BY <1>17 DEF destroy_remove
<1>18. CASE thread_shutdown
  BY <1>18 DEF thread_shutdown
<1>19. CASE thread_init
  BY <1>19, TlsFacts, ThreadFacts DEF thread_init, LifeInv
<1>20. CASE UNCHANGED vars
  BY <1>20 DEF vars
<1> QED
  BY <1>1, <1>2, <1>3, <1>4, <1>5, <1>6, <1>7, <1>8, <1>9, <1>10, <1>11, <1>12, <1>13,
     <1>14, <1>15, <1>16, <1>17, <1>18, <1>19, <1>20, Zenon
     DEF Next, HandlerNext, InterruptNext, OperationNext

\* A timer lives from excimer_timer_init to the end of excimer_timer_destroy.
LEMMA LifeStep == TypeOK /\ MainInv /\ ListInv /\ LifeInv /\ [Next]_vars => LifeInv'
<1> SUFFICES ASSUME TypeOK, MainInv, ListInv, LifeInv, [Next]_vars PROVE LifeInv'
  OBVIOUS
<1> USE DEF LifeInv, MainInv, TypeOK, timerVars, tlsVars, kernelVars, handlerVars, mainVars
<1>1. ASSUME NEW t \in Timers, expire(t) PROVE LifeInv'
  <2>1. \A u \in Timers : u # t => /\ owed'[u] = owed[u] /\ debt'[u] = debt[u]
                                   /\ armed'[u] = armed[u]
    BY <1>1, ZenonT(40) DEF expire
  <2>2. armed[t] # "off" /\ is_running[t] /\ is_valid[t] /\ handler[t] # "none"
    BY <1>1, Zenon DEF expire
  <2>3. UNCHANGED <<is_valid, is_running, handler, pc, cur>>
    BY <1>1, Zenon DEF expire
  <2> HIDE DEF TypeOK
  <2> QED
    BY <2>1, <2>2, <2>3
<1>2. ASSUME NEW t \in Timers, notify(t) PROVE LifeInv'
  BY <1>2 DEF notify
<1>3. ASSUME NEW t \in Timers, handle_count(t) PROVE LifeInv'
  BY <1>3 DEF handle_count
<1>4. ASSUME NEW t \in Timers, handle_enqueue(t) PROVE LifeInv'
  BY <1>4 DEF handle_enqueue
<1>5. ASSUME NEW t \in Timers, handle_store(t) PROVE LifeInv'
  BY <1>5 DEF handle_store
<1>6. CASE vm_check
  BY <1>6, Zenon DEF vm_check
<1>7. CASE pending_dequeue
  BY <1>7, Zenon DEF pending_dequeue
<1>8. CASE callback
  BY <1>8 DEF callback, ListInv
<1>9. CASE callback_return
  BY <1>9, Zenon DEF callback_return
<1>10. CASE interrupt_return
  BY <1>10, Zenon DEF interrupt_return
<1>11. CASE bailout
  BY <1>11, Zenon DEF bailout
<1>12. ASSUME NEW t \in Timers, timer_init(t) PROVE LifeInv'
  <2>1. CASE /\ handler' = [handler EXCEPT ![t] = "wait"]
             /\ is_valid' = [is_valid EXCEPT ![t] = TRUE]
    BY <1>12, <2>1, Zenon DEF timer_init
  <2>2. CASE UNCHANGED <<handler, is_valid>>
    BY <1>12, <2>2, Zenon DEF timer_init
  <2> QED
    BY <1>12, <2>1, <2>2, Zenon DEF timer_init
<1>13. ASSUME NEW t \in Timers, timer_start(t) PROVE LifeInv'
  BY <1>13 DEF timer_start, settime
<1>14. ASSUME NEW t \in Timers, timer_stop(t) PROVE LifeInv'
  BY <1>14 DEF timer_stop, settime
<1>15. ASSUME NEW t \in Timers, timer_destroy(t) PROVE LifeInv'
  <2>1. \A u \in Timers : u # t => /\ owed'[u] = owed[u] /\ debt'[u] = debt[u]
                                   /\ armed'[u] = armed[u]
    BY <1>15 DEF timer_destroy, settime
  <2>2. /\ is_running' = [is_running EXCEPT ![t] = FALSE]
        /\ armed'[t] = "off" /\ is_valid[t] /\ handler[t] # "none"
    BY <1>15, ZenonT(40) DEF timer_destroy, settime
  <2>3. /\ \A u \in Timers : is_running'[u] = (is_running[u] /\ u # t)
        /\ pc' = "join" /\ cur' = t /\ UNCHANGED <<is_valid, handler>> /\ pc # "remove"
    <3>1. pc = "user" /\ pc' = "join" /\ cur' = t /\ UNCHANGED <<is_valid, handler>>
      BY <1>15, Zenon DEF timer_destroy
    <3>2. is_running \in [Timers -> BOOLEAN]
      BY Zenon
    <3> HIDE DEF TypeOK, LifeInv, MainInv
    <3> QED
      BY <2>2, <3>1, <3>2, Zenon
  <2> HIDE DEF TypeOK
  <2> QED
    BY <2>1, <2>2, <2>3, Zenon
<1>16. CASE destroy_join
  <2>1. \A u \in Timers : u # cur => /\ owed'[u] = owed[u] /\ debt'[u] = debt[u]
                                     /\ handler'[u] = handler[u]
    BY <1>16, ZenonT(40) DEF destroy_join
  <2>2. cur \in Timers /\ owed'[cur] = 0 /\ handler'[cur] = "none" /\ is_valid[cur]
    BY <1>16, Zenon DEF destroy_join
  <2>3. /\ pc = "join" /\ pc' = "remove" /\ ~is_running[cur]
        /\ UNCHANGED <<is_valid, is_running, armed, cur>>
    BY <1>16, Zenon DEF destroy_join
  <2> HIDE DEF TypeOK
  <2> QED
    BY <2>1, <2>2, <2>3, Zenon
<1>17. CASE destroy_remove
  BY <1>17 DEF destroy_remove
<1>18. CASE thread_shutdown
  BY <1>18 DEF thread_shutdown
<1>19. CASE thread_init
  BY <1>19, Zenon DEF thread_init
<1>20. CASE UNCHANGED vars
  BY <1>20 DEF vars
<1> QED
  BY <1>1, <1>2, <1>3, <1>4, <1>5, <1>6, <1>7, <1>8, <1>9, <1>10, <1>11, <1>12, <1>13,
     <1>14, <1>15, <1>16, <1>17, <1>18, <1>19, <1>20, Zenon
     DEF Next, HandlerNext, InterruptNext, OperationNext

\* The lists keep their shape.
LEMMA ListStep ==
  TypeOK /\ MainInv /\ MutexInv /\ LifeInv /\ ListInv /\ [Next]_vars => ListInv'
<1> SUFFICES ASSUME TypeOK, MainInv, MutexInv, LifeInv, ListInv, [Next]_vars PROVE ListInv'
  OBVIOUS
<1> USE DEF ListInv, timerVars, tlsVars, kernelVars, handlerVars, mainVars
<1>1. ASSUME NEW t \in Timers, expire(t) PROVE ListInv'
  BY <1>1 DEF expire
<1>2. ASSUME NEW t \in Timers, notify(t) PROVE ListInv'
  BY <1>2, Zenon DEF notify
<1>3. ASSUME NEW t \in Timers, handle_count(t) PROVE ListInv'
  BY <1>3, Zenon DEF handle_count
<1>4. ASSUME NEW t \in Timers, handle_enqueue(t) PROVE ListInv'
  <2> DEFINE q == pending[tls(t)]
  <2>1. q \in Seq(Timers) /\ NoDuplicates(q)
    BY TlsFacts, Zenon DEF TypeOK
  <2>2. /\ NoDuplicates(list_enqueue(q, t))
        /\ Elements(list_enqueue(q, t)) = Elements(q) \cup {t}
    BY <2>1, EnqueueElements
  <2>3. is_valid[t] /\ (pc = "remove" => cur # t) /\ (pc = "count" => tls(t) # Main)
    <3>1. handler[t] = "enqueue" /\ mutex[tls(t)] = t /\ t # Main
      BY <1>4, ThreadFacts, Zenon DEF handle_enqueue, MutexInv
    <3>2. pc = "count" => mutex[Main] = Main
      BY Zenon DEF MutexInv
    <3>3. is_valid[t] /\ (pc = "remove" => cur # t)
      BY <3>1, Zenon DEF LifeInv
    <3> QED
      BY <3>1, <3>2, <3>3, Zenon
  <2>4. ASSUME NEW th \in Threads
        PROVE  /\ NoDuplicates(pending'[th])
               /\ \A u \in Elements(pending'[th]) : th = tls(u) /\ is_valid[u]
    <3>1. CASE th = tls(t)
      BY <1>4, <2>2, <2>3, <3>1 DEF handle_enqueue, TypeOK
    <3>2. CASE th # tls(t)
      BY <1>4, <3>2 DEF handle_enqueue, TypeOK
    <3> QED
      BY <3>1, <3>2, Zenon
  <2>5. ASSUME pc = "count" PROVE cur \notin Elements(pending'[Main])
    BY <1>4, <2>3, <2>5, TlsFacts DEF handle_enqueue, TypeOK
  <2>6. ASSUME pc = "remove", NEW th \in Timers PROVE cur \notin Elements(pending'[th])
    BY <1>4, <2>2, <2>3, <2>6, TlsFacts, Zenon DEF handle_enqueue, TypeOK
  <2> QED
    BY <1>4, <2>4, <2>5, <2>6, TlsFacts, Zenon DEF handle_enqueue, tls
<1>5. ASSUME NEW t \in Timers, handle_store(t) PROVE ListInv'
  BY <1>5 DEF handle_store
<1>6. CASE vm_check
  BY <1>6 DEF vm_check
<1>7. CASE pending_dequeue
  <2> DEFINE q == pending[Main]
  <2>1. q \in Seq(Timers) /\ q # <<>> /\ NoDuplicates(q)
    BY <1>7, TlsFacts DEF pending_dequeue, TypeOK
  <2>2. /\ NoDuplicates(Tail(q))
        /\ Head(q) \in Elements(q) /\ Head(q) \notin Elements(Tail(q))
        /\ Elements(Tail(q)) \subseteq Elements(q)
    BY <2>1, DequeueElements
  <2> QED
    BY <1>7, <2>2, TlsFacts, ZenonT(40) DEF pending_dequeue, TypeOK
<1>8. CASE callback
  BY <1>8 DEF callback
<1>9. CASE callback_return
  BY <1>9 DEF callback_return
<1>10. CASE interrupt_return
  BY <1>10, Zenon DEF interrupt_return
<1>11. CASE bailout
  BY <1>11, Zenon DEF bailout
<1>12. ASSUME NEW t \in Timers, timer_init(t) PROVE ListInv'
  <2>1. \A u \in Timers : is_valid[u] => is_valid'[u]
    BY <1>12, ZenonT(40) DEF timer_init, TypeOK
  <2>2. \A th \in Threads : Elements(pending[th]) \subseteq Timers
    BY ElementsType, Zenon DEF TypeOK
  <2> QED
    BY <1>12, <2>1, <2>2 DEF timer_init, tls
<1>13. ASSUME NEW t \in Timers, timer_start(t) PROVE ListInv'
  BY <1>13, Zenon DEF timer_start
<1>14. ASSUME NEW t \in Timers, timer_stop(t) PROVE ListInv'
  BY <1>14, Zenon DEF timer_stop
<1>15. ASSUME NEW t \in Timers, timer_destroy(t) PROVE ListInv'
  BY <1>15, Zenon DEF timer_destroy
<1>16. CASE destroy_join
  <2>1. cur \in Timers
    BY <1>16, Zenon DEF destroy_join, MainInv
  <2>2. CASE ZTS
    BY <1>16, <2>1, <2>2, EmptyFacts, TlsFacts, Zenon DEF destroy_join, TypeOK, tls
  <2>3. CASE ~ZTS
    BY <1>16, <2>1, <2>3, TlsFacts, ThreadFacts DEF destroy_join, TypeOK, tls
  <2> QED
    BY <2>2, <2>3, Zenon
<1>17. CASE destroy_remove
  <2> DEFINE q == pending[Main]
  <2>1. q \in Seq(Timers) /\ NoDuplicates(q)
    BY TlsFacts DEF TypeOK
  <2>2. /\ NoDuplicates(list_remove(q, cur))
        /\ Elements(list_remove(q, cur)) = Elements(q) \ {cur}
    BY <2>1, RemoveElements
  <2>3. pending' = [pending EXCEPT ![Main] = list_remove(q, cur)]
    BY <1>17, TlsFacts, Zenon DEF destroy_remove
  <2>4. ASSUME NEW th \in Threads
        PROVE  /\ NoDuplicates(pending'[th])
               /\ \A u \in Elements(pending'[th]) : th = tls(u) /\ is_valid'[u]
    <3>1. \A u \in Elements(pending'[th]) : u # cur /\ u \in Elements(pending[th])
      BY <1>17, <2>2, <2>3, ThreadFacts DEF destroy_remove, TypeOK, Threads
    <3>2. Elements(pending[th]) \subseteq Timers
      BY ElementsType, Zenon DEF TypeOK
    <3> QED
      BY <1>17, <2>2, <2>3, <3>1, <3>2 DEF destroy_remove, TypeOK
  <2> QED
    BY <1>17, <2>4, Zenon DEF destroy_remove, tls
<1>18. CASE thread_shutdown
  BY <1>18, Zenon DEF thread_shutdown
<1>19. CASE thread_init
  BY <1>19, EmptyFacts, TlsFacts, Zenon DEF thread_init, TypeOK
<1>20. CASE UNCHANGED vars
  BY <1>20 DEF vars
<1> QED
  BY <1>1, <1>2, <1>3, <1>4, <1>5, <1>6, <1>7, <1>8, <1>9, <1>10, <1>11, <1>12, <1>13,
     <1>14, <1>15, <1>16, <1>17, <1>18, <1>19, <1>20, ZenonT(40)
     DEF Next, HandlerNext, InterruptNext, OperationNext

-----------------------------------------------------------------------------------
(* The events.                                                             *)

\* The account of one timer.
Account(t) ==
  /\ event_count[t] >= 0 /\ debt[t] =< MaxDebt
  /\ is_valid[t] /\ ~(pc = "remove" /\ cur = t) =>
        debt[t] = owed[t] + InHand(t) + event_count[t]

\* AccountInv is the account of every timer.
LEMMA AccountInvEq == AccountInv <=> \A t \in Timers : Account(t)
  BY Zenon DEF AccountInv, EventsConserved, Account

\* What timerlib and a handler hold for a timer is at most what the timer is owed,
\* so it fits an int.
LEMMA HeldFits ==
  ASSUME TypeOK, LifeInv, AccountInv, MaxDebt =< INT_MAX, NEW t \in Timers, handler[t] # "none"
  PROVE  owed[t] + InHand(t) =< INT_MAX
<1>1. Account(t)
  BY AccountInvEq
<1>2. is_valid[t] /\ ~(pc = "remove" /\ cur = t)
  BY DEF LifeInv
<1>3. /\ owed[t] \in Nat /\ event_count[t] \in Int /\ InHand(t) \in Nat
      /\ MaxDebt \in Nat /\ INT_MAX \in Nat
  BY ConstantsAssumption DEF TypeOK, InHand
<1> QED
  BY <1>1, <1>2, <1>3 DEF Account

\* The overrun count timerlib passes on is not cut off.
LEMMA OverrunFits ==
  ASSUME TypeOK, LifeInv, AccountInv, MaxDebt =< INT_MAX, NEW t \in Timers, notify(t)
  PROVE  \E n \in 1..owed[t] : /\ overrun' = [overrun EXCEPT ![t] = n - 1]
                               /\ owed' = [owed EXCEPT ![t] = @ - n]
<1>1. handler[t] = "wait"
  BY DEF notify
<1>2. owed[t] + InHand(t) =< INT_MAX
  BY <1>1, HeldFits
<1>3. InHand(t) = 0 /\ owed[t] \in Nat /\ INT_MAX \in Nat
  BY <1>1, ConstantsAssumption DEF TypeOK, InHand
<1>4. \A n \in 1..owed[t] : ~(n - 1 > INT_MAX)
  BY <1>2, <1>3
<1> QED
  BY <1>4, Zenon DEF notify

\* What a handler adds to event_count fits an int, and is all that it was told of.
LEMMA CountFits ==
  ASSUME TypeOK, LifeInv, AccountInv, MaxDebt =< INT_MAX, NEW t \in Timers, handle_count(t)
  PROVE  event_count' = [event_count EXCEPT ![t] = @ + (overrun[t] + 1)]
<1>1. handler[t] = "handle"
  BY DEF handle_count
<1>2. owed[t] + InHand(t) =< INT_MAX
  BY <1>1, HeldFits
<1>3. InHand(t) = overrun[t] + 1 /\ owed[t] \in Nat /\ overrun[t] \in Nat /\ INT_MAX \in Nat
  BY <1>1, ConstantsAssumption DEF TypeOK, InHand
<1>4. overrun[t] + 1 =< INT_MAX
  BY <1>2, <1>3
<1> QED
  BY <1>4, Zenon DEF handle_count, IntSum

\* What timer_settime drops of the expirations a timer is owed, it drops of its debt.
LEMMA SettimeAccount ==
  ASSUME TypeOK, \A u \in Timers : Account(u), NEW t \in Timers, NEW mode, settime(t, mode),
         UNCHANGED <<is_valid, event_count, handler, overrun>>, pc = "user", pc' # "remove"
  PROVE  (\A u \in Timers : Account(u))'
<1>1. PICK kept \in 0..owed[t] : /\ owed' = [owed EXCEPT ![t] = kept]
                                 /\ debt' = [debt EXCEPT ![t] = @ - (owed[t] - kept)]
  BY Zenon DEF settime
<1>2. /\ owed \in [Timers -> Nat] /\ debt \in [Timers -> Int]
      /\ event_count \in [Timers -> Int] /\ overrun \in [Timers -> Nat]
  BY Zenon DEF TypeOK
<1>3. ASSUME NEW u \in Timers PROVE Account(u)'
  <2>1. /\ debt'[u] \in Int /\ owed'[u] \in Nat
        /\ owed'[u] - owed[u] = debt'[u] - debt[u] /\ debt'[u] =< debt[u]
    BY <1>1, <1>2
  <2>2. InHand(u)' = InHand(u) /\ InHand(u) \in Nat
    BY <1>2 DEF InHand
  <2> QED
    BY <1>2, <2>1, <2>2, ConstantsAssumption DEF Account
<1> QED
  BY <1>3, Zenon

\* No event is lost or counted twice, if the counts fit an int.
LEMMA AccountStep ==
  TypeOK /\ MainInv /\ LifeInv /\ ListInv /\ MaxDebt =< INT_MAX /\ AccountInv /\ [Next]_vars
    => AccountInv'
<1> SUFFICES ASSUME TypeOK, MainInv, LifeInv, ListInv, MaxDebt =< INT_MAX, AccountInv,
                    [Next]_vars
             PROVE  AccountInv'
  OBVIOUS
<1>0. MaxDebt \in Nat /\ INT_MAX \in Nat /\ \A t \in Timers : Account(t)
  BY ConstantsAssumption, AccountInvEq
<1> SUFFICES (\A t \in Timers : Account(t))'
  BY Zenon DEF AccountInv, EventsConserved, Account
<1> USE <1>0 DEF Account, InHand, TypeOK, timerVars, tlsVars, kernelVars, handlerVars, mainVars
<1>1. ASSUME NEW t \in Timers, expire(t) PROVE (\A u \in Timers : Account(u))'
  <2>1. ASSUME NEW u \in Timers, u # t PROVE Account(u)'
    BY <1>1, <2>1, Zenon DEF expire
  <2>2. debt'[t] = debt[t] + 1 /\ owed'[t] = owed[t] + 1 /\ debt[t] < MaxDebt
    BY <1>1, Zenon DEF expire
  <2>3. UNCHANGED <<is_valid, event_count, handler, overrun, pc, cur>>
    BY <1>1, Zenon DEF expire
  <2>4. InHand(t)' = InHand(t) /\ InHand(t) \in Nat
    BY <2>3
  <2>5. debt[t] \in Int /\ owed[t] \in Nat /\ event_count[t] \in Int
    BY Zenon
  <2> HIDE DEF TypeOK, InHand
  <2>6. Account(t)'
    BY <2>2, <2>3, <2>4, <2>5
  <2> QED
    BY <2>1, <2>6, Zenon
<1>2. ASSUME NEW t \in Timers, notify(t) PROVE (\A u \in Timers : Account(u))'
  <2>1. ASSUME NEW u \in Timers, u # t PROVE Account(u)'
    BY <1>2, <2>1 DEF notify
  <2>2. PICK n \in 1..owed[t] : /\ overrun' = [overrun EXCEPT ![t] = n - 1]
                                /\ owed' = [owed EXCEPT ![t] = @ - n]
    BY <1>2, OverrunFits, Zenon
  <2>3. overrun'[t] = n - 1 /\ owed'[t] = owed[t] - n /\ n \in Nat
    BY <2>2
  <2>4. InHand(t) = 0 /\ InHand(t)' = n
    BY <1>2, <2>3 DEF notify
  <2>5. UNCHANGED <<is_valid, event_count, pc, cur, debt>>
    BY <1>2, ZenonT(40) DEF notify
  <2>6. Account(t)'
    <3>1. owed[t] \in Nat /\ event_count[t] \in Int
      BY Zenon
    <3>2. Account(t)
      BY Zenon
    <3> HIDE <1>0 DEF TypeOK, InHand, Account
    <3>3. owed'[t] + InHand(t)' + event_count'[t] = owed[t] + InHand(t) + event_count[t]
      BY <2>3, <2>4, <2>5, <3>1
    <3> QED
      BY <2>5, <3>2, <3>3, Zenon DEF Account
  <2> QED
    BY <2>1, <2>6, Zenon
<1>3. ASSUME NEW t \in Timers, handle_count(t) PROVE (\A u \in Timers : Account(u))'
  <2>1. event_count' = [event_count EXCEPT ![t] = @ + (overrun[t] + 1)]
    BY <1>3, CountFits, Zenon
  <2>2. ASSUME NEW u \in Timers, u # t PROVE Account(u)'
    BY <1>3, <2>1, <2>2, Zenon DEF handle_count
  <2>3. InHand(t) = overrun[t] + 1 /\ InHand(t)' = 0
    BY <1>3, Zenon DEF handle_count
  <2>4. event_count'[t] = event_count[t] + InHand(t)
    BY <2>1, <2>3, Zenon
  <2>5. UNCHANGED <<is_valid, owed, pc, cur, debt>>
    BY <1>3, ZenonT(40) DEF handle_count
  <2>6. Account(t)'
    <3>1. owed[t] \in Nat /\ event_count[t] \in Int /\ overrun[t] \in Nat
      BY Zenon
    <3>2. Account(t)
      BY Zenon
    <3> HIDE <1>0 DEF TypeOK, InHand, Account
    <3>3. owed'[t] + InHand(t)' + event_count'[t] = owed[t] + InHand(t) + event_count[t]
      BY <2>3, <2>4, <2>5, <3>1
    <3>4. event_count[t] >= 0
      BY <3>2, Zenon DEF Account
    <3>5. event_count'[t] >= 0
      BY <2>3, <2>4, <3>1, <3>4
    <3> QED
      BY <2>5, <3>2, <3>3, <3>5, Zenon DEF Account
  <2> QED
    BY <2>2, <2>6, Zenon
<1>4. ASSUME NEW t \in Timers, handle_enqueue(t) PROVE (\A u \in Timers : Account(u))'
  <2>1. ASSUME NEW u \in Timers, u # t PROVE Account(u)'
    BY <1>4, <2>1, Zenon DEF handle_enqueue
  <2>2. Account(t)'
    BY <1>4, ZenonT(40) DEF handle_enqueue, LifeInv
  <2> QED
    BY <2>1, <2>2, Zenon
<1>5. ASSUME NEW t \in Timers, handle_store(t) PROVE (\A u \in Timers : Account(u))'
  <2>1. ASSUME NEW u \in Timers, u # t PROVE Account(u)'
    BY <1>5, <2>1, Zenon DEF handle_store
  <2>2. Account(t)'
    BY <1>5, ZenonT(40) DEF handle_store, LifeInv
  <2> QED
    BY <2>1, <2>2
<1>6. CASE vm_check
  BY <1>6, Zenon DEF vm_check
<1>7. CASE pending_dequeue
  BY <1>7, Zenon DEF pending_dequeue
<1>8. CASE callback
  BY <1>8 DEF callback, ListInv, MainInv
<1>9. CASE callback_return
  BY <1>9, Zenon DEF callback_return
<1>10. CASE interrupt_return
  BY <1>10, Zenon DEF interrupt_return
<1>11. CASE bailout
  BY <1>11, Zenon DEF bailout
<1>12. ASSUME NEW t \in Timers, timer_init(t) PROVE (\A u \in Timers : Account(u))'
  <2>1. ASSUME NEW u \in Timers, u # t PROVE Account(u)'
    BY <1>12, <2>1, Zenon DEF timer_init, zero_struct
  <2>2. Account(t)'
    BY <1>12 DEF timer_init, zero_struct, LifeInv
  <2> QED
    BY <2>1, <2>2
<1>13. ASSUME NEW t \in Timers, timer_start(t) PROVE (\A u \in Timers : Account(u))'
  BY <1>13, SettimeAccount, Zenon DEF timer_start
<1>14. ASSUME NEW t \in Timers, timer_stop(t) PROVE (\A u \in Timers : Account(u))'
  BY <1>14, SettimeAccount, Zenon DEF timer_stop
<1>15. ASSUME NEW t \in Timers, timer_destroy(t) PROVE (\A u \in Timers : Account(u))'
  <2>1. CASE settime(t, "off")
    BY <1>15, <2>1, SettimeAccount, Zenon DEF timer_destroy
  <2>2. CASE UNCHANGED <<kernelVars, debt>>
    BY <1>15, <2>2 DEF timer_destroy
  <2> QED
    BY <1>15, <2>1, <2>2, Zenon DEF timer_destroy
<1>16. CASE destroy_join
  <2>1. /\ cur \in Timers /\ pc = "join" /\ pc' = "remove" /\ cur' = cur
        /\ owed' = [owed EXCEPT ![cur] = 0]
        /\ debt' = [debt EXCEPT ![cur] = @ - owed[cur]]
        /\ handler' = [handler EXCEPT ![cur] = "none"]
        /\ UNCHANGED <<is_valid, event_count, overrun>>
    BY <1>16, Zenon DEF destroy_join, MainInv
  <2>2. Account(cur)'
    BY <2>1
  <2>3. ASSUME NEW u \in Timers, u # cur PROVE Account(u)'
    BY <2>1, <2>3, Zenon
  <2> QED
    BY <2>1, <2>2, <2>3, Zenon
<1>17. CASE destroy_remove
  BY <1>17 DEF destroy_remove, LifeInv, MainInv
<1>18. CASE thread_shutdown
  BY <1>18, Zenon DEF thread_shutdown
<1>19. CASE thread_init
  BY <1>19, Zenon DEF thread_init
<1>20. CASE UNCHANGED vars
  BY <1>20 DEF vars
<1> QED
  BY <1>1, <1>2, <1>3, <1>4, <1>5, <1>6, <1>7, <1>8, <1>9, <1>10, <1>11, <1>12, <1>13,
     <1>14, <1>15, <1>16, <1>17, <1>18, <1>19, <1>20, Zenon
     DEF Next, HandlerNext, InterruptNext, OperationNext
\* A timer with events is in a list, and one in a list has events.
LEMMA CountStep ==
  TypeOK /\ MainInv /\ MutexInv /\ LifeInv /\ ListInv /\ MaxDebt =< INT_MAX /\ AccountInv
    /\ CountInv /\ [Next]_vars => CountInv'
<1> SUFFICES ASSUME TypeOK, MainInv, MutexInv, LifeInv, ListInv, MaxDebt =< INT_MAX,
                    AccountInv, CountInv, [Next]_vars
             PROVE  CountInv'
  OBVIOUS
<1> USE DEF CountInv, CountPositive, CountedIsPending, timerVars, tlsVars, kernelVars,
            handlerVars, mainVars
<1>1. ASSUME NEW t \in Timers, expire(t) PROVE CountInv'
  BY <1>1, Zenon DEF expire
<1>2. ASSUME NEW t \in Timers, notify(t) PROVE CountInv'
  BY <1>2, Zenon DEF notify, TypeOK
<1>3. ASSUME NEW t \in Timers, handle_count(t) PROVE CountInv'
  <2>1. event_count' = [event_count EXCEPT ![t] = @ + (overrun[t] + 1)]
    BY <1>3, CountFits, Zenon
  <2>2. event_count'[t] > 0 /\ \A u \in Timers \ {t} : event_count'[u] = event_count[u]
    BY <2>1 DEF TypeOK, AccountInv
  <2>3. handler' = [handler EXCEPT ![t] = "enqueue"]
    BY <1>3, Zenon DEF handle_count
  <2>4. UNCHANGED <<pending, is_valid, pc, cur>>
    BY <1>3, Zenon DEF handle_count
  <2>5. cur \in Timers \/ pc # "count"
    BY ZenonT(40) DEF MainInv
  <2> QED
    BY <2>2, <2>3, <2>4, <2>5, Zenon DEF TypeOK, tls
<1>4. ASSUME NEW t \in Timers, handle_enqueue(t) PROVE CountInv'
  <2> DEFINE q == pending[tls(t)]
  <2>1. q \in Seq(Timers)
    BY TlsFacts, Zenon DEF TypeOK
  <2>2. Elements(list_enqueue(q, t)) = Elements(q) \cup {t}
    BY <2>1, EnqueueElements
  <2>3. /\ pending' = [pending EXCEPT ![tls(t)] = list_enqueue(q, t)]
        /\ handler' = [handler EXCEPT ![t] = "store"]
        /\ UNCHANGED <<event_count, is_valid, pc, cur>>
    BY <1>4, Zenon DEF handle_enqueue
  <2>4. \A u \in Timers :
           u \in Elements(pending'[tls(u)]) <=> u \in Elements(pending[tls(u)]) \/ u = t
    BY <2>2, <2>3, TlsFacts, Zenon DEF TypeOK, ListInv
  <2>5. /\ handler[t] = "enqueue" /\ handler'[t] = "store"
        /\ \A u \in Timers : u # t => handler'[u] = handler[u]
    BY <1>4, <2>3, Zenon DEF handle_enqueue, TypeOK
  <2> HIDE DEF TypeOK, q
  <2> QED
    BY <2>3, <2>4, <2>5, ZenonT(40) DEF tls
<1>5. ASSUME NEW t \in Timers, handle_store(t) PROVE CountInv'
  BY <1>5, Zenon DEF handle_store, TypeOK
<1>6. CASE vm_check
  BY <1>6, Zenon DEF vm_check
<1>7. CASE pending_dequeue
  <2> DEFINE q == pending[Main]
  <2>1. q \in Seq(Timers) /\ q # <<>> /\ NoDuplicates(q)
    BY <1>7, TlsFacts DEF pending_dequeue, TypeOK, ListInv
  <2>2. Head(q) \in Elements(q) /\ Elements(q) = Elements(Tail(q)) \cup {Head(q)}
    BY <2>1, DequeueElements, Zenon
  <2>3. Head(q) \in Timers /\ tls(Head(q)) = Main
    BY <2>1, <2>2, ElementsType, TlsFacts, Zenon DEF ListInv
  <2>4. /\ pending' = [pending EXCEPT ![Main] = Tail(q)]
        /\ cur' = Head(q) /\ pc = "dequeue" /\ pc' = "count"
        /\ UNCHANGED <<event_count, is_valid, handler>>
    BY <1>7, TlsFacts, Zenon DEF pending_dequeue
  <2>5. \A u \in Timers : u \in Elements(pending'[tls(u)]) => u \in Elements(pending[tls(u)])
    BY <2>2, <2>4, TlsFacts DEF TypeOK
  <2>6. ASSUME NEW u \in Timers, u \in Elements(pending[tls(u)])
        PROVE  u \in Elements(pending'[tls(u)]) \/ u = cur'
    <3>1. CASE tls(u) = Main
      BY <2>2, <2>4, <2>6, <3>1, TlsFacts, Zenon DEF TypeOK
    <3>2. CASE tls(u) # Main
      BY <2>4, <2>6, <3>2, TlsFacts DEF TypeOK
    <3> QED
      BY <3>1, <3>2, Zenon
  <2> QED
    BY <2>2, <2>3, <2>4, <2>5, <2>6, ZenonT(40) DEF tls
<1>8. CASE callback
  <2>1. cur \in Timers /\ cur \notin Elements(pending[tls(cur)]) /\ handler[cur] # "enqueue"
    <3>1. pc = "count" /\ cur \in Timers /\ tls(cur) = Main /\ cur \notin Elements(pending[Main])
      BY <1>8, Zenon DEF callback, MainInv, ListInv
    <3>2. mutex[Main] = Main /\ (handler[cur] = "enqueue" => mutex[tls(cur)] = cur)
      BY <3>1, Zenon DEF MutexInv
    <3> QED
      BY <3>1, <3>2, ThreadFacts, Zenon
  <2>2. event_count'[cur] = 0 /\ \A u \in Timers \ {cur} : event_count'[u] = event_count[u]
    BY <1>8, <2>1, Zenon DEF callback, TypeOK
  <2> QED
    BY <1>8, <2>1, <2>2, ZenonT(40) DEF callback, tls
<1>9. CASE callback_return
  BY <1>9, Zenon DEF callback_return
<1>10. CASE interrupt_return
  BY <1>10, ZenonT(40) DEF interrupt_return
<1>11. CASE bailout
  BY <1>11, Zenon DEF bailout
<1>12. ASSUME NEW t \in Timers, timer_init(t) PROVE CountInv'
  <2>1. t \notin Elements(pending[tls(t)]) /\ handler[t] = "none" /\ pc # "count"
    BY <1>12, TlsFacts, Zenon DEF timer_init, LifeInv, ListInv
  <2>2. event_count'[t] = 0 /\ \A u \in Timers \ {t} : event_count'[u] = event_count[u]
    BY <1>12, Zenon DEF timer_init, zero_struct, TypeOK
  <2>3. /\ handler'[t] # "enqueue"
        /\ \A u \in Timers \ {t} : handler'[u] = handler[u] /\ is_valid'[u] = is_valid[u]
    BY <1>12, <2>1, Zenon DEF timer_init, TypeOK
  <2> QED
    BY <1>12, <2>1, <2>2, <2>3, Zenon DEF timer_init, tls
<1>13. ASSUME NEW t \in Timers, timer_start(t) PROVE CountInv'
  BY <1>13, Zenon DEF timer_start
<1>14. ASSUME NEW t \in Timers, timer_stop(t) PROVE CountInv'
  BY <1>14, Zenon DEF timer_stop
<1>15. ASSUME NEW t \in Timers, timer_destroy(t) PROVE CountInv'
  BY <1>15, Zenon DEF timer_destroy
<1>16. CASE destroy_join
  <2>1. /\ cur \in Timers /\ pc = "join" /\ pc' = "remove" /\ cur' = cur
        /\ handler' = [handler EXCEPT ![cur] = "none"]
        /\ UNCHANGED <<is_valid, event_count>>
    BY <1>16, Zenon DEF destroy_join, MainInv
  <2>2. \A u \in Timers \ {cur} : pending'[tls(u)] = pending[tls(u)]
    <3>1. CASE ZTS
      <4>1. pending' = [pending EXCEPT ![cur] = <<>>]
        BY <1>16, <3>1, Zenon DEF destroy_join
      <4>2. \A u \in Timers : tls(u) = u /\ u \in Threads
        BY <3>1, TlsFacts, Zenon DEF tls
      <4> QED
        BY <4>1, <4>2, Zenon DEF TypeOK
    <3>2. CASE ~ZTS
      BY <1>16, <3>2, ZenonT(40) DEF destroy_join
    <3> QED
      BY <3>1, <3>2
  <2>3. cur \in Elements(pending'[tls(cur)]) => cur \in Elements(pending[tls(cur)])
    BY <1>16, <2>1, EmptyFacts, TlsFacts, ZenonT(40) DEF destroy_join, TypeOK, tls
  <2> QED
    BY <2>1, <2>2, <2>3, ZenonT(40) DEF TypeOK, tls
<1>17. CASE destroy_remove
  <2> DEFINE q == pending[Main]
  <2>1. q \in Seq(Timers) /\ NoDuplicates(q)
    BY TlsFacts, Zenon DEF TypeOK, ListInv
  <2>2. Elements(list_remove(q, cur)) = Elements(q) \ {cur}
    BY <2>1, RemoveElements, Zenon
  <2>3. /\ cur \in Timers /\ pc = "remove" /\ pc' = "user"
        /\ pending' = [pending EXCEPT ![Main] = list_remove(q, cur)]
        /\ is_valid' = [is_valid EXCEPT ![cur] = FALSE]
        /\ UNCHANGED <<event_count, handler>>
    BY <1>17, TlsFacts, Zenon DEF destroy_remove, MainInv
  <2>4. \A u \in Timers : u \in Elements(pending'[tls(u)]) => u \in Elements(pending[tls(u)])
    BY <2>2, <2>3, TlsFacts, Zenon DEF TypeOK
  <2>5. \A u \in Timers \ {cur} :
           u \in Elements(pending[tls(u)]) => u \in Elements(pending'[tls(u)])
    BY <2>2, <2>3, TlsFacts, Zenon DEF TypeOK
  <2> QED
    BY <2>3, <2>4, <2>5, Zenon DEF TypeOK, tls
<1>18. CASE thread_shutdown
  BY <1>18, Zenon DEF thread_shutdown
<1>19. CASE thread_init
  <2>1. \A u \in Timers : ~is_valid[u]
    BY <1>19, Zenon DEF thread_init, LifeInv
  <2>2. \A u \in Timers : u \in Elements(pending'[tls(u)]) => u \in Elements(pending[tls(u)])
    BY <1>19, EmptyFacts, TlsFacts, Zenon DEF thread_init, TypeOK
  <2> QED
    BY <1>19, <2>1, <2>2, Zenon DEF thread_init, tls
<1>20. CASE UNCHANGED vars
  BY <1>20, Zenon DEF vars
<1> QED
  BY <1>1, <1>2, <1>3, <1>4, <1>5, <1>6, <1>7, <1>8, <1>9, <1>10, <1>11, <1>12, <1>13,
     <1>14, <1>15, <1>16, <1>17, <1>18, <1>19, <1>20, Zenon
     DEF Next, HandlerNext, InterruptNext, OperationNext
====================================================================================
