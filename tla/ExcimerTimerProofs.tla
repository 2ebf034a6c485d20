---------------------------- MODULE ExcimerTimerProofs -----------------------------
(***************************************************************************)
(* Proofs of the properties of ExcimerTimer, for any number of timers and  *)
(* any bounds.                                                             *)
(***************************************************************************)
EXTENDS ExcimerTimerSteps, FiniteSetTheorems

-----------------------------------------------------------------------------------
(* The count of active timers.                                             *)

\* timers_active follows the handlers.
LEMMA ActiveStep == TypeOK /\ MainInv /\ LifeInv /\ ActiveInv /\ [Next]_vars => ActiveInv'
<1> SUFFICES ASSUME TypeOK, MainInv, LifeInv, ActiveInv, [Next]_vars PROVE ActiveInv'
  OBVIOUS
<1> USE DEF ActiveInv, timerVars, tlsVars, kernelVars, handlerVars, mainVars
<1>1. ASSUME NEW t \in Timers, expire(t) PROVE ActiveInv'
  BY <1>1 DEF expire
<1>2. ASSUME NEW t \in Timers, notify(t) PROVE ActiveInv'
  <2>1. {u \in Timers : handler'[u] # "none"} = {u \in Timers : handler[u] # "none"}
    BY <1>2, Zenon DEF notify, TypeOK
  <2> QED
    BY <1>2, <2>1, Zenon DEF notify
<1>3. ASSUME NEW t \in Timers, handle_count(t) PROVE ActiveInv'
  <2>1. {u \in Timers : handler'[u] # "none"} = {u \in Timers : handler[u] # "none"}
    BY <1>3, Zenon DEF handle_count, TypeOK
  <2> QED
    BY <1>3, <2>1, Zenon DEF handle_count
<1>4. ASSUME NEW t \in Timers, handle_enqueue(t) PROVE ActiveInv'
  <2>1. {u \in Timers : handler'[u] # "none"} = {u \in Timers : handler[u] # "none"}
    BY <1>4 DEF handle_enqueue, TypeOK
  <2> QED
    BY <1>4, <2>1, Zenon DEF handle_enqueue
<1>5. ASSUME NEW t \in Timers, handle_store(t) PROVE ActiveInv'
  <2>1. {u \in Timers : handler'[u] # "none"} = {u \in Timers : handler[u] # "none"}
    BY <1>5, Zenon DEF handle_store, TypeOK
  <2> QED
    BY <1>5, <2>1, Zenon DEF handle_store
<1>6. CASE vm_check
  BY <1>6, Zenon DEF vm_check
<1>7. CASE pending_dequeue
  BY <1>7 DEF pending_dequeue
<1>8. CASE callback
  BY <1>8 DEF callback
<1>9. CASE callback_return
  BY <1>9 DEF callback_return
<1>10. CASE interrupt_return
  BY <1>10 DEF interrupt_return
<1>11. CASE bailout
  BY <1>11, Zenon DEF bailout
<1>12. ASSUME NEW t \in Timers, timer_init(t) PROVE ActiveInv'
  <2> DEFINE Act == {u \in Timers : handler[u] # "none"}
  <2>1. CASE UNCHANGED <<handler, timers_active>>
    BY <2>1
  <2>2. CASE /\ handler' = [handler EXCEPT ![t] = "wait"]
             /\ timers_active' = timers_active + 1
    <3>1. IsFiniteSet(Act)
      BY ConstantsAssumption, FS_Subset, Zenon
    <3>2. t \notin Act
      BY <1>12 DEF timer_init, LifeInv
    <3>3. Cardinality(Act \cup {t}) = Cardinality(Act) + 1
      BY <3>1, <3>2, FS_AddElement, Zenon
    <3>4. Act' = Act \cup {t}
      BY <2>2 DEF TypeOK
    <3> QED
      BY <2>2, <3>3, <3>4, Zenon
  <2> QED
    BY <1>12, <2>1, <2>2 DEF timer_init
<1>13. ASSUME NEW t \in Timers, timer_start(t) PROVE ActiveInv'
  BY <1>13, Zenon DEF timer_start
<1>14. ASSUME NEW t \in Timers, timer_stop(t) PROVE ActiveInv'
  BY <1>14 DEF timer_stop
<1>15. ASSUME NEW t \in Timers, timer_destroy(t) PROVE ActiveInv'
  BY <1>15 DEF timer_destroy
<1>16. CASE destroy_join
  <2> DEFINE Act == {u \in Timers : handler[u] # "none"}
  <2>1. IsFiniteSet(Act)
    BY ConstantsAssumption, FS_Subset, Zenon
  <2>2. cur \in Act
    BY <1>16 DEF destroy_join, MainInv
  <2>3. Cardinality(Act \ {cur}) = Cardinality(Act) - 1
    BY <2>1, <2>2, FS_RemoveElement, Zenon
  <2>4. Act' = Act \ {cur}
    BY <1>16, Zenon DEF destroy_join, TypeOK
  <2> QED
    BY <1>16, <2>3, <2>4, Zenon DEF destroy_join, timers_active_decrement
<1>17. CASE destroy_remove
  BY <1>17 DEF destroy_remove
<1>18. CASE thread_shutdown
  BY <1>18 DEF thread_shutdown
<1>19. CASE thread_init
  <2>1. {u \in Timers : handler[u] # "none"} = {}
    BY <1>19 DEF thread_init, LifeInv
  <2> QED
    BY <1>19, <2>1, FS_EmptySet, Zenon DEF thread_init
<1>20. CASE UNCHANGED vars
  BY <1>20 DEF vars
<1> QED
  BY <1>1, <1>2, <1>3, <1>4, <1>5, <1>6, <1>7, <1>8, <1>9, <1>10, <1>11, <1>12, <1>13,
     <1>14, <1>15, <1>16, <1>17, <1>18, <1>19, <1>20
     DEF Next, HandlerNext, InterruptNext, OperationNext

-----------------------------------------------------------------------------------
(* The theorems.                                                           *)

\* Every variable keeps its type.
THEOREM TypeCorrect == Spec => []TypeOK
<1>1. Spec => [](TypeOK /\ MainInv)
  BY TypeInit, TypeStep, PTL DEF Spec
<1> QED
  BY <1>1, PTL

\* The inductive invariant holds initially.
LEMMA IndInit == Init => IndInv
<1> SUFFICES ASSUME Init PROVE IndInv
  OBVIOUS
<1>1. TypeOK /\ MainInv /\ MutexInv /\ LifeInv
  BY TypeInit, TlsFacts, ThreadFacts, Zenon DEF Init, MutexInv, LifeInv
<1>2. ListInv /\ NoLostWakeup
  BY EmptyFacts, TlsFacts DEF Init, ListInv, NoLostWakeup
<1>3. ActiveInv
  <2>1. {t \in Timers : handler[t] # "none"} = {}
    BY DEF Init
  <2> QED
    BY <2>1, FS_EmptySet, Zenon DEF Init, ActiveInv
<1>4. AccountInv
  BY ConstantsAssumption DEF Init, AccountInv, EventsConserved, InHand
<1>5. CountInv
  BY EmptyFacts, TlsFacts DEF Init, CountInv, CountPositive, CountedIsPending
<1> QED
  BY <1>1, <1>2, <1>3, <1>4, <1>5, Zenon DEF IndInv

\* Every step preserves the inductive invariant.
LEMMA IndStep == IndInv /\ [Next]_vars => IndInv'
<1> SUFFICES ASSUME IndInv, [Next]_vars PROVE IndInv'
  OBVIOUS
<1>1. /\ TypeOK' /\ MainInv' /\ MutexInv' /\ LifeInv' /\ ListInv'
      /\ NoLostWakeup' /\ ActiveInv'
  BY TypeStep, MutexStep, LifeStep, ListStep, WakeupStep, ActiveStep, Zenon DEF IndInv
<1>2. ASSUME MaxDebt =< INT_MAX PROVE AccountInv' /\ CountInv'
  BY <1>2, AccountStep, CountStep DEF IndInv
<1> QED
  BY <1>1, <1>2 DEF IndInv

\* The inductive invariant holds throughout.
THEOREM Inductive == Spec => []IndInv
  BY IndInit, IndStep, PTL DEF Spec

\* No wakeup is lost: whenever a timer is in the list of the PHP thread,
\* excimer_timer_interrupt will be called or is at work, unless a fatal error
\* cut it short.
THEOREM WakeupsKept == Spec => []NoLostWakeup
<1>1. IndInv => NoLostWakeup
  BY Zenon DEF IndInv
<1> QED
  BY <1>1, Inductive, PTL

\* excimer_timer_destroy leaves nothing of a timer behind: only timers that exist
\* are in the lists, have handlers or get callbacks.
THEOREM OnlyLive == Spec => []OnlyLiveTimers
<1>1. IndInv => OnlyLiveTimers
  BY DEF IndInv, LifeInv, ListInv, OnlyLiveTimers
<1> QED
  BY <1>1, Inductive, PTL

\* excimer_timer_destroy never waits for a handler with the mutex held.
THEOREM JoinWithoutMutex == Spec => []NoHoldAndWait
<1>1. IndInv => NoHoldAndWait
  BY TlsFacts, Zenon DEF IndInv, MutexInv, NoHoldAndWait
<1> QED
  BY <1>1, Inductive, PTL

\* excimer_timer_thread_shutdown never finds an active timer, a handler or a mutex
\* that is held.
THEOREM CleanShutdown == Spec => []ShutdownClean
<1>1. ASSUME IndInv, pc = "down"
      PROVE  /\ timers_active = 0 /\ mutex[tls(Main)] = None
             /\ \A t \in Timers : handler[t] = "none"
  <2>1. \A t \in Timers : handler[t] = "none"
    BY <1>1 DEF IndInv, LifeInv
  <2>2. {t \in Timers : handler[t] # "none"} = {}
    BY <2>1
  <2>3. timers_active = 0
    BY <1>1, <2>2, FS_EmptySet, Zenon DEF IndInv, ActiveInv
  <2>4. mutex[Main] = None
    BY <1>1, <2>1, TlsFacts DEF IndInv, MutexInv, TypeOK, Threads
  <2> QED
    BY <2>1, <2>3, <2>4, TlsFacts, Zenon
<1>2. IndInv => ShutdownClean
  BY <1>1 DEF ShutdownClean
<1> QED
  BY <1>2, Inductive, PTL

\* If the expirations a timer is owed fit an int, none is lost or counted twice.
THEOREM EventsKept == ASSUME MaxDebt =< INT_MAX PROVE Spec => []EventsConserved
<1>1. IndInv => EventsConserved
  BY DEF IndInv, AccountInv
<1> QED
  BY <1>1, Inductive, PTL

\* Under the same condition a callback is never called without an event to report.
THEOREM CallbackHasEvents == ASSUME MaxDebt =< INT_MAX PROVE Spec => []CountPositive
<1>1. IndInv => CountPositive
  BY DEF IndInv, CountInv
<1> QED
  BY <1>1, Inductive, PTL

\* And the timer of a counted event is in the list, or about to be there or handled.
THEOREM CountedPending == ASSUME MaxDebt =< INT_MAX PROVE Spec => []CountedIsPending
<1>1. IndInv => CountedIsPending
  BY DEF IndInv, CountInv
<1> QED
  BY <1>1, Inductive, PTL

-----------------------------------------------------------------------------------
(* The use of timerlib, and what is left of a timer that is stopped.       *)

\* A step that does not touch a timer changes nothing of its use of timerlib.
LEMMA SameUse ==
  ASSUME NEW u \in Timers, handler'[u] = handler[u], armed'[u] = armed[u], owed'[u] = owed[u],
         (pc' = "join" /\ cur' = u) <=> (pc = "join" /\ cur = u)
  PROVE  UNCHANGED TL(u)!vars
  BY Zenon DEF TL!vars, TimerlibState

\* Every step is one that timerlib allows, of every timer.
LEMMA UseStep ==
  TypeOK /\ MainInv /\ LifeInv /\ [Next]_vars =>
    \A u \in Timers : TimerlibStep(u)
<1> SUFFICES ASSUME TypeOK, MainInv, LifeInv, [Next]_vars, NEW u \in Timers
             PROVE  TimerlibStep(u)
  OBVIOUS
<1> USE DEF TypeOK, MainInv, LifeInv, timerVars, tlsVars, kernelVars, handlerVars, mainVars
<1>0. UNCHANGED TL(u)!vars => TimerlibStep(u)
  BY Zenon DEF TimerlibStep
<1>1. ASSUME NEW t \in Timers, expire(t) PROVE TimerlibStep(u)
  <2>1. CASE t = u
    <3>1. TL(u)!expire
      BY <1>1, <2>1 DEF expire, TL!expire, TimerlibState
    <3> QED
      BY <3>1, Zenon DEF TimerlibStep, TL!OtherNext
  <2>2. CASE t # u
    BY <1>0, <1>1, <2>2, SameUse DEF expire
  <2> QED
    BY <2>1, <2>2, Zenon
<1>2. ASSUME NEW t \in Timers, notify(t) PROVE TimerlibStep(u)
  <2>1. CASE t = u
    <3>1. \E n \in 1..owed[u] : owed'[u] = owed[u] - n
      BY <1>2, <2>1, ZenonT(40) DEF notify
    <3>2. handler[u] = "wait" /\ handler'[u] = "handle" /\ UNCHANGED <<armed, pc, cur>>
      BY <1>2, <2>1 DEF notify
    <3>3. TL(u)!notify
      BY <3>1, <3>2, Zenon DEF TL!notify, TimerlibState
    <3> QED
      BY <3>3, Zenon DEF TimerlibStep, TL!OtherNext
  <2>2. CASE t # u
    <3>1. handler'[u] = handler[u] /\ owed'[u] = owed[u] /\ UNCHANGED <<armed, pc, cur>>
      BY <1>2, <2>2, ZenonT(40) DEF notify
    <3> QED
      BY <1>0, <3>1, SameUse, Zenon
  <2> QED
    BY <2>1, <2>2
<1>3. ASSUME NEW t \in Timers, handle_count(t) \/ handle_enqueue(t)
      PROVE  TimerlibStep(u)
  <2>1. CASE t = u
    BY <1>3, <2>1 DEF handle_count, handle_enqueue, TL!vars, TimerlibState, TimerlibStep
  <2>2. CASE t # u
    <3>1. handler'[u] = handler[u] /\ UNCHANGED <<armed, owed, pc, cur>>
      BY <1>3, <2>2, ZenonT(40) DEF handle_count, handle_enqueue
    <3> QED
      BY <1>0, <3>1, SameUse, Zenon
  <2> QED
    BY <2>1, <2>2
<1>4. ASSUME NEW t \in Timers, handle_store(t) PROVE TimerlibStep(u)
  <2>1. CASE t = u
    <3>1. TL(u)!return
      BY <1>4, <2>1 DEF handle_store, TL!return, TimerlibState
    <3> QED
      BY <3>1, Zenon DEF TimerlibStep, TL!OtherNext
  <2>2. CASE t # u
    BY <1>0, <1>4, <2>2, SameUse DEF handle_store
  <2> QED
    BY <2>1, <2>2
<1>5. CASE InterruptNext
  BY <1>0, <1>5, SameUse, Zenon DEF InterruptNext, vm_check, pending_dequeue, callback, callback_return,
                       interrupt_return, bailout
<1>6. ASSUME NEW t \in Timers, timer_init(t) PROVE TimerlibStep(u)
  <2>1. CASE t = u /\ handler' = [handler EXCEPT ![t] = "wait"]
    <3>1. TL(u)!timer_init
      BY <1>6, <2>1 DEF timer_init, TL!timer_init, TimerlibState
    <3> QED
      BY <3>1, Zenon DEF TimerlibStep, TL!OtherNext
  <2>2. CASE t # u \/ handler' = handler
    BY <1>0, <1>6, <2>2, SameUse, Zenon DEF timer_init
  <2> QED
    BY <1>6, <2>1, <2>2, Zenon DEF timer_init
<1>7. ASSUME NEW m \in {"off", "oneshot", "periodic"}, settime(u, m), handler[u] # "none",
             pc = "user", pc' = "user", handler' = handler
      PROVE  TL(u)!settime(m)
  <2>1. owed'[u] \in 0..owed[u] /\ armed'[u] = m
    BY <1>7 DEF settime
  <2> QED
    BY <1>7, <2>1, Zenon DEF TL!settime, TimerlibState
<1>8. ASSUME NEW t \in Timers, timer_start(t) \/ timer_stop(t)
      PROVE  TimerlibStep(u)
  <2>1. CASE t = u
    <3>1. handler[u] # "none" /\ pc = "user" /\ pc' = "user" /\ handler' = handler
      BY <1>8, <2>1, Zenon DEF timer_start, timer_stop
    <3>2. \E m \in {"off", "oneshot", "periodic"} : settime(u, m)
      BY <1>8, <2>1, Zenon DEF timer_start, timer_stop
    <3> QED
      <4>1. TL(u)!SetNext
        BY <1>7, <3>1, <3>2 DEF TL!SetNext, TL!timer_start, TL!timer_stop
      <4> QED
        BY <1>8, <2>1, <4>1, ZenonT(40) DEF TimerlibStep
  <2>2. CASE t # u
    <3>1. (\E m \in {"off", "oneshot", "periodic"} : settime(t, m)) /\ UNCHANGED <<handler, pc, cur>>
      BY <1>8, Zenon DEF timer_start, timer_stop
    <3>2. armed'[u] = armed[u] /\ owed'[u] = owed[u]
      BY <2>2, <3>1, ZenonT(40) DEF settime
    <3> QED
      BY <1>0, <3>1, <3>2, SameUse, Zenon
  <2> QED
    BY <2>1, <2>2
<1>9. ASSUME NEW t \in Timers, timer_destroy(t) PROVE TimerlibStep(u)
  <2>1. CASE t = u
    <3>1. armed'[u] \in {armed[u], "off"} /\ owed'[u] \in 0..owed[u]
      <4>1. CASE settime(t, "off")
        BY <2>1, <4>1 DEF settime
      <4>2. CASE UNCHANGED kernelVars
        BY <4>2
      <4> QED
        BY <1>9, <4>1, <4>2, Zenon DEF timer_destroy
    <3>2. TL(u)!destroy
      BY <1>9, <2>1, <3>1, Zenon DEF timer_destroy, TL!destroy, TimerlibState
    <3> QED
      BY <3>2 DEF TimerlibStep, TL!OtherNext
  <2>2. CASE t # u
    BY <1>0, <1>9, <2>2, SameUse DEF timer_destroy, settime
  <2> QED
    BY <2>1, <2>2
<1>10. CASE destroy_join
  <2>1. CASE cur = u
    <3>1. TL(u)!destroy_return
      BY <1>10, <2>1 DEF destroy_join, TL!destroy_return, TimerlibState
    <3> QED
      BY <3>1, Zenon DEF TimerlibStep, TL!OtherNext
  <2>2. CASE cur # u
    BY <1>0, <1>10, <2>2, SameUse, ZenonT(40) DEF destroy_join
  <2> QED
    BY <2>1, <2>2, Zenon
<1>11. CASE destroy_remove \/ thread_shutdown \/ thread_init \/ UNCHANGED vars
  BY <1>0, <1>11, SameUse, Zenon DEF destroy_remove, thread_shutdown, thread_init, vars
<1> QED
  BY <1>1, <1>2, <1>3, <1>4, <1>5, <1>6, <1>8, <1>9, <1>10, <1>11, Zenon
     DEF Next, HandlerNext, OperationNext

\* excimer_timer.c uses timerlib as timerlib.h asks: in every reachable state, whatever PHP
\* code does, each timer's calls to timerlib and the calls it gets back are a behaviour of
\* Timerlib, in which only a start, a stop or a destroy takes back reports that are due.
\* The two implementations are shown to have no other.
THEOREM TimerlibUse == Spec => UsesTimerlib
<1>1. Init => \A t \in Timers : TL(t)!Init
  BY DEF Init, TL!Init, TimerlibState
<1>2. IndInv /\ [Next]_vars => [\A t \in Timers : TimerlibStep(t)]_vars
  BY UseStep DEF IndInv
<1> QED
  BY <1>1, <1>2, Inductive, PTL DEF Spec, UsesTimerlib

\* At most one call of the callback comes from a handler at work, and one from the list.
HandlerCall(t) == IF handler[t] \in {"handle", "enqueue"} THEN 1 ELSE 0
ListCall(t) == IF t \in Elements(pending[tls(t)]) THEN 1 ELSE 0

\* The parts of CallsLeft are natural numbers.
LEMMA CallsLeftParts ==
  ASSUME NEW u \in Timers
  PROVE  CallsLeft(u) = owed[u] + HandlerCall(u) + ListCall(u)
         /\ HandlerCall(u) \in {0, 1} /\ ListCall(u) \in {0, 1}
  BY DEF CallsLeft, HandlerCall, ListCall

\* Each part of a sum may shrink, or one of them by as much as another grows.
LEMMA SumShrinks ==
  ASSUME NEW a \in Nat, NEW b \in {0, 1}, NEW c \in {0, 1},
         NEW a1 \in Nat, NEW b1 \in {0, 1}, NEW c1 \in {0, 1},
         \/ a1 =< a /\ b1 =< b /\ c1 =< c
         \/ a1 < a /\ c1 =< c
         \/ a1 =< a /\ b1 < b
  PROVE  a1 + b1 + c1 =< a + b + c
  OBVIOUS

\* No step adds to the calls that a stopped timer may still get.
LEMMA StoppedStep ==
  TypeOK /\ MainInv /\ LifeInv /\ ListInv /\ [Next]_vars =>
    \A t \in Timers : ~is_running[t] /\ ~is_running'[t] => CallsLeft(t)' =< CallsLeft(t)
<1> SUFFICES ASSUME TypeOK, MainInv, LifeInv, ListInv, [Next]_vars, NEW u \in Timers,
                    ~is_running[u], ~is_running'[u]
             PROVE  CallsLeft(u)' =< CallsLeft(u)
  OBVIOUS
<1> DEFINE Shrinks ==
      \/ owed'[u] =< owed[u] /\ HandlerCall(u)' =< HandlerCall(u) /\ ListCall(u)' =< ListCall(u)
      \/ owed'[u] < owed[u] /\ ListCall(u)' =< ListCall(u)
      \/ owed'[u] =< owed[u] /\ HandlerCall(u)' < HandlerCall(u)
<1>1. SUFFICES Shrinks
  <2>1. TypeOK'
    BY TypeStep, Zenon
  <2>2. owed[u] \in Nat /\ owed'[u] \in Nat
    BY <2>1, Zenon DEF TypeOK
  <2>3. /\ CallsLeft(u) = owed[u] + HandlerCall(u) + ListCall(u)
        /\ HandlerCall(u) \in {0, 1} /\ ListCall(u) \in {0, 1}
    BY CallsLeftParts, Zenon
  <2>4. /\ CallsLeft(u)' = owed'[u] + HandlerCall(u)' + ListCall(u)'
        /\ HandlerCall(u)' \in {0, 1} /\ ListCall(u)' \in {0, 1}
    BY CallsLeftParts, Zenon DEF CallsLeft, HandlerCall, ListCall
  <2> HIDE DEF Shrinks
  <2>5. Shrinks => /\ owed'[u] + HandlerCall(u)' + ListCall(u)'
                      =< owed[u] + HandlerCall(u) + ListCall(u)
    BY <2>2, <2>3, <2>4, SumShrinks DEF Shrinks
  <2> QED
    BY <1>1, <2>3, <2>4, <2>5, Zenon
<1>2. (u \in Elements(pending'[tls(u)]) => u \in Elements(pending[tls(u)]))
         => ListCall(u)' =< ListCall(u)
  BY DEF ListCall, tls
<1>3. handler'[u] = handler[u] \/ handler'[u] \in {"none", "wait", "store"}
         => HandlerCall(u)' =< HandlerCall(u)
  BY DEF HandlerCall
<1>4. owed[u] \in Nat /\ tls(u) \in Threads /\ pending \in [Threads -> Seq(Timers)]
  BY TlsFacts DEF TypeOK
<1>5. owed'[u] = owed[u] => owed'[u] =< owed[u]
  BY <1>4
<1> HIDE DEF TypeOK
<1> USE DEF timerVars, tlsVars, kernelVars, handlerVars, mainVars
<1>6. ASSUME NEW t \in Timers, expire(t) PROVE Shrinks
  <2>1. t # u
    BY <1>6, Zenon DEF expire, LifeInv, TypeOK
  <2> QED
    BY <1>2, <1>3, <1>5, <1>6, <2>1, Zenon DEF expire, TypeOK
<1>7. ASSUME NEW t \in Timers, notify(t) PROVE Shrinks
  <2>1. ListCall(u)' =< ListCall(u)
    BY <1>2, <1>7, Zenon DEF notify
  <2>2. CASE t = u
    <3>1. PICK n \in 1..owed[u] : owed'[u] = owed[u] - n
      BY <1>7, <2>2, Zenon DEF notify, TypeOK
    <3>2. owed'[u] < owed[u]
      BY <1>4, <3>1
    <3> QED
      BY <2>1, <3>2, Zenon
  <2>3. CASE t # u
    <3>1. owed'[u] = owed[u] /\ handler'[u] = handler[u]
      BY <1>7, <2>3, ZenonT(40) DEF notify, TypeOK
    <3> QED
      BY <1>3, <1>5, <2>1, <3>1, Zenon
  <2> QED
    BY <2>2, <2>3, Zenon
<1>8. ASSUME NEW t \in Timers, handle_count(t) PROVE Shrinks
  <2>1. HandlerCall(u)' = HandlerCall(u) /\ HandlerCall(u) \in {0, 1}
    BY <1>8, Zenon DEF handle_count, HandlerCall, TypeOK
  <2> QED
    BY <1>2, <1>5, <1>8, <2>1 DEF handle_count
<1>9. ASSUME NEW t \in Timers, handle_enqueue(t) PROVE Shrinks
  <2>1. CASE t = u
    <3>1. HandlerCall(u)' < HandlerCall(u)
      BY <1>9, <2>1 DEF handle_enqueue, HandlerCall, TypeOK
    <3> QED
      BY <1>5, <1>9, <3>1, Zenon DEF handle_enqueue
  <2>2. CASE t # u
    <3>1. Elements(list_enqueue(pending[tls(t)], t)) = Elements(pending[tls(t)]) \cup {t}
      BY <1>4, TlsFacts, EnqueueElements
    <3>2. u \in Elements(pending'[tls(u)]) => u \in Elements(pending[tls(u)])
      BY <1>4, <1>9, <2>2, <3>1, TlsFacts, Zenon DEF handle_enqueue
    <3> QED
      BY <1>2, <1>3, <1>5, <1>9, <2>2, <3>2, Zenon DEF handle_enqueue, TypeOK
  <2> QED
    BY <2>1, <2>2
<1>10. ASSUME NEW t \in Timers, handle_store(t) PROVE Shrinks
  BY <1>2, <1>3, <1>5, <1>10 DEF handle_store, TypeOK
<1>11. CASE pending_dequeue
  <2>1. Elements(Tail(pending[Main])) \subseteq Elements(pending[Main])
    BY <1>4, <1>11, TlsFacts, DequeueElements DEF pending_dequeue
  <2>2. u \in Elements(pending'[tls(u)]) => u \in Elements(pending[tls(u)])
    BY <1>4, <1>11, <2>1, TlsFacts, Zenon DEF pending_dequeue
  <2> QED
    BY <1>2, <1>3, <1>5, <1>11, <2>2 DEF pending_dequeue
<1>12. CASE vm_check \/ callback \/ callback_return \/ interrupt_return \/ bailout
  BY <1>2, <1>3, <1>5, <1>12, Zenon DEF vm_check, callback, callback_return, interrupt_return, bailout
<1>13. ASSUME NEW t \in Timers, timer_init(t) PROVE Shrinks
  BY <1>2, <1>3, <1>5, <1>13, Zenon DEF timer_init, TypeOK
<1>14. ASSUME NEW t \in Timers, timer_start(t) \/ timer_stop(t) PROVE Shrinks
  <2>1. t # u
    BY <1>14, Zenon DEF timer_start, timer_stop, TypeOK
  <2> QED
    BY <1>2, <1>3, <1>5, <1>14, <2>1, Zenon DEF timer_start, timer_stop, settime, TypeOK
<1>15. ASSUME NEW t \in Timers, timer_destroy(t) PROVE Shrinks
  <2>1. owed'[u] = owed[u]
    BY <1>15 DEF timer_destroy, settime, TypeOK
  <2> QED
    BY <1>2, <1>3, <1>5, <1>15, <2>1, Zenon DEF timer_destroy
<1>16. CASE destroy_join
  <2>1. owed'[u] =< owed[u]
    BY <1>4, <1>16 DEF destroy_join, TypeOK
  <2>2. handler'[u] \in {handler[u], "none"}
    BY <1>16, Zenon DEF destroy_join, TypeOK
  <2>3. u \in Elements(pending'[tls(u)]) => u \in Elements(pending[tls(u)])
    BY <1>4, <1>16, EmptyFacts, Zenon DEF destroy_join
  <2> QED
    BY <1>2, <1>3, <2>1, <2>2, <2>3, Zenon
<1>17. CASE destroy_remove
  <2>1. Elements(list_remove(pending[Main], cur)) \subseteq Elements(pending[Main])
    BY <1>4, TlsFacts, RemoveElements DEF ListInv
  <2>2. u \in Elements(pending'[tls(u)]) => u \in Elements(pending[tls(u)])
    BY <1>4, <1>17, <2>1, TlsFacts, Zenon DEF destroy_remove
  <2> QED
    BY <1>2, <1>3, <1>5, <1>17, <2>2, Zenon DEF destroy_remove
<1>18. CASE thread_init
  <2>1. u \in Elements(pending'[tls(u)]) => u \in Elements(pending[tls(u)])
    BY <1>4, <1>18, EmptyFacts, TlsFacts, Zenon DEF thread_init
  <2> QED
    BY <1>2, <1>3, <1>5, <1>18, <2>1, Zenon DEF thread_init
<1>19. CASE thread_shutdown \/ UNCHANGED vars
  BY <1>2, <1>3, <1>5, <1>19, Zenon DEF thread_shutdown, vars
<1> QED
  BY <1>6, <1>7, <1>8, <1>9, <1>10, <1>11, <1>12, <1>13, <1>14, <1>15, <1>16, <1>17, <1>18,
     <1>19, Zenon
     DEF Next, HandlerNext, InterruptNext, OperationNext

\* Once excimer_timer_stop has returned, what is due of the timer only winds down, for any
\* number of timers and handlers at work.
THEOREM StoppedWindsDown == Spec => StopWindsDown
<1>1. IndInv /\ [Next]_vars =>
        [\A t \in Timers : ~is_running[t] /\ ~is_running'[t] =>
            CallsLeft(t)' =< CallsLeft(t)]_vars
  BY StoppedStep DEF IndInv
<1> QED
  BY <1>1, Inductive, PTL DEF Spec, StopWindsDown
===================================================================================
