------------------------------- MODULE ExcimerTimer -------------------------------
(***************************************************************************)
(* excimer_timer.c: how an expiration travels from the kernel to a timer's *)
(* callback in the PHP thread, and how timers come and go meanwhile.       *)
(*                                                                         *)
(* There is one thread per timer, its handler, named by the timer, and the *)
(* PHP thread Main.  A handler is told of expirations by timerlib, counts  *)
(* them and puts the timer in the pending list under the mutex, and then   *)
(* raises vm_interrupt.  Main polls that flag between opcodes, takes the   *)
(* timers out of the list one by one and calls their callbacks, which are  *)
(* PHP code again: they start, stop and destroy timers, their own too, and *)
(* are themselves interrupted.                                             *)
(*                                                                         *)
(* timerlib appears here as its contract (module Timerlib).  A mutex is    *)
(* taken in the step that enters the critical section and released in the  *)
(* step that leaves it.                                                    *)
(***************************************************************************)
EXTENDS QueueOps, FiniteSets

CONSTANTS
  Timers,     \* the excimer_timer structures of the PHP objects
  Main,       \* the PHP thread
  None,       \* no thread, no timer
  ZTS,        \* thread-safe build: ZEND_TLS is thread-local, else it is static
  INT_MAX,    \* the largest value of a C int
  MaxDebt,    \* bound: expirations of a timer not yet passed to its callback
  MaxDepth    \* bound: nesting of VM interrupts

ASSUME ConstantsAssumption ==
  /\ IsFiniteSet(Timers)
  /\ Main \notin Timers /\ None \notin Timers \cup {Main}
  /\ ZTS \in BOOLEAN
  /\ INT_MAX \in Nat /\ MaxDebt \in Nat /\ MaxDepth \in Nat

VARIABLES
  is_valid, is_running, event_count,  \* fields of excimer_timer
  pending, mutex, timers_active,      \* excimer_timer_tls
  vm_interrupt,                       \* EG(vm_interrupt) of the PHP thread
  armed, owed,                        \* the kernel timer, and what it has to report
  handler, overrun,                   \* a handler's position and its argument
  pc, cur, depth, unclean,            \* the PHP thread; unclean: after a bailout
  debt                                \* ghost: expirations the callback was not told of

timerVars  == <<is_valid, is_running, event_count>>
tlsVars    == <<pending, mutex, timers_active>>
kernelVars == <<armed, owed>>
handlerVars == <<handler, overrun>>
mainVars   == <<pc, cur, depth, unclean>>

vars == <<timerVars, tlsVars, vm_interrupt, kernelVars, handlerVars, mainVars, debt>>

Threads == Timers \cup {Main}

\* The copy of excimer_timer_tls a thread sees.
tls(th) == IF ZTS THEN th ELSE Main

Init ==
  /\ is_valid = [t \in Timers |-> FALSE]
  /\ is_running = [t \in Timers |-> FALSE]
  /\ event_count = [t \in Timers |-> 0]
  /\ pending = [th \in Threads |-> <<>>]
  /\ mutex = [th \in Threads |-> None]
  /\ timers_active = 0
  /\ vm_interrupt = 0
  /\ armed = [t \in Timers |-> "off"]
  /\ owed = [t \in Timers |-> 0]
  /\ handler = [t \in Timers |-> "none"]
  /\ overrun = [t \in Timers |-> 0]
  /\ pc = "user" /\ cur = None /\ depth = 0 /\ unclean = 0
  /\ debt = [t \in Timers |-> 0]

\* Plausible bug: the mutex is taken although another thread holds it.
mutex_lock_shared(th) == mutex' = [mutex EXCEPT ![tls(th)] = th]

\* excimer_mutex_lock and excimer_mutex_unlock of excimer_timer_tls.mutex.
mutex_lock(th) ==
  /\ mutex[tls(th)] = None
  /\ mutex' = [mutex EXCEPT ![tls(th)] = th]

mutex_unlock(th) == mutex' = [mutex EXCEPT ![tls(th)] = None]

-----------------------------------------------------------------------------------
(* The kernel and the handler threads.                                     *)

\* External: the kernel timer expires.  While the previous notification is not
\* taken, expirations are counted as its overruns.
expire(t) ==
  /\ armed[t] # "off"
  /\ debt[t] < MaxDebt
  /\ owed' = [owed EXCEPT ![t] = @ + 1]
  /\ debt' = [debt EXCEPT ![t] = @ + 1]
  /\ armed' = [armed EXCEPT ![t] = IF @ = "oneshot" THEN "off" ELSE @]
  /\ UNCHANGED <<timerVars, tlsVars, vm_interrupt, handlerVars, mainVars>>

\* timerlib calls notify_function for expirations it owes, with the overrun
\* count, which the system keeps at most INT_MAX.
notify(t) ==
  /\ handler[t] = "wait"
  /\ \E n \in 1..owed[t] :
        /\ overrun' = [overrun EXCEPT ![t] = IF n - 1 > INT_MAX THEN INT_MAX ELSE n - 1]
        /\ owed' = [owed EXCEPT ![t] = @ - n]
  /\ handler' = [handler EXCEPT ![t] = "handle"]
  /\ UNCHANGED <<timerVars, tlsVars, vm_interrupt, armed, mainVars, debt>>

\* The values an addition of C ints may give: on overflow it is undefined, and
\* is done in 32 bits or in the 64 bits of the sum it is a part of.
IntSum(n) == IF n =< INT_MAX THEN {n} ELSE {n, n - 2 * (INT_MAX + 1)}

\* excimer_timer_handle, first half: lock, and count the expirations.
handle_count(t) ==
  /\ handler[t] = "handle"
  /\ mutex_lock(t)
  /\ \E n \in IntSum(overrun[t] + 1) :
        event_count' = [event_count EXCEPT ![t] = @ + n]
  /\ handler' = [handler EXCEPT ![t] = "enqueue"]
  /\ UNCHANGED <<is_valid, is_running, pending, timers_active, vm_interrupt,
                 kernelVars, overrun, mainVars, debt>>

\* Second half: enqueue the timer, and unlock.
handle_enqueue(t) ==
  /\ handler[t] = "enqueue"
  /\ pending' = [pending EXCEPT ![tls(t)] = list_enqueue(@, t)]
  /\ mutex_unlock(t)
  /\ handler' = [handler EXCEPT ![t] = "store"]
  /\ UNCHANGED <<timerVars, timers_active, vm_interrupt, kernelVars, overrun,
                 mainVars, debt>>

\* Then raise vm_interrupt, and return to timerlib.
handle_store(t) ==
  /\ handler[t] = "store"
  /\ vm_interrupt' = 1
  /\ handler' = [handler EXCEPT ![t] = "wait"]
  /\ UNCHANGED <<timerVars, tlsVars, kernelVars, overrun, mainVars, debt>>

-----------------------------------------------------------------------------------
(* The PHP thread: VM interrupts and callbacks.                            *)

\* External: the VM sees vm_interrupt, clears it and calls
\* zend_interrupt_function.
vm_check ==
  /\ pc = "user"
  /\ vm_interrupt = 1
  /\ depth < MaxDepth
  /\ vm_interrupt' = 0
  /\ pc' = "dequeue"
  /\ depth' = depth + 1
  /\ UNCHANGED <<timerVars, tlsVars, kernelVars, handlerVars, cur, unclean, debt>>

\* excimer_timer_pending_dequeue: lock, and take the first timer ...
pending_dequeue ==
  /\ pc = "dequeue"
  /\ mutex_lock(Main)
  /\ pending[tls(Main)] # <<>>
  /\ cur' = Head(pending[tls(Main)])
  /\ pending' = [pending EXCEPT ![tls(Main)] = Tail(@)]
  /\ pc' = "count"
  /\ UNCHANGED <<timerVars, timers_active, vm_interrupt, kernelVars, handlerVars,
                 depth, unclean, debt>>

\* Plausible bug: the callback is called before the mutex is unlocked.
callback_in_section ==
  /\ pc = "count"
  /\ debt' = [debt EXCEPT ![cur] = @ - event_count[cur]]
  /\ event_count' = [event_count EXCEPT ![cur] = 0]
  /\ pc' = "user"
  /\ UNCHANGED <<is_valid, is_running, tlsVars, vm_interrupt, kernelVars, handlerVars,
                 cur, depth, unclean>>

\* ... read its event count and clear it, unlock, and call its callback.
callback ==
  /\ pc = "count"
  /\ debt' = [debt EXCEPT ![cur] = @ - event_count[cur]]
  /\ event_count' = [event_count EXCEPT ![cur] = 0]
  /\ mutex_unlock(Main)
  /\ pc' = "user"
  /\ UNCHANGED <<is_valid, is_running, pending, timers_active, vm_interrupt,
                 kernelVars, handlerVars, cur, depth, unclean>>

\* Plausible bug: an interrupt handles one timer only.
callback_return_no_loop ==
  /\ pc = "user" /\ depth > 0
  /\ depth' = depth - 1
  /\ UNCHANGED <<timerVars, tlsVars, vm_interrupt, kernelVars, handlerVars, pc, cur,
                 unclean, debt>>

\* The callback returns into the loop of excimer_timer_interrupt.
callback_return ==
  /\ pc = "user" /\ depth > 0
  /\ pc' = "dequeue"
  /\ UNCHANGED <<timerVars, tlsVars, vm_interrupt, kernelVars, handlerVars, cur,
                 depth, unclean, debt>>

\* The list is empty: the loop ends.  old_zend_interrupt_function is called
\* last, so the code it runs is the code of the level below.
interrupt_return ==
  /\ pc = "dequeue"
  /\ mutex[tls(Main)] = None
  /\ pending[tls(Main)] = <<>>
  /\ pc' = "user"
  /\ depth' = depth - 1
  /\ UNCHANGED <<timerVars, tlsVars, vm_interrupt, kernelVars, handlerVars, cur,
                 unclean, debt>>

\* External: a fatal error in a callback unwinds the C stack down to the
\* request's shutdown, which runs PHP code too.
bailout ==
  /\ pc = "user" /\ depth > 0
  /\ depth' = 0
  /\ unclean' = 1
  /\ UNCHANGED <<timerVars, tlsVars, vm_interrupt, kernelVars, handlerVars, pc,
                 cur, debt>>

-----------------------------------------------------------------------------------
(* The PHP thread: operations on timers, from any PHP code.                *)

\* Plausible bug: stopping leaves the kernel timer armed.
settime_no_disarm(t, mode) ==
  /\ armed' = [armed EXCEPT ![t] = IF mode = "off" THEN @ ELSE mode]
  /\ UNCHANGED <<owed, debt>>

\* timerlib_timer_start and timerlib_timer_stop call timer_settime.  POSIX leaves
\* open whether a notification that is due survives; what is dropped was never
\* told to anyone.
settime(t, mode) ==
  /\ armed' = [armed EXCEPT ![t] = mode]
  /\ \E kept \in 0..owed[t] :
        /\ owed' = [owed EXCEPT ![t] = kept]
        /\ debt' = [debt EXCEPT ![t] = @ - (owed[t] - kept)]

\* Plausible bug: the structure is not zeroed before it is used again.
zero_struct_forgotten(t) == UNCHANGED event_count

\* The memset of excimer_timer_init.  A timer that is not valid is not running
\* and in no list.
zero_struct(t) == event_count' = [event_count EXCEPT ![t] = 0]

\* excimer_timer_init: zero the structure and start the handler.  When timerlib
\* fails nothing remains of it.
timer_init(t) ==
  /\ pc = "user"
  /\ ~is_valid[t]
  /\ zero_struct(t)
  /\ \/ /\ handler' = [handler EXCEPT ![t] = "wait"]
        /\ timers_active' = timers_active + 1
        /\ is_valid' = [is_valid EXCEPT ![t] = TRUE]
     \/ UNCHANGED <<handler, timers_active, is_valid>>
  /\ UNCHANGED <<is_running, pending, mutex, vm_interrupt, kernelVars, overrun,
                 mainVars, debt>>

\* excimer_timer_start.  With an interval and a period of zero, or when timerlib
\* fails, it changes nothing.
timer_start(t) ==
  /\ pc = "user"
  /\ is_valid[t]
  /\ \E mode \in {"oneshot", "periodic"} : settime(t, mode)
  /\ is_running' = [is_running EXCEPT ![t] = TRUE]
  /\ UNCHANGED <<is_valid, event_count, tlsVars, vm_interrupt, handlerVars, mainVars>>

\* excimer_timer_stop: the timer stays in the pending list.
timer_stop(t) ==
  /\ pc = "user"
  /\ is_valid[t] /\ is_running[t]
  /\ settime(t, "off")
  /\ is_running' = [is_running EXCEPT ![t] = FALSE]
  /\ UNCHANGED <<is_valid, event_count, tlsVars, vm_interrupt, handlerVars, mainVars>>

\* excimer_timer_destroy: stop the timer ...
timer_destroy(t) ==
  /\ pc = "user"
  /\ is_valid[t]
  /\ IF is_running[t] THEN settime(t, "off") ELSE UNCHANGED <<kernelVars, debt>>
  /\ is_running' = [is_running EXCEPT ![t] = FALSE]
  /\ pc' = "join" /\ cur' = t
  /\ UNCHANGED <<is_valid, event_count, tlsVars, vm_interrupt, handlerVars, depth,
                 unclean>>

\* Plausible bug: the timer is not counted as gone.
timers_active_kept == UNCHANGED timers_active

timers_active_decrement == timers_active' = timers_active - 1

\* Plausible bug: the handler is ended in the middle of excimer_timer_handle.
destroy_join_no_wait ==
  /\ pc = "join"
  /\ handler' = [handler EXCEPT ![cur] = "none"]
  /\ owed' = [owed EXCEPT ![cur] = 0]
  /\ debt' = [debt EXCEPT ![cur] = @ - owed[cur]]
  /\ timers_active_decrement
  /\ pc' = "remove"
  /\ UNCHANGED <<timerVars, pending, mutex, vm_interrupt, armed, overrun, cur, depth,
                 unclean>>

\* ... have timerlib wait until its handler is done, and end it (with its copy
\* of excimer_timer_tls) ...
destroy_join ==
  /\ pc = "join"
  /\ handler[cur] = "wait"
  /\ handler' = [handler EXCEPT ![cur] = "none"]
  /\ owed' = [owed EXCEPT ![cur] = 0]
  /\ debt' = [debt EXCEPT ![cur] = @ - owed[cur]]
  /\ timers_active_decrement
  /\ pending' = IF ZTS THEN [pending EXCEPT ![cur] = <<>>] ELSE pending
  /\ pc' = "remove"
  /\ UNCHANGED <<timerVars, mutex, vm_interrupt, armed, overrun, cur, depth, unclean>>

\* ... and take it out of the pending list, with the events it holds.
destroy_remove ==
  /\ pc = "remove"
  /\ mutex[tls(Main)] = None
  /\ pending' = [pending EXCEPT ![tls(Main)] = list_remove(@, cur)]
  /\ debt' = [debt EXCEPT ![cur] = 0]
  /\ is_valid' = [is_valid EXCEPT ![cur] = FALSE]
  /\ pc' = "user"
  /\ UNCHANGED <<is_running, event_count, mutex, timers_active, vm_interrupt,
                 kernelVars, handlerVars, cur, depth, unclean>>

\* excimer_timer_thread_shutdown.  It is called from the post-deactivate hook, when the
\* engine has freed every object, and with it every timer.  So the branch with the warning
\* is for a count that does not agree: ShutdownClean shows that it always does.
thread_shutdown ==
  /\ pc = "user" /\ depth = 0
  /\ \A t \in Timers : ~is_valid[t]
  /\ pc' = "down"
  /\ UNCHANGED <<timerVars, tlsVars, vm_interrupt, kernelVars, handlerVars, cur,
                 depth, unclean, debt>>

\* excimer_timer_thread_init, at the start of the next request, for which the
\* engine has cleared vm_interrupt.
thread_init ==
  /\ pc = "down"
  /\ pending' = [pending EXCEPT ![tls(Main)] = <<>>]
  /\ mutex' = [mutex EXCEPT ![tls(Main)] = None]
  /\ timers_active' = 0
  /\ vm_interrupt' = 0
  /\ pc' = "user" /\ unclean' = 0
  /\ UNCHANGED <<timerVars, kernelVars, handlerVars, cur, depth, debt>>

-----------------------------------------------------------------------------------

HandlerNext(t) == notify(t) \/ handle_count(t) \/ handle_enqueue(t) \/ handle_store(t)

InterruptNext ==
  \/ vm_check \/ pending_dequeue \/ callback \/ callback_return \/ interrupt_return
  \/ bailout

OperationNext ==
  \/ \E t \in Timers : timer_init(t) \/ timer_start(t) \/ timer_stop(t) \/ timer_destroy(t)
  \/ destroy_join \/ destroy_remove \/ thread_shutdown \/ thread_init

Next ==
  \/ \E t \in Timers : expire(t) \/ HandlerNext(t)
  \/ InterruptNext
  \/ OperationNext

Spec == Init /\ [][Next]_vars

\* Threads are scheduled, and get a mutex that is free again and again; PHP
\* code reaches interrupt checks, and callbacks return.
Fairness ==
  /\ \A t \in Timers : WF_vars(HandlerNext(t)) /\ SF_vars(handle_count(t))
  /\ SF_vars(vm_check) /\ SF_vars(callback_return)
  /\ SF_vars(pending_dequeue) /\ WF_vars(callback) /\ SF_vars(interrupt_return)
  /\ WF_vars(destroy_join) /\ SF_vars(destroy_remove)

FairSpec == Spec /\ Fairness

-----------------------------------------------------------------------------------
(* The use of timerlib.                                                    *)

TimerlibState(t) ==
  IF handler[t] = "none" THEN "none" ELSE IF pc = "join" /\ cur = t THEN "closing" ELSE "live"

TL(t) == INSTANCE Timerlib WITH
  state <- TimerlibState(t),
  armed <- armed[t],
  owed <- owed[t],
  busy <- handler[t] \in {"handle", "enqueue", "store"}

\* What may become of timer t in a step: only the client sets it.
TimerlibStep(t) ==
  \/ (timer_start(t) \/ timer_stop(t)) /\ TL(t)!SetNext
  \/ TL(t)!OtherNext
  \/ UNCHANGED TL(t)!vars

\* Every step of a timer is one that timerlib allows: it is only started, stopped
\* and destroyed between init and destroy, and not called back outside of that; and only
\* excimer_timer_start, _stop and _destroy take back reports that are due.
UsesTimerlib ==
  /\ \A t \in Timers : TL(t)!Init
  /\ [][\A t \in Timers : TimerlibStep(t)]_vars

-----------------------------------------------------------------------------------
(* Properties.                                                             *)

TypeOK ==
  /\ is_valid \in [Timers -> BOOLEAN] /\ is_running \in [Timers -> BOOLEAN]
  /\ event_count \in [Timers -> Int]
  /\ pending \in [Threads -> Seq(Timers)]
  /\ mutex \in [Threads -> Threads \cup {None}]
  /\ timers_active \in Int
  /\ vm_interrupt \in {0, 1}
  /\ armed \in [Timers -> {"off", "oneshot", "periodic"}]
  /\ owed \in [Timers -> Nat]
  /\ handler \in [Timers -> {"none", "wait", "handle", "enqueue", "store"}]
  /\ overrun \in [Timers -> Nat]
  /\ pc \in {"user", "dequeue", "count", "join", "remove", "down"}
  /\ cur \in Timers \cup {None}
  /\ depth \in Nat /\ unclean \in {0, 1}
  /\ debt \in [Timers -> Int]

\* What a handler has been told and has not yet counted.
InHand(t) == IF handler[t] = "handle" THEN overrun[t] + 1 ELSE 0

\* No expiration is lost, counted twice, or passed to a later timer in the same
\* structure, whatever the handlers, the callbacks and the operations on the
\* timer do in between (excimer_timer_handle, excimer_timer_pending_dequeue,
\* excimer_timer_destroy).
EventsConserved ==
  \A t \in Timers : is_valid[t] /\ ~(pc = "remove" /\ cur = t) =>
     debt[t] = owed[t] + InHand(t) + event_count[t]

\* A callback is never called with a count below 1: an event is counted and its
\* timer enqueued, and taken out and its count cleared, as one step.
CountPositive == pc = "count" => event_count[cur] > 0

\* Events counted are never stranded: their timer is in the pending list, or
\* about to be put there or handled.
CountedIsPending ==
  \A t \in Timers : is_valid[t] /\ ~(pc = "remove" /\ cur = t) /\ event_count[t] # 0 =>
     \/ t \in Elements(pending[tls(t)])
     \/ handler[t] = "enqueue"
     \/ pc = "count" /\ cur = t

\* A callback is only called for a timer that exists, and the list and the
\* handlers hold no timer that was destroyed: its memory is reused.
OnlyLiveTimers ==
  /\ pc = "count" => is_valid[cur]
  /\ \A t \in Timers : ~is_valid[t] =>
        /\ handler[t] = "none"
        /\ \A th \in Threads : t \notin Elements(pending[th])

\* A timer in the PHP thread's list is not forgotten: the VM will be
\* interrupted, or an interrupt will look at the list again.  Only a fatal
\* error in a callback leaves timers behind.
NoLostWakeup ==
  pending[tls(Main)] # <<>> =>
     \/ vm_interrupt = 1
     \/ depth > 0
     \/ \E t \in Timers : handler[t] = "store"
     \/ unclean = 1

\* When the thread ends no timer is active, as the comment in
\* excimer_timer_thread_shutdown demands, and no handler is left that could
\* use the mutex, which is free.
ShutdownClean ==
  pc = "down" =>
     /\ timers_active = 0
     /\ mutex[tls(Main)] = None
     /\ \A t \in Timers : handler[t] = "none"

\* At most how many calls of its callback a timer may still get without expiring
\* again.
CallsLeft(t) ==
  owed[t] + (IF handler[t] \in {"handle", "enqueue"} THEN 1 ELSE 0)
          + (IF t \in Elements(pending[tls(t)]) THEN 1 ELSE 0)

\* A timer that is stopped may still have its callback called, for what had
\* happened before, but nothing is added to that while it is stopped.
StopWindsDown ==
  [][\A t \in Timers : ~is_running[t] /\ ~is_running'[t] =>
        CallsLeft(t)' =< CallsLeft(t)]_vars

\* Every expiration is reported to the callback, unless the timer is stopped or
\* destroyed first or the request dies: other timers cannot starve it.
EventuallyDelivered ==
  \A t \in Timers : debt[t] > 0 ~> \/ debt[t] = 0
                                   \/ pc = "count" /\ cur = t
                                   \/ unclean = 1

\* The PHP thread never waits for a handler while it holds the mutex that the
\* handler needs to finish.
NoHoldAndWait == pc = "join" => mutex[tls(Main)] # Main

-----------------------------------------------------------------------------------
(* What makes the properties inductive; the proofs are in                  *)
(* ExcimerTimerProofs.                                                     *)

\* The mutex of a copy of excimer_timer_tls is held in the critical sections.
MutexInv ==
  /\ mutex[Main] = Main <=> pc = "count"
  /\ \A t \in Timers : /\ handler[t] = "enqueue" <=> mutex[tls(t)] = t
                       /\ mutex[Main] = t => tls(t) = Main

\* The life of a timer: when it has a handler, runs and is armed.
LifeInv ==
  /\ \A t \in Timers :
        /\ is_valid[t] <=> handler[t] # "none" \/ (pc = "remove" /\ cur = t)
        /\ is_running[t] => handler[t] # "none"
        /\ armed[t] # "off" => is_running[t]
        /\ handler[t] = "none" => owed[t] = 0
        /\ ~is_valid[t] => debt[t] = 0
  /\ pc = "join" => handler[cur] # "none" /\ ~is_running[cur]
  /\ pc = "remove" => handler[cur] = "none"
  /\ pc = "down" => \A t \in Timers : ~is_valid[t]

\* A valid timer is in one list at most, that of the thread-local data its
\* handler sees, and once at most; other timers are in none.
ListInv ==
  /\ \A th \in Threads :
        /\ NoDuplicates(pending[th])
        /\ \A t \in Elements(pending[th]) : th = tls(t) /\ is_valid[t]
  /\ pc = "count" => is_valid[cur] /\ tls(cur) = Main /\ cur \notin Elements(pending[Main])
  /\ pc = "remove" => \A th \in Timers : cur \notin Elements(pending[th])

\* The PHP thread is only in the loop of excimer_timer_interrupt in an interrupt,
\* and has a timer in hand where it uses one.
MainInv ==
  /\ pc \in {"dequeue", "count"} => depth > 0
  /\ pc \in {"count", "join", "remove"} => cur \in Timers

\* timers_active counts the timers with a handler.
ActiveInv == timers_active = Cardinality({t \in Timers : handler[t] # "none"})

\* The account of the events of a timer.
AccountInv ==
  /\ \A t \in Timers : event_count[t] >= 0 /\ debt[t] =< MaxDebt
  /\ EventsConserved

\* A timer is in a list exactly while it has events to report.
CountInv ==
  /\ \A t \in Timers :
        t \in Elements(pending[tls(t)]) \/ handler[t] = "enqueue" => event_count[t] > 0
  /\ CountPositive
  /\ CountedIsPending

IndInv ==
  /\ TypeOK /\ MainInv /\ MutexInv /\ LifeInv /\ ListInv /\ NoLostWakeup /\ ActiveInv
  /\ MaxDebt =< INT_MAX => AccountInv /\ CountInv
===================================================================================
