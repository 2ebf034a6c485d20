---------------------------- MODULE ExcimerTimerObjects ----------------------------
(***************************************************************************)
(* ExcimerTimer objects and excimer_set_timeout, of excimer.c, above the   *)
(* timers and the pending list that ExcimerTimer models: a timer is        *)
(* invalid, stopped or running, and expires into a queue from which the    *)
(* interrupt takes one timer after another and calls its PHP callback.     *)
(* The callback is PHP code: it calls methods, is itself interrupted,      *)
(* releases the object it belongs to, or throws.                           *)
(***************************************************************************)
EXTENDS QueueOps

CONSTANTS
  Timers,            \* the ExcimerTimer objects that can be created
  Durations,         \* arguments of setInterval and setPeriod
  TimeoutCallbacks,  \* what excimer_set_timeout is called with: "callable", "other"
  MaxEvents,         \* bound: expiries
  MaxNested,         \* bound: callbacks that are executing
  MayThrow,          \* whether PHP code throws exceptions
  MayBreak           \* whether a callback may cease to be callable

ASSUME TimerObjectsAssumption ==
  /\ Durations \subseteq Nat /\ TimeoutCallbacks \subseteq {"callable", "other"}
  /\ MaxEvents \in Nat /\ MaxNested \in Nat /\ {MayThrow, MayBreak} \subseteq BOOLEAN

VARIABLES
  obj,          \* "absent", "live", "freed"
  initial, period, need_reinit, callback,   \* the fields of an ExcimerTimer_obj
  timer_state,  \* its excimer_timer: "invalid", "stopped", "running"
  expiries,     \* the expiries of a running timer: "none", "one", "many"
  event_count,  \* timer->event_count
  queue,        \* the timers on the pending list
  calls,        \* the timers whose callbacks are executing, the innermost last
  exception,    \* EG(exception): "none", "event" in an interrupt, "php" elsewhere
  events        \* expiries so far

objVars == <<obj, initial, period, need_reinit, callback>>
timerVars == <<timer_state, expiries, event_count, queue>>
objectsVars == <<objVars, timerVars, calls, exception, events>>

ObjectsInit ==
  /\ obj = [t \in Timers |-> "absent"]
  /\ initial = [t \in Timers |-> 0] /\ period = [t \in Timers |-> 0]
  /\ need_reinit = [t \in Timers |-> TRUE] /\ callback = [t \in Timers |-> "null"]
  /\ timer_state = [t \in Timers |-> "invalid"] /\ expiries = [t \in Timers |-> "none"]
  /\ event_count = [t \in Timers |-> 0] /\ queue = <<>>
  /\ calls = <<>> /\ exception = "none" /\ events = 0

\* PHP code that can call a method of t is executing.
php(t) == obj[t] = "live" /\ exception = "none"

-----------------------------------------------------------------------------------
(* Construction and setters.  An undefined callback is treated as null.    *)

ExcimerTimer_new(t) ==
  /\ obj[t] = "absent" /\ exception = "none"
  /\ obj' = [obj EXCEPT ![t] = "live"]
  /\ UNCHANGED <<initial, period, need_reinit, callback, timerVars, calls, exception, events>>

setEventType(t) ==
  /\ php(t)
  /\ need_reinit' = [need_reinit EXCEPT ![t] = TRUE]
  /\ UNCHANGED <<obj, initial, period, callback, timerVars, calls, exception, events>>

setInterval(t, d) ==
  /\ php(t)
  /\ initial' = [initial EXCEPT ![t] = d]
  /\ UNCHANGED <<obj, period, need_reinit, callback, timerVars, calls, exception, events>>

setPeriod(t, d) ==
  /\ php(t)
  /\ period' = [period EXCEPT ![t] = d]
  /\ UNCHANGED <<obj, initial, need_reinit, callback, timerVars, calls, exception, events>>

\* A value that is not callable is refused with a warning, and changes nothing.
setCallback(t, c) ==
  /\ php(t)
  /\ callback' = [callback EXCEPT ![t] = c]
  /\ UNCHANGED <<obj, initial, period, need_reinit, timerVars, calls, exception, events>>

-----------------------------------------------------------------------------------
(* Starting and stopping.                                                  *)

\* excimer_timer_start: without an initial expiry the period is used, and without
\* either the timer is not started.
first_expiry(init, per) == IF init = 0 THEN per ELSE init

arms(init, per) ==
  CASE first_expiry(init, per) = 0 -> "none"
    [] per = 0 -> "one"
    [] OTHER -> "many"

\* Plausible bug: a timer that is destroyed stays on the pending list.
drop_events_not(t) == UNCHANGED <<event_count, queue>>

\* Plausible bug: the count is kept, and then no later expiry puts the timer there.
drop_events_count_kept(t) == queue' = list_remove(queue, t) /\ UNCHANGED event_count

\* excimer_timer_destroy takes the timer off the pending list.
drop_events(t) ==
  /\ event_count' = [event_count EXCEPT ![t] = 0]
  /\ queue' = list_remove(queue, t)

\* The end of ExcimerTimer_start, for an object with the given initial expiry: the timer
\* is initialised again if need be, which takes it off the queue, and started; both may
\* fail.
start_timer(t, init) ==
  LET reinit == need_reinit[t] \/ timer_state[t] = "invalid" IN
  /\ \/ /\ reinit
        /\ timer_state' = [timer_state EXCEPT ![t] = "invalid"]
        /\ expiries' = [expiries EXCEPT ![t] = "none"]
        /\ UNCHANGED need_reinit
     \/ /\ need_reinit' = [need_reinit EXCEPT ![t] = FALSE]
        /\ \/ /\ arms(init, period[t]) # "none"
              /\ timer_state' = [timer_state EXCEPT ![t] = "running"]
              /\ expiries' = [expiries EXCEPT ![t] = arms(init, period[t])]
           \/ /\ timer_state' = [timer_state EXCEPT ![t] = "stopped"]
              /\ expiries' = [expiries EXCEPT ![t] = "none"]
  /\ IF reinit
     THEN drop_events(t)
     ELSE UNCHANGED <<event_count, queue>>

\* The method; a running timer is stopped first.
start(t) ==
  /\ php(t)
  /\ start_timer(t, initial[t])
  /\ UNCHANGED <<obj, initial, period, callback, calls, exception, events>>

\* ExcimerTimer_stop
stopped(t) == /\ timer_state' = [timer_state EXCEPT ![t] = IF @ = "running" THEN "stopped" ELSE @]
              /\ expiries' = [expiries EXCEPT ![t] = "none"]

stop(t) ==
  /\ php(t)
  /\ stopped(t)
  /\ UNCHANGED <<objVars, event_count, queue, calls, exception, events>>

\* ExcimerTimer_free_object, when the last reference is gone, perhaps in its callback.
free_object(t) ==
  /\ obj[t] = "live"
  /\ obj' = [obj EXCEPT ![t] = "freed"]
  /\ timer_state' = [timer_state EXCEPT ![t] = "invalid"]
  /\ expiries' = [expiries EXCEPT ![t] = "none"]
  /\ drop_events(t)
  /\ callback' = [callback EXCEPT ![t] = "null"]
  /\ UNCHANGED <<initial, period, need_reinit, calls, exception, events>>

\* A callback that is not callable releases the object, and the function goes on: what
\* it then does to the timer in memory that was released is anyone's guess.
excimer_set_timeout(t, c, d) ==
  /\ obj[t] = "absent" /\ exception = "none"
  /\ obj' = [obj EXCEPT ![t] = IF c = "callable" THEN "live" ELSE "freed"]
  /\ callback' = [callback EXCEPT ![t] = IF c = "callable" THEN c ELSE "null"]
  /\ initial' = [initial EXCEPT ![t] = d]
  /\ start_timer(t, d)
  /\ UNCHANGED <<period, calls, exception, events>>

-----------------------------------------------------------------------------------
(* Events.                                                                 *)

\* External: the timer expires; ExcimerTimer shows what excimer_timer_handle does.
timer_expires(t) ==
  /\ expiries[t] # "none" /\ events < MaxEvents
  /\ events' = events + 1
  /\ expiries' = [expiries EXCEPT ![t] = IF @ = "one" THEN "none" ELSE @]
  /\ event_count' = [event_count EXCEPT ![t] = @ + 1]
  /\ queue' = list_enqueue(queue, t)
  /\ UNCHANGED <<objVars, timer_state, calls, exception>>

\* Plausible bug: an event during a callback is ignored.
event_calls_outermost(t) == callback[t] = "callable" /\ exception = "none" /\ calls = <<>>

\* ExcimerTimer_event calls the callback; zend_call_function does nothing while an
\* exception is pending.
event_calls(t) == callback[t] = "callable" /\ exception = "none"

\* One iteration of excimer_timer_interrupt, with ExcimerTimer_event.  The loop goes on
\* when a callback has thrown.
event ==
  /\ queue # <<>> /\ exception # "php" /\ Len(calls) < MaxNested
  /\ LET t == Head(queue) IN
     /\ queue' = Tail(queue)
     /\ event_count' = [event_count EXCEPT ![t] = 0]
     /\ calls' = IF event_calls(t) THEN Append(calls, t) ELSE calls
     /\ IF callback[t] = "broken" THEN stopped(t) ELSE UNCHANGED <<timer_state, expiries>>
  /\ UNCHANGED <<objVars, exception, events>>

\* A callback returns or throws.
callback_return ==
  /\ calls # <<>>
  /\ calls' = SubSeq(calls, 1, Len(calls) - 1)
  /\ \/ exception = "none" /\ exception' = "none"
     \/ MayThrow /\ exception' = "event"
  /\ UNCHANGED <<objVars, timerVars, events>>

\* External: PHP code throws or catches.
throw_or_catch ==
  /\ MayThrow
  /\ IF exception = "none" THEN exception' = "php" ELSE exception' = "none"
  /\ UNCHANGED <<objVars, timerVars, calls, events>>

\* External: what a variable or an error makes of a callable.
callback_breaks(t) ==
  /\ MayBreak /\ callback[t] = "callable"
  /\ callback' = [callback EXCEPT ![t] = "broken"]
  /\ UNCHANGED <<obj, initial, period, need_reinit, timerVars, calls, exception, events>>

ObjectsNext ==
  \/ \E t \in Timers :
        \/ ExcimerTimer_new(t) \/ setEventType(t) \/ start(t) \/ stop(t) \/ free_object(t)
        \/ \E d \in Durations : setInterval(t, d) \/ setPeriod(t, d)
        \/ \E c \in {"null", "callable"} : setCallback(t, c)
        \/ \E c \in TimeoutCallbacks, d \in Durations : excimer_set_timeout(t, c, d)
        \/ timer_expires(t) \/ callback_breaks(t)
  \/ event \/ callback_return \/ throw_or_catch

ObjectsSpec == ObjectsInit /\ [][ObjectsNext]_objectsVars

-----------------------------------------------------------------------------------
(* Properties.                                                             *)

\* The types; and the queue has the timers with events, each once.
ObjectsTypeOK ==
  /\ obj \in [Timers -> {"absent", "live", "freed"}]
  /\ need_reinit \in [Timers -> BOOLEAN]
  /\ callback \in [Timers -> {"null", "callable", "broken"}]
  /\ timer_state \in [Timers -> {"invalid", "stopped", "running"}]
  /\ expiries \in [Timers -> {"none", "one", "many"}]
  /\ event_count \in [Timers -> Nat]
  /\ NoDuplicates(queue) /\ Elements(queue) = {t \in Timers : event_count[t] > 0}
  /\ queue \in Seq(Timers) /\ calls \in Seq(Timers)
  /\ exception \in {"none", "event", "php"}

\* Only a timer of an object that exists can expire, is on the queue or will be called
\* back, whoever released an object and when (excimer_set_timeout in globals.php, "the
\* object will be destroyed and the timer will stop").
Released ==
  \A t \in Timers :
     obj[t] # "live" =>
       timer_state[t] = "invalid" /\ expiries[t] = "none" /\ t \notin Elements(queue)

\* Expiries are not forgotten: the number that waits to be passed to the callback
\* (ExcimerTimer::setCallback, "the number of periods which have elapsed since the
\* callback was last called") goes down only when the callback is called, or cannot be,
\* for want of a callback or because of an exception, or when the timer goes or is
\* set up anew after setEventType, which may fail.
EventsReported ==
  [][\A t \in Timers : event_count'[t] < event_count[t] =>
        \/ calls' = Append(calls, t)
        \/ callback[t] # "callable" \/ exception # "none"
        \/ obj'[t] = "freed"
        \/ need_reinit[t] /\ (~need_reinit'[t] \/ timer_state'[t] = "invalid")]_objectsVars
===================================================================================
