------------------------------ MODULE TimerlibKqueue ------------------------------
(***************************************************************************)
(* timerlib_kqueue.c for one timerlib_timer_t: the thread that calls the   *)
(* timerlib functions (main) and the handler thread that each start        *)
(* creates.  The client is excimer_timer.c: it stops a timer only while    *)
(* is_running, and stops a running one before it destroys it.              *)
(***************************************************************************)
EXTENDS Integers

CONSTANTS
  MaxOwed,          \* bound: expirations the kernel counts before they are taken
  MaxOpen,          \* bound: descriptors open at a time
  Signals,          \* whether signals reach the handler, so that kevent returns EINTR
  StartMayFail,     \* whether kqueue, kevent and pthread_create may fail in start
  SetupMayFail,     \* whether the kevent that makes the timer periodic may fail
  CloseMayFail,     \* whether close may fail
  DescriptorReused  \* whether another thread opens a kqueue as soon as one is closed

ASSUME KqueueAssumption ==
  /\ MaxOwed \in Nat /\ MaxOpen \in Nat
  /\ {Signals, StartMayFail, SetupMayFail, CloseMayFail, DescriptorReused} \subseteq BOOLEAN

VARIABLES
  main, handler,   \* where the two threads are
  is_running,      \* excimer_timer.is_running
  destroying,      \* excimer_timer_destroy is executing
  kq,              \* what the number timer->kq stands for
  period,          \* timer->period is not zero
  knote, owed,     \* the timer registered with kq; expirations that are not taken
  mode,            \* history: what start was asked for
  open,            \* history: kqueues created and not closed
  interrupted,     \* history: a signal ended the first wait of this handler
  faults           \* history: what failed, of the above

clientVars == <<is_running, destroying, mode>>
kernelVars == <<kq, knote, owed, open>>
historyVars == <<interrupted, faults>>
vars == <<main, handler, clientVars, kernelVars, period, historyVars>>

Init ==
  /\ main = "absent" /\ handler = "none"
  /\ is_running = FALSE /\ destroying = FALSE /\ mode = "oneshot"
  /\ kq = "none" /\ knote = "off" /\ owed = 0 /\ open = 0
  /\ period = FALSE /\ interrupted = FALSE /\ faults = {}

-----------------------------------------------------------------------------------
(* The main thread.                                                        *)

\* A structure to be used anew; a thread that outlived its timer is not followed.
timerlib_timer_init ==
  /\ main = "absent"
  /\ main' = "live" /\ handler' = "none"
  /\ kq' = "none" /\ knote' = "off" /\ owed' = 0
  /\ UNCHANGED <<clientVars, open, period, historyVars>>

\* start up to the call that fails: kqueue leaves no descriptor, kevent and
\* pthread_create leave it open, the latter with its timer.
start_fails ==
  /\ StartMayFail
  /\ faults' = faults \cup {"start"}
  /\ \/ UNCHANGED kernelVars
     \/ /\ kq' = "open" /\ open' = open + 1 /\ owed' = 0
        /\ knote' \in {"off", "oneshot"}
  /\ UNCHANGED <<handler, is_running>>

\* With an initial delay the timer is one-shot at first, whatever the period.
start_succeeds(initial) ==
  /\ kq' = "open" /\ open' = open + 1 /\ owed' = 0
  /\ knote' = IF initial THEN "oneshot" ELSE "periodic"
  /\ handler' = IF initial THEN "first" ELSE "loop"
  /\ is_running' = TRUE
  /\ UNCHANGED faults

timerlib_timer_start(m, initial) ==
  /\ main = "live" /\ ~is_running
  /\ open < MaxOpen
  /\ m = "oneshot" => initial
  /\ mode' = m /\ period' = (m = "periodic") /\ interrupted' = FALSE
  /\ start_fails \/ start_succeeds(initial)
  /\ UNCHANGED <<main, destroying>>

\* timerlib_timer_stop clears the period ...
timerlib_timer_stop ==
  /\ main = "live" /\ is_running
  /\ period' = FALSE
  /\ main' = "close"
  /\ UNCHANGED <<handler, clientVars, kernelVars, historyVars>>

\* Where main goes when stop returns, and what excimer_timer.c makes of it.
stop_returns(success) ==
  /\ main' = IF destroying THEN "destroy" ELSE "live"
  /\ is_running' = (is_running /\ ~success)

\* ... closes the kqueue, whose number is free for another thread to get ...
stop_close ==
  /\ main = "close"
  /\ \/ /\ kq' \in {"closed"} \cup IF DescriptorReused THEN {"foreign"} ELSE {}
        /\ knote' = "off" /\ owed' = 0 /\ open' = open - 1
        /\ main' = "join"
        /\ faults' = IF kq' = "foreign" THEN faults \cup {"reuse"} ELSE faults
        /\ UNCHANGED is_running
     \/ /\ CloseMayFail
        /\ faults' = faults \cup {"close"}
        /\ stop_returns(FALSE)
        /\ UNCHANGED kernelVars
  /\ UNCHANGED <<handler, destroying, mode, period, interrupted>>

\* Plausible bug: the handler of a one-shot timer, which ends by itself, is not joined.
stop_join_periodic ==
  /\ main = "join" /\ (mode = "oneshot" \/ handler = "exited")
  /\ handler' = IF mode = "oneshot" THEN handler ELSE "none"
  /\ stop_returns(TRUE)
  /\ UNCHANGED <<destroying, mode, kernelVars, period, historyVars>>

\* ... and waits for the handler.
stop_join ==
  /\ main = "join" /\ handler = "exited"
  /\ handler' = "none"
  /\ stop_returns(TRUE)
  /\ UNCHANGED <<destroying, mode, kernelVars, period, historyVars>>

\* Plausible bug: a running timer is not stopped when it is destroyed.
destroy_no_stop ==
  /\ main = "live"
  /\ destroying' = TRUE /\ is_running' = FALSE
  /\ main' = "destroy"
  /\ UNCHANGED <<handler, mode, kernelVars, period, historyVars>>

\* excimer_timer_destroy: stop the timer if it is running, ...
destroy_stop ==
  /\ main = "live"
  /\ destroying' = TRUE /\ is_running' = FALSE
  /\ IF is_running
     THEN period' = FALSE /\ main' = "close"
     ELSE main' = "destroy" /\ UNCHANGED period
  /\ UNCHANGED <<handler, mode, kernelVars, historyVars>>

\* ... then timerlib_timer_destroy, which only destroys the mutex.
timerlib_timer_destroy ==
  /\ main = "destroy"
  /\ main' = "absent" /\ destroying' = FALSE
  /\ UNCHANGED <<handler, is_running, mode, kernelVars, period, historyVars>>

-----------------------------------------------------------------------------------
(* The handler thread: timerlib_kqueue_handle                              *)

\* What follows a wait that did not fail: the first one is not repeated.
after(at) == IF at = "first" THEN "check" ELSE "loop"

notifying(at) == IF at = "first" THEN "notify_first" ELSE "notify_loop"

\* A signal ends the wait; only the first wait is not repeated.
wait_interrupted(at) ==
  /\ Signals /\ owed = 0
  /\ handler' = after(at) /\ interrupted' = (interrupted \/ at = "first")
  /\ UNCHANGED owed

\* Plausible bug: no error of kevent ends the thread.
handle_timer_event_no_ebadf(at) ==
  /\ handler = at
  /\ \/ kq = "open" /\ owed > 0 /\ owed' = 0 /\ handler' = notifying(at) /\ UNCHANGED interrupted
     \/ wait_interrupted(at)
     \/ kq = "closed" /\ handler' = after(at) /\ UNCHANGED <<owed, interrupted>>
  /\ UNCHANGED <<main, clientVars, kq, knote, open, period, faults>>

\* Plausible bug: every error of kevent ends the thread.
handle_timer_event_no_eintr(at) ==
  /\ handler = at
  /\ \/ kq = "open" /\ owed > 0 /\ owed' = 0 /\ handler' = notifying(at)
     \/ /\ kq = "closed" \/ (Signals /\ owed = 0)
        /\ handler' = "exited" /\ UNCHANGED owed
  /\ UNCHANGED <<main, clientVars, kq, knote, open, period, historyVars>>

\* Plausible bug: the first expiration starts the periodic timer and is not reported.
handle_timer_event_first_dropped(at) ==
  /\ handler = at
  /\ \/ /\ kq = "open" /\ owed > 0 /\ owed' = 0
        /\ handler' = IF period THEN after(at) ELSE notifying(at)
        /\ UNCHANGED interrupted
     \/ wait_interrupted(at)
     \/ kq = "closed" /\ handler' = "exited" /\ UNCHANGED <<owed, interrupted>>
  /\ UNCHANGED <<main, clientVars, kq, knote, open, period, faults>>

\* timerlib_handle_timer_event: an event is reported, EINTR ignored, EBADF ends the
\* thread.  The time of the event is the matter of KqueueGetTime; when it cannot be read,
\* the handler reports that, leaves last_fired_at as it was, and goes on.
handle_timer_event(at) ==
  /\ handler = at
  /\ \/ kq = "open" /\ owed > 0 /\ owed' = 0 /\ handler' = notifying(at) /\ UNCHANGED interrupted
     \/ wait_interrupted(at)
     \/ kq = "closed" /\ handler' = "exited" /\ UNCHANGED <<owed, interrupted>>
  /\ UNCHANGED <<main, clientVars, kq, knote, open, period, faults>>

\* notify_function returns.
notify_return(at) ==
  /\ handler = notifying(at)
  /\ handler' = after(at)
  /\ UNCHANGED <<main, clientVars, kernelVars, period, historyVars>>

check_period ==
  /\ handler = "check"
  /\ handler' = IF period THEN "setup" ELSE "exited"
  /\ UNCHANGED <<main, clientVars, kernelVars, period, historyVars>>

\* Plausible bug: the one-shot timer is registered a second time.
setup_kqueue_timer_oneshot ==
  /\ handler = "setup"
  /\ kq = "open" /\ knote' = "oneshot" /\ owed' \in {0, owed} /\ handler' = "loop"
  /\ UNCHANGED <<main, clientVars, kq, open, period, historyVars>>

\* timerlib_setup_kqueue_timer makes the timer periodic.  An expiration that is
\* not taken may be dropped.  A period of zero, when stop has just cleared it,
\* makes the timer expire at once.
setup_kqueue_timer ==
  /\ handler = "setup"
  /\ \/ /\ kq = "open" /\ knote' = "periodic" /\ owed' \in {0, owed} /\ handler' = "loop"
        /\ UNCHANGED historyVars
     \/ kq = "foreign" /\ handler' = "loop" /\ UNCHANGED <<knote, owed, historyVars>>
     \/ /\ SetupMayFail \/ kq = "closed"
        /\ handler' = "exited"
        /\ faults' = IF kq = "closed" THEN faults ELSE faults \cup {"setup"}
        /\ UNCHANGED <<knote, owed, interrupted>>
  /\ UNCHANGED <<main, clientVars, kq, open, period>>

-----------------------------------------------------------------------------------
(* External: the kernel, and the kqueue of another thread.                 *)

\* An expiration makes a difference only if there is a thread to take it.
expire ==
  /\ knote # "off" /\ handler # "none"
  /\ owed < MaxOwed
  /\ owed' = owed + 1
  /\ knote' = IF knote = "oneshot" THEN "off" ELSE knote
  /\ UNCHANGED <<main, handler, clientVars, kq, open, period, historyVars>>

\* The handler takes an event of a kqueue that has got the same number.
foreign_event(at) ==
  /\ handler = at /\ kq = "foreign"
  /\ handler' = notifying(at)
  /\ UNCHANGED <<main, clientVars, kernelVars, period, historyVars>>

-----------------------------------------------------------------------------------

StopNext == stop_close \/ stop_join \/ timerlib_timer_destroy

HandlerNext ==
  \/ \E at \in {"first", "loop"} : handle_timer_event(at) \/ notify_return(at)
  \/ check_period \/ setup_kqueue_timer

Next ==
  \/ timerlib_timer_init
  \/ \E m \in {"oneshot", "periodic"}, initial \in BOOLEAN : timerlib_timer_start(m, initial)
  \/ timerlib_timer_stop \/ destroy_stop \/ StopNext
  \/ HandlerNext
  \/ expire
  \/ \E at \in {"first", "loop"} : foreign_event(at)

Spec == Init /\ [][Next]_vars

\* Both threads are scheduled: stop goes on once it is called, and the handler
\* whenever kevent has something to return.
FairSpec == Spec /\ WF_vars(StopNext) /\ WF_vars(HandlerNext)

-----------------------------------------------------------------------------------
(* Properties.                                                             *)

TypeOK ==
  /\ main \in {"absent", "live", "close", "join", "destroy"}
  /\ handler \in {"none", "first", "notify_first", "check", "setup", "loop",
                  "notify_loop", "exited"}
  /\ is_running \in BOOLEAN /\ destroying \in BOOLEAN /\ period \in BOOLEAN
  /\ kq \in {"none", "open", "closed", "foreign"}
  /\ knote \in {"off", "oneshot", "periodic"} /\ owed \in 0..MaxOwed
  /\ mode \in {"oneshot", "periodic"} /\ open \in 0..MaxOpen
  /\ interrupted \in BOOLEAN
  /\ faults \subseteq {"start", "setup", "close", "reuse"}

\* A timer that the client takes to be stopped has no handler thread: each start
\* creates the only one there is.  Once a close has failed nothing is said: destroy then
\* frees the structure with the handler still in it.
NoThreadWhenStopped ==
  /\ TypeOK
  /\ main = "live" /\ ~is_running /\ "close" \notin faults => handler = "none"

\* A running periodic timer keeps its handler, whatever signals interrupt it, and
\* the handler waits for a timer that goes on expiring; unless setting it up failed,
\* or a stop did.
PeriodicServed ==
  main = "live" /\ is_running /\ mode = "periodic" /\ faults \cap {"setup", "close"} = {} =>
     /\ handler # "exited"
     /\ handler = "loop" => knote = "periodic"

\* A destroyed timer leaves no descriptor behind (timerlib.h, "Clean up resources
\* associated with a timer"), if no start and no close failed.
NoDescriptorLeft == main = "absent" => open = 0 \/ faults \cap {"start", "close"} # {}

\* stop and destroy do not hang: closing the kqueue ends the handler wherever it is
\* (timerlib_kqueue.c, "EBADF implies that the kqueue was closed, so we should exit
\* the thread"), if the number of the descriptor is not used again meanwhile.
StopReturns ==
  main \in {"close", "join", "destroy"} ~> main \in {"live", "absent"} \/ "reuse" \in faults

\* An expiration does not wait for ever to be reported, whatever signals arrive, unless
\* the timer is stopped first, a setup or a close failed, or a signal has ended the only
\* wait of a one-shot timer.  That the setup drops one is told by ImplementsTimerlib.
EventReported ==
  owed > 0 ~> \/ owed = 0 \/ faults \cap {"setup", "close"} # {}
              \/ mode = "oneshot" /\ interrupted

\* The promise of timerlib.h: a periodic timer is armed until its kqueue is closed,
\* though the kernel's timer is a one-shot until the first event was reported.  It ends
\* when a close fails or the descriptor's number is used again.
promised_state ==
  IF faults \cap {"close", "reuse"} # {} THEN "broken"
  ELSE IF main = "absent" THEN "none" ELSE IF destroying THEN "closing" ELSE "live"

promised_armed ==
  IF kq # "open" \/ handler = "none" THEN "off"
  ELSE IF mode = "periodic" THEN "periodic" ELSE knote

Promise == INSTANCE Timerlib WITH
  state <- promised_state, armed <- promised_armed,
  busy <- handler \in {"notify_first", "notify_loop"}

\* timerlib_kqueue.c keeps the promise: events are reported one at a time, none is made
\* up, and none after destroy returned.  Nor is one lost but by a call of the client, with
\* one exception: after a signal has ended the first wait, the setup of the periodic timer
\* may drop the expiration that this wait was for.
ImplementsTimerlib ==
  /\ Promise!Spec
  /\ [][\/ \E m \in {"oneshot", "periodic"}, initial \in BOOLEAN : timerlib_timer_start(m, initial)
        \/ stop_close
        \/ setup_kqueue_timer /\ interrupted
        \/ Promise!OtherNext]_(Promise!vars)
===================================================================================
