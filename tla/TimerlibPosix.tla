------------------------------ MODULE TimerlibPosix -------------------------------
(***************************************************************************)
(* timerlib_posix.c for one timerlib_timer_t: the thread that calls the    *)
(* timerlib functions (main) and the handler thread that timerlib_timer_   *)
(* init creates, with the pthread, signal and timer calls between them.    *)
(* The client initialises a timer, starts and stops it, and destroys it,   *)
(* also when the initialisation failed, as excimer_timer.c does; then it   *)
(* may use the structure again.                                            *)
(***************************************************************************)
EXTENDS Integers

CONSTANTS
  MaxOwed,            \* bound: expirations not yet taken by the handler
  CondWaitMayFail,    \* whether pthread_cond_wait may return an error
  PthreadKillMayFail  \* whether pthread_kill may: EAGAIN, the signal queue is full

ASSUME PosixAssumption ==
  MaxOwed \in Nat /\ CondWaitMayFail \in BOOLEAN /\ PthreadKillMayFail \in BOOLEAN

VARIABLES
  main, handler,              \* where the two threads are
  ready, killed, tid,         \* fields of timerlib_timer_t; tid: has been written
  thread_valid, timer_valid,
  ready_mutex, woken,         \* owner of the mutex; the condition was broadcast
  armed, owed,                \* the kernel timer and its queued expirations
  signals,                    \* other signals queued for the handler
  si,                         \* siginfo: expirations the handler has taken
  faults                      \* history: the calls that failed, of the two above

fieldVars  == <<ready, killed, tid, thread_valid, timer_valid>>
readyVars  == <<ready_mutex, woken>>
kernelVars == <<armed, owed, signals>>
vars == <<main, handler, fieldVars, readyVars, kernelVars, si, faults>>

Init ==
  /\ main = "absent" /\ handler = "none"
  /\ ready = FALSE /\ killed = FALSE /\ tid = FALSE
  /\ thread_valid = FALSE /\ timer_valid = FALSE
  /\ ready_mutex = "free" /\ woken = FALSE
  /\ armed = "off" /\ owed = 0 /\ signals = {} /\ si = 0
  /\ faults = {}

-----------------------------------------------------------------------------------
(* timerlib_timer_init                                                     *)

\* Zero the structure and create the thread, with every signal blocked.
init_thread ==
  /\ main = "absent" /\ handler \in {"none", "exited"}
  /\ ready' = FALSE /\ killed' = FALSE /\ tid' = FALSE /\ timer_valid' = FALSE
  /\ ready_mutex' = "free" /\ woken' = FALSE
  /\ \/ thread_valid' = TRUE /\ handler' = "start" /\ main' = "lock"
     \/ thread_valid' = FALSE /\ handler' = "none" /\ main' = "failed"
  /\ signals' = {} /\ si' = 0
  /\ UNCHANGED <<armed, owed, faults>>

\* Lock ready_mutex: at first, and when pthread_cond_wait returns.
init_lock ==
  /\ main = "lock"
  /\ ready_mutex = "free"
  /\ ready_mutex' = "main"
  /\ main' = "check"
  /\ UNCHANGED <<handler, fieldVars, woken, kernelVars, si, faults>>

init_check ==
  /\ main = "check"
  /\ IF ready
     THEN ready_mutex' = "free" /\ main' = "timer_create"
     ELSE main' = "wait" /\ UNCHANGED ready_mutex
  /\ UNCHANGED <<handler, fieldVars, woken, kernelVars, si, faults>>

\* pthread_cond_wait releases the mutex.  An error returns with it locked.
init_wait ==
  /\ main = "wait"
  /\ \/ ready_mutex' = "free" /\ woken' = FALSE /\ main' = "cond_wait" /\ UNCHANGED faults
     \/ /\ CondWaitMayFail /\ main' = "failed" /\ UNCHANGED readyVars
        /\ faults' = faults \cup {"cond_wait"}
  /\ UNCHANGED <<handler, fieldVars, kernelVars, si>>

\* The wait ends after a broadcast; POSIX also lets it end by itself.
init_wakeup ==
  /\ main = "cond_wait" /\ woken
  /\ main' = "lock"
  /\ UNCHANGED <<handler, fieldVars, readyVars, kernelVars, si, faults>>

spurious_wakeup ==
  /\ main = "cond_wait" /\ ~woken
  /\ main' = "lock"
  /\ UNCHANGED <<handler, fieldVars, readyVars, kernelVars, si, faults>>

\* Create the kernel timer, whose signals go to timer->tid.
init_timer ==
  /\ main = "timer_create"
  /\ \/ timer_valid' = TRUE /\ main' = "live"
     \/ main' = "failed" /\ UNCHANGED timer_valid
  /\ UNCHANGED <<handler, ready, killed, tid, thread_valid, readyVars, kernelVars, si, faults>>

-----------------------------------------------------------------------------------
(* timerlib_timer_start, timerlib_timer_stop, timerlib_timer_destroy       *)

\* POSIX leaves open what becomes of a signal that is queued.
settime(mode) ==
  /\ main = "live"
  /\ timer_valid
  /\ armed' = mode
  /\ owed' \in {0, owed}
  /\ UNCHANGED <<main, handler, fieldVars, readyVars, signals, si, faults>>

timerlib_timer_start == settime("oneshot") \/ settime("periodic")

timerlib_timer_stop == settime("off")

\* Plausible bug: the handler is only ended if the whole initialisation succeeded.
destroy_if_complete ==
  /\ main \in {"live", "failed"}
  /\ IF thread_valid /\ timer_valid
     THEN thread_valid' = FALSE /\ killed' = TRUE /\ main' = "kill"
     ELSE main' = "delete" /\ UNCHANGED <<thread_valid, killed>>
  /\ UNCHANGED <<handler, ready, tid, timer_valid, readyVars, kernelVars, si, faults>>

\* timerlib_graceful_exit sets killed ...
timerlib_timer_destroy ==
  /\ main \in {"live", "failed"}
  /\ IF thread_valid
     THEN thread_valid' = FALSE /\ killed' = TRUE /\ main' = "kill"
     ELSE main' = "delete" /\ UNCHANGED <<thread_valid, killed>>
  /\ UNCHANGED <<handler, ready, tid, timer_valid, readyVars, kernelVars, si, faults>>

\* ... and then sends the signal, which may be merged with one that is pending.
\* If that fails the thread is not joined.
graceful_exit ==
  /\ main = "kill"
  /\ \/ signals' = signals \cup {"kill"} /\ main' = "join" /\ UNCHANGED faults
     \/ (owed > 0 \/ signals # {}) /\ main' = "join" /\ UNCHANGED <<signals, faults>>
     \/ /\ PthreadKillMayFail /\ main' = "delete" /\ UNCHANGED signals
        /\ faults' = faults \cup {"pthread_kill"}
  /\ UNCHANGED <<handler, fieldVars, readyVars, armed, owed, si>>

\* A thread that has ended receives no signal.
timerlib_join ==
  /\ main = "join" /\ handler = "exited"
  /\ handler' = "none"
  /\ main' = "delete"
  /\ signals' = {} /\ owed' = 0 /\ si' = 0
  /\ UNCHANGED <<fieldVars, readyVars, armed, faults>>

\* timer_delete
destroy_delete ==
  /\ main = "delete"
  /\ timer_valid' = FALSE
  /\ armed' = "off" /\ owed' = 0
  /\ main' = "absent"
  /\ UNCHANGED <<handler, ready, killed, tid, thread_valid, readyVars, signals, si, faults>>

-----------------------------------------------------------------------------------
(* The handler thread: timerlib_timer_thread_main                          *)

thread_start ==
  /\ handler = "start"
  /\ tid' = TRUE
  /\ handler' = "ready_lock"
  /\ UNCHANGED <<main, ready, killed, thread_valid, timer_valid, readyVars, kernelVars, si, faults>>

\* Plausible bug: ready is set and broadcast without the mutex.
notify_ready_unlocked ==
  /\ handler = "ready_lock"
  /\ ready' = TRUE
  /\ woken' = (woken \/ main = "cond_wait")
  /\ handler' = "sigwait"
  /\ UNCHANGED <<main, killed, tid, thread_valid, timer_valid, ready_mutex, kernelVars, si, faults>>

\* timerlib_notify_ready: lock, set ready and broadcast ...
notify_ready ==
  /\ handler = "ready_lock"
  /\ ready_mutex = "free"
  /\ ready_mutex' = "handler"
  /\ ready' = TRUE
  /\ woken' = (woken \/ main = "cond_wait")
  /\ handler' = "ready_unlock"
  /\ UNCHANGED <<main, killed, tid, thread_valid, timer_valid, kernelVars, si, faults>>

\* ... and unlock.
notify_ready_unlock ==
  /\ handler = "ready_unlock"
  /\ ready_mutex' = "free"
  /\ handler' = "sigwait"
  /\ UNCHANGED <<main, fieldVars, woken, kernelVars, si, faults>>

\* Plausible bug: the overruns of the signal are not read.
sigwaitinfo_no_overrun ==
  /\ handler = "sigwait"
  /\ \/ owed > 0 /\ si' = 1 /\ owed' = 0 /\ UNCHANGED signals
     \/ \E s \in signals : signals' = signals \ {s} /\ si' = 0 /\ UNCHANGED owed
  /\ handler' = "check"
  /\ UNCHANGED <<main, fieldVars, readyVars, armed, faults>>

\* sigwaitinfo takes a queued signal: SI_TIMER, with the overruns so far, or not.
sigwaitinfo ==
  /\ handler = "sigwait"
  /\ \/ owed > 0 /\ si' = owed /\ owed' = 0 /\ UNCHANGED signals
     \/ \E s \in signals : signals' = signals \ {s} /\ si' = 0 /\ UNCHANGED owed
  /\ handler' = "check"
  /\ UNCHANGED <<main, fieldVars, readyVars, armed, faults>>

thread_check ==
  /\ handler = "check"
  /\ handler' = IF killed THEN "exited" ELSE IF si > 0 THEN "notify" ELSE "sigwait"
  /\ UNCHANGED <<main, fieldVars, readyVars, kernelVars, si, faults>>

\* notify_function returns.
notify_return ==
  /\ handler = "notify"
  /\ handler' = "sigwait"
  /\ si' = 0
  /\ UNCHANGED <<main, fieldVars, readyVars, kernelVars, faults>>

-----------------------------------------------------------------------------------
(* External: the kernel, and other senders of the signal.                  *)

expire ==
  /\ armed # "off" /\ handler \notin {"none", "exited"}
  /\ owed + si < MaxOwed
  /\ owed' = owed + 1
  /\ armed' = IF armed = "oneshot" THEN "off" ELSE armed
  /\ UNCHANGED <<main, handler, fieldVars, readyVars, signals, si, faults>>

foreign_signal ==
  /\ handler \notin {"none", "exited"}
  /\ "foreign" \notin signals
  /\ signals' = signals \cup {"foreign"}
  /\ UNCHANGED <<main, handler, fieldVars, readyVars, armed, owed, si, faults>>

-----------------------------------------------------------------------------------

InitNext ==
  \/ init_lock \/ init_check \/ init_wait \/ init_wakeup \/ init_timer

DestroyNext == graceful_exit \/ timerlib_join \/ destroy_delete

HandlerNext ==
  \/ thread_start \/ notify_ready \/ notify_ready_unlock
  \/ sigwaitinfo \/ thread_check \/ notify_return

Next ==
  \/ init_thread \/ InitNext \/ spurious_wakeup
  \/ timerlib_timer_start \/ timerlib_timer_stop
  \/ timerlib_timer_destroy \/ DestroyNext
  \/ HandlerNext
  \/ expire \/ foreign_signal

Spec == Init /\ [][Next]_vars

\* Both threads are scheduled, and get ready_mutex if it is free again and again.
\* A failed initialisation is followed by destroy, as timerlib.h asks.
Fairness ==
  /\ WF_vars(InitNext) /\ SF_vars(init_lock)
  /\ WF_vars(DestroyNext)
  /\ WF_vars(main = "failed" /\ timerlib_timer_destroy)
  /\ WF_vars(HandlerNext) /\ SF_vars(notify_ready)

FairSpec == Spec /\ Fairness

-----------------------------------------------------------------------------------
(* Properties.                                                             *)

TypeOK ==
  /\ main \in {"absent", "lock", "check", "wait", "cond_wait", "timer_create", "failed",
               "live", "kill", "join", "delete"}
  /\ handler \in {"none", "start", "ready_lock", "ready_unlock", "sigwait", "check",
                  "notify", "exited"}
  /\ ready \in BOOLEAN /\ killed \in BOOLEAN /\ tid \in BOOLEAN /\ woken \in BOOLEAN
  /\ thread_valid \in BOOLEAN /\ timer_valid \in BOOLEAN
  /\ ready_mutex \in {"free", "main", "handler"}
  /\ armed \in {"off", "oneshot", "periodic"}
  /\ owed \in Nat /\ si \in Nat
  /\ signals \subseteq {"kill", "foreign"} /\ faults \subseteq {"cond_wait", "pthread_kill"}

\* The kernel timer exists only for a handler thread whose id is known, and when destroy
\* has returned nothing is left of a timer, however far its initialisation came: no
\* kernel timer, no thread, no locked mutex (timerlib.h: "If a timer callback is
\* executing, wait until it returns").  If pthread_kill failed, the handler was not
\* waited for.
NothingLeft ==
  /\ TypeOK
  /\ timer_valid => tid
  /\ main = "absent" =>
       /\ ~thread_valid /\ ~timer_valid /\ armed = "off"
       /\ (handler = "none" /\ ready_mutex = "free") \/ "pthread_kill" \in faults

\* Initialising a timer does not hang: the wake-up of the handler is not missed.  Nor
\* does destroying it, however it was initialised: a handler that sleeps is woken and
\* sees that it is to exit.  But when pthread_cond_wait failed, ready_mutex stays locked
\* and the handler waits for it.
CallsReturn ==
  /\ main \in {"lock", "check", "wait", "cond_wait"} ~> main \in {"live", "failed"}
  /\ main \in {"failed", "kill", "join"} ~> main = "absent" \/ "cond_wait" \in faults

\* The promise of timerlib.h.  What the handler has taken is owed until it calls
\* notify_function.  It ends with a failure that the code has no answer to.
promised_state ==
  IF faults # {} THEN "broken"
  ELSE IF main = "live" THEN "live"
  ELSE IF main \in {"kill", "join", "delete"} /\ timer_valid THEN "closing" ELSE "none"

not_notified == IF handler = "check" THEN owed + si ELSE owed

Promise == INSTANCE Timerlib WITH
  state <- promised_state, owed <- not_notified, busy <- handler = "notify"

\* timerlib_posix.c keeps the promise: expirations are reported one call at a time, none
\* is made up, destroy waits for notify_function, and it is not called afterwards.  Nor is
\* an expiration lost: every one that the handler takes goes to notify_function, with the
\* overruns, unless the client starts, stops or destroys the timer first.
ImplementsTimerlib ==
  /\ Promise!Spec
  /\ [][timerlib_timer_start \/ timerlib_timer_stop \/ Promise!OtherNext]_(Promise!vars)
===================================================================================
