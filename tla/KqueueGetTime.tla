------------------------------- MODULE KqueueGetTime -------------------------------
(***************************************************************************)
(* ExcimerTimer::getTime with timerlib_kqueue.c: timerlib_timer_get_time   *)
(* estimates the next expiration from last_fired_at, which the handler     *)
(* thread sets when it comes to handle an event, and from the period.      *)
(* Time is in nanoseconds, and clock_gettime does not fail.                *)
(***************************************************************************)
EXTENDS Timespec

CONSTANTS
  Modes,     \* what start is called with: records of period and initial nanoseconds
  MaxNow,    \* bound: the clock
  MaxLate    \* bound: how late the handler thread handles an event

ASSUME GetTimeAssumption ==
  /\ Modes \subseteq [period : Nat, initial : Nat \ {0}]
  /\ MaxNow \in Nat /\ MaxLate \in Nat

\* 64 bits of nanoseconds are more than five centuries, more than the clock has run, than
\* a useful period and than a delay of the handler.
ASSUME ClockAssumption ==
  /\ MaxNow < WORD /\ BILLION < WORD /\ MaxLate < WORD
  /\ \A m \in Modes : m.period < WORD

\* No expiration is due.
Never == -1

VARIABLES
  now,            \* CLOCK_MONOTONIC
  running,        \* excimer_timer.is_running
  timer,          \* timer->period and timer->initial
  last_fired_at,  \* timer->last_fired_at
  due,            \* when the kernel's timer expires next, or Never
  initial_wait,   \* whether the handler is in its first call of kevent
  first           \* history: whether no expiration was handled since the start

getTimeVars == <<now, running, timer, last_fired_at, due, initial_wait, first>>

GetTimeInit ==
  /\ now \in 0..BILLION
  /\ running = FALSE /\ timer \in Modes
  /\ last_fired_at = ToTimespec(0) /\ due = Never
  /\ initial_wait = FALSE /\ first = FALSE

\* External: time passes; the handler is not later than MaxLate.
tick ==
  /\ now < MaxNow /\ (due = Never \/ now < due + MaxLate)
  /\ now' = now + 1
  /\ UNCHANGED <<running, timer, last_fired_at, due, initial_wait, first>>

\* timerlib_timer_start, for a timer that was stopped.
timer_start(m) ==
  /\ ~running
  /\ running' = TRUE /\ timer' = m
  /\ last_fired_at' = ToTimespec(now)
  /\ due' = now + m.initial /\ initial_wait' = TRUE /\ first' = TRUE
  /\ UNCHANGED now

\* Plausible bug: only the first event is noted.
noted_first == IF first THEN ToTimespec(now) ELSE last_fired_at

\* timerlib_handle_timer_event notes the time.
noted == ToTimespec(now)

\* The handler thread handles an expiration.  After the initial one it sets the timer
\* up anew with the period, if there is one; a periodic timer of the kernel keeps to
\* its schedule.
timerlib_handle_timer_event ==
  /\ due # Never /\ now >= due
  /\ last_fired_at' = noted
  /\ initial_wait' = FALSE /\ first' = FALSE
  /\ due' = IF timer.period = 0 THEN Never
            ELSE (IF initial_wait THEN now ELSE due) + timer.period
  /\ UNCHANGED <<now, running, timer>>

\* A signal interrupts the initial wait, which is not repeated: the handler goes on as if
\* the timer had expired, but notes nothing.
interrupted ==
  /\ initial_wait /\ now < due
  /\ initial_wait' = FALSE
  /\ due' = IF timer.period = 0 THEN Never ELSE now + timer.period
  /\ UNCHANGED <<now, running, timer, last_fired_at, first>>

\* timerlib_timer_stop
timer_stop ==
  /\ running
  /\ running' = FALSE /\ due' = Never
  /\ initial_wait' = FALSE /\ first' = FALSE
  /\ timer' = [timer EXCEPT !.period = 0]
  /\ UNCHANGED <<now, last_fired_at>>

GetTimeNext ==
  \/ tick \/ (\E m \in Modes : timer_start(m)) \/ timerlib_handle_timer_event \/ interrupted
  \/ timer_stop

GetTimeSpec == GetTimeInit /\ [][GetTimeNext]_getTimeVars

-----------------------------------------------------------------------------------

\* timerlib_timer_get_time
timer_get_time ==
  LET will_fire_at == timespec_add(ToTimespec(timer.period), last_fired_at)
  IN  timespec_subtract(will_fire_at, ToTimespec(now))

\* excimer_timer_get_time
get_time == IF running THEN timer_get_time ELSE ToTimespec(0)

\* ExcimerTimer::getTime, up to the unit: the conversion goes through uint64_t.
getTime == timespec_to_ns(get_time)

GetTimeTypeOK ==
  /\ now \in Nat /\ running \in BOOLEAN
  /\ timer \in [period : Nat, initial : Nat \ {0}]
  /\ due \in Nat \cup {Never} /\ {initial_wait, first} \subseteq BOOLEAN
  /\ Normal(last_fired_at)
  /\ get_time \in Timespec /\ get_time.tv_nsec \in 0..BILLION

\* For a periodic timer after its first expiration getTime is right, up to the delay with
\* which the last event was handled, and is never less than it really is.  While an
\* expiration is overdue it is close to zero, or wraps to almost 2^64 nanoseconds.
PeriodicEstimate ==
  running /\ timer.period # 0 /\ ~first =>
     IF now <= due
     THEN due - now <= getTime /\ getTime <= due - now + MaxLate
     ELSE getTime < MaxLate \/ WORD - getTime <= now - due

\* Addition, subtraction and conversion are exact for the clock and any time of less
\* than a few seconds (timerlib_common.c), though the sum may have a whole second of
\* nanoseconds.
ArithmeticExact ==
  LET a == ToTimespec(now) IN
  /\ GetTimeTypeOK
  /\ \A b \in [tv_sec : 0..3, tv_nsec : 0..(BILLION - 1)] :
       /\ NsValue(timespec_add(a, b)) = NsValue(a) + NsValue(b)
       /\ timespec_add(a, b).tv_nsec \in 0..BILLION
       /\ NsValue(timespec_subtract(a, b)) = NsValue(a) - NsValue(b)
       /\ Normal(timespec_subtract(a, b))
       /\ NsValue(b) <= now => timespec_to_ns(timespec_subtract(a, b)) = now - NsValue(b)
       /\ \A rounded \in {b.tv_nsec, b.tv_nsec + 1} :
            LET d == timespec_from_double(b.tv_sec, rounded)
            IN  Normal(d) /\ NsValue(d) = NsValue(b) + (rounded - b.tv_nsec)
===================================================================================
