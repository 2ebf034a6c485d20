--------------------------------- MODULE Timerlib ---------------------------------
(***************************************************************************)
(* What timerlib.h promises about one timerlib_timer_t, whatever the       *)
(* platform: expirations of an armed timer are reported, in one call       *)
(* of notify_function or several, one at a time; only the client cancels   *)
(* reports that are due, by starting, stopping or destroying the timer;    *)
(* timerlib_timer_destroy waits for a call that is executing, and none is  *)
(* made after it returns.  TimerlibPosix and TimerlibKqueue implement      *)
(* this; ExcimerTimer uses it.                                             *)
(***************************************************************************)
EXTENDS Integers

VARIABLES
  state,    \* "none", "live" after init succeeded, "closing" while destroy runs,
            \* "broken" after a failure that ended the promise
  armed,    \* "off", "oneshot" or "periodic"
  owed,     \* expirations that notify_function has not been called for
  busy      \* notify_function is executing

vars == <<state, armed, owed, busy>>

Init == state = "none" /\ armed = "off" /\ owed = 0 /\ busy = FALSE

timer_init ==
  /\ state = "none"
  /\ state' = "live"
  /\ UNCHANGED <<armed, owed, busy>>

\* Arming or disarming may cancel reports that are due.  That the client asked for it
\* is for the modules to say that have the client: see SetNext.
settime(mode) ==
  /\ state = "live"
  /\ armed' = mode
  /\ owed' \in 0..owed
  /\ UNCHANGED <<state, busy>>

timer_start == settime("oneshot") \/ settime("periodic")

timer_stop == settime("off")

expire ==
  /\ armed # "off"
  /\ owed' = owed + 1
  /\ armed' = IF armed = "oneshot" THEN "off" ELSE armed
  /\ UNCHANGED <<state, busy>>

notify ==
  /\ state # "none" /\ ~busy
  /\ \E n \in 1..owed : owed' = owed - n
  /\ busy' = TRUE
  /\ UNCHANGED <<state, armed>>

return ==
  /\ busy
  /\ busy' = FALSE
  /\ UNCHANGED <<state, armed, owed>>

\* While the timer is being destroyed it may be disarmed, and reports dropped.
destroy ==
  /\ state \in {"live", "closing"}
  /\ state' = "closing"
  /\ armed' \in {armed, "off"}
  /\ owed' \in 0..owed
  /\ UNCHANGED busy

destroy_return ==
  /\ state = "closing" /\ ~busy
  /\ state' = "none" /\ armed' = "off" /\ owed' = 0
  /\ UNCHANGED busy

\* A system call fails of which timerlib.h says nothing: anything may follow.
fail == state' = "broken"

\* What happens only in a call of timerlib_timer_start or timerlib_timer_stop ...
SetNext == timer_start \/ timer_stop

\* ... and all else, which cancels nothing while the timer is live.
OtherNext ==
  timer_init \/ expire \/ notify \/ return \/ destroy \/ destroy_return \/ fail

Next == SetNext \/ OtherNext

Spec == Init /\ [][Next]_vars
===================================================================================
