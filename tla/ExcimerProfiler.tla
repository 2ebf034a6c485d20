------------------------------ MODULE ExcimerProfiler ------------------------------
(***************************************************************************)
(* The ExcimerProfiler object of excimer.c, with its timer, its log        *)
(* objects and their reference counts.  PHP code calls the methods; timer  *)
(* events interrupt it; a flush calls the flush callback, which is PHP     *)
(* code again and may be interrupted, call methods, throw, or be nested.   *)
(* PHP is single-threaded, so a method is one step up to the callback it   *)
(* calls.  What ExcimerTimer and ExcimerLog show of the timer and of the   *)
(* log is not repeated: here a timer is invalid, stopped or running with   *)
(* perhaps an event pending, and a log is a sequence of numbered samples.  *)
(***************************************************************************)
EXTENDS Integers, Sequences

CONSTANTS
  EventTypes, Periods, Depths, MaxSamplesValues,  \* arguments of the setters
  MaxTaken,      \* bound: samples
  MaxLogs,       \* bound: log objects
  MaxNested,     \* bound: flush callbacks that are executing
  MaxVariables,  \* bound: PHP variables that getLog assigns one log to
  MayThrow,      \* whether PHP code throws exceptions
  MayBreak       \* whether a callback may cease to be callable

ASSUME ProfilerAssumption ==
  /\ MaxTaken \in Nat /\ MaxLogs \in Nat \ {0} /\ MaxNested \in Nat
  /\ MaxSamplesValues \subseteq Nat /\ {MayThrow, MayBreak} \subseteq BOOLEAN

VARIABLES
  obj,          \* "live", "dtor" while the destructor runs, "destructed", "freed"
  event_type, period, need_reinit, callback, max_samples, z_log,  \* the object's fields
  timer, pending,  \* profiler->timer; an event waits for the interrupt
  timer_type,   \* what the timer was initialised with
  timer_period, \* what the timer was last started with, if it was
  log_options,  \* period and max_depth of the log z_log; no old log changes them
  logs,         \* every ExcimerLog object there has been, in order of creation
  calls,        \* flush callbacks that are executing, the innermost last
  exception,    \* EG(exception): "none", "event" when thrown in an interrupt that is
                \* not over, "php" when thrown anywhere else
  taken,        \* history: samples so far, and how many when the destructor began
  max_depth     \* history: the last argument of setMaxDepth

optionVars == <<event_type, period, need_reinit, callback, max_samples, max_depth>>
setupVars == <<timer_type, timer_period>>
timerVars == <<timer, pending, setupVars>>
currentLog == <<z_log, log_options>>
vars == <<obj, optionVars, currentLog, timerVars, logs, calls, exception, taken>>

\* Plausible bug: the limit on the depth is not handed on.
copy_options_no_depth(options) == [options EXCEPT !.max_depth = 0]

\* Plausible bug: the period is not handed on.
copy_options_no_period(options) == [options EXCEPT !.period = 0]

\* excimer_log_copy_options
copy_options(options) == [period |-> options.period, max_depth |-> options.max_depth]

\* An ExcimerLog, referred to once.  The fields refs and user are the reference count
\* and the references held by PHP variables; fate is history: whether the log was
\* handed to PHP code, or why not when it was let go.
new_log == [samples |-> <<>>, refs |-> 1, user |-> 0, fate |-> "kept"]

\* ExcimerProfiler_new; the defaults are any of each set.
Init ==
  /\ obj = "live" /\ callback = "null" /\ max_samples = 0
  /\ event_type \in EventTypes /\ period \in Periods /\ max_depth \in Depths
  /\ need_reinit = TRUE /\ z_log = 1
  /\ timer = "invalid" /\ pending = FALSE
  /\ timer_type = event_type /\ timer_period = period
  /\ logs = <<new_log>> /\ log_options = [period |-> period, max_depth |-> max_depth]
  /\ calls = <<>> /\ exception = "none"
  /\ taken = [all |-> 0, before_dtor |-> 0]

\* PHP code that can call a method is executing.
php == obj # "freed" /\ exception = "none"

-----------------------------------------------------------------------------------
(* Setters.                                                                *)

setPeriod(p) ==
  /\ php
  /\ period' = p
  /\ log_options' = [log_options EXCEPT !.period = p]
  /\ UNCHANGED <<obj, event_type, need_reinit, callback, max_samples, max_depth, z_log, logs,
                 timerVars, calls, exception, taken>>

setEventType(type) ==
  /\ php
  /\ event_type' = type /\ need_reinit' = TRUE
  /\ UNCHANGED <<obj, period, callback, max_samples, max_depth, currentLog, timerVars, logs,
                 calls, exception, taken>>

setMaxDepth(depth) ==
  /\ php
  /\ max_depth' = depth
  /\ log_options' = [log_options EXCEPT !.max_depth = depth]
  /\ UNCHANGED <<obj, event_type, period, need_reinit, callback, max_samples, z_log, logs,
                 timerVars, calls, exception, taken>>

\* A value that is not callable is refused with a warning, and changes nothing.
setFlushCallback(n) ==
  /\ php
  /\ callback' = "callable" /\ max_samples' = n
  /\ UNCHANGED <<obj, event_type, period, need_reinit, max_depth, currentLog, timerVars, logs,
                 calls, exception, taken>>

clearFlushCallback ==
  /\ php
  /\ callback' = "null" /\ max_samples' = 0
  /\ UNCHANGED <<obj, event_type, period, need_reinit, max_depth, currentLog, timerVars, logs,
                 calls, exception, taken>>

-----------------------------------------------------------------------------------
(* The timer.                                                              *)

\* ExcimerProfiler_start: initialise the timer if that is needed, which drops a
\* pending event with the old timer, then start it; both may fail.
start ==
  /\ php
  /\ LET reinit == need_reinit \/ timer = "invalid" IN
     \/ /\ reinit
        /\ timer' = "invalid" /\ pending' = FALSE
        /\ UNCHANGED <<need_reinit, setupVars>>
     \/ /\ \/ timer' = "running" /\ timer_period' = period
           \/ timer' = (IF reinit THEN "stopped" ELSE timer) /\ UNCHANGED timer_period
        /\ IF reinit
           THEN need_reinit' = FALSE /\ timer_type' = event_type /\ pending' = FALSE
           ELSE UNCHANGED <<need_reinit, timer_type, pending>>
  /\ UNCHANGED <<obj, event_type, period, callback, max_samples, max_depth, currentLog, logs,
                 calls, exception, taken>>

\* ExcimerProfiler_stop
stopped == IF timer = "running" THEN "stopped" ELSE timer

stop ==
  /\ php
  /\ timer' = stopped
  /\ UNCHANGED <<obj, optionVars, currentLog, pending, setupVars, logs, calls,
                 exception, taken>>

\* External: the timer expires, and the interrupt is due.
expire ==
  /\ timer = "running" /\ ~pending /\ taken.all < MaxTaken
  /\ pending' = TRUE
  /\ UNCHANGED <<obj, optionVars, currentLog, timer, setupVars, logs, calls,
                 exception, taken>>

-----------------------------------------------------------------------------------
(* ExcimerProfiler_flush.  how says who called it.                         *)

\* A log that is the argument of a call.
passed(log) == [log EXCEPT !.refs = @ + 1, !.fate = "given"]

\* A log that the extension gives to PHP code, with the reference that it had.
given(log) == [log EXCEPT !.user = @ + 1, !.fate = "given"]

\* A log to which the extension drops a reference, and what becomes of it if it kept it.
released(log, fate) == [log EXCEPT !.refs = @ - 1, !.fate = IF @ = "kept" THEN fate ELSE @]

\* Plausible bug: the log that was replaced is released twice.
let_go_twice(log, how, fate) ==
  IF how = "method" THEN released(given(log), fate) ELSE released(released(log, fate), fate)

\* What becomes of the old log when flush returns: the method returns it to PHP code,
\* an event and the destructor let it go.
let_go(log, how, fate) == IF how = "method" THEN given(log) ELSE released(log, fate)

\* ls: the logs when flush is called.  The object's reference to its log moves to
\* zp_old_log, and a new log replaces it.  Without a callback there is nothing to call; one
\* that is not callable stops the profiler; with an exception pending
\* zend_call_function does nothing.
flush_to(ls, how) ==
  /\ Len(ls) < MaxLogs /\ Len(calls) < MaxNested
  /\ z_log' = Len(ls) + 1 /\ log_options' = copy_options(log_options)
  /\ LET rotated == Append(ls, new_log) IN
     \/ /\ callback = "null"
        /\ logs' = [rotated EXCEPT ![z_log] = let_go(@, how, "null")]
        /\ obj' = IF how = "dtor" THEN "destructed" ELSE obj
        /\ UNCHANGED <<timer, calls>>
     \/ /\ callback = "broken"
        /\ logs' = [rotated EXCEPT ![z_log] = let_go(@, how, "broken")]
        /\ obj' = IF how = "dtor" THEN "destructed" ELSE obj
        /\ timer' = stopped
        /\ UNCHANGED calls
     \/ /\ callback = "callable" /\ exception # "none"
        /\ logs' = [rotated EXCEPT ![z_log] = let_go(@, how, "exception")]
        /\ obj' = IF how = "dtor" THEN "destructed" ELSE obj
        /\ UNCHANGED <<timer, calls>>
     \/ /\ callback = "callable" /\ exception = "none"
        /\ logs' = [rotated EXCEPT ![z_log] = passed(@)]
        /\ calls' = Append(calls, [log |-> z_log, how |-> how])
        /\ obj' = IF how = "dtor" THEN "dtor" ELSE obj
        /\ UNCHANGED timer

flush ==
  /\ php
  /\ flush_to(logs, "method")
  /\ UNCHANGED <<optionVars, pending, setupVars, exception, taken>>

\* Plausible bug: the new sample is not yet counted when the size is looked at.
is_full_before(log) == max_samples > 0 /\ Len(log.samples) > max_samples

is_full(log) == max_samples > 0 /\ Len(log.samples) >= max_samples

\* Plausible bug: no sample is added to a log that is full already.
log_add_unless_full(log, sample) ==
  IF is_full(log) THEN log ELSE [log EXCEPT !.samples = Append(@, sample)]

\* excimer_log_add, of which the model keeps that a sample is appended.
log_add(log, sample) == [log EXCEPT !.samples = Append(@, sample)]

\* ExcimerProfiler_event: add a sample and flush the log if it is full.  The loop of
\* excimer_timer_interrupt goes on when a callback has thrown.
event ==
  /\ pending /\ obj # "freed" /\ exception # "php"
  /\ pending' = FALSE
  /\ taken' = [taken EXCEPT !.all = @ + 1]
  /\ LET ls == [logs EXCEPT ![z_log] = log_add(@, taken.all + 1)]
     IN  IF is_full(ls[z_log])
         THEN flush_to(ls, "event")
         ELSE logs' = ls /\ UNCHANGED <<obj, currentLog, timer, calls>>
  /\ UNCHANGED <<optionVars, setupVars, exception>>

\* The innermost of the callbacks that are executing.
innermost == calls[Len(calls)]

\* The callback returns, or throws: its argument is released, and the old log let go.
callback_return ==
  /\ calls # <<>>
  /\ calls' = SubSeq(calls, 1, Len(calls) - 1)
  /\ \/ exception = "none" /\ exception' = "none"
     \/ /\ MayThrow
        /\ exception' = IF innermost.how = "event" THEN "event" ELSE "php"
  /\ LET c == innermost
     IN  /\ logs' = [logs EXCEPT ![c.log] = IF c.how = "method" /\ exception' = "none"
                                            THEN given(released(@, "given"))
                                            ELSE released(released(@, "given"), "given")]
         /\ obj' = IF c.how = "dtor" /\ obj = "dtor" THEN "destructed" ELSE obj
  /\ UNCHANGED <<optionVars, currentLog, timerVars, taken>>

-----------------------------------------------------------------------------------
(* Log objects in PHP variables, and the end of the profiler.              *)

getLog ==
  /\ php
  /\ logs[z_log].user < MaxVariables
  /\ logs' = [logs EXCEPT ![z_log] = given(passed(@))]
  /\ UNCHANGED <<obj, optionVars, currentLog, timerVars, calls, exception, taken>>

\* External: a variable that refers to a log is unset.
unset(log) == [log EXCEPT !.refs = @ - 1, !.user = @ - 1]

unset_log(l) ==
  /\ logs[l].user > 0
  /\ logs' = [logs EXCEPT ![l] = unset(@)]
  /\ UNCHANGED <<obj, optionVars, currentLog, timerVars, calls, exception, taken>>

\* External: what a variable or an error makes of a callable.
callback_breaks ==
  /\ MayBreak /\ callback = "callable"
  /\ callback' = "broken"
  /\ UNCHANGED <<obj, event_type, period, need_reinit, max_samples, max_depth, currentLog,
                 timerVars, logs, calls, exception, taken>>

\* External: PHP code throws, a callback of another timer included, or catches.
throw_or_catch ==
  /\ MayThrow
  /\ IF exception = "none" THEN exception' \in {"event", "php"} ELSE exception' = "none"
  /\ UNCHANGED <<obj, optionVars, currentLog, timerVars, logs, calls, taken>>

\* Plausible bug: the destructor does not look for samples that are left.
dtor_no_flush ==
  /\ obj = "live"
  /\ taken' = [taken EXCEPT !.before_dtor = taken.all]
  /\ obj' = "destructed"
  /\ UNCHANGED <<currentLog, timer, logs, calls>>
  /\ UNCHANGED <<optionVars, pending, setupVars, exception>>

\* ExcimerProfiler_dtor, when the last reference is gone, which may be because an
\* exception unwinds the function that had it, or when the request ends.
dtor ==
  /\ obj = "live"
  /\ taken' = [taken EXCEPT !.before_dtor = taken.all]
  /\ IF logs[z_log].samples # <<>>
     THEN flush_to(logs, "dtor")
     ELSE obj' = "destructed" /\ UNCHANGED <<currentLog, timer, logs, calls>>
  /\ UNCHANGED <<optionVars, pending, setupVars, exception>>

\* ExcimerProfiler_free_object
free_object ==
  /\ obj = "destructed"
  /\ obj' = "freed"
  /\ timer' = "invalid" /\ pending' = FALSE
  /\ logs' = [logs EXCEPT ![z_log] = released(@, "freed")]
  /\ UNCHANGED <<optionVars, currentLog, setupVars, calls, exception, taken>>

Next ==
  \/ \E p \in Periods : setPeriod(p)
  \/ \E type \in EventTypes : setEventType(type)
  \/ \E depth \in Depths : setMaxDepth(depth)
  \/ \E n \in MaxSamplesValues : setFlushCallback(n)
  \/ clearFlushCallback
  \/ start \/ stop \/ expire \/ flush \/ event \/ callback_return
  \/ getLog \/ \E l \in DOMAIN logs : unset_log(l)
  \/ callback_breaks \/ throw_or_catch \/ dtor \/ free_object

Spec == Init /\ [][Next]_vars

-----------------------------------------------------------------------------------
(* Properties.                                                             *)

Log == [samples : Seq(Nat), refs : Nat, user : Nat,
        fate : {"kept", "given", "null", "broken", "exception", "freed"}]
Call == [log : Nat, how : {"method", "event", "dtor"}]

TypeOK ==
  /\ obj \in {"live", "dtor", "destructed", "freed"}
  /\ callback \in {"null", "callable", "broken"} /\ max_samples \in Nat
  /\ event_type \in EventTypes /\ timer_type \in EventTypes
  /\ period \in Periods /\ timer_period \in Periods /\ max_depth \in Depths
  /\ timer \in {"invalid", "stopped", "running"}
  /\ need_reinit \in BOOLEAN /\ pending \in BOOLEAN /\ exception \in {"none", "event", "php"}
  /\ logs \in Seq(Log) /\ z_log \in DOMAIN logs
  /\ calls \in Seq(Call) /\ \A i \in DOMAIN calls : calls[i].log \in DOMAIN logs
  /\ taken \in [all : Nat, before_dtor : Nat]

one(condition) == IF condition THEN 1 ELSE 0

\* The flush of log l is in progress.
flushing(l) == \E i \in DOMAIN calls : calls[i].log = l

\* Every log is referred to exactly as often as its count says, by the profiler, by PHP
\* variables, and by a flush in progress, one of whose two references is the argument
\* of the callback; and no two flushes have the same log.  So no log is freed in use, and
\* none is leaked.
RefsExact ==
  /\ TypeOK
  /\ \A i, j \in DOMAIN calls : calls[i].log = calls[j].log => i = j
  /\ \A l \in DOMAIN logs :
       logs[l].refs = one(obj # "freed" /\ z_log = l) + logs[l].user + 2 * one(flushing(l))

\* Every sample is in exactly one log, and they are in order, however flushes are nested.
EverySampleOnce ==
  /\ \A k \in 1..taken.all : \E l \in DOMAIN logs : \E i \in DOMAIN logs[l].samples :
        logs[l].samples[i] = k
  /\ \A l \in DOMAIN logs : \A i \in DOMAIN logs[l].samples :
        /\ logs[l].samples[i] \in 1..taken.all
        /\ \A m \in DOMAIN logs : \A j \in DOMAIN logs[m].samples :
              l < m \/ (l = m /\ i < j) => logs[l].samples[i] < logs[m].samples[j]

\* A log that is gone was handed to PHP code, unless no callback was set, it was not
\* callable, or an exception was pending.  All samples of a profiler that is destroyed
\* are flushed, except those taken after the destructor began.  A log that getLog gave out
\* counts as handed over with what is added to it later.
SamplesHandedOver ==
  \A l \in DOMAIN logs : logs[l].refs = 0 /\ logs[l].samples # <<>> =>
     \/ logs[l].fate \in {"given", "null", "broken", "exception"}
     \/ /\ logs[l].fate = "freed"
        /\ \A i \in DOMAIN logs[l].samples : logs[l].samples[i] > taken.before_dtor

\* The current log has the limit on the depth that was set last, whatever was flushed
\* since, and a timer that needs no reinitialisation has the event type that was set last.
OptionsKept ==
  /\ log_options.max_depth = max_depth
  /\ ~need_reinit /\ obj # "freed" => timer # "invalid" /\ timer_type = event_type

\* The period of the current log, with which its samples are weighted, is the one with
\* which the timer takes them, whatever was flushed since the start; unless setPeriod has
\* been called with another one, which the log has at once and the timer at the next start.
PeriodKept ==
  timer = "running" => log_options.period = timer_period \/ period # timer_period

\* When an event was handled the log has room for another sample
\* (ExcimerProfiler::setFlushCallback, "called once the specified number of samples has
\* been collected").
FlushedWhenFull ==
  [][taken'.all # taken.all /\ max_samples > 0 => Len(logs'[z_log'].samples) < max_samples]_vars
===================================================================================
