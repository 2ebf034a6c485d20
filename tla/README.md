# A verification of Excimer in TLA+

Excimer is a PHP extension that provides timers and a sampling profiler. A timer
expires in the kernel, a handler thread counts the expiration and asks the PHP VM for
an interrupt, and the PHP thread calls the timer's callback at the next safe point.
This directory models that path, both implementations of the timer library, the
profiler, its log and the PHP objects; checks them with TLC on small instances; and
proves with TLAPS, for every value of the constants, the safety of event delivery from
the kernel's timer to the callback, with both implementations of the timer library and
the pending list; the soundness of the log's frame sharing and of its traces; the
reference counts of the log's objects; the profiler's rotation of logs; the life of
timer objects; and the arithmetic behind `getTime`. Every invariant and action property
that a run checks is also proved, but for those of the reports.

## 1. The system

| part | source | module |
| --- | --- | --- |
| pending list: the timers with events to report | `excimer_timer.c` 44-111 | `QueueOps`, `PendingQueue`, `PendingList` |
| event delivery: timers, their handlers, VM interrupts, life cycle | `excimer_timer.c`, `excimer_timer.h`, `excimer_mutex.c` | `ExcimerTimer` |
| timerlib, what it promises | `timerlib/timerlib.h` | `Timerlib` |
| timerlib on POSIX timers: a handler thread that waits for a signal | `timerlib/timerlib_posix.c` | `TimerlibPosix` |
| timerlib on kqueue (macOS, BSD): a handler thread that waits for a descriptor | `timerlib/timerlib_kqueue.c` | `TimerlibKqueue`, `KqueueGetTime` |
| timespec arithmetic | `timerlib/timerlib_common.c`, `timerlib.h` | `Timespec` |
| log: frames, entries and traces | `excimer_log.c` 93-289, 565-612 | `ExcimerLog`; the frames' strings in `ExcimerLogObjects` |
| log: formats, aggregation | `excimer_log.c` 291-563, 614-725 | `ExcimerLogReports` |
| log objects, iterators, entry objects | `excimer.c` 884-1308 | `ExcimerLogObjects` |
| profiler: samples, log rotation, flush callback | `excimer.c` 583-881 | `ExcimerProfiler` |
| timer objects, `excimer_set_timeout` | `excimer.c` 1311-1548 | `ExcimerTimerObjects` |
| module and request life cycle | `excimer.c` 494-568 | in `ExcimerTimer`: `thread_init`, `thread_shutdown` |

How they interact. A PHP object owns an `excimer_timer`, which owns a
`timerlib_timer_t`, which owns a handler thread. The handler calls
`excimer_timer_handle`, which under the mutex of `excimer_timer_tls` adds to
`event_count` and puts the timer in the pending list, and then sets `EG(vm_interrupt)`.
The VM clears the flag and calls `excimer_timer_interrupt`, which takes timers out of
the list one by one and calls their callbacks, without the mutex. A callback is PHP
code: it may start, stop and destroy any timer, and be interrupted itself. The
callback of a profiler adds a sample to its log, and hands over the log when it is full.

The models are layered in the same way. `ExcimerTimer` uses timerlib only as `Timerlib`
describes it, and both implementations are shown to keep that description.
`ExcimerProfiler` and `ExcimerTimerObjects` take from `ExcimerTimer` that a running timer
leads to callbacks one at a time, in the PHP thread, and not after destroy; and
`ExcimerProfiler` and `ExcimerLogObjects` take from `ExcimerLog` that a sample appends an
entry.

## 2. Modules

**QueueOps** The pending list as a sequence: `list_enqueue` (a timer that is in the
list stays where it is), `list_remove`, and the set of its elements.

**PendingQueue** A FIFO queue without duplicates, the abstract specification of the
list. **PendingList** is the list itself, with `pending_next`, `pending_prev` and the
head, one action per function. `Traversal`, the walk along `pending_next` from the
head, is its refinement mapping.

**Timerlib** What a client may do with one timer, and what it gets: while the timer
is live its expirations are owed, `notify_function` is called for some of them at a
time, and destroy returns when no call is executing, after which there are none. Reports
that are due are taken back only by start and stop (`SetNext`) and destroy; each module
that uses `Timerlib` ties `SetNext` to its own calls of these, so that no other step may lose an
expiration.

**TimerlibPosix** The thread that calls timerlib (`main`) and the handler thread
(`handler`), with one action for each stretch of code between two calls at which the
other thread can be noticed. `timerlib_timer_init` is `init_thread` ... `init_timer`,
`timerlib_timer_destroy` is the action of that name, `graceful_exit`, `timerlib_join`
and `destroy_delete`; the handler is `thread_start` ... `notify_return`.
`pthread_create`, `timer_create`, `pthread_cond_wait` and `pthread_kill` may fail; the
code has no answer to the last two, and `faults` (history) keeps which of them did. Expirations (`owed`) are merged by the
kernel into one signal with an overrun count; other signals are in `signals`.
The kill signal may be merged with one that is pending, as the comment in
`timerlib_graceful_exit` expects.

**ExcimerTimer** The core. The kernel timer and timerlib appear as in `Timerlib`, to
which `UsesTimerlib` ties them. `tls(th)` is the copy of `excimer_timer_tls` that a
thread sees: with `ZTS` each thread has one, else there is one in all. The mutex is
taken in the step that enters a critical section and released in the step that leaves
it; each critical section in which two variables change has two steps, so that the
mutex matters:

| code | actions |
| --- | --- |
| `excimer_timer_handle` | `handle_count`, `handle_enqueue`, `handle_store` |
| `excimer_timer_interrupt`, `excimer_timer_pending_dequeue` | `pending_dequeue`, `callback`, `callback_return`, `interrupt_return` |
| `excimer_timer_init`, `_start`, `_stop` | `timer_init`, `timer_start`, `timer_stop` |
| `excimer_timer_destroy` | `timer_destroy`, `destroy_join`, `destroy_remove` |
| `excimer_timer_thread_init`, `_shutdown` | `thread_init`, `thread_shutdown` |
| the kernel, timerlib, the VM | `expire`, `notify`, `vm_check`, `bailout` |

`depth` is the nesting of interrupts. In PHP code (`pc = "user"`) the actions of the
API are enabled at any depth, that is from callbacks too. `bailout` is a fatal error
that unwinds the C stack. The ghost variable `debt` counts the expirations of which
the callback was not told. An early return of the code that changes nothing (an
invalid timer, a duration of zero, a failing call of timerlib) is a stuttering step.
`timer_init` is only called for a timer that is not valid, which is how both callers in
`excimer.c` call it.

**TimerlibKqueue** The client thread (`main`) and the handler thread of one timer, and
the kernel's timer. Stop is `timerlib_timer_stop`, `stop_close`, `stop_join`; destroy is
`destroy_stop` (`excimer_timer_destroy` stops a timer that runs), the same steps, and
`timerlib_timer_destroy`. The handler is in its first wait, between it and the
loop (`check`, `setup`), in the loop, or in `notify_function`. What may go wrong is
chosen by constants: signals that interrupt `kevent`, a failing start, a failing setup of
the periodic timer, a failing `close`, and reuse of the closed descriptor number. The
history variable `faults` keeps what did, and `interrupted` whether a signal has ended the first
wait since the start, so that a property can say what it survives.

**Timespec** has the functions on timespecs, with the size of a second as a
constant. **KqueueGetTime** is the estimate of `timerlib_timer_get_time`: a clock, the
handler that notes `last_fired_at` up to `MaxLate` after the event was due, a signal that
interrupts its initial wait, and `getTime` as a function of the state, with the wrap of its
conversion to `uint64_t`. Its specification
is `GetTimeSpec`; like `ListSpec` of `PendingList` and `ObjectsSpec` of
`ExcimerTimerObjects` it has a name of its own, so that a module can extend it together
with another.

**ExcimerLog** One log. A place in the PHP program is a record (file, line, class,
function, closure line, and whether it is a user function), a stack is a sequence of
places. `excimer_log_add` is one step per level of the recursion: `add_descend`, then
`find_or_add_frame` from the outermost frame inwards, then `add_entry`.
`reverse_frames` is keyed as in the code, by file, line and the caller's index.
History variables keep what was sampled (`samples`) and, per frame, the trace it was added
for (`chain`). `trace_to_array` is `getTrace`, the walk along `prev_index`.

**ExcimerLogReports** extends it with the other reports: `collapsed_lines`,
`speedscope_frames` and `speedscope_sample`, and `aggr_by_func`. They are operators on the log, written like the code as walks over
frames and entries; the properties compare them with definitions on `samples`, which know
nothing of frames.

**ExcimerProfiler** One profiler object. A log is a sequence of numbered samples with
a reference count and the number of PHP variables that refer to it; `log_options` are the
options of the current one. What happens to a log is an operator on such a record
(`log_add`, `passed`, `given`, `released`, `let_go`, `unset`). `flush_to`
is `ExcimerProfiler_flush` up to the call of the callback, for the three callers
(`flush`, `event`, `dtor`); `callback_return` is the rest. Between the two any method,
interrupt, exception or the release of the object may happen. `fate` (history) says why a
log left the profiler. `timer_type` and `timer_period` are what the timer was last initialised
and started with, which differ from the options after a setter.

**ExcimerTimerObjects** The `ExcimerTimer` class: the setters, `start` with
re-initialisation, `stop`, the callback, the release, and `excimer_set_timeout`.
Its pending list is that of `QueueOps`. `event` is one iteration of the interrupt loop.
After a refused callback
`excimer_set_timeout` uses memory that it has released; the model lets it do there what the
code says.

**ExcimerLogObjects** The `ExcimerLog` object with its own iterator and cached entry,
`foreach` iterators, and `ExcimerLogEntry` objects, all with the reference counts of the
engine. `iterator_invalidate_current` may come at any time, as the engine
calls it. The strings of the frames are there with their counts: the program may
discard a function whose name and file are used, and the log is destroyed (`Heap`) with
the last reference to it.

Exceptions, in both modules: `zend_call_function` does nothing while one is pending, and the
interrupt loop goes on after a callback has thrown.

**MCExcimerTimer**, **MCExcimerTimerObjects** add the symmetry of the timers,
**MCExcimerProfiler** that of periods, depths and event types;
**MCExcimerLogReports** and **MCKqueueGetTime** give programs, stacks and
periods. The modules whose names end in **Proofs** hold the proofs about the modules they
are named for. **ListKqueueProofs** is about `PendingList` and `TimerlibKqueue`,
**ObjectsPosixProofs** about `ExcimerTimerObjects`, `TimerlibPosix`, `KqueueGetTime` and
`Timespec`. **ExcimerTimerSteps** and **ExcimerLogObjectsSteps** have the lemmas on single
steps that two of them rest on.

Operators introduced by a comment `Plausible bug` are no part of a specification. Each is a
wrong version of the definition that follows it. With it in place of that definition
TLC refutes a property, which shows that the property depends on the code being as it
is; `PROJECT.json` has the pairs.

## 3. Runs

    tlc -workers 2 -config <cfg> <module>

| run | cfg, module | checks | bounds |
| --- | --- | --- | --- |
| pending_list | `MCPendingList`, `PendingList` | `Ring`: the links form one ring through the timers that are in the list; `ImplementsQueue` | 4 timers: lists of length 0, 1, 2, and with inner elements |
| posix_timer | `MCTimerlibPosix`, `TimerlibPosix` | `NothingLeft`, `CallsReturn`, `ImplementsTimerlib` | up to 3 expirations not yet handled: one in hand and overruns behind it |
| delivery | `MCExcimerTimer`, `MCExcimerTimer` | `EventsConserved`, `OnlyLiveTimers`, `NoLostWakeup`, `ShutdownClean`, `NoHoldAndWait`, `StopWindsDown`, `UsesTimerlib`, and the inductive invariant `IndInv`, which has `CountPositive` and `CountedIsPending` | 2 timers, 2 expirations each, interrupts nested twice |
| delivery_fair | `MCExcimerTimerLive`, `MCExcimerTimer` | `EventuallyDelivered` | 2 timers, 1 expiration at a time each, no nesting |
| kqueue_timer | `MCTimerlibKqueue`, `TimerlibKqueue` | `NoThreadWhenStopped`, `PeriodicServed`, `NoDescriptorLeft`, `StopReturns`, `EventReported`, `ImplementsTimerlib`, with every fault | 3 expirations not yet handled, 2 open descriptors |
| kqueue_get_time | `MCKqueueGetTime`, `MCKqueueGetTime` | `PeriodicEstimate`, `ArithmeticExact` | a second of 4 ns, 30 ns, periods below, at and above a second, a one-shot timer |
| log_reports | `MCExcimerLogReports`, `MCExcimerLogReports` | `LogFaithful`, `TracesComplete`, `CollapsedExact`, `SpeedscopeExact`, `AggregateExact` | 3 samples of 9 stacks: recursion, a method, a closure, an internal function, names that differ in a space; limits 0 and 1 that change in between |
| log_objects | `MCExcimerLogObjects`, `ExcimerLogObjects` | `RefsExact`, `EntriesExact`, `StringsInMemory` | 2 entries, offsets from -1 on, 3 entry objects, 2 `foreach` loops, a function of 2 lines |
| profiler | `MCExcimerProfiler`, `MCExcimerProfiler` | `RefsExact`, `EverySampleOnce`, `SamplesHandedOver`, `OptionsKept`, `PeriodKept`, `FlushedWhenFull`, with exceptions and callbacks that break | 2 samples, 3 logs, 2 nested callbacks, 2 event types, periods and depths |
| timer_objects | `MCExcimerTimerObjects`, `MCExcimerTimerObjects` | `ObjectsTypeOK`: the queue has the timers with counted expiries, each once; `Released`, `EventsReported`, with exceptions and callbacks that break | 2 objects, 3 expiries, 2 nested callbacks |
| thread_safe_delivery, set_timeout_refused | see section 5 | refuted | |

Every passing run but *delivery_fair* checks the type invariant of its module too, mostly
as a conjunct of another invariant. Deadlock is checked where the system goes on for ever. The modules of the log's, the
profiler's and the timers' objects end when everything is released or a bound is
reached, the clock of `KqueueGetTime` ends at its bound, and a timer whose
`pthread_cond_wait` failed is stuck: their runs say `CHECK_DEADLOCK FALSE`.

What the properties say:

- `NoLostWakeup`: a timer in the list has an interrupt coming, or one at work that will
  look at the list again. The handler sets the flag after it has left the critical
  section, so this depends on the order of its steps and on the loop.
- `EventsConserved`, `CountPositive`, `CountedIsPending`: no expiration is lost,
  counted twice, left behind or passed to a later user of the structure, and no
  callback is called without one.
- `OnlyLiveTimers`: a destroyed timer is in no list and has no handler. The code joins
  the handler first and removes the timer from the list after it.
- `NoHoldAndWait`: the PHP thread does not join a handler while it holds the mutex the
  handler may be waiting for. Deadlock is checked as well.
- `ShutdownClean`: what the comment in `excimer_timer_thread_shutdown` requires. The engine
  frees all objects, and so destroys all timers, before it ends the thread, which is the guard of
  `thread_shutdown`; that the count of active timers is zero then is what is checked.
- `StopWindsDown`: a stopped timer may have callbacks to come, but not ever more.
- `EventuallyDelivered`: every expiration reaches its callback; the FIFO order of the
  list keeps a timer that fires all the time from starving the other.
- `CallsReturn`, `NothingLeft`: neither init nor destroy misses a wake-up, and all that
  init made is gone after destroy, whichever step of init failed; the only exceptions are
  what a failing `pthread_cond_wait` or `pthread_kill` leaves behind.
- `StopReturns`: closing the kqueue ends the handler wherever it is, also in the callback
  and between its first wait and the loop. `NoThreadWhenStopped`: so each start creates
  the only handler. `PeriodicServed`: signals do not end the handler of a running
  periodic timer, nor leave it with a timer that has expired for good.
  `EventReported`: nor are expirations kept back, those of a one-shot timer included as long
  as no signal has ended its only wait. `NoDescriptorLeft`: only certain failures leave a
  descriptor open.
- `ImplementsTimerlib`, for both implementations: calls of `notify_function` do not overlap, are
  for expirations that happened, and end before destroy returns; and between the expiration and
  the call nothing is lost unless the client starts, stops or destroys the timer.
- `PeriodicEstimate`: `getTime` of a periodic timer is never too small, and too large by the
  delay of the handler at most, until the next expiration is due; from then until it is
  handled, `getTime` is less than that delay or has wrapped. `ArithmeticExact`: although `timerlib_timespec_add` does
  not normalise every sum, sums, differences and conversions stand for the right number.
- `LogFaithful`, `TracesComplete`: sharing of frames mixes up no two stacks
  (`TracesFaithful`), and a trace is the sampled stack, or its innermost part and a marker,
  whatever the limits were when the shared frames were added. The loops over `prev_index`
  end (`CallersFirst`), and no frame is stored twice (`FramesUnique`).
- `CollapsedExact`, `SpeedscopeExact`, `AggregateExact`: each report says the same of the
  samples as its definition in terms of stacks. A recursive function is counted once per
  event; names that only differ in replaced characters share a line.
- `StringsInMemory`: a string is there while a frame of a log that is in use has it.
- `EverySampleOnce`: the logs one after the other contain all samples in order.
  `SamplesHandedOver`: a log that is gone was given to PHP code, or there was no callable
  callback, or an exception was pending, or it holds samples taken after the destructor
  began. `RefsExact` (profiler): counts are exact at every nesting of flushes.
  `FlushedWhenFull`: no event leaves a full log behind, also when the limit was lowered.
- `OptionsKept`: a new log has the current limit on the depth; the timer has the
  current event type unless it is marked for re-initialisation. `PeriodKept`: the log has the
  period of the running timer, unless another one was set since the start.
- `Released`: a released object has no timer, wherever it was released, its own callback
  included. `EventsReported`: an expiry that was counted is passed to the callback, or
  dropped for one of the reasons that the property names.
- `EntriesExact`, `RefsExact` (log objects): iterating over a log that grows gives each entry
  once, entries are of offsets that exist and outlive the variables of their log, and every
  reference is given back.

The bounds. Two timers are what it takes for one to be in the way of the other, for a
callback to destroy a timer that is pending, and for a list with a first and a last
element; the proofs cover more. `MaxDebt = 2` allows an overrun and an expiration that
arrives while another is being handled. `MaxDepth = 2` allows an interrupt in a
callback. `INT_MAX` is small, and not less than `MaxDebt`. In the log, two samples show
sharing and a third the sharing with what sharing left behind; `ExcimerLogProofs` covers
more. In the profiler, two nested callbacks are a flush within a flush, and the logs
suffice for each flush that the samples can cause; with two periods, depths and event types, up
to symmetry, that is 1.6 million states. A second of 4 ns has all carries and borrows that a second has.

Fairness. Threads are scheduled, and a mutex that is free again and again is obtained
at last: weak fairness of the handlers, strong fairness of the steps that lock. PHP code
reaches interrupt checks (the VM checks on loops and calls) and callbacks return;
these are strong, since other operations disable them in between. Nothing is assumed
about expirations or the operations of the program, except that a failed
`timerlib_timer_init` is followed by destroy, which `excimer_timer_init` does. With
kqueue, weak fairness of the two threads suffices: what each waits for stays true until it
moves. The modules of the PHP objects have no liveness properties.

## 4. Proofs

`tlapm <module>` for the modules of this table; none takes more than some five minutes.
All theorems are of the form `Spec => []P`, or `Spec => P` for the action properties and
the refinements.

| module | proves | inductive invariant |
| --- | --- | --- |
| `ListKqueueProofs` | `Ring`, `ImplementsQueue` | `Ring` |
| | `NoThreadWhenStopped`, `PeriodicServed`, `NoDescriptorLeft`, `ImplementsTimerlib` of `TimerlibKqueue` | `KqInv` |
| `ObjectsPosixProofs` | `ObjectsTypeOK`, `Released`, `EventsReported` | `ObjectsInv`, `Gone` |
| | `NothingLeft`, `ImplementsTimerlib` of `TimerlibPosix` | `PosixInv` |
| | `PeriodicEstimate`, `ArithmeticExact` | `GetTimeInv`, `ClockFits` |
| `ExcimerTimerSteps`, `ExcimerTimerProofs` | `NoLostWakeup`, `OnlyLiveTimers`, `NoHoldAndWait`, `ShutdownClean`, `EventsConserved`, `CountPositive`, `CountedIsPending`, `UsesTimerlib`, `StopWindsDown` | `IndInv` |
| `ExcimerLogProofs` | `LogFaithful`, `TracesComplete` | `LogInv`, `SampledInv` |
| `ExcimerLogObjectsSteps`, `ExcimerLogObjectsProofs` | `RefsExact`, `EntriesExact`, `StringsInMemory` | `LogObjectsInv` |
| `ExcimerProfilerProofs` | `RefsExact`, `EverySampleOnce`, `SamplesHandedOver`, `OptionsKept`, `PeriodKept`, `FlushedWhenFull` | `ProfilerInv` |

Together the proofs about the list, timerlib and `ExcimerTimer` cover the way of an event: each implementation of timerlib
keeps the promise of `Timerlib`, `ExcimerTimer` uses no more than that promise, and the list
it keeps timers in is the queue that its model has.

**The pending list.** `Ring` is inductive as it stands: the order in which timers were
enqueued (`order`, history) has no duplicates, the links of each timer in it are its
neighbours, and those of the others are null. Each function relinks at most two
neighbours; the lemmas (`AppendRing`, `UnlinkRing`, `RemoveRing`) say what that makes
of the positions. For the refinement, `Traversal` is shown to be `order`: its recursive
function exists by a witness, and that it gives the element at each position is an
induction, done with the least position at which it would not (`WFMin` of the library's
well-founded induction, which has no operator parameter).

**timerlib on POSIX timers.** `PosixInv` says how the fields follow the two threads
(`FieldsInv`), who holds `ready_mutex` (`MutexInv`), that expirations are pending only for a
kernel timer that exists (`PendingInv`), and when there is no handler (`HandlerInv`). The
refinement goes through the actions: each is a step of `Timerlib` or leaves all that it sees
unchanged, and only start and stop are steps of `SetNext` (`PosixStep`). Once `pthread_cond_wait` or `pthread_kill` has failed nothing is promised any more (`PosixBroken`).

**timerlib on kqueue.** `KqInv` ties `is_running` to where `main` is (`ClientInv`), the
descriptor to both (`KqueueInv`), the thread to `is_running` (`ThreadInv`), the kernel's timer
to what start was asked for (`PeriodInv`), and the number of open descriptors to the faults
(`DescriptorInv`), and the way past the first wait to what ended it (`FirstInv`). It holds
whichever calls may fail, and the three invariants follow. For the refinement, `FirstInv` says that
the setup of the periodic timer finds an expiration only after an interrupted wait.

**Event delivery.** `ExcimerTimerProofs` proves its invariants for any finite set of timers,
any bounds and both builds; `EventsConserved`, `CountPositive` and `CountedIsPending` if
`MaxDebt =< INT_MAX`, that is if the expirations that the callback was not told of never
exceed an `int` (section 5 says what happens if they do). The assumptions on the
constants are those of `ConstantsAssumption`. `ExcimerTimerSteps` begins with what
`list_enqueue`, `Tail` and `list_remove` do to the elements of a list without duplicates.
None of the properties is inductive. `IndInv` is, and has, besides `TypeOK`, these parts,
each with a lemma for the steps (`MutexStep`, `LifeStep`, ...):

- `MainInv`: where the PHP thread is in the loop it is in an interrupt, and where it
  uses a timer it has one.
- `MutexInv`: the mutex is held in the critical sections and by their thread. This is
  why the two steps of a section work on the same state.
- `LifeInv`: a timer is valid while it has a handler or is being removed; it is armed
  only while it runs, and runs only with a handler. So destroy finds nothing that
  could still expire.
- `ListInv`: a list holds valid timers, without duplicates, and those whose handlers see
  it. With `LifeInv` it gives `OnlyLiveTimers`: `destroy_remove` happens when there is
  no handler, so nothing puts the timer back.
- `NoLostWakeup` as it is, from `LifeInv`.
- `ActiveInv`: `timers_active` is the number of handlers, whence `ShutdownClean`.
- `AccountInv`: the equation of `EventsConserved`, with counts that are not negative
  and at most `MaxDebt`, so that the sums do not overflow.
- `CountInv`: a timer is in a list exactly if it has events.

`UsesTimerlib` follows from the same invariant, action by action (`UseStep`): `LifeInv` is
what makes `destroy_join` a legal end of `Timerlib`'s destroy. For `StopWindsDown` the callbacks to come
are a sum of three numbers, and each step makes one of them smaller or moves a callback
from one to the next (`StoppedStep`).

**The log.** `ExcimerLogProofs` proves `LogFaithful`, that is `CallersFirst`, `ChainsLinked`,
`TracesFaithful` and `FramesUnique`, for every set of places and stacks, all limits and any
number of samples. It assumes `LineDeterminesFunction`, that a line belongs to one function, without which
`TracesFaithful` is false (section 5), and `LogAssumption`, in which the marker is no place
of the program. The inductive invariant `LogInv` says besides that

- the hash table gives for a key the frame with that key (`KeysTrue`), and has
  every frame but the marker (`KeysComplete`), so that a frame that is found is the one that
  would have been added, and one that is added was not there;
- `chain` follows the links (`ChainsLinked`), and appending a frame disturbs no chain
  (lemma `AddFrame`);
- while `excimer_log_add` is executing, `prev_index` leads to the frames done so far.

`TracesComplete` needs `SampledInv` besides: the frames done so far are what is expected of
the stack below the current one (`Rest`), with the limit of that sample. That
the walk of `trace_to_array` gives `chain` is again an induction by the least frame for which
it does not, which works since callers come first.

**The log's objects.** `LogObjectsInv` has the three properties themselves, that the strings
of functions that the program has are in memory, and that the frames are finitely many.
`ExcimerLogObjectsSteps` writes a heap `g` for the state of the counts that
a function leaves, and `Surplus(g)` for the references to the log that are not from entry
objects. What a function has to show is in `HeapKeeps`: that the counts of `g` are those
of the variables and iterators it leaves (`Exact`), and that cached entries are those of their
iterators (`Cached`). When one object or one iterator changes, the number of those that
count changes by one or not at all (`CountOne`). That needs finite `Objects` and
`Iterators`, which `LogObjectsAssumption` has, and a few facts about finite sets
(`FiniteSetFacts`), which `ExcimerLogObjectsProofs` proves from the library.

**The profiler.** `ExcimerProfilerProofs` proves the properties of `ExcimerProfiler` for all
arguments of the methods, any number of samples, logs and variables and any nesting of
flushes, from `ProfilerAssumption`, which gives the bounds their types. `ProfilerInv` has
the types of the fields, `Options`, that the current log has the options that were set last
(from which `OptionsKept` and `PeriodKept` follow), and `LogsInv`, which says of the logs:

- `Shape`: the current log is the last one that was made, and a flush in progress is of an
  earlier log, each of another. This is why a nested flush never takes a log that an outer
  one still has, and what makes `RefsExact` inductive.
- `Counted`: the equation of `RefsExact`.
- `Fates`: only the current log was not yet handed over or let go (`kept`), and only the
  current log is freed with the profiler.
- `Numbered`: `EverySampleOnce`. A new sample has the largest number and goes to the last
  log, so that the order is kept.
- `Late`: once the destructor has begun, the current log holds only samples that came
  after. With `Fates` it gives `SamplesHandedOver`.

The parts are predicates on a sequence of logs, calls in progress and numbers of samples,
not on the variables, since `event` adds a sample and flushes in one step: `AddSample` gives
`LogsInv` of the logs in between, and `FlushStep` goes on from there, for the three callers
and each of the four ways a flush can go. `FlushedWhenFull` follows from the fact that the
only log that `event` leaves as it is is one that is not full.

**Timer objects.** `ObjectsPosixProofs` proves the properties of `ExcimerTimerObjects` for
any set of objects, from `TimerObjectsAssumption`. `ObjectsInv` says that the queue has
the timers with counted expiries, each once (`Queued`, from what the operators of `QueueOps`
do to the elements of a queue), and that a timer that is not initialised has no expiries,
counted or to come (`Idle`). `ObjectsTypeOK` and `EventsReported` need no more. `Released`
needs `Gone` as well, that the timer of a released object is not initialised, and the
hypothesis that `excimer_set_timeout` is only given callables; without it `Released` is
false (section 5).

**Time.** `ObjectsPosixProofs` proves that addition, subtraction and the conversions are
exact (`AddExact`, `SubtractExact`, `FromDoubleExact`, `TimesExact`), also for sums that are not
normalised, and from it `PeriodicEstimate`, `ArithmeticExact`
and the type of the result, for any length of a second, any periods and any delay. The
conversion to nanoseconds assumes `ClockAssumption`: the clock, a period and the delay of the handler
fit 64 bits. A difference that is negative wraps once (`WordWraps`), which bounds it from below. The
invariant `GetTimeInv` says that the next expiration of a periodic timer is due at most a
period after `last_fired_at`, and no more than `MaxLate` before that; that this starts
with the first expiration that was noted; and that the initial wait, which a signal may
end, comes before it.

**Only model-checked.**

- The liveness properties `EventuallyDelivered`, `CallsReturn`, `StopReturns` and
  `EventReported`: the prover has no rules for fairness and `ENABLED`.
- `CollapsedExact`, `SpeedscopeExact`, `AggregateExact`: the reports are folds with an operator
  as argument, and what a fold computes for every log needs induction theorems that the
  installed provers cannot instantiate.

## 5. Where the code and its documentation disagree

Two are runs in which TLC finds a counterexample:

- *thread_safe_delivery.* `excimer_timer_handle` uses the `excimer_timer_tls` of the
  handler thread. In a thread-safe build that is not the one of the thread that
  created the timer, whose list stays empty: the callback is never called.
- *set_timeout_refused.* `excimer_set_timeout` goes on with the object that it has released
  because its callback is not callable.

The others are exceptions that a property or an assumption has to make; without the
exception TLC refutes it, or the proof fails.

| property or assumption | the exception |
| --- | --- |
| `MaxDebt =< INT_MAX` | `overrun_count + 1` is an `int` addition. With the largest overrun count it overflows, and a count that is not positive may be reported. |
| `NothingLeft`, `ImplementsTimerlib` (POSIX) | When `pthread_kill` fails, `timerlib_timer_destroy` neither ends nor joins the handler, though `timerlib.h` promises to wait for a callback. |
| `CallsReturn` | When `pthread_cond_wait` fails, `timerlib_timer_init` returns with `ready_mutex` locked. The handler waits for it, and destroy for the handler. |
| `EventReported` | A signal that interrupts the first wait is taken for the expiration, and the handler of a one-shot timer ends without a report. |
| `ImplementsTimerlib` (kqueue) | After such a signal the setup of the periodic timer replaces the one-shot timer, and an expiration that came in between is dropped. |
| `NoThreadWhenStopped`, `NoDescriptorLeft`, `ImplementsTimerlib` (kqueue) | When `close` fails, stop returns without waiting for the handler, and destroy frees the structure that the handler uses. |
| `NoDescriptorLeft` | A start that fails after `kqueue()` leaves the descriptor open; nothing closes it. |
| `StopReturns` | Stop closes the descriptor while the handler is about to use its number. If another thread gets the number, the handler waits for the wrong kqueue. |
| `PeriodicEstimate` | Only periodic timers that have expired: `getTime` leaves out the initial interval. While an expiration is overdue, and for a one-shot timer all the time, the difference is negative, and `getTime`, which converts it to `uint64_t`, gives almost 2^64 ns (584 years), though `stubs/ExcimerTimer.php` 79 promises the time until the next expiration. |
| `LineDeterminesFunction` | Of two functions on one line the second is reported as the first. |
| `TracesComplete` | A truncated trace has one frame more than the limit, besides the marker. |
| `StringsInMemory` | It says nothing of strings that no log uses: `excimer_log_destroy` gives back references and frees no string. |
| `PeriodKept` | `setPeriod` changes the period of the current log at once, also for samples taken before, and with it the weights of `getSpeedscopeData` (`excimer_log.c` 541); `stubs/ExcimerProfiler.php` 12 says that it takes effect at the next start. |
| `SamplesHandedOver` | Samples taken while the destructor's callback executes are lost, and so is a log that is full while an exception is pending. |
| `EventsReported` | Events whose turn comes while an exception is pending are dropped, and the next count does not include them. |

Some that no property speaks of:

- `setInterval` keeps an earlier period, so that a timer may be periodic after it.
  `ExcimerTimerObjects` has it so.
- With kqueue the handler thread reports errors through PHP, which `timerlib_config.h` 26
  leaves to the main thread: if the periodic timer cannot be set up, also because stop has closed
  the kqueue, and if `clock_gettime` fails (`timerlib_kqueue.c` 48, 210-213).
- With kqueue `timerlib_timer_destroy` (183-189) does not wait for a callback, as `timerlib.h` 93
  says. The promise is kept because `excimer_timer_destroy` stops a running timer first, and stop
  waits; the model's destroy includes that call.
- The cached current entry of a log refers to the log, and the cycle is not reported to the
  collector: a log that is dropped in the middle of an iteration stays in memory. `RefsExact` of
  `ExcimerLogObjects` counts that reference.

## 6. Abstractions

- One PHP thread. Timers of different PHP threads share nothing in the thread-safe
  build, and the other build has one thread.
- Time is left out except in `KqueueGetTime`: a timer that is armed may expire at any
  moment. Timestamps of entries and the epoch are data that nothing depends on;
  `excimer_log_copy_options` leaves out the epoch in the model.
- The call of `old_zend_interrupt_function`, which comes last, is part of what the level
  below does. Warnings and error reports have no effect on the state.
- `timerlib_timer_stop` and `timerlib_timer_start` of a live timer do not fail.
- Memory errors as such: the properties say that a structure is not used outside of
  its life, not what would happen then.
- PHP code is whatever sequence of calls the API allows. A warning has no effect: that a
  user error handler may run PHP code in the middle of a method is left out.
- A PHP method is one step up to the callback it calls, since PHP is single-threaded and
  interrupts happen between opcodes.
- The wording of reports; names stay symbols, but what merges two names is kept.

## 7. Not modelled

- Class registration, INI, `phpinfo`, argument parsing: no state to speak of.
- `timerlib_timer_get_time` on POSIX timers, which asks the kernel.
- `endValue` of the speedscope data, a difference of timestamps.
- On kqueue: failures of `clock_gettime`, after which `last_fired_at` is an earlier time; a start after a stop that failed, and failures of `pthread_join` and of the
  mutex functions; `timerlib_abort`, which ends the process.
- The growth of the arrays of the log, and the overflow of a weight (292 years).
- The rounding of `timerlib_timespec_from_double` beyond the two integers next to the
  product, and stagger (`setPeriod` draws the initial delay at random; any
  delay is possible in the model).
- The reference counts of callbacks: `setFlushCallback` does not release the old one.
- The nesting of flush callbacks beyond `MaxNested`; the code has no bound of its own.
