--------------------------------- MODULE Timespec ---------------------------------
(***************************************************************************)
(* The arithmetic of timerlib_common.c and timerlib.h on timespecs.  A     *)
(* timespec stands for the integer NsValue of nanoseconds; it is Normal    *)
(* when tv_nsec is a fraction of a second.                                 *)
(***************************************************************************)
EXTENDS Integers

CONSTANTS
  BILLION,  \* nanoseconds in a second
  WORD      \* 2^64: what uint64_t arithmetic wraps at

ASSUME TimespecAssumption == BILLION \in Nat \ {0} /\ WORD \in Nat \ {0}

Timespec == [tv_sec : Int, tv_nsec : Int]

Normal(ts) == ts \in Timespec /\ 0 <= ts.tv_nsec /\ ts.tv_nsec < BILLION

NsValue(ts) == ts.tv_sec * BILLION + ts.tv_nsec

\* The timespec that clock_gettime gives for ns nanoseconds.
ToTimespec(ns) == [tv_sec |-> ns \div BILLION, tv_nsec |-> ns % BILLION]

\* Plausible bug: no carry.
timespec_add_no_carry(a, b) ==
  [tv_sec |-> a.tv_sec + b.tv_sec, tv_nsec |-> (a.tv_nsec + b.tv_nsec) % BILLION]

\* timerlib_timespec_add; the sum of two parts that make a second is not carried.
timespec_add(a, b) ==
  LET nsec == a.tv_nsec + b.tv_nsec IN
  IF nsec > BILLION
  THEN [tv_sec |-> a.tv_sec + b.tv_sec + 1, tv_nsec |-> nsec - BILLION]
  ELSE [tv_sec |-> a.tv_sec + b.tv_sec, tv_nsec |-> nsec]

\* timerlib_timespec_subtract
timespec_subtract(a, b) ==
  IF a.tv_nsec < b.tv_nsec
  THEN [tv_sec |-> a.tv_sec - b.tv_sec - 1, tv_nsec |-> a.tv_nsec + (BILLION - b.tv_nsec)]
  ELSE [tv_sec |-> a.tv_sec - b.tv_sec, tv_nsec |-> a.tv_nsec - b.tv_nsec]

\* timerlib_timespec_from_double, for the double of secs seconds and a fraction whose
\* product with 1e9 is nsec when it is truncated, or negative (secs < 0).  The product
\* may be rounded up to the next integer, which is BILLION at most.
timespec_from_double(secs, nsec) ==
  IF secs < 0 THEN [tv_sec |-> 0, tv_nsec |-> 0]
  ELSE IF nsec >= BILLION THEN [tv_sec |-> secs + 1, tv_nsec |-> nsec - BILLION]
  ELSE [tv_sec |-> secs, tv_nsec |-> nsec]

\* timerlib_timespec_to_ns, and timerlib_timespec_to_double up to the unit.
timespec_to_ns(ts) == (ts.tv_nsec + ts.tv_sec * BILLION) % WORD
===================================================================================
