-------------------------- MODULE ExcimerProfilerProofs ---------------------------
(***************************************************************************)
(* Proofs about ExcimerProfiler, for all arguments of the methods, any     *)
(* number of samples and logs and any nesting of flushes.                  *)
(***************************************************************************)
EXTENDS ExcimerProfiler, TLAPS

\* The parts of the invariant, of logs ls with current log z, calls cs in progress, an
\* object in state o, n samples so far and b of them before the destructor.

\* Logs are rotated forwards, and what is being flushed is not the current log.
Shape(ls, z, cs) ==
  /\ ls \in Seq(Log) /\ z \in Nat \ {0} /\ z = Len(ls)
  /\ cs \in Seq(Call) /\ \A i \in 1..Len(cs) : cs[i].log \in 1..(z - 1)
  /\ \A i, j \in 1..Len(cs) : cs[i].log = cs[j].log => i = j

InCalls(cs, l) == \E i \in 1..Len(cs) : cs[i].log = l

References(z, cs, o, l) == one(o # "freed" /\ z = l) + 2 * one(InCalls(cs, l))

Counted(ls, z, cs, o) ==
  \A l \in 1..Len(ls) : ls[l].refs = References(z, cs, o, l) + ls[l].user

\* A log whose fate is open is the current one.
Fates(ls, z, o) ==
  \A l \in 1..Len(ls) : /\ ls[l].fate = "kept" => l = z /\ o # "freed"
                        /\ ls[l].fate = "freed" => l = z /\ o = "freed"

Numbered(ls, n) ==
  /\ n \in Nat
  /\ \A k \in 1..n : \E l \in 1..Len(ls) : \E i \in 1..Len(ls[l].samples) : ls[l].samples[i] = k
  /\ \A l \in 1..Len(ls) : \A i \in 1..Len(ls[l].samples) :
        /\ ls[l].samples[i] \in 1..n
        /\ \A m \in 1..Len(ls) : \A j \in 1..Len(ls[m].samples) :
              l < m \/ (l = m /\ i < j) => ls[l].samples[i] < ls[m].samples[j]

\* What the destructor leaves in the current log came after it began.
Late(ls, z, o, n, b) ==
  /\ n \in Nat /\ b \in Nat /\ b =< n
  /\ o # "live" => \A i \in 1..Len(ls[z].samples) : ls[z].samples[i] > b

LogsInv(ls, z, cs, o, n, b) ==
  /\ Shape(ls, z, cs) /\ Counted(ls, z, cs, o) /\ Fates(ls, z, o)
  /\ Numbered(ls, n) /\ Late(ls, z, o, n, b)

\* Types of all variables but the logs.
Control ==
  /\ obj \in {"live", "dtor", "destructed", "freed"}
  /\ callback \in {"null", "callable", "broken"} /\ max_samples \in Nat
  /\ event_type \in EventTypes /\ timer_type \in EventTypes
  /\ period \in Periods /\ timer_period \in Periods /\ max_depth \in Depths
  /\ timer \in {"invalid", "stopped", "running"}
  /\ need_reinit \in BOOLEAN /\ pending \in BOOLEAN /\ exception \in {"none", "event", "php"}
  /\ taken \in [all : Nat, before_dtor : Nat]

\* The invariant of the logs, with the numbers of samples.
Logs == LogsInv(logs, z_log, calls, obj, taken.all, taken.before_dtor)

\* The current log has the options that were set last: the setters write them to it, and a
\* new log takes them from the old one.  A timer that start does not set up anew counts the
\* event type that was set last.
Options ==
  /\ log_options = [period |-> period, max_depth |-> max_depth]
  /\ ~need_reinit /\ obj # "freed" => timer # "invalid" /\ timer_type = event_type

ProfilerInv == Control /\ Options /\ Logs

\* A sequence with one of its elements replaced.
LEMMA Replaced ==
  ASSUME NEW S, NEW s \in Seq(S), NEW k \in 1..Len(s), NEW x \in S, NEW t,
         t = [s EXCEPT ![k] = x]
  PROVE  /\ t \in Seq(S) /\ Len(t) = Len(s) /\ t[k] = x
         /\ \A i \in 1..Len(s) : i # k => t[i] = s[i]
  OBVIOUS

\* A sequence with an element more.
LEMMA Appended ==
  ASSUME NEW S, NEW s \in Seq(S), NEW x \in S, NEW t, t = Append(s, x)
  PROVE  /\ t \in Seq(S) /\ Len(t) = Len(s) + 1 /\ t[Len(s) + 1] = x
         /\ \A i \in 1..Len(s) : t[i] = s[i]
  OBVIOUS

\* A sequence of a given length.
LEMMA SameInterval ==
  ASSUME NEW m \in Nat, NEW n \in Nat, 1..m = 1..n
  PROVE  m = n
<1>1. m > n => m \in 1..m /\ m \notin 1..n
  OBVIOUS
<1>2. n > m => n \in 1..n /\ n \notin 1..m
  OBVIOUS
<1> QED BY <1>1, <1>2

\* A sequence without its last element.
LEMMA Shortened ==
  ASSUME NEW S, NEW s \in Seq(S), s # <<>>
  PROVE  LET t == SubSeq(s, 1, Len(s) - 1) IN
         /\ t \in Seq(S) /\ Len(t) = Len(s) - 1 /\ Len(s) \in Nat \ {0}
         /\ \A i \in 1..(Len(s) - 1) : t[i] = s[i]
<1> DEFINE t == SubSeq(s, 1, Len(s) - 1)
<1>1. Len(s) \in Nat \ {0} /\ \A i \in 1..Len(s) : s[i] \in S
  OBVIOUS
<1>2. SubSeq(s, 1, Len(s) - 1) = [i \in 1..(Len(s) - 1) |-> s[i]]
  BY <1>1
<1>3. Len(s) - 1 \in Nat
  BY <1>1
<1>4. [i \in 1..(Len(s) - 1) |-> s[i]] \in Seq(S)
  BY <1>1, <1>3
<1>5. Len(t) = Len(s) - 1
  <2>1. t \in Seq(S) /\ DOMAIN t = 1..(Len(s) - 1)
    BY <1>2, <1>4
  <2>2. Len(t) \in Nat /\ DOMAIN t = 1..Len(t)
    BY <2>1
  <2> QED BY <1>3, <2>1, <2>2, SameInterval, Zenon
<1> QED BY <1>1, <1>2, <1>4, <1>5

\* What log_add and the methods do to a log keeps its type.
LEMMA LogRecord ==
  ASSUME NEW g \in Log
  PROVE  /\ g.samples \in Seq(Nat) /\ g.refs \in Nat /\ g.user \in Nat
         /\ \A x \in Seq(Nat) : [g EXCEPT !.samples = x] \in Log
         /\ \A s \in Seq(Nat), m, n \in Nat,
               f \in {"kept", "given", "null", "broken", "exception", "freed"} :
               [samples |-> s, refs |-> m, user |-> n, fate |-> f] \in Log
  BY DEF Log

\* The numbering depends only on the samples.
LEMMA SameSamples ==
  ASSUME NEW ls, NEW t, NEW n, Numbered(ls, n), Len(t) = Len(ls),
         \A l \in 1..Len(ls) : t[l].samples = ls[l].samples
  PROVE  Numbered(t, n)
<1>1. \A k \in 1..n : \E l \in 1..Len(t) : \E i \in 1..Len(t[l].samples) : t[l].samples[i] = k
  BY Zenon DEF Numbered
<1>2. ASSUME NEW l \in 1..Len(t), NEW i \in 1..Len(t[l].samples)
      PROVE  /\ t[l].samples[i] \in 1..n
             /\ \A m \in 1..Len(t) : \A j \in 1..Len(t[m].samples) :
                   l < m \/ (l = m /\ i < j) => t[l].samples[i] < t[m].samples[j]
  BY Zenon DEF Numbered
<1> QED BY <1>1, <1>2, Zenon DEF Numbered

\* Log z gets sample k.
Adds(t, ls, z, k) == t = [ls EXCEPT ![z] = log_add(@, k)]

\* excimer_log_add: the current log gets the next number.
LEMMA AddSample ==
  ASSUME NEW ls, NEW z, NEW cs, NEW o, NEW n, NEW b, LogsInv(ls, z, cs, o, n, b),
         NEW t, Adds(t, ls, z, n + 1)
  PROVE  LogsInv(t, z, cs, o, n + 1, b)
<1> DEFINE g == [ls[z] EXCEPT !.samples = Append(@, n + 1)]
<1>1. /\ ls \in Seq(Log) /\ z \in 1..Len(ls) /\ n \in Nat /\ ls[z] \in Log /\ z \in Nat
      /\ ls[z].samples \in Seq(Nat) /\ Len(ls) = z
  BY LogRecord DEF LogsInv, Shape, Late
<1>2. Append(ls[z].samples, n + 1) \in Seq(Nat)
  BY <1>1
<1>3. g \in Log
  BY <1>1, <1>2, LogRecord, Zenon
<1>4. t = [ls EXCEPT ![z] = g]
  BY DEF Adds, log_add
<1>5. /\ t \in Seq(Log) /\ Len(t) = Len(ls) /\ t[z] = g
      /\ \A i \in 1..Len(ls) : i # z => t[i] = ls[i]
  <2> HIDE DEF g
  <2> QED BY <1>1, <1>3, <1>4, Replaced
<1>6. g.refs = ls[z].refs /\ g.user = ls[z].user /\ g.fate = ls[z].fate
      /\ g.samples = Append(ls[z].samples, n + 1)
  BY <1>1 DEF Log
<1> HIDE DEF g
<1>7. \A l \in 1..Len(ls) : t[l].refs = ls[l].refs /\ t[l].user = ls[l].user
                            /\ t[l].fate = ls[l].fate
  BY <1>1, <1>5, <1>6
<1>8. Shape(t, z, cs)
  BY <1>1, <1>5 DEF LogsInv, Shape
<1>9. Counted(t, z, cs, o)
  BY <1>5, <1>7 DEF LogsInv, Counted
<1>10. Fates(t, z, o)
  BY <1>5, <1>7, Zenon DEF LogsInv, Fates
<1>11. /\ Len(t[z].samples) = Len(ls[z].samples) + 1 /\ Len(ls[z].samples) \in Nat
       /\ t[z].samples[Len(ls[z].samples) + 1] = n + 1
       /\ \A i \in 1..Len(ls[z].samples) : t[z].samples[i] = ls[z].samples[i]
  BY <1>1, <1>5, <1>6
<1>12. Late(t, z, o, n + 1, b)
  <2>1. ASSUME o # "live", NEW i \in 1..(Len(ls[z].samples) + 1) PROVE t[z].samples[i] > b
    <3>1. CASE i = Len(ls[z].samples) + 1
      BY <1>1, <1>11, <3>1 DEF LogsInv, Late
    <3>2. CASE i \in 1..Len(ls[z].samples)
      BY <1>1, <1>11, <2>1, <3>2, Zenon DEF LogsInv, Late
    <3>3. i \in 1..Len(ls[z].samples) \/ i = Len(ls[z].samples) + 1
      BY <1>11
    <3> QED BY <3>1, <3>2, <3>3, Zenon
  <2> QED BY <1>1, <1>11, <2>1 DEF LogsInv, Late
<1>13. Numbered(t, n + 1)
  <2>1. ASSUME NEW k \in 1..(n + 1)
        PROVE  \E l \in 1..Len(t) : \E i \in 1..Len(t[l].samples) : t[l].samples[i] = k
    <3>1. CASE k = n + 1
      <4>1. z \in 1..Len(t)
        BY <1>1, <1>5, Zenon
      <4>2. Len(ls[z].samples) + 1 \in 1..Len(t[z].samples)
        BY <1>11
      <4> QED BY <1>11, <3>1, <4>1, <4>2, Zenon
    <3>2. CASE k \in 1..n
      <4>0. PICK l \in 1..Len(ls) : \E i \in 1..Len(ls[l].samples) : ls[l].samples[i] = k
        BY <3>2, Zenon DEF LogsInv, Numbered
      <4>1. PICK i \in 1..Len(ls[l].samples) : ls[l].samples[i] = k
        BY <4>0
      <4>2. CASE l = z
        <5>1. 1..Len(ls[z].samples) \subseteq 1..Len(t[z].samples)
          BY <1>11
        <5>2. i \in 1..Len(t[z].samples) /\ t[z].samples[i] = k
          BY <1>11, <4>1, <4>2, <5>1, Zenon
        <5> QED BY <1>1, <1>5, <5>2, Zenon
      <4>3. CASE l # z
        BY <1>5, <4>1, <4>3
      <4> QED BY <4>2, <4>3, Zenon
    <3> QED BY <1>1, <3>1, <3>2
  <2>2. ASSUME NEW l \in 1..Len(t), NEW i \in 1..Len(t[l].samples)
        PROVE  \/ l = z /\ i = Len(ls[z].samples) + 1 /\ t[l].samples[i] = n + 1
               \/ i \in 1..Len(ls[l].samples) /\ t[l].samples[i] = ls[l].samples[i]
    <3>1. CASE l = z
      <4>1. i \in 1..Len(ls[z].samples) \/ i = Len(ls[z].samples) + 1
        BY <1>11, <3>1
      <4> QED BY <1>11, <3>1, <4>1, Zenon
    <3>2. CASE l # z
      BY <1>5, <3>2, Zenon
    <3> QED BY <3>1, <3>2, Zenon
  <2>3. \A l \in 1..Len(ls) : \A i \in 1..Len(ls[l].samples) : ls[l].samples[i] \in 1..n
    BY Zenon DEF LogsInv, Numbered
  <2>4. ASSUME NEW l \in 1..Len(t), NEW i \in 1..Len(t[l].samples)
        PROVE  t[l].samples[i] \in 1..(n + 1)
    <3>1. CASE t[l].samples[i] = n + 1
      BY <1>1, <3>1
    <3>2. CASE i \in 1..Len(ls[l].samples) /\ t[l].samples[i] = ls[l].samples[i]
      <4>1. t[l].samples[i] \in 1..n
        BY <1>5, <2>3, <3>2, Zenon
      <4> QED BY <1>1, <4>1
    <3> QED BY <2>2, <3>1, <3>2, Zenon
  <2>5. ASSUME NEW l \in 1..Len(t), NEW i \in 1..Len(t[l].samples),
               NEW m \in 1..Len(t), NEW j \in 1..Len(t[m].samples),
               l < m \/ (l = m /\ i < j)
        PROVE  t[l].samples[i] < t[m].samples[j]
    <3>1. i \in 1..Len(ls[l].samples) /\ t[l].samples[i] = ls[l].samples[i]
      <4>1. ASSUME l = z, i = Len(ls[z].samples) + 1 PROVE FALSE
        <5>1. m \in 1..z /\ l \in 1..z
          BY <1>1, <1>5, Zenon
        <5>2. ~(l < m)
          BY <1>1, <4>1, <5>1
        <5>3. l = m /\ i < j
          BY <2>5, <5>2
        <5>4. j \in 1..(Len(ls[z].samples) + 1)
          BY <1>11, <4>1, <5>3, Zenon
        <5> QED BY <1>11, <4>1, <5>3, <5>4
      <4> QED BY <2>2, <4>1, Zenon
    <3>2. CASE m = z /\ j = Len(ls[z].samples) + 1 /\ t[m].samples[j] = n + 1
      <4>1. t[l].samples[i] \in 1..n
        BY <1>5, <2>3, <3>1, Zenon
      <4> QED BY <1>1, <3>2, <4>1
    <3>3. CASE j \in 1..Len(ls[m].samples) /\ t[m].samples[j] = ls[m].samples[j]
      BY <1>5, <2>5, <3>1, <3>3, Zenon DEF LogsInv, Numbered
    <3> QED BY <2>2, <3>2, <3>3, Zenon
  <2>6. n + 1 \in Nat
    BY <1>1
  <2>7. ASSUME NEW l \in 1..Len(t), NEW i \in 1..Len(t[l].samples)
        PROVE  \A m \in 1..Len(t) : \A j \in 1..Len(t[m].samples) :
                  l < m \/ (l = m /\ i < j) => t[l].samples[i] < t[m].samples[j]
    BY <2>5, Zenon
  <2>8. \A k \in 1..(n + 1) :
           \E l \in 1..Len(t) : \E i \in 1..Len(t[l].samples) : t[l].samples[i] = k
    BY <2>1, Zenon
  <2>9. \A l \in 1..Len(t) : \A i \in 1..Len(t[l].samples) :
           /\ t[l].samples[i] \in 1..(n + 1)
           /\ \A m \in 1..Len(t) : \A j \in 1..Len(t[m].samples) :
                 l < m \/ (l = m /\ i < j) => t[l].samples[i] < t[m].samples[j]
    BY <2>4, <2>7, Zenon
  <2> QED BY <2>6, <2>8, <2>9, Zenon DEF Numbered
<1> QED BY <1>8, <1>9, <1>10, <1>12, <1>13 DEF LogsInv

\* A new log replaces the current one, z, of which g is what flush leaves.
Replaces(t, ls, z, g) == t = [Append(ls, new_log) EXCEPT ![z] = g]

\* The logs after that.
LEMMA ReplacedLogs ==
  ASSUME NEW ls \in Seq(Log), NEW z \in Nat \ {0}, z = Len(ls), NEW g \in Log, NEW t,
         Replaces(t, ls, z, g)
  PROVE  /\ t \in Seq(Log) /\ Len(t) = z + 1 /\ t[z] = g /\ t[z + 1] = new_log
         /\ \A i \in 1..(z - 1) : t[i] = ls[i]
<1> DEFINE u == Append(ls, new_log)
<1>1. new_log \in Log
  BY DEF new_log, Log
<1>2. u \in Seq(Log) /\ Len(u) = z + 1 /\ u[z + 1] = new_log /\ \A i \in 1..z : u[i] = ls[i]
  BY <1>1, Appended
<1>3. t = [u EXCEPT ![z] = g]
  BY DEF Replaces
<1> HIDE DEF u
<1>4. z \in 1..Len(u)
  BY <1>2
<1>5. t \in Seq(Log) /\ Len(t) = Len(u) /\ t[z] = g /\ \A i \in 1..Len(u) : i # z => t[i] = u[i]
  BY <1>2, <1>3, <1>4, Replaced
<1> QED BY <1>2, <1>5

\* When flush has changed the calls in progress from cs to ds, either all is done or the
\* callback is executing.
Flushed(g, z, cs, ds, old) ==
  /\ g \in Log /\ g.samples = old.samples /\ g.fate \notin {"kept", "freed"}
  /\ \/ ds = cs /\ g.refs = g.user
     \/ \E how \in {"method", "event", "dtor"} :
           ds = Append(cs, [log |-> z, how |-> how]) /\ g.refs = g.user + 2

\* The object is destructed or not, and if it was it stays so.
Becomes(o, p) == o # "freed" /\ p \in {"live", "dtor", "destructed"} /\ (p = "live" => o = "live")

\* A flush keeps the invariant of the logs.
LEMMA Rotated ==
  ASSUME NEW ls, NEW z, NEW cs, NEW o, NEW n, NEW b, LogsInv(ls, z, cs, o, n, b),
         NEW g, NEW t, NEW ds, NEW p,
         Replaces(t, ls, z, g), Flushed(g, z, cs, ds, ls[z]), Becomes(o, p)
  PROVE  LogsInv(t, z + 1, ds, p, n, b)
<1>1. /\ ls \in Seq(Log) /\ z \in Nat \ {0} /\ z \in 1..Len(ls) /\ Len(ls) = z
      /\ n \in Nat /\ b \in Nat /\ b =< n /\ cs \in Seq(Call)
      /\ \A i \in 1..Len(cs) : cs[i].log \in 1..(z - 1)
      /\ \A i, j \in 1..Len(cs) : cs[i].log = cs[j].log => i = j
  BY DEF LogsInv, Shape, Late
<1>2. new_log \in Log /\ new_log.samples = <<>> /\ new_log.refs = 1 /\ new_log.user = 0
      /\ new_log.fate = "kept"
  BY DEF new_log, Log
<1>3. /\ t \in Seq(Log) /\ Len(t) = z + 1 /\ t[z] = g /\ t[z + 1] = new_log
      /\ \A l \in 1..(z - 1) : t[l] = ls[l]
  <2>1. g \in Log
    BY Zenon DEF Flushed
  <2>2. ls \in Seq(Log) /\ z \in Nat \ {0} /\ z = Len(ls)
    BY <1>1
  <2> QED BY <2>1, <2>2, ReplacedLogs
<1>4. \A l \in 1..(z + 1) : l \in 1..(z - 1) \/ l = z \/ l = z + 1
  BY <1>1
<1>5. \A l \in 1..z : t[l].samples = ls[l].samples
  <2>1. \A l \in 1..z : l \in 1..(z - 1) \/ l = z
    BY <1>1
  <2>2. t[z].samples = ls[z].samples
    BY <1>3, Zenon DEF Flushed
  <2> QED BY <1>3, <2>1, <2>2, Zenon
<1>6. /\ Shape(t, z + 1, ds)
      /\ \A l \in 1..(z - 1) : InCalls(ds, l) <=> InCalls(cs, l)
      /\ InCalls(ds, z) <=> ds # cs
      /\ ~InCalls(ds, z + 1)
  <2>1. CASE ds = cs
    <3>1. Shape(t, z + 1, ds)
      BY <1>1, <1>3, <2>1 DEF Shape
    <3> QED BY <1>1, <2>1, <3>1 DEF InCalls
  <2>2. CASE ds # cs
    <3>1. PICK how \in {"method", "event", "dtor"} : ds = Append(cs, [log |-> z, how |-> how])
      BY <2>2, Zenon DEF Flushed
    <3> DEFINE c == [log |-> z, how |-> how]
    <3>2. c \in Call /\ c.log = z
      BY <1>1 DEF Call
    <3> HIDE DEF c
    <3>3. /\ ds \in Seq(Call) /\ Len(ds) = Len(cs) + 1 /\ ds[Len(cs) + 1] = c
          /\ Len(cs) \in Nat /\ \A i \in 1..Len(cs) : ds[i] = cs[i]
      BY <1>1, <3>1, <3>2, Appended DEF c
    <3>4. \A i \in 1..Len(ds) : \/ i \in 1..Len(cs) /\ ds[i].log = cs[i].log
                                \/ i = Len(cs) + 1 /\ ds[i].log = z
      <4>1. \A i \in 1..Len(ds) : i \in 1..Len(cs) \/ i = Len(cs) + 1
        BY <3>3
      <4>2. ASSUME NEW i \in 1..Len(cs) PROVE ds[i].log = cs[i].log
        BY <3>3, Zenon
      <4>3. ds[Len(cs) + 1].log = z
        BY <3>2, <3>3, Zenon
      <4> QED BY <4>1, <4>2, <4>3, Zenon
    <3>5. \A i \in 1..Len(ds) : ds[i].log \in 1..z
      BY <1>1, <3>4
    <3>6. ASSUME NEW i \in 1..Len(ds), NEW j \in 1..Len(ds), ds[i].log = ds[j].log PROVE i = j
      <4>1. z \notin 1..(z - 1)
        BY <1>1
      <4> QED BY <1>1, <3>4, <3>6, <4>1, ZenonT(40)
    <3>7. Shape(t, z + 1, ds)
      BY <1>1, <1>3, <3>3, <3>5, <3>6 DEF Shape
    <3>8. ASSUME NEW l \in 1..(z - 1) PROVE InCalls(ds, l) <=> InCalls(cs, l)
      <4>1. l # z
        BY <1>1
      <4>2. ASSUME InCalls(ds, l) PROVE InCalls(cs, l)
        BY <3>4, <4>1, <4>2 DEF InCalls
      <4>3. ASSUME NEW i \in 1..Len(cs), cs[i].log = l PROVE i \in 1..Len(ds) /\ ds[i].log = l
        BY <3>3, <4>3
      <4> QED BY <4>2, <4>3, Zenon DEF InCalls
    <3>9. InCalls(ds, z)
      BY <3>2, <3>3 DEF InCalls
    <3>10. ~InCalls(ds, z + 1)
      BY <1>1, <3>5 DEF InCalls
    <3> QED BY <2>2, <3>7, <3>8, <3>9, <3>10
  <2> QED BY <2>1, <2>2
<1>7. Counted(t, z + 1, ds, p)
  <2>1. ASSUME NEW l \in 1..(z - 1) PROVE t[l].refs = References(z + 1, ds, p, l) + t[l].user
    <3>1. ls[l].refs = References(z, cs, o, l) + ls[l].user
      BY <1>1 DEF LogsInv, Counted
    <3>2. References(z + 1, ds, p, l) = References(z, cs, o, l)
      BY <1>1, <1>6 DEF References, one
    <3> QED BY <1>3, <3>1, <3>2
  <2>2. g.refs = References(z + 1, ds, p, z) + g.user
    <3>1. z + 1 # z /\ g.user \in Nat
      BY <1>1, LogRecord DEF Flushed
    <3>2. CASE ds = cs /\ g.refs = g.user
      BY <1>6, <3>1, <3>2 DEF References, one
    <3>3. CASE ds # cs /\ g.refs = g.user + 2
      BY <1>6, <3>1, <3>3 DEF References, one
    <3>4. \A c : Append(cs, c) # cs
      BY <1>1
    <3>5. (ds = cs /\ g.refs = g.user) \/ (ds # cs /\ g.refs = g.user + 2)
      BY <3>4, Zenon DEF Flushed
    <3> QED BY <3>2, <3>3, <3>5
  <2>3. new_log.refs = References(z + 1, ds, p, z + 1) + new_log.user
    BY <1>2, <1>6 DEF References, one, Becomes
  <2> QED BY <1>3, <1>4, <2>1, <2>2, <2>3 DEF Counted
<1>8. Fates(t, z + 1, p)
  <2>1. \A l \in 1..(z - 1) : ls[l].fate # "kept" /\ ls[l].fate # "freed"
    BY <1>1 DEF LogsInv, Fates
  <2>2. g.fate # "kept" /\ g.fate # "freed" /\ p # "freed"
    BY DEF Flushed, Becomes
  <2> QED BY <1>2, <1>3, <1>4, <2>1, <2>2 DEF Fates
<1>9. Len(t[z + 1].samples) = 0 /\ 1..Len(t[z + 1].samples) = {}
  BY <1>2, <1>3
<1>10. Late(t, z + 1, p, n, b)
  BY <1>1, <1>9 DEF Late
<1>11. Numbered(t, n)
  <2>1. \A l \in 1..Len(t) : \A i \in 1..Len(t[l].samples) : l \in 1..z
    BY <1>1, <1>3, <1>4, <1>9
  <2>2. \A l \in 1..z : l \in 1..Len(t)
    BY <1>1, <1>3
  <2>3. ASSUME NEW k \in 1..n
        PROVE  \E l \in 1..Len(t) : \E i \in 1..Len(t[l].samples) : t[l].samples[i] = k
    <3>1. PICK l \in 1..z : \E i \in 1..Len(ls[l].samples) : ls[l].samples[i] = k
      BY <1>1, Zenon DEF LogsInv, Numbered
    <3> QED BY <1>5, <2>2, <3>1, Zenon
  <2>4. ASSUME NEW l \in 1..Len(t), NEW i \in 1..Len(t[l].samples)
        PROVE  t[l].samples[i] \in 1..n
    BY <1>1, <1>5, <2>1, Zenon DEF LogsInv, Numbered
  <2>5. ASSUME NEW l \in 1..Len(t), NEW i \in 1..Len(t[l].samples),
               NEW m \in 1..Len(t), NEW j \in 1..Len(t[m].samples),
               l < m \/ (l = m /\ i < j)
        PROVE  t[l].samples[i] < t[m].samples[j]
    <3>1. l \in 1..Len(ls) /\ m \in 1..Len(ls)
      BY <1>1, <2>1, Zenon
    <3> QED BY <1>1, <1>5, <2>5, <3>1, Zenon DEF LogsInv, Numbered
  <2>6. ASSUME NEW l \in 1..Len(t), NEW i \in 1..Len(t[l].samples)
        PROVE  \A m \in 1..Len(t) : \A j \in 1..Len(t[m].samples) :
                  l < m \/ (l = m /\ i < j) => t[l].samples[i] < t[m].samples[j]
    BY <2>5, Zenon
  <2> QED BY <1>1, <2>3, <2>4, <2>6, Zenon DEF Numbered
<1> QED BY <1>6, <1>7, <1>8, <1>10, <1>11 DEF LogsInv

\* What the methods do to a log.
LEMMA LogUpdates ==
  ASSUME NEW g \in Log
  PROVE  /\ given(g) \in Log /\ given(g).samples = g.samples /\ given(g).refs = g.refs
         /\ given(g).user = g.user + 1 /\ given(g).fate = "given"
         /\ passed(g) \in Log /\ passed(g).samples = g.samples /\ passed(g).refs = g.refs + 1
         /\ passed(g).user = g.user /\ passed(g).fate = "given"
         /\ \A f \in {"given", "null", "broken", "exception", "freed"} :
               /\ g.refs > 0 => released(g, f) \in Log
               /\ released(g, f).samples = g.samples /\ released(g, f).refs = g.refs - 1
               /\ released(g, f).user = g.user
               /\ released(g, f).fate = IF g.fate = "kept" THEN f ELSE g.fate
<1>1. /\ g.user + 1 \in Nat /\ g.refs + 1 \in Nat /\ (g.refs > 0 => g.refs - 1 \in Nat)
  BY DEF Log
<1>2. given(g).samples = g.samples /\ given(g).refs = g.refs
      /\ given(g).user = g.user + 1 /\ given(g).fate = "given"
  BY DEF Log, given
<1>3. passed(g).samples = g.samples /\ passed(g).refs = g.refs + 1
      /\ passed(g).user = g.user /\ passed(g).fate = "given"
  BY DEF Log, passed
<1>4. given(g) \in Log /\ passed(g) \in Log
  BY <1>1, Zenon DEF Log, given, passed
<1>5. ASSUME NEW f \in {"given", "null", "broken", "exception", "freed"}
      PROVE  /\ released(g, f).samples = g.samples /\ released(g, f).refs = g.refs - 1
             /\ released(g, f).user = g.user
             /\ released(g, f).fate = IF g.fate = "kept" THEN f ELSE g.fate
  BY DEF Log, released
<1>6. ASSUME NEW f \in {"given", "null", "broken", "exception", "freed"}, g.refs > 0
      PROVE  released(g, f) \in Log
  BY <1>1, <1>6, Zenon DEF Log, released
<1> QED BY <1>2, <1>3, <1>4, <1>5, <1>6

\* The current log of an object that is not freed is referred to by it and by PHP
\* variables only, and its fate is open or PHP code has it.
LEMMA CurrentLog ==
  ASSUME NEW ls, NEW z, NEW cs, NEW o, NEW n, NEW b, LogsInv(ls, z, cs, o, n, b), o # "freed"
  PROVE  /\ ls \in Seq(Log) /\ z \in 1..Len(ls) /\ Len(ls) = z /\ ls[z] \in Log
         /\ ls[z].refs = ls[z].user + 1 /\ ls[z].refs > 0 /\ ls[z].fate # "freed"
<1>1. ls \in Seq(Log) /\ z \in 1..Len(ls) /\ Len(ls) = z /\ ls[z] \in Log
  BY DEF LogsInv, Shape
<1>2. ls[z].refs = References(z, cs, o, z) + ls[z].user /\ ls[z].fate # "freed"
  BY <1>1 DEF LogsInv, Counted, Fates
<1>3. ~InCalls(cs, z)
  BY <1>1 DEF LogsInv, Shape, InCalls
<1>4. ls[z].user \in Nat
  BY <1>1, LogRecord
<1> QED BY <1>1, <1>2, <1>3, <1>4 DEF References, one

\* ExcimerProfiler_flush keeps the invariant of the logs.
LEMMA FlushStep ==
  ASSUME NEW ls, NEW how \in {"method", "event", "dtor"}, NEW n, NEW b,
         LogsInv(ls, z_log, calls, obj, n, b), obj \in {"live", "dtor", "destructed"},
         flush_to(ls, how)
  PROVE  /\ LogsInv(logs', z_log', calls', obj', n, b)
         /\ obj' \in {"live", "dtor", "destructed"}
         /\ z_log' = z_log + 1
         /\ logs'[z_log'].samples = <<>>
<1> DEFINE old == ls[z_log]
<1>1. /\ ls \in Seq(Log) /\ z_log \in 1..Len(ls) /\ Len(ls) = z_log /\ old \in Log
      /\ old.refs = old.user + 1 /\ old.refs > 0 /\ old.fate # "freed" /\ old.user \in Nat
  BY CurrentLog, LogRecord
<1>2. z_log' = z_log + 1
  BY <1>1 DEF flush_to
<1>3. /\ Append(ls, new_log)[z_log] = old
      /\ \A x : [Append(ls, new_log) EXCEPT ![z_log] = x] = [Append(ls, new_log) EXCEPT ![z_log] = x]
  BY <1>1
<1>4. \E g : Replaces(logs', ls, z_log, g) /\ Flushed(g, z_log, calls, calls', old)
  <2>1. ASSUME NEW f \in {"null", "broken", "exception"}, calls' = calls,
               logs' = [Append(ls, new_log) EXCEPT ![z_log] = let_go(@, how, f)]
        PROVE  Replaces(logs', ls, z_log, let_go(old, how, f))
               /\ Flushed(let_go(old, how, f), z_log, calls, calls', old)
    <3>1. Replaces(logs', ls, z_log, let_go(old, how, f))
      BY <1>3, <2>1, Zenon DEF Replaces
    <3>2. CASE how = "method"
      <4>1. let_go(old, how, f) = given(old)
        BY <3>2 DEF let_go
      <4>2. given(old) \in Log /\ given(old).samples = old.samples
            /\ given(old).refs = given(old).user /\ given(old).fate = "given"
        BY <1>1, LogUpdates
      <4> QED BY <2>1, <3>1, <4>1, <4>2, Zenon DEF Flushed
    <3>3. CASE how # "method"
      <4>1. let_go(old, how, f) = released(old, f)
        BY <3>3 DEF let_go
      <4>2. released(old, f) \in Log /\ released(old, f).samples = old.samples
            /\ released(old, f).refs = old.refs - 1 /\ released(old, f).user = old.user
            /\ released(old, f).fate = IF old.fate = "kept" THEN f ELSE old.fate
        BY <1>1, LogUpdates
      <4>3. released(old, f).fate \notin {"kept", "freed"}
        BY <1>1, <4>2
      <4>4. released(old, f).refs = released(old, f).user
        BY <1>1, <4>2
      <4> QED BY <2>1, <3>1, <4>1, <4>2, <4>3, <4>4, Zenon DEF Flushed
    <3> QED BY <3>2, <3>3, Zenon
  <2>2. ASSUME calls' = Append(calls, [log |-> z_log, how |-> how]),
               logs' = [Append(ls, new_log) EXCEPT ![z_log] = passed(@)]
        PROVE  \E g : Replaces(logs', ls, z_log, g) /\ Flushed(g, z_log, calls, calls', old)
    <3> DEFINE g == passed(old)
    <3>1. Replaces(logs', ls, z_log, g)
      BY <1>3, <2>2 DEF Replaces
    <3>2. g \in Log /\ g.samples = old.samples /\ g.fate = "given" /\ g.refs = old.refs + 1
          /\ g.user = old.user
      BY <1>1, LogUpdates, Zenon
    <3> HIDE DEF g
    <3>3. g.refs = g.user + 2
      BY <1>1, <3>2
    <3>4. Flushed(g, z_log, calls, calls', old)
      BY <2>2, <3>2, <3>3 DEF Flushed
    <3> QED BY <3>1, <3>4
  <2>3. \/ \E f \in {"null", "broken", "exception"} :
              calls' = calls /\ logs' = [Append(ls, new_log) EXCEPT ![z_log] = let_go(@, how, f)]
        \/ /\ calls' = Append(calls, [log |-> z_log, how |-> how])
           /\ logs' = [Append(ls, new_log) EXCEPT ![z_log] = passed(@)]
    BY Zenon DEF flush_to
  <2> QED BY <2>1, <2>2, <2>3, Zenon
<1>5. obj' \in {"live", "dtor", "destructed"} /\ Becomes(obj, obj')
  BY DEF flush_to, Becomes
<1>6. PICK g : Replaces(logs', ls, z_log, g) /\ Flushed(g, z_log, calls, calls', old)
  BY <1>4
<1>7. LogsInv(logs', z_log + 1, calls', obj', n, b)
  BY <1>5, <1>6, Rotated, Zenon
<1>8. logs'[z_log + 1] = new_log
  <2>1. g \in Log /\ z_log \in Nat \ {0} /\ z_log = Len(ls)
    BY <1>1, <1>6 DEF Flushed
  <2> QED BY <1>1, <1>6, <2>1, ReplacedLogs
<1> QED BY <1>2, <1>5, <1>7, <1>8 DEF new_log

\* Log l becomes g while the calls become ds and the object p.
Updates(t, ls, l, g) ==
  /\ l \in 1..Len(ls) /\ g \in Log /\ g.samples = ls[l].samples
  /\ t = [ls EXCEPT ![l] = g]

KeepsCounts(g, l, ls, z, cs, o, ds, p) ==
  /\ Shape(ls, z, ds)
  /\ g.refs = References(z, ds, p, l) + g.user
  /\ \A m \in 1..Len(ls) : m # l => References(z, ds, p, m) = References(z, cs, o, m)

KeepsFates(g, l, z, o, p) ==
  /\ g.fate = "kept" => l = z /\ p # "freed"
  /\ g.fate = "freed" => l = z /\ p = "freed"
  /\ l = z \/ (o = "freed" <=> p = "freed")
  /\ o = "live" => p = "live"

\* What PHP code, the end of a callback and free_object do to a log keeps the invariant
\* if it keeps the counts and fates.
LEMMA LogChanged ==
  ASSUME NEW ls, NEW z, NEW cs, NEW o, NEW n, NEW b, LogsInv(ls, z, cs, o, n, b),
         NEW t, NEW l, NEW g, NEW ds, NEW p, Updates(t, ls, l, g),
         KeepsCounts(g, l, ls, z, cs, o, ds, p), KeepsFates(g, l, z, o, p)
  PROVE  LogsInv(t, z, ds, p, n, b)
<1>1. ls \in Seq(Log) /\ z \in 1..Len(ls) /\ z = Len(ls) /\ n \in Nat /\ b \in Nat /\ b =< n
  BY DEF LogsInv, Shape, Late
<1>2. /\ l \in 1..Len(ls) /\ t \in Seq(Log) /\ Len(t) = Len(ls) /\ t[l] = g
      /\ \A m \in 1..Len(ls) : m # l => t[m] = ls[m]
  BY <1>1, Replaced DEF Updates
<1>3. \A m \in 1..Len(ls) : t[m].samples = ls[m].samples
  BY <1>2, Zenon DEF Updates
<1>4. Shape(t, z, ds)
  BY <1>2 DEF KeepsCounts, Shape
<1>5. Counted(t, z, ds, p)
  <2>1. ASSUME NEW m \in 1..Len(ls), m # l PROVE t[m].refs = References(z, ds, p, m) + t[m].user
    BY <1>2, <2>1, Zenon DEF KeepsCounts, LogsInv, Counted
  <2>2. t[l].refs = References(z, ds, p, l) + t[l].user
    BY <1>2, Zenon DEF KeepsCounts
  <2> QED BY <1>2, <2>1, <2>2, Zenon DEF Counted
<1>6. Fates(t, z, p)
  <2>1. ASSUME NEW m \in 1..Len(ls), m # l
        PROVE  /\ t[m].fate = "kept" => m = z /\ p # "freed"
               /\ t[m].fate = "freed" => m = z /\ p = "freed"
    <3>1. /\ t[m].fate = "kept" => m = z /\ o # "freed"
          /\ t[m].fate = "freed" => m = z /\ o = "freed"
      BY <1>2, <2>1, Zenon DEF LogsInv, Fates
    <3>2. m = z => (o = "freed" <=> p = "freed")
      BY <2>1, Zenon DEF KeepsFates
    <3> QED BY <3>1, <3>2, Zenon
  <2>2. /\ t[l].fate = "kept" => l = z /\ p # "freed"
        /\ t[l].fate = "freed" => l = z /\ p = "freed"
    BY <1>2, Zenon DEF KeepsFates
  <2> QED BY <1>2, <2>1, <2>2, Zenon DEF Fates
<1>7. Numbered(t, n)
  BY <1>2, <1>3, SameSamples DEF LogsInv
<1>8. Late(t, z, p, n, b)
  <2>1. t[z].samples = ls[z].samples
    BY <1>1, <1>3, Zenon
  <2> QED BY <2>1, Zenon DEF LogsInv, Late, KeepsFates
<1> QED BY <1>4, <1>5, <1>6, <1>7, <1>8 DEF LogsInv

\* ExcimerProfiler::getLog
LEMMA GetLogStep ==
  ASSUME NEW n, NEW b, LogsInv(logs, z_log, calls, obj, n, b), obj # "freed", getLog
  PROVE  LogsInv(logs', z_log', calls', obj', n, b)
<1> DEFINE old == logs[z_log]
           g == given(passed(old))
<1>1. /\ logs \in Seq(Log) /\ z_log \in 1..Len(logs) /\ old \in Log
      /\ old.refs = old.user + 1 /\ old.user \in Nat
  BY CurrentLog, LogRecord
<1>2. g.samples = old.samples /\ g.refs = old.refs + 1 /\ g.user = old.user + 1 /\ g.fate = "given"
      /\ g \in Log
  BY <1>1, LogUpdates
<1>4. /\ logs' = [logs EXCEPT ![z_log] = g]
      /\ z_log' = z_log /\ calls' = calls /\ obj' = obj
  BY DEF getLog, currentLog
<1> HIDE DEF g
<1>5. Updates(logs', logs, z_log, g)
  BY <1>1, <1>2, <1>4, Zenon DEF Updates
<1>6. old.refs = References(z_log, calls, obj, z_log) + old.user
  BY <1>1, Zenon DEF LogsInv, Counted
<1>7. KeepsCounts(g, z_log, logs, z_log, calls, obj, calls, obj)
  <2>1. References(z_log, calls, obj, z_log) = 1
    BY <1>1, <1>6 DEF References, one
  <2>2. g.refs = References(z_log, calls, obj, z_log) + g.user
    BY <1>1, <1>2, <2>1
  <2> QED BY <2>2, Zenon DEF KeepsCounts, LogsInv
<1>8. KeepsFates(g, z_log, z_log, obj, obj)
  BY <1>2 DEF KeepsFates
<1> QED BY <1>4, <1>5, <1>7, <1>8, LogChanged, Zenon

\* A variable is unset.
LEMMA UnsetStep ==
  ASSUME NEW n, NEW b, LogsInv(logs, z_log, calls, obj, n, b), NEW l \in 1..Len(logs),
         unset_log(l)
  PROVE  LogsInv(logs', z_log', calls', obj', n, b)
<1> DEFINE old == logs[l]
           g == unset(old)
<1>1. /\ logs \in Seq(Log) /\ old \in Log /\ old.user \in Nat /\ old.refs \in Nat /\ old.user > 0
      /\ old.refs = References(z_log, calls, obj, l) + old.user
  BY LogRecord DEF LogsInv, Shape, Counted, unset_log
<1>2. References(z_log, calls, obj, l) \in Nat
  BY DEF References, one
<1>3. g.samples = old.samples /\ g.refs = old.refs - 1 /\ g.user = old.user - 1 /\ g.fate = old.fate
  BY <1>1 DEF Log, unset
<1>4. g \in Log
  <2>1. old.refs - 1 \in Nat /\ old.user - 1 \in Nat
    BY <1>1, <1>2
  <2> QED BY <1>1, <2>1, Zenon DEF Log, unset
<1>5. /\ logs' = [logs EXCEPT ![l] = g]
      /\ z_log' = z_log /\ calls' = calls /\ obj' = obj
  BY DEF unset_log, currentLog
<1> HIDE DEF g
<1>6. Updates(logs', logs, l, g)
  BY <1>1, <1>3, <1>4, <1>5, Zenon DEF Updates
<1>7. KeepsCounts(g, l, logs, z_log, calls, obj, calls, obj)
  <2>1. g.refs = References(z_log, calls, obj, l) + g.user
    BY <1>1, <1>2, <1>3
  <2> QED BY <2>1, Zenon DEF KeepsCounts, LogsInv
<1>8. KeepsFates(g, l, z_log, obj, obj)
  BY <1>3, Zenon DEF KeepsFates, LogsInv, Fates
<1> QED BY <1>5, <1>6, <1>7, <1>8, LogChanged, Zenon

\* ExcimerProfiler_free_object
LEMMA FreeStep ==
  ASSUME NEW n, NEW b, LogsInv(logs, z_log, calls, obj, n, b), free_object
  PROVE  LogsInv(logs', z_log', calls', obj', n, b)
<1> DEFINE old == logs[z_log]
           g == released(old, "freed")
<1>0. obj = "destructed"
  BY DEF free_object
<1>1. /\ logs \in Seq(Log) /\ z_log \in 1..Len(logs) /\ old \in Log
      /\ old.refs = old.user + 1 /\ old.user \in Nat /\ old.refs > 0 /\ old.fate # "freed"
  <2>1. /\ logs \in Seq(Log) /\ z_log \in 1..Len(logs) /\ old \in Log
        /\ old.refs = old.user + 1 /\ old.refs > 0 /\ old.fate # "freed"
    BY <1>0, CurrentLog, Zenon
  <2> QED BY <2>1, LogRecord, Zenon
<1>2. /\ g \in Log /\ g.samples = old.samples /\ g.refs = old.refs - 1 /\ g.user = old.user
      /\ g.fate = IF old.fate = "kept" THEN "freed" ELSE old.fate
  BY <1>1, LogUpdates
<1>3. /\ logs' = [logs EXCEPT ![z_log] = g]
      /\ z_log' = z_log /\ calls' = calls /\ obj' = "freed"
  BY DEF free_object, currentLog
<1> HIDE DEF g
<1>4. Updates(logs', logs, z_log, g)
  BY <1>1, <1>2, <1>3, Zenon DEF Updates
<1>5. old.refs = References(z_log, calls, obj, z_log) + old.user
  BY <1>1, Zenon DEF LogsInv, Counted
<1>6. KeepsCounts(g, z_log, logs, z_log, calls, obj, calls, "freed")
  <2>1. ~InCalls(calls, z_log)
    BY <1>0, <1>1, <1>5 DEF References, one
  <2>2. g.refs = References(z_log, calls, "freed", z_log) + g.user
    BY <1>1, <1>2, <2>1 DEF References, one
  <2>3. \A m \in 1..Len(logs) :
          m # z_log => References(z_log, calls, "freed", m) = References(z_log, calls, obj, m)
    BY DEF References, one
  <2> QED BY <2>2, <2>3, Zenon DEF KeepsCounts, LogsInv
<1>7. KeepsFates(g, z_log, z_log, obj, "freed")
  BY <1>0, <1>1, <1>2 DEF KeepsFates
<1> QED BY <1>3, <1>4, <1>6, <1>7, LogChanged, Zenon

\* The callback returns or throws.
LEMMA ReturnStep ==
  ASSUME NEW n, NEW b, LogsInv(logs, z_log, calls, obj, n, b), callback_return
  PROVE  LogsInv(logs', z_log', calls', obj', n, b)
<1> DEFINE c == innermost
           l == c.log
           old == logs[l]
           g == IF c.how = "method" /\ exception' = "none"
                THEN given(released(old, "given"))
                ELSE released(released(old, "given"), "given")
<1>1. /\ logs \in Seq(Log) /\ z_log \in Nat \ {0} /\ z_log = Len(logs) /\ calls \in Seq(Call)
      /\ \A i \in 1..Len(calls) : calls[i].log \in 1..(z_log - 1)
      /\ \A i, j \in 1..Len(calls) : calls[i].log = calls[j].log => i = j
  BY DEF LogsInv, Shape
<1>2. /\ calls' \in Seq(Call) /\ Len(calls') = Len(calls) - 1 /\ Len(calls) \in Nat \ {0}
      /\ \A i \in 1..(Len(calls) - 1) : calls'[i] = calls[i]
  <2>1. calls # <<>> /\ calls' = SubSeq(calls, 1, Len(calls) - 1)
    BY Zenon DEF callback_return
  <2> QED BY <1>1, <2>1, Shortened
<1>3. /\ Len(calls) \in 1..Len(calls) /\ c = calls[Len(calls)] /\ l \in 1..(z_log - 1)
      /\ l # z_log /\ l \in 1..Len(logs) /\ old \in Log /\ old.user \in Nat /\ old.refs \in Nat
  BY <1>1, <1>2, LogRecord DEF innermost
<1>4. InCalls(calls, l) /\ ~InCalls(calls', l)
      /\ \A m \in 1..Len(logs) : m # l => (InCalls(calls', m) <=> InCalls(calls, m))
  <2>1. InCalls(calls, l)
    BY <1>3, Zenon DEF InCalls
  <2>2. \A i \in 1..Len(calls') : i \in 1..Len(calls) /\ i # Len(calls) /\ calls'[i] = calls[i]
    BY <1>2
  <2>3. ~InCalls(calls', l)
    BY <1>1, <1>3, <2>2, Zenon DEF InCalls
  <2>4. ASSUME NEW m \in 1..Len(logs), m # l, InCalls(calls, m) PROVE InCalls(calls', m)
    <3>1. PICK i \in 1..Len(calls) : calls[i].log = m
      BY <2>4 DEF InCalls
    <3>2. i \in 1..Len(calls') /\ i \in 1..(Len(calls) - 1)
      BY <1>2, <1>3, <2>4, <3>1
    <3> QED BY <1>2, <3>1, <3>2, Zenon DEF InCalls
  <2>5. ASSUME NEW m \in 1..Len(logs), InCalls(calls', m) PROVE InCalls(calls, m)
    BY <2>2, <2>5, Zenon DEF InCalls
  <2> QED BY <2>1, <2>3, <2>4, <2>5
<1>5. old.refs = 2 + old.user
  <2>1. old.refs = References(z_log, calls, obj, l) + old.user
    BY <1>3, Zenon DEF LogsInv, Counted
  <2> QED BY <1>3, <1>4, <2>1 DEF References, one
<1>6. /\ g \in Log /\ g.samples = old.samples /\ g.fate \notin {"kept", "freed"}
      /\ g.refs = g.user /\ g.user \in Nat
  <2> DEFINE h == released(old, "given")
  <2> HIDE DEF old
  <2>1. old.fate \notin {"kept", "freed"}
    BY <1>3 DEF LogsInv, Fates, old
  <2>2. /\ h \in Log /\ h.samples = old.samples /\ h.refs = old.refs - 1 /\ h.user = old.user
        /\ h.fate = IF old.fate = "kept" THEN "given" ELSE old.fate
    BY <1>3, <1>5, LogUpdates
  <2> HIDE DEF h
  <2>3. h.refs = h.user + 1 /\ h.refs > 0 /\ h.fate \notin {"kept", "freed"} /\ h.user \in Nat
    BY <1>3, <1>5, <2>1, <2>2
  <2>4. /\ given(h) \in Log /\ given(h).samples = old.samples /\ given(h).refs = given(h).user
        /\ given(h).fate = "given" /\ given(h).user \in Nat
    BY <2>2, <2>3, LogUpdates
  <2>5. /\ released(h, "given") \in Log /\ released(h, "given").samples = old.samples
        /\ released(h, "given").refs = released(h, "given").user
        /\ released(h, "given").user \in Nat
        /\ released(h, "given").fate \notin {"kept", "freed"}
    BY <2>2, <2>3, LogUpdates
  <2>6. g = given(h) \/ g = released(h, "given")
    BY Zenon DEF h
  <2> QED BY <2>4, <2>5, <2>6, Zenon
<1>8. logs' = [logs EXCEPT ![l] = g] /\ z_log' = z_log
  BY DEF callback_return, currentLog
<1>9. (obj' = "freed" <=> obj = "freed") /\ (obj' = "live" <=> obj = "live")
  BY DEF callback_return
<1> HIDE DEF g
<1>10. Updates(logs', logs, l, g)
  BY <1>3, <1>6, <1>8, Zenon DEF Updates
<1>11. Shape(logs, z_log, calls')
  <2>1. \A i \in 1..Len(calls') : i \in 1..Len(calls) /\ calls'[i] = calls[i]
    BY <1>2
  <2>2. \A i \in 1..Len(calls') : calls'[i].log \in 1..(z_log - 1)
    BY <1>1, <2>1, Zenon
  <2>3. \A i, j \in 1..Len(calls') : calls'[i].log = calls'[j].log => i = j
    BY <1>1, <2>1, Zenon
  <2> QED BY <1>1, <1>2, <2>2, <2>3, Zenon DEF Shape
<1>12. KeepsCounts(g, l, logs, z_log, calls, obj, calls', obj')
  <2>1. References(z_log, calls', obj', l) = 0
    BY <1>3, <1>4 DEF References, one
  <2>2. g.refs = References(z_log, calls', obj', l) + g.user
    BY <1>6, <2>1
  <2>3. \A m \in 1..Len(logs) :
          m # l => References(z_log, calls', obj', m) = References(z_log, calls, obj, m)
    BY <1>4, <1>9 DEF References, one
  <2> QED BY <1>11, <2>2, <2>3, Zenon DEF KeepsCounts
<1>13. KeepsFates(g, l, z_log, obj, obj')
  BY <1>3, <1>6, <1>9, Zenon DEF KeepsFates
<1> QED BY <1>8, <1>10, <1>12, <1>13, LogChanged, Zenon

-----------------------------------------------------------------------------------
(* The steps.                                                              *)

\* Types of all but the logs.
LEMMA ControlStep ==
  ASSUME Control, Next
  PROVE  Control'
<1> USE DEF Control
<1>1. ASSUME NEW p \in Periods, setPeriod(p) PROVE Control'
  BY <1>1 DEF setPeriod, timerVars, setupVars
<1>2. ASSUME NEW type \in EventTypes, setEventType(type) PROVE Control'
  BY <1>2 DEF setEventType, timerVars, setupVars
<1>3. ASSUME NEW depth \in Depths, setMaxDepth(depth) PROVE Control'
  BY <1>3 DEF setMaxDepth, timerVars, setupVars
<1>4. ASSUME NEW n \in MaxSamplesValues, setFlushCallback(n) PROVE Control'
  BY <1>4, ProfilerAssumption DEF setFlushCallback, timerVars, setupVars
<1>5. CASE clearFlushCallback
  BY <1>5 DEF clearFlushCallback, timerVars, setupVars
<1>6. CASE start
  <2>1. /\ timer' \in {"invalid", "running", "stopped"} /\ pending' \in BOOLEAN
        /\ need_reinit' \in BOOLEAN /\ timer_type' \in EventTypes /\ timer_period' \in Periods
    BY <1>6, Zenon DEF start, setupVars
  <2> QED BY <1>6, <2>1, Zenon DEF start
<1>7. CASE stop
  BY <1>7 DEF stop, stopped, optionVars, setupVars
<1>8. CASE expire
  BY <1>8 DEF expire, optionVars, setupVars
<1>9. ASSUME NEW ls, NEW how \in {"method", "event", "dtor"}, flush_to(ls, how),
             UNCHANGED <<optionVars, setupVars, exception>>, pending' \in BOOLEAN,
             taken' \in [all : Nat, before_dtor : Nat]
      PROVE  Control'
  <2>1. obj' \in {"live", "dtor", "destructed", "freed"}
        /\ timer' \in {"invalid", "stopped", "running"}
    BY <1>9 DEF flush_to, stopped
  <2> QED BY <1>9, <2>1, Zenon DEF optionVars, setupVars
<1>10. CASE flush
  BY <1>9, <1>10 DEF flush
<1>11. CASE event
  <2>0. pending' = FALSE /\ taken' = [taken EXCEPT !.all = @ + 1]
    BY <1>11, Zenon DEF event
  <2>a. taken' \in [all : Nat, before_dtor : Nat]
    BY <2>0
  <2>b. pending' \in BOOLEAN
    BY <2>0, Zenon
  <2>1. taken' \in [all : Nat, before_dtor : Nat] /\ pending' \in BOOLEAN
    BY <2>a, <2>b, Zenon
  <2>2. CASE \E ls : flush_to(ls, "event")
    BY <1>9, <1>11, <2>1, <2>2 DEF event
  <2>3. CASE UNCHANGED <<obj, timer>>
    BY <1>11, <2>1, <2>3 DEF event, optionVars, setupVars
  <2> QED BY <1>11, <2>2, <2>3, Zenon DEF event
<1>12. CASE callback_return
  <2>1. obj' \in {"live", "dtor", "destructed", "freed"} /\ exception' \in {"none", "event", "php"}
    BY <1>12 DEF callback_return
  <2> QED BY <1>12, <2>1, Zenon DEF callback_return, optionVars, timerVars, setupVars
<1>13. CASE getLog
  BY <1>13 DEF getLog, optionVars, timerVars, setupVars
<1>14. ASSUME NEW l \in DOMAIN logs, unset_log(l) PROVE Control'
  BY <1>14 DEF unset_log, optionVars, timerVars, setupVars
<1>15. CASE callback_breaks
  BY <1>15 DEF callback_breaks, timerVars, setupVars
<1>16. CASE throw_or_catch
  BY <1>16 DEF throw_or_catch, optionVars, timerVars, setupVars
<1>17. CASE dtor
  <2>1. taken' \in [all : Nat, before_dtor : Nat] /\ pending' \in BOOLEAN
    BY <1>17 DEF dtor
  <2>2. CASE flush_to(logs, "dtor")
    BY <1>9, <1>17, <2>1, <2>2 DEF dtor
  <2>3. CASE obj' = "destructed" /\ UNCHANGED timer
    BY <1>17, <2>1, <2>3 DEF dtor, optionVars, setupVars
  <2> QED BY <1>17, <2>2, <2>3, Zenon DEF dtor
<1>18. CASE free_object
  BY <1>18, Zenon DEF free_object, optionVars, setupVars
<1> QED
  BY <1>1, <1>2, <1>3, <1>4, <1>5, <1>6, <1>7, <1>8, <1>10, <1>11, <1>12, <1>13, <1>14,
     <1>15, <1>16, <1>17, <1>18, Zenon DEF Next

\* The options reach the log and the timer.
LEMMA OptionsStep ==
  ASSUME Control, Options, Next
  PROVE  Options'
<1> USE DEF Options
<1>1. ASSUME NEW p \in Periods, setPeriod(p) PROVE Options'
  BY <1>1 DEF setPeriod, timerVars, setupVars
<1>2. ASSUME NEW type \in EventTypes, setEventType(type) PROVE Options'
  BY <1>2 DEF setEventType, timerVars, setupVars, currentLog
<1>3. ASSUME NEW depth \in Depths, setMaxDepth(depth) PROVE Options'
  BY <1>3 DEF setMaxDepth, timerVars, setupVars
<1>4. ASSUME NEW n \in MaxSamplesValues, setFlushCallback(n) PROVE Options'
  BY <1>4 DEF setFlushCallback, timerVars, setupVars, currentLog
<1>5. CASE clearFlushCallback
  BY <1>5 DEF clearFlushCallback, timerVars, setupVars, currentLog
<1>6. CASE start
  BY <1>6 DEF start, currentLog, setupVars, php
<1>7. CASE stop
  BY <1>7 DEF stop, stopped, optionVars, setupVars, currentLog
<1>8. CASE expire
  BY <1>8 DEF expire, optionVars, setupVars, currentLog
<1>9. ASSUME NEW ls, NEW how, flush_to(ls, how), obj # "freed",
             UNCHANGED <<optionVars, setupVars>>
      PROVE  Options'
  <2>1. log_options' = log_options
    BY <1>9 DEF flush_to, copy_options
  <2>2. timer' = timer \/ timer' = stopped
    BY <1>9, Zenon DEF flush_to
  <2>3. timer # "invalid" => timer' # "invalid"
    BY <2>2 DEF stopped
  <2> QED BY <1>9, <2>1, <2>3, Zenon DEF optionVars, setupVars
<1>10. CASE flush
  BY <1>9, <1>10, Zenon DEF flush, php
<1>11. CASE event
  <2>1. CASE \E ls : flush_to(ls, "event")
    BY <1>9, <1>11, <2>1, Zenon DEF event
  <2>2. CASE UNCHANGED <<obj, currentLog, timer>>
    BY <1>11, <2>2 DEF event, optionVars, setupVars, currentLog
  <2> QED BY <1>11, <2>1, <2>2, Zenon DEF event
<1>12. CASE callback_return
  <2>1. obj' # "freed" => obj # "freed"
    BY <1>12 DEF callback_return
  <2> QED BY <1>12, <2>1 DEF callback_return, optionVars, timerVars, setupVars, currentLog
<1>13. CASE getLog
  BY <1>13 DEF getLog, optionVars, timerVars, setupVars, currentLog
<1>14. ASSUME NEW l \in DOMAIN logs, unset_log(l) PROVE Options'
  BY <1>14 DEF unset_log, optionVars, timerVars, setupVars, currentLog
<1>15. CASE callback_breaks
  BY <1>15 DEF callback_breaks, timerVars, setupVars, currentLog
<1>16. CASE throw_or_catch
  BY <1>16 DEF throw_or_catch, optionVars, timerVars, setupVars, currentLog
<1>17. CASE dtor
  <2>1. CASE flush_to(logs, "dtor")
    BY <1>9, <1>17, <2>1 DEF dtor
  <2>2. CASE UNCHANGED <<currentLog, timer>>
    BY <1>17, <2>2 DEF dtor, optionVars, setupVars, currentLog
  <2> QED BY <1>17, <2>1, <2>2, Zenon DEF dtor
<1>18. CASE free_object
  BY <1>18 DEF free_object, optionVars, setupVars, currentLog
<1> QED
  BY <1>1, <1>2, <1>3, <1>4, <1>5, <1>6, <1>7, <1>8, <1>10, <1>11, <1>12, <1>13, <1>14,
     <1>15, <1>16, <1>17, <1>18, Zenon DEF Next

\* ExcimerProfiler_event: also, what it leaves in the current log.
LEMMA EventStep ==
  ASSUME Control, Logs, event
  PROVE  /\ Logs'
         /\ max_samples > 0 => Len(logs'[z_log'].samples) < max_samples
<1> DEFINE ls == [logs EXCEPT ![z_log] = log_add(@, taken.all + 1)]
           n == taken.all
           b == taken.before_dtor
<1>1. taken'.all = n + 1 /\ taken'.before_dtor = b /\ n \in Nat
  BY DEF event, Control
<1>2. LogsInv(ls, z_log, calls, obj, n + 1, b)
  <2>1. Adds(ls, logs, z_log, n + 1)
    BY Zenon DEF Adds
  <2> QED BY <2>1, AddSample DEF Logs
<1>3. obj # "freed" /\ obj \in {"live", "dtor", "destructed"} /\ max_samples \in Nat
  BY DEF event, Control
<1>4. CASE is_full(ls[z_log])
  <2>1. flush_to(ls, "event")
    BY <1>4 DEF event
  <2> HIDE DEF ls, n, b
  <2>2. LogsInv(logs', z_log', calls', obj', n + 1, b) /\ logs'[z_log'].samples = <<>>
    BY <1>2, <1>3, <2>1, FlushStep
  <2>3. Logs'
    BY <1>1, <2>2, Zenon DEF Logs
  <2>4. Len(logs'[z_log'].samples) = 0
    BY <2>2
  <2> QED BY <1>3, <2>3, <2>4
<1>5. CASE ~is_full(ls[z_log])
  <2>1. logs' = ls /\ z_log' = z_log /\ calls' = calls /\ obj' = obj
    BY <1>5 DEF event, currentLog
  <2>2. ls[z_log].samples \in Seq(Nat)
    BY <1>2, <1>3, CurrentLog, LogRecord
  <2>3. max_samples > 0 => Len(ls[z_log].samples) < max_samples
    <3> HIDE DEF ls
    <3> QED BY <1>3, <1>5, <2>2 DEF is_full
  <2> HIDE DEF ls, n, b
  <2>4. Logs'
    BY <1>1, <1>2, <2>1, Zenon DEF Logs
  <2> QED BY <2>1, <2>3, <2>4, Zenon
<1> QED BY <1>4, <1>5

\* ExcimerProfiler_dtor
LEMMA DtorStep ==
  ASSUME Control, Logs, dtor
  PROVE  Logs'
<1> DEFINE n == taken.all
<1>1. taken'.all = n /\ taken'.before_dtor = n /\ n \in Nat /\ obj = "live"
  BY DEF dtor, Control
<1>2. LogsInv(logs, z_log, calls, obj, n, n)
  BY <1>1 DEF Logs, LogsInv, Late
<1>3. CASE logs[z_log].samples # <<>>
  <2>1. flush_to(logs, "dtor") /\ obj \in {"live", "dtor", "destructed"}
    BY <1>1, <1>3 DEF dtor
  <2> HIDE DEF n
  <2>2. LogsInv(logs', z_log', calls', obj', n, n)
    BY <1>2, <2>1, FlushStep
  <2> QED BY <1>1, <2>2, Zenon DEF Logs
<1>4. CASE logs[z_log].samples = <<>>
  <2>1. logs' = logs /\ z_log' = z_log /\ calls' = calls /\ obj' = "destructed"
    BY <1>4 DEF dtor, currentLog
  <2>2. Len(logs[z_log].samples) = 0 /\ 1..0 = {}
    BY <1>4
  <2>3. Late(logs, z_log, "destructed", n, n)
    BY <1>1, <2>2 DEF Late
  <2>4. Fates(logs, z_log, "destructed") /\ Counted(logs, z_log, calls, "destructed")
    BY <1>1 DEF Logs, LogsInv, Fates, Counted, References, one
  <2>5. LogsInv(logs, z_log, calls, "destructed", n, n)
    BY <1>2, <2>3, <2>4, Zenon DEF LogsInv
  <2> HIDE DEF n
  <2> QED BY <1>1, <2>1, <2>5, Zenon DEF Logs
<1> QED BY <1>3, <1>4

\* Every step keeps the invariant of the logs.
LEMMA LogsStep ==
  ASSUME Control, Logs, Next
  PROVE  Logs'
<1>1. CASE UNCHANGED <<logs, z_log, calls, obj, taken>>
  BY <1>1, Zenon DEF Logs
<1>2. CASE flush
  <2>1. obj \in {"live", "dtor", "destructed"} /\ taken' = taken
    BY <1>2 DEF flush, php, Control
  <2>2. LogsInv(logs', z_log', calls', obj', taken.all, taken.before_dtor)
    BY <1>2, <2>1, FlushStep DEF flush, Logs
  <2> QED BY <2>1, <2>2, Zenon DEF Logs
<1>3. CASE callback_return
  <2>1. taken' = taken
    BY <1>3 DEF callback_return
  <2>2. LogsInv(logs', z_log', calls', obj', taken.all, taken.before_dtor)
    BY <1>3, ReturnStep, Zenon DEF Logs
  <2> QED BY <2>1, <2>2, Zenon DEF Logs
<1>4. CASE getLog
  <2>1. taken' = taken /\ obj # "freed"
    BY <1>4 DEF getLog, php
  <2>2. LogsInv(logs', z_log', calls', obj', taken.all, taken.before_dtor)
    BY <1>4, <2>1, GetLogStep, Zenon DEF Logs
  <2> QED BY <2>1, <2>2, Zenon DEF Logs
<1>5. ASSUME NEW l \in DOMAIN logs, unset_log(l) PROVE Logs'
  <2>1. taken' = taken
    BY <1>5 DEF unset_log
  <2>2. l \in 1..Len(logs)
    BY DEF Logs, LogsInv, Shape
  <2>3. LogsInv(logs', z_log', calls', obj', taken.all, taken.before_dtor)
    BY <1>5, <2>2, UnsetStep, Zenon DEF Logs
  <2> QED BY <2>1, <2>3, Zenon DEF Logs
<1>6. CASE free_object
  <2>1. taken' = taken
    BY <1>6 DEF free_object
  <2>2. LogsInv(logs', z_log', calls', obj', taken.all, taken.before_dtor)
    BY <1>6, FreeStep, Zenon DEF Logs
  <2> QED BY <2>1, <2>2, Zenon DEF Logs
<1>7. CASE dtor
  BY <1>7, DtorStep, Zenon
<1>8. CASE event
  BY <1>8, EventStep, Zenon
<1>9. \/ UNCHANGED <<logs, z_log, calls, obj, taken>>
      \/ flush \/ callback_return \/ getLog \/ free_object \/ dtor \/ event
      \/ \E l \in DOMAIN logs : unset_log(l)
  BY Zenon DEF Next, setPeriod, setEventType, setMaxDepth, setFlushCallback, clearFlushCallback,
               start, stop, expire, callback_breaks, throw_or_catch, currentLog
<1> QED BY <1>1, <1>2, <1>3, <1>4, <1>5, <1>6, <1>7, <1>8, <1>9, Zenon

\* Initially there is one log, without samples.
LEMMA InitProfiler == Init => ProfilerInv
<1> SUFFICES ASSUME Init PROVE ProfilerInv
  OBVIOUS
<1>1. Control
  BY Zenon DEF Init, Control
<1>2. Options
  BY DEF Init, Options
<1>3. new_log \in Log /\ new_log.samples = <<>> /\ new_log.refs = 1 /\ new_log.user = 0
      /\ new_log.fate = "kept"
  BY DEF new_log, Log
<1>4. /\ logs \in Seq(Log) /\ Len(logs) = 1 /\ logs[1] = new_log /\ z_log = 1
      /\ calls \in Seq(Call) /\ Len(calls) = 0 /\ obj = "live"
      /\ taken.all = 0 /\ taken.before_dtor = 0
  BY <1>3 DEF Init
<1>5. Shape(logs, z_log, calls) /\ Fates(logs, z_log, obj)
  BY <1>3, <1>4 DEF Shape, Fates
<1>6. Counted(logs, z_log, calls, obj)
  BY <1>3, <1>4 DEF Counted, References, InCalls, one
<1>7. Numbered(logs, 0) /\ Late(logs, z_log, obj, 0, 0)
  BY <1>3, <1>4 DEF Numbered, Late
<1> QED BY <1>1, <1>2, <1>4, <1>5, <1>6, <1>7 DEF ProfilerInv, Logs, LogsInv

\* The invariant is inductive.
LEMMA NextProfiler == ProfilerInv /\ [Next]_vars => ProfilerInv'
<1> SUFFICES ASSUME ProfilerInv, [Next]_vars PROVE ProfilerInv'
  OBVIOUS
<1>1. CASE Next
  BY <1>1, ControlStep, OptionsStep, LogsStep, Zenon DEF ProfilerInv
<1>2. CASE UNCHANGED vars
  <2>1. Control'
    BY <1>2 DEF vars, ProfilerInv, Control, optionVars, timerVars, setupVars
  <2>2. Options' /\ Logs'
    BY <1>2, Zenon DEF vars, ProfilerInv, Options, Logs, optionVars, timerVars, setupVars, currentLog
  <2> QED BY <2>1, <2>2 DEF ProfilerInv
<1> QED BY <1>1, <1>2

LEMMA ProfilerInvariant == Spec => []ProfilerInv
  BY InitProfiler, NextProfiler, PTL DEF Spec

-----------------------------------------------------------------------------------
(* The properties.                                                         *)

\* The reference count of every log is the number of references to it: those of the
\* profiler, of PHP variables and of flushes in progress, however these are nested and
\* whoever throws; no log is flushed by two calls.
THEOREM LogRefsExact == Spec => []RefsExact
<1>1. ProfilerInv => RefsExact
  <2> SUFFICES ASSUME ProfilerInv PROVE RefsExact
    BY ZenonT(40)
  <2>1. /\ logs \in Seq(Log) /\ z_log \in DOMAIN logs /\ calls \in Seq(Call)
        /\ \A i \in DOMAIN calls : calls[i].log \in DOMAIN logs
        /\ \A i, j \in DOMAIN calls : calls[i].log = calls[j].log => i = j
        /\ DOMAIN calls = 1..Len(calls) /\ DOMAIN logs = 1..Len(logs)
    <3>1. Shape(logs, z_log, calls)
      BY Zenon DEF ProfilerInv, Logs, LogsInv
    <3>2. logs \in Seq(Log) /\ calls \in Seq(Call)
      BY <3>1, Zenon DEF Shape
    <3>3. DOMAIN calls = 1..Len(calls) /\ DOMAIN logs = 1..Len(logs)
      BY <3>2
    <3>4. z_log \in 1..Len(logs) /\ 1..(z_log - 1) \subseteq 1..Len(logs)
      BY <3>1 DEF Shape
    <3> QED BY <3>1, <3>2, <3>3, <3>4, Zenon DEF Shape
  <2>2. TypeOK
    BY <2>1, Zenon DEF ProfilerInv, Control, TypeOK
  <2>3. ASSUME NEW l \in DOMAIN logs
        PROVE  logs[l].refs = one(obj # "freed" /\ z_log = l) + logs[l].user + 2 * one(flushing(l))
    <3>1. logs[l].refs = References(z_log, calls, obj, l) + logs[l].user
      BY <2>1 DEF ProfilerInv, Logs, LogsInv, Counted
    <3>2. flushing(l) <=> InCalls(calls, l)
      BY <2>1, Zenon DEF flushing, InCalls
    <3>3. logs[l].user \in Nat
      BY <2>1, LogRecord
    <3> QED BY <3>1, <3>2, <3>3 DEF References, one
  <2> QED BY <2>1, <2>2, <2>3, Zenon DEF RefsExact
<1> QED BY <1>1, ProfilerInvariant, PTL

\* No sample is lost or doubled between the logs, and they are in order.
THEOREM SamplesKept == Spec => []EverySampleOnce
<1>1. ProfilerInv => EverySampleOnce
  <2> SUFFICES ASSUME ProfilerInv PROVE EverySampleOnce
    OBVIOUS
  <2>1. /\ logs \in Seq(Log) /\ DOMAIN logs = 1..Len(logs) /\ Numbered(logs, taken.all)
    BY DEF ProfilerInv, Logs, LogsInv, Shape
  <2>2. \A l \in DOMAIN logs : logs[l].samples \in Seq(Nat)
    BY <2>1, LogRecord
  <2>3. \A l \in DOMAIN logs : DOMAIN logs[l].samples = 1..Len(logs[l].samples)
    BY <2>2
  <2>4. ASSUME NEW k \in 1..taken.all
        PROVE  \E l \in DOMAIN logs : \E i \in DOMAIN logs[l].samples : logs[l].samples[i] = k
    BY <2>1, <2>3, Zenon DEF Numbered
  <2>5. ASSUME NEW l \in DOMAIN logs, NEW i \in DOMAIN logs[l].samples
        PROVE  /\ logs[l].samples[i] \in 1..taken.all
               /\ \A m \in DOMAIN logs : \A j \in DOMAIN logs[m].samples :
                     l < m \/ (l = m /\ i < j) => logs[l].samples[i] < logs[m].samples[j]
    BY <2>1, <2>3, ZenonT(40) DEF Numbered
  <2> QED BY <2>4, <2>5, Zenon DEF EverySampleOnce
<1> QED BY <1>1, ProfilerInvariant, PTL

\* Samples are let go only after they were handed to PHP code, or could not be; the
\* object is freed with no more of them than came after its destructor had begun.
THEOREM SamplesReachCallback == Spec => []SamplesHandedOver
<1>1. ProfilerInv => SamplesHandedOver
  <2> SUFFICES ASSUME ProfilerInv, NEW l \in DOMAIN logs, logs[l].refs = 0
               PROVE  \/ logs[l].fate \in {"given", "null", "broken", "exception"}
                      \/ /\ logs[l].fate = "freed"
                         /\ \A i \in DOMAIN logs[l].samples :
                               logs[l].samples[i] > taken.before_dtor
    BY Zenon DEF SamplesHandedOver
  <2>1. logs \in Seq(Log) /\ l \in 1..Len(logs) /\ logs[l] \in Log
    BY DEF ProfilerInv, Logs, LogsInv, Shape
  <2>2. logs[l].samples \in Seq(Nat) /\ logs[l].user \in Nat
        /\ logs[l].fate \in {"kept", "given", "null", "broken", "exception", "freed"}
    BY <2>1 DEF Log
  <2>3. logs[l].refs = References(z_log, calls, obj, l) + logs[l].user
    BY <2>1 DEF ProfilerInv, Logs, LogsInv, Counted
  <2>4. logs[l].fate # "kept"
    <3>1. ~(obj # "freed" /\ z_log = l)
      BY <2>2, <2>3 DEF References, one
    <3> QED BY <2>1, <3>1, Zenon DEF ProfilerInv, Logs, LogsInv, Fates
  <2>5. CASE logs[l].fate = "freed"
    <3>1. l = z_log /\ obj # "live"
      BY <2>1, <2>5 DEF ProfilerInv, Logs, LogsInv, Fates
    <3>2. \A i \in 1..Len(logs[l].samples) : logs[l].samples[i] > taken.before_dtor
      BY <3>1, Zenon DEF ProfilerInv, Logs, LogsInv, Late
    <3>3. DOMAIN logs[l].samples = 1..Len(logs[l].samples)
      BY <2>2
    <3> QED BY <2>5, <3>2, <3>3, Zenon
  <2> QED BY <2>2, <2>4, <2>5, Zenon
<1> QED BY <1>1, ProfilerInvariant, PTL

\* A new log has the limit on the depth of the old one, and a timer that start does not set
\* up anew has the event type that was set last.
THEOREM OptionsReachLog == Spec => []OptionsKept
<1>1. ProfilerInv => OptionsKept
  BY DEF ProfilerInv, Options, OptionsKept
<1> QED BY <1>1, ProfilerInvariant, PTL

\* The period of the current log is that of the running timer, unless setPeriod was called
\* with another one since the start.
THEOREM PeriodReachesLog == Spec => []PeriodKept
<1>1. ProfilerInv => PeriodKept
  BY DEF ProfilerInv, Options, PeriodKept
<1> QED BY <1>1, ProfilerInvariant, PTL

\* An event leaves the current log with fewer samples than the limit.
THEOREM EventFlushesFullLog == Spec => FlushedWhenFull
<1>1. ProfilerInv /\ [Next]_vars =>
        [taken'.all # taken.all /\ max_samples > 0
           => Len(logs'[z_log'].samples) < max_samples]_vars
  <2> SUFFICES ASSUME ProfilerInv, Next, taken'.all # taken.all, max_samples > 0
               PROVE  Len(logs'[z_log'].samples) < max_samples
    OBVIOUS
  <2>1. event \/ taken' = taken \/ taken' = [taken EXCEPT !.before_dtor = taken.all]
    BY Zenon DEF Next, setPeriod, setEventType, setMaxDepth, setFlushCallback, clearFlushCallback,
                 start, stop, expire, callback_breaks, throw_or_catch, flush, callback_return,
                 getLog, unset_log, dtor, free_object
  <2>2. event
    BY <2>1 DEF ProfilerInv, Control
  <2> QED BY <2>2, EventStep, Zenon DEF ProfilerInv
<1> QED BY <1>1, ProfilerInvariant, PTL DEF Spec, FlushedWhenFull
===================================================================================
