----------------------------- MODULE ExcimerLogProofs -----------------------------
(***************************************************************************)
(* The deduplication of frames in ExcimerLog is sound for every program    *)
(* in which a line belongs to one function: every entry of the log leads   *)
(* to the stack that was sampled, through frames of the log only.          *)
(***************************************************************************)
EXTENDS ExcimerLog, SequenceTheorems, WellFoundedInduction, TLAPS

\* The trace of the frame with index i; 0 stands for no frame.
chain_of(i) == IF i = 0 THEN <<>> ELSE chain[i]

\* Shapes, and the indices that are within the arrays.
LogShape ==
  /\ frames \in Seq(Frame) /\ chain \in Seq(Trace) /\ Len(chain) = Len(frames)
  /\ entries \in Seq([frame_index : Nat, event_count : Nat \ {0}])
  /\ samples \in Seq([stack : Seq(Positions), max_depth : Nat, trace : Trace,
                      count : Nat \ {0}])
  /\ Len(samples) = Len(entries)
  /\ max_depth \in Nat /\ count \in Nat
  /\ stack \in Seq(Positions) /\ at \in 0..Len(stack) /\ want \in Trace
  /\ marker \in 0..Len(frames) /\ prev_index \in 0..Len(frames)

\* What the hash table says of a frame is true of it.
KeysTrue ==
  \A k \in DOMAIN reverse_frames :
     /\ reverse_frames[k] \in 1..Len(frames)
     /\ frames[reverse_frames[k]].pos \in Positions
     /\ frames[reverse_frames[k]].pos.user
     /\ frame_key(frames[reverse_frames[k]].pos, frames[reverse_frames[k]].prev_index) = k

\* Every frame but the marker is found by the hash table.
KeysComplete ==
  \A i \in DOMAIN frames :
     \/ i = marker /\ frames[i].pos = Truncated
     \/ /\ frames[i].pos \in Positions
        /\ frame_key(frames[i].pos, frames[i].prev_index) \in DOMAIN reverse_frames
        /\ reverse_frames[frame_key(frames[i].pos, frames[i].prev_index)] = i

\* The inductive invariant.  While excimer_log_add is executing, prev_index leads to
\* the frames done so far.
LogInv ==
  /\ LogShape /\ CallersFirst /\ ChainsLinked /\ KeysTrue /\ KeysComplete
  /\ marker # 0 => chain[marker] = <<Truncated>>
  /\ count > 0 => want = chain_of(prev_index)
  /\ TracesFaithful

\* A frame that is appended disturbs no frame that was there.
LEMMA Appended ==
  ASSUME NEW S, NEW q \in Seq(S), NEW e \in S
  PROVE  /\ Append(q, e) \in Seq(S)
         /\ Len(Append(q, e)) = Len(q) + 1
         /\ Append(q, e)[Len(q) + 1] = e
         /\ \A i \in 1..Len(q) : Append(q, e)[i] = q[i]
  OBVIOUS

\* The log of excimer_log_init.
LEMMA LogInit == Init => LogInv
<1> SUFFICES ASSUME Init PROVE LogInv
  OBVIOUS
<1>1. LogShape
  BY LogAssumption DEF Init, LogShape, Trace
<1>2. DOMAIN frames = {} /\ DOMAIN entries = {} /\ DOMAIN reverse_frames = {}
  BY DEF Init
<1> QED
  BY <1>1, <1>2 DEF Init, LogInv, CallersFirst, ChainsLinked, KeysTrue, KeysComplete,
                    TracesFaithful

\* A frame is appended whose caller is in the array, with the trace that its caller's
\* extends: neither the frames nor the entries that were there are disturbed.
LEMMA AddFrame ==
  ASSUME LogShape, CallersFirst, ChainsLinked, TracesFaithful,
         NEW f \in Frame, f.prev_index <= Len(frames),
         NEW c \in Trace, c = <<f.pos>> \o chain_of(f.prev_index),
         frames' = Append(frames, f), chain' = Append(chain, c),
         UNCHANGED <<entries, samples>>
  PROVE  /\ frames' \in Seq(Frame) /\ chain' \in Seq(Trace)
         /\ Len(frames') = Len(frames) + 1 /\ Len(chain') = Len(frames')
         /\ frames'[Len(frames) + 1] = f /\ chain'[Len(frames) + 1] = c
         /\ \A i \in 1..Len(frames) : frames'[i] = frames[i] /\ chain'[i] = chain[i]
         /\ CallersFirst' /\ ChainsLinked' /\ TracesFaithful'
<1> DEFINE N == Len(frames)
<1>1. frames \in Seq(Frame) /\ chain \in Seq(Trace) /\ Len(chain) = N /\ N \in Nat
  BY DEF LogShape
<1>2. /\ frames' \in Seq(Frame) /\ Len(frames') = N + 1
      /\ frames'[N + 1] = f /\ \A i \in 1..N : frames'[i] = frames[i]
  BY <1>1, Appended
<1>3. /\ chain' \in Seq(Trace) /\ Len(chain') = N + 1
      /\ chain'[N + 1] = c /\ \A i \in 1..N : chain'[i] = chain[i]
  BY <1>1, Appended
<1>4. DOMAIN frames = 1..N /\ DOMAIN frames' = 1..(N + 1)
  BY <1>1, <1>2
<1>5. f.prev_index \in 0..N
  BY <1>1 DEF Frame
<1>6. \A i \in 1..N : frames[i].prev_index \in 0..N /\ frames[i].prev_index < i
  <2> TAKE i \in 1..N
  <2>1. frames[i] \in Frame
    BY <1>1
  <2>2. frames[i].prev_index \in Nat
    BY <2>1 DEF Frame
  <2>3. frames[i].prev_index < i
    BY <1>4, Zenon DEF CallersFirst
  <2> QED
    BY <1>1, <2>2, <2>3
<1> HIDE DEF N
<1>7. \A i \in 1..(N + 1) : frames'[i].prev_index < i
  BY <1>1, <1>2, <1>5, <1>6
<1>8. \A k \in DOMAIN entries : entries[k].frame_index \in 0..N
  BY DEF CallersFirst, N
<1>9. CallersFirst'
  BY <1>1, <1>2, <1>4, <1>7, <1>8 DEF CallersFirst
<1>10. \A j \in 0..N : (IF j = 0 THEN <<>> ELSE chain'[j]) = chain_of(j)
  BY <1>1, <1>3 DEF chain_of
<1>11. ASSUME NEW i \in 1..N
       PROVE  chain'[i] = <<frames'[i].pos>> \o chain_of(frames[i].prev_index)
  BY <1>2, <1>3, <1>4, Zenon DEF ChainsLinked, chain_of
<1>12. ChainsLinked'
  <2> SUFFICES ASSUME NEW i \in 1..(N + 1)
               PROVE  chain'[i] = <<frames'[i].pos>> \o
                        (IF frames'[i].prev_index = 0 THEN <<>>
                         ELSE chain'[frames'[i].prev_index])
    BY <1>2, <1>3, <1>4, Zenon DEF ChainsLinked
  <2>1. CASE i = N + 1
    BY <1>2, <1>3, <1>5, <1>10, <2>1, ZenonT(40)
  <2>2. CASE i \in 1..N
    <3>1. frames'[i] = frames[i] /\ frames[i].prev_index \in 0..N
      BY <1>2, <1>6, <2>2
    <3> QED
      BY <1>3, <1>10, <1>11, <2>2, <3>1, ZenonT(40)
  <2>3. i = N + 1 \/ i \in 1..N
    BY <1>1
  <2> QED
    BY <2>1, <2>2, <2>3, Zenon
<1>13. TracesFaithful'
  BY <1>3, <1>8, <1>1 DEF TracesFaithful
<1> QED
  BY <1>2, <1>3, <1>9, <1>12, <1>13, Zenon DEF N

\* What excimer_log_get_truncation_marker returns leads to a trace of the marker alone.
LEMMA DescendStep ==
  ASSUME LogInv, NEW s \in Stacks, NEW n \in Counts, add_descend(s, n)
  PROVE  LogInv'
<1> USE DEF LogInv
<1>1. s \in Seq(Positions) /\ n \in Nat \ {0} /\ Len(s) \in Nat
  BY LogAssumption
<1>2. CASE ~beyond_max_depth(s) \/ marker # 0
  <2>1. /\ UNCHANGED <<frames, chain, marker, entries, samples, reverse_frames, max_depth>>
        /\ stack' = s /\ count' = n
    BY <1>2 DEF add_descend, get_truncation_marker
  <2>2. at' \in 0..Len(s)
    BY <1>1 DEF add_descend, LogShape, beyond_max_depth
  <2>3. want' \in Trace
    <3>1. <<>> \in Trace /\ <<Truncated>> \in Trace
      BY DEF Trace
    <3> QED
      BY <3>1 DEF add_descend
  <2>4. prev_index' \in 0..Len(frames) /\ want' = chain_of(prev_index)'
    <3>1. CASE beyond_max_depth(s)
      <4>1. prev_index' = marker /\ want' = <<Truncated>>
        BY <1>2, <3>1 DEF add_descend, get_truncation_marker
      <4> QED
        BY <1>2, <2>1, <3>1, <4>1, Zenon DEF LogShape, chain_of
    <3>2. CASE ~beyond_max_depth(s)
      BY <3>2 DEF add_descend, LogShape, chain_of
    <3> QED
      BY <3>1, <3>2
  <2>5. LogShape'
    BY <1>1, <2>1, <2>2, <2>3, <2>4, Zenon DEF LogShape
  <2>6. CallersFirst' /\ ChainsLinked' /\ TracesFaithful'
    BY <2>1 DEF CallersFirst, ChainsLinked, TracesFaithful
  <2>7. KeysTrue' /\ KeysComplete'
    BY <2>1 DEF KeysTrue, KeysComplete, frame_key
  <2> QED
    BY <2>1, <2>4, <2>5, <2>6, <2>7, Zenon
<1>3. CASE beyond_max_depth(s) /\ marker = 0
  <2> DEFINE N == Len(frames)
             f == [pos |-> Truncated, prev_index |-> 0]
  <2>1. /\ frames' = Append(frames, f) /\ chain' = Append(chain, <<Truncated>>)
        /\ marker' = N + 1 /\ prev_index' = N + 1 /\ want' = <<Truncated>>
        /\ UNCHANGED <<entries, samples, reverse_frames, max_depth>>
        /\ stack' = s /\ count' = n /\ at' = max_depth + 1
    BY <1>3 DEF add_descend, get_truncation_marker
  <2>2. f \in Frame /\ <<Truncated>> \in Trace
    BY DEF Frame, Trace
  <2>3. N \in Nat /\ f.prev_index <= N
    BY DEF LogShape
  <2>4. <<Truncated>> = <<f.pos>> \o chain_of(f.prev_index)
    BY DEF chain_of
  <2> HIDE DEF f
  <2>5. /\ frames' \in Seq(Frame) /\ chain' \in Seq(Trace)
        /\ Len(frames') = N + 1 /\ Len(chain') = N + 1
        /\ frames'[N + 1] = f /\ chain'[N + 1] = <<Truncated>>
        /\ \A i \in 1..N : frames'[i] = frames[i]
        /\ CallersFirst' /\ ChainsLinked' /\ TracesFaithful'
    BY <2>1, <2>2, <2>3, <2>4, AddFrame, Zenon
  <2>6. at' \in 0..Len(s)
    BY <1>1, <1>3, <2>1 DEF LogShape, beyond_max_depth
  <2>7. LogShape'
    BY <1>1, <2>1, <2>2, <2>3, <2>5, <2>6 DEF LogShape
  <2>8. DOMAIN frames = 1..N /\ DOMAIN frames' = 1..(N + 1)
    BY <2>5 DEF LogShape
  <2>9. KeysTrue'
    <3>1. ASSUME NEW k \in DOMAIN reverse_frames
          PROVE  /\ reverse_frames[k] \in 1..(N + 1)
                 /\ frames'[reverse_frames[k]] = frames[reverse_frames[k]]
      BY <2>3, <2>5 DEF KeysTrue
    <3> QED
      BY <2>1, <2>3, <2>5, <3>1 DEF KeysTrue, frame_key
  <2>10. KeysComplete'
    <3>1. \A i \in 1..N : i # marker
      BY <1>3, <2>3
    <3>2. frames'[N + 1].pos = Truncated
      BY <2>5 DEF f
    <3> QED
      BY <2>1, <2>3, <2>5, <2>8, <3>1, <3>2 DEF KeysComplete, frame_key
  <2> QED
    BY <2>1, <2>3, <2>5, <2>7, <2>9, <2>10 DEF chain_of
<1> QED
  BY <1>2, <1>3

\* excimer_log_find_or_add_frame gives an index whose trace is the frames done so far.
LEMMA FindStep ==
  ASSUME LineDeterminesFunction, LogInv, find_or_add_frame
  PROVE  LogInv'
<1> USE DEF LogInv
<1> DEFINE pos == stack[at]
           key == frame_key(pos, prev_index)
           N == Len(frames)
<1>1. /\ pos \in Positions /\ at' \in 0..Len(stack) /\ count > 0 /\ count \in Nat
      /\ UNCHANGED <<entries, max_depth, marker, stack, count, samples>>
  <2>1. /\ count > 0 /\ at > 0 /\ at' = at - 1
        /\ UNCHANGED <<entries, max_depth, marker, stack, count, samples>>
    BY Zenon DEF find_or_add_frame
  <2>2. stack \in Seq(Positions) /\ at \in 0..Len(stack) /\ count \in Nat
    BY Zenon DEF LogShape
  <2> QED
    BY <2>1, <2>2
<1>2. want = chain_of(prev_index) /\ want \in Trace /\ prev_index \in 0..N /\ N \in Nat
  BY <1>1 DEF LogShape
<1>3. <<pos>> \o want \in Trace
  BY <1>1, <1>2 DEF Trace
<1>4. CASE ~pos.user
  <2>1. UNCHANGED <<frames, reverse_frames, chain, prev_index, want>>
    BY <1>4, Zenon DEF find_or_add_frame
  <2>2. LogShape'
    BY <1>1, <2>1 DEF LogShape
  <2>3. CallersFirst' /\ ChainsLinked' /\ TracesFaithful'
    BY <1>1, <2>1, Zenon DEF CallersFirst, ChainsLinked, TracesFaithful
  <2>4. KeysTrue' /\ KeysComplete'
    BY <1>1, <2>1, Zenon DEF KeysTrue, KeysComplete, frame_key
  <2> QED
    BY <1>1, <1>2, <2>1, <2>2, <2>3, <2>4, Zenon DEF chain_of
<1>5. CASE pos.user /\ key \in DOMAIN reverse_frames
  <2> DEFINE i == reverse_frames[key]
  <2>1. /\ UNCHANGED <<frames, reverse_frames, chain>>
        /\ prev_index' = i /\ want' = <<pos>> \o want
    BY <1>5 DEF find_or_add_frame
  <2>2. /\ i \in 1..N /\ frames[i].pos \in Positions /\ frames[i].pos.user
        /\ frame_key(frames[i].pos, frames[i].prev_index) = key
    BY <1>5, Zenon DEF KeysTrue
  <2>3. /\ frames[i].pos.file = pos.file /\ frames[i].pos.lineno = pos.lineno
        /\ frames[i].prev_index = prev_index
    BY <2>2, Zenon DEF frame_key
  <2>4. frames[i].pos = pos
    BY <1>1, <1>5, <2>2, <2>3, Zenon DEF LineDeterminesFunction
  <2>5. chain[i] = <<pos>> \o want
    <3>1. i \in DOMAIN frames
      BY <2>2 DEF LogShape
    <3>2. chain[i] = <<frames[i].pos>> \o chain_of(frames[i].prev_index)
      BY <3>1, Zenon DEF ChainsLinked, chain_of
    <3> HIDE DEF i, pos
    <3> QED
      BY <1>2, <2>3, <2>4, <3>2, Zenon
  <2>6. want' = chain_of(prev_index)'
    <3>1. prev_index' = i /\ i # 0 /\ chain' = chain /\ want' = <<pos>> \o want
      BY <2>1, <2>2
    <3> HIDE DEF i, pos
    <3> QED
      BY <2>5, <3>1, Zenon DEF chain_of
  <2>7. LogShape'
    BY <1>1, <1>2, <1>3, <2>1, <2>2 DEF LogShape
  <2>8. CallersFirst' /\ ChainsLinked' /\ TracesFaithful'
    BY <1>1, <2>1, Zenon DEF CallersFirst, ChainsLinked, TracesFaithful
  <2>9. KeysTrue' /\ KeysComplete'
    BY <1>1, <2>1, Zenon DEF KeysTrue, KeysComplete, frame_key
  <2> QED
    BY <1>1, <2>1, <2>6, <2>7, <2>8, <2>9, Zenon
<1>6. CASE pos.user /\ key \notin DOMAIN reverse_frames
  <2> DEFINE f == [pos |-> pos, prev_index |-> prev_index]
             c == <<pos>> \o want
  <2>1. /\ frames' = Append(frames, f) /\ chain' = Append(chain, c)
        /\ prev_index' = N + 1 /\ want' = c
        /\ reverse_frames' = [k \in DOMAIN reverse_frames \cup {key} |->
                                IF k = key THEN N + 1 ELSE reverse_frames[k]]
    BY <1>6 DEF find_or_add_frame, new_frame
  <2>2. f \in Frame /\ f.prev_index <= N /\ f.pos = pos /\ f.prev_index = prev_index
    BY <1>1, <1>2 DEF Frame
  <2>3. c \in Trace /\ c = <<f.pos>> \o chain_of(f.prev_index)
    BY <1>2, <1>3
  <2> HIDE DEF f, c, key, pos
  <2>4. /\ frames' \in Seq(Frame) /\ chain' \in Seq(Trace)
        /\ Len(frames') = N + 1 /\ Len(chain') = N + 1
        /\ frames'[N + 1] = f /\ chain'[N + 1] = c
        /\ \A i \in 1..N : frames'[i] = frames[i] /\ chain'[i] = chain[i]
        /\ CallersFirst' /\ ChainsLinked' /\ TracesFaithful'
    BY <1>1, <2>1, <2>2, <2>3, AddFrame, Zenon
  <2>5. DOMAIN frames = 1..N /\ DOMAIN frames' = 1..(N + 1)
    BY <2>4 DEF LogShape
  <2>6. /\ DOMAIN reverse_frames' = DOMAIN reverse_frames \cup {key}
        /\ reverse_frames'[key] = N + 1
        /\ \A k \in DOMAIN reverse_frames : reverse_frames'[k] = reverse_frames[k]
    BY <1>6, <2>1
  <2>7. frame_key(f.pos, f.prev_index) = key
    BY <2>2, Zenon DEF key
  <2>8. LogShape'
    BY <1>1, <1>2, <2>1, <2>3, <2>4 DEF LogShape
  <2>9. KeysTrue'
    <3> SUFFICES ASSUME NEW k \in DOMAIN reverse_frames \cup {key}
                 PROVE  /\ reverse_frames'[k] \in 1..(N + 1)
                        /\ frames'[reverse_frames'[k]].pos \in Positions
                        /\ frames'[reverse_frames'[k]].pos.user
                        /\ frame_key(frames'[reverse_frames'[k]].pos,
                                     frames'[reverse_frames'[k]].prev_index) = k
      BY <2>4, <2>6, Zenon DEF KeysTrue, frame_key
    <3>1. CASE k = key
      BY <1>1, <1>2, <1>6, <2>2, <2>4, <2>6, <2>7, <3>1
    <3>2. CASE k \in DOMAIN reverse_frames
      <4>1. /\ reverse_frames'[k] = reverse_frames[k] /\ reverse_frames[k] \in 1..N
            /\ frames'[reverse_frames[k]] = frames[reverse_frames[k]]
        BY <2>4, <2>6, <3>2, Zenon DEF KeysTrue
      <4> QED
        BY <1>2, <3>2, <4>1 DEF KeysTrue
    <3> QED
      BY <3>1, <3>2, Zenon
  <2>10. KeysComplete'
    <3> SUFFICES ASSUME NEW i \in 1..(N + 1)
                 PROVE  \/ i = marker /\ frames'[i].pos = Truncated
                        \/ /\ frames'[i].pos \in Positions
                           /\ frame_key(frames'[i].pos, frames'[i].prev_index)
                                 \in DOMAIN reverse_frames'
                           /\ reverse_frames'[frame_key(frames'[i].pos,
                                                        frames'[i].prev_index)] = i
      BY <1>1, <2>5, Zenon DEF KeysComplete, frame_key
    <3>1. CASE i = N + 1
      BY <1>1, <2>2, <2>4, <2>6, <2>7, <3>1, Zenon
    <3>2. CASE i \in 1..N
      BY <2>4, <2>5, <2>6, <3>2, ZenonT(40) DEF KeysComplete
    <3>3. i = N + 1 \/ i \in 1..N
      BY <1>2
    <3> QED
      BY <3>1, <3>2, <3>3, Zenon
  <2>11. chain_of(prev_index)' = c
    BY <1>2, <2>1, <2>4 DEF chain_of
  <2>12. marker' # 0 => chain'[marker'] = <<Truncated>>
    BY <1>1, <2>4 DEF LogShape
  <2> QED
    BY <2>1, <2>4, <2>8, <2>9, <2>10, <2>11, <2>12, Zenon
<1> QED
  BY <1>4, <1>5, <1>6, Zenon

\* The entry that excimer_log_add appends leads to the frames that it has done.
LEMMA EntryStep ==
  ASSUME LogInv, add_entry
  PROVE  LogInv'
<1> USE DEF LogInv
<1> DEFINE e == [frame_index |-> prev_index, event_count |-> count]
           x == [stack |-> stack, max_depth |-> max_depth, trace |-> want, count |-> count]
           E == [frame_index : Nat, event_count : Nat \ {0}]
           X == [stack : Seq(Positions), max_depth : Nat, trace : Trace, count : Nat \ {0}]
           M == Len(entries)
<1>1. /\ entries' = Append(entries, e) /\ samples' = Append(samples, x)
      /\ stack' = <<>> /\ prev_index' = 0 /\ count' = 0 /\ want' = <<>> /\ at' = 0
      /\ UNCHANGED <<frames, max_depth, reverse_frames, marker, chain>>
  BY DEF add_entry
<1>2. /\ entries \in Seq(E) /\ samples \in Seq(X) /\ Len(samples) = M /\ M \in Nat
      /\ prev_index \in 0..Len(frames) /\ Len(frames) \in Nat
  BY DEF LogShape
<1>3. e \in E /\ x \in X /\ e.frame_index = prev_index /\ x.trace = want
  BY <1>2 DEF LogShape, add_entry
<1>4. want = chain_of(prev_index)
  BY DEF add_entry
<1>5. <<>> \in Trace /\ <<>> \in Seq(Positions)
  BY DEF Trace
<1> HIDE DEF e, x, E, X
<1>6. /\ entries' \in Seq(E) /\ Len(entries') = M + 1 /\ entries'[M + 1] = e
      /\ \A k \in 1..M : entries'[k] = entries[k]
  BY <1>1, <1>2, <1>3, Appended
<1>7. /\ samples' \in Seq(X) /\ Len(samples') = M + 1 /\ samples'[M + 1] = x
      /\ \A k \in 1..M : samples'[k] = samples[k]
  BY <1>1, <1>2, <1>3, Appended
<1>8. DOMAIN entries = 1..M /\ DOMAIN entries' = 1..(M + 1)
  BY <1>2, <1>6
<1>9. LogShape'
  BY <1>1, <1>2, <1>5, <1>6, <1>7 DEF LogShape, E, X
<1>10. CallersFirst'
  BY <1>1, <1>2, <1>3, <1>6, <1>8 DEF CallersFirst
<1>11. ChainsLinked' /\ KeysTrue' /\ KeysComplete'
  BY <1>1, Zenon DEF ChainsLinked, KeysTrue, KeysComplete, frame_key
<1>12. TracesFaithful'
  BY <1>1, <1>2, <1>3, <1>4, <1>6, <1>7, <1>8 DEF TracesFaithful, chain_of
<1> QED
  BY <1>1, <1>9, <1>10, <1>11, <1>12

\* LogInv is inductive for a program whose lines belong to one function each.
THEOREM LogInvariant ==
  ASSUME LineDeterminesFunction
  PROVE  Spec => []LogInv
<1>1. ASSUME LogInv, [Next]_vars
      PROVE  LogInv'
  <2>1. ASSUME NEW depth \in MaxDepths, excimer_log_set_max_depth(depth)
        PROVE  LogInv'
    BY <1>1, <2>1, LogAssumption, Zenon
       DEF excimer_log_set_max_depth, callVars, LogInv, LogShape, CallersFirst, ChainsLinked,
           KeysTrue, KeysComplete, frame_key, TracesFaithful, chain_of
  <2>2. CASE UNCHANGED vars
    BY <1>1, <2>2, Zenon
       DEF vars, logVars, callVars, LogInv, LogShape, CallersFirst, ChainsLinked,
           KeysTrue, KeysComplete, frame_key, TracesFaithful, chain_of
  <2> QED
    BY <1>1, <2>1, <2>2, DescendStep, FindStep, EntryStep, Zenon DEF Next
<1> QED
  BY <1>1, LogInit, PTL DEF Spec

\* The walks over prev_index end within the log (CallersFirst) and pass through the
\* frames of the chain (ChainsLinked); every entry leads to the sampled stack
\* (TracesFaithful); and frames are stored once (FramesUnique).
THEOREM LogIsFaithful ==
  ASSUME LineDeterminesFunction
  PROVE  Spec => []LogFaithful
<1>1. ASSUME LogInv PROVE FramesUnique
  <2> SUFFICES ASSUME NEW i \in DOMAIN frames, NEW j \in DOMAIN frames, frames[i] = frames[j]
               PROVE  i = j
    BY DEF FramesUnique
  <2> QED
    BY <1>1, LogAssumption DEF LogInv, KeysComplete
<1>2. LogInv => LogFaithful
  BY <1>1 DEF LogInv, LogFaithful
<1> QED
  BY <1>2, LogInvariant, PTL

-----------------------------------------------------------------------------------
(* What getTrace returns.                                                  *)

\* A set of naturals that is not empty has a least element.
LEMMA LeastElement ==
  ASSUME NEW T, T \subseteq Nat, T # {}
  PROVE  \E x \in T : \A y \in T : x <= y
<1>1. \E R : /\ IsWellFoundedOn(R, Nat)
             /\ \A a, b \in Nat : a < b => <<a, b>> \in R
  <2>1. \A a, b \in Nat : a < b => <<a, b>> \in OpToRel(<, Nat)
    BY DEF OpToRel
  <2> QED
    BY <2>1, NatLessThanWellFounded, Zenon
<1>2. PICK R : /\ IsWellFoundedOn(R, Nat)
               /\ \A a, b \in Nat : a < b => <<a, b>> \in R
  BY <1>1
<1>3. \E x \in T : \A y \in T : ~ (<<y, x>> \in R)
  <2>1. IsWellFoundedOn(R, Nat) /\ T \subseteq Nat /\ T # {}
    BY <1>2
  <2> QED
    BY <2>1, WFMin, Zenon
<1>4. PICK x \in T : \A y \in T : ~ (<<y, x>> \in R)
  BY <1>3, Zenon
<1>5. ASSUME NEW y \in T PROVE x <= y
  <2>1. ~ (y < x)
    <3>1. x \in Nat /\ y \in Nat
      BY <1>4, <1>5
    <3> QED
    BY <1>2, <1>4, <1>5, <3>1, Zenon
  <2>2. x \in Nat /\ y \in Nat
    OBVIOUS
  <2> QED
    BY <2>1, <2>2
<1> QED
  BY <1>5

\* Induction, for a set of naturals.
LEMMA Induct ==
  ASSUME NEW S, 0 \in S, \A n \in Nat : n \in S => n + 1 \in S
  PROVE  Nat \subseteq S
<1> DEFINE T == {n \in Nat : n \notin S}
<1> SUFFICES ASSUME T # {} PROVE FALSE
  OBVIOUS
<1>1. PICK x \in T : \A y \in T : x <= y
  <2>1. T \subseteq Nat
    OBVIOUS
  <2> HIDE DEF T
  <2> QED
    BY <2>1, LeastElement, Zenon
<1>2. x \in Nat /\ x # 0
  BY <1>1
<1>3. x - 1 \in Nat /\ x - 1 \in S /\ (x - 1) + 1 = x
  BY <1>1, <1>2
<1> QED
  BY <1>1, <1>3

\* The loops over prev_index meet the frames of the chain.  The recursive function
\* exists, because the chains satisfy its equation, and it has no other value, because a
\* least frame at which it differed from them would have a caller at which it does not.
LEMMA WalkIsChain ==
  ASSUME LogShape, CallersFirst, ChainsLinked, NEW k \in 0..Len(frames)
  PROVE  trace_to_array(k) = chain_of(k)
<1> DEFINE N == Len(frames)
           visit[i \in 0..N] ==
             IF i = 0 THEN <<>> ELSE <<frames[i].pos>> \o visit[frames[i].prev_index]
           w == [i \in 0..N |-> chain_of(i)]
<1>1. trace_to_array(k) = visit[k]
  BY DEF trace_to_array
<1>2. /\ N \in Nat /\ DOMAIN frames = 1..N
      /\ \A i \in 1..N : frames[i].prev_index \in 0..N /\ frames[i].prev_index < i
  <2>1. N \in Nat /\ frames \in Seq(Frame) /\ DOMAIN frames = 1..N
    BY DEF LogShape
  <2>2. ASSUME NEW i \in 1..N PROVE frames[i].prev_index \in Nat /\ frames[i].prev_index < i
    <3>1. frames[i] \in Frame
      BY <2>1
    <3>2. frames[i].prev_index \in Nat
      BY <3>1 DEF Frame
    <3> QED
      BY <2>1, <3>2 DEF CallersFirst
  <2> QED
    BY <2>1, <2>2
<1>3. \A i \in 0..N :
         w[i] = IF i = 0 THEN <<>> ELSE <<frames[i].pos>> \o w[frames[i].prev_index]
  <2>1. ASSUME NEW i \in 1..N
        PROVE  chain_of(i) = <<frames[i].pos>> \o chain_of(frames[i].prev_index)
    BY <1>2 DEF ChainsLinked, chain_of
  <2>2. w[0] = <<>> /\ \A i \in 1..N : w[i] = <<frames[i].pos>> \o w[frames[i].prev_index]
    <3>1. \A i \in 0..N : w[i] = chain_of(i)
      OBVIOUS
    <3>2. chain_of(0) = <<>>
      BY DEF chain_of
    <3> HIDE DEF w
    <3>3. ASSUME NEW i \in 1..N PROVE w[i] = <<frames[i].pos>> \o w[frames[i].prev_index]
      <4>1. i \in 0..N /\ frames[i].prev_index \in 0..N
        BY <1>2
      <4> QED
        BY <2>1, <3>1, <4>1, Zenon
    <3> QED
      BY <1>2, <3>1, <3>2, <3>3
  <2>3. \A i \in 0..N : i = 0 \/ i \in 1..N
    BY <1>2
  <2> HIDE DEF w
  <2> QED
    BY <2>2, <2>3, Zenon
<1>4. visit = [i \in 0..N |->
                 IF i = 0 THEN <<>> ELSE <<frames[i].pos>> \o visit[frames[i].prev_index]]
  <2>1. w = [i \in 0..N |->
               IF i = 0 THEN <<>> ELSE <<frames[i].pos>> \o w[frames[i].prev_index]]
    BY <1>3, Zenon
  <2> HIDE DEF w
  <2> QED
    BY <2>1, Zenon
<1>5. \A i \in 0..N : visit[i] = w[i]
  <2> DEFINE T == {i \in 0..N : visit[i] # w[i]}
  <2> HIDE DEF visit, w
  <2> SUFFICES ASSUME T # {} PROVE FALSE
    OBVIOUS
  <2>1. T \subseteq Nat
    BY <1>2
  <2>2. PICK i \in T : \A j \in T : i <= j
    BY <2>1, LeastElement, Zenon
  <2>3. i \in 0..N /\ visit[i] # w[i]
    BY <2>2
  <2>4. CASE i = 0
    BY <1>3, <1>4, <2>3, <2>4, Zenon
  <2>5. CASE i # 0
    <3>1. frames[i].prev_index \in 0..N /\ ~ (i <= frames[i].prev_index)
      BY <1>2, <2>3, <2>5
    <3>2. visit[frames[i].prev_index] = w[frames[i].prev_index]
      BY <2>2, <3>1
    <3>3. /\ visit[i] = <<frames[i].pos>> \o visit[frames[i].prev_index]
          /\ w[i] = <<frames[i].pos>> \o w[frames[i].prev_index]
      BY <1>3, <1>4, <2>3, <2>5, Zenon
    <3> QED
      BY <2>3, <3>2, <3>3, Zenon
  <2> QED
    BY <2>4, <2>5, Zenon
<1> QED
  BY <1>1, <1>5, Zenon

\* The recursive function of UserFrames.
UserFrom(s, n) ==
  CHOOSE from : from = [i \in 1..(n + 1) |->
        IF i = n + 1 THEN <<>>
        ELSE (IF s[i].user THEN <<s[i]>> ELSE <<>>) \o from[i + 1]]

\* It exists: a function for the m outermost frames is extended by one frame more.
LEMMA UserFromExists ==
  ASSUME NEW s \in Seq(Positions), NEW n \in 0..Len(s)
  PROVE  UserFrom(s, n) = [i \in 1..(n + 1) |->
            IF i = n + 1 THEN <<>>
            ELSE (IF s[i].user THEN <<s[i]>> ELSE <<>>) \o UserFrom(s, n)[i + 1]]
<1> DEFINE one(i) == IF s[i].user THEN <<s[i]>> ELSE <<>>
           D(m) == (n + 1 - m)..(n + 1)
           P(m) == \E f : f = [i \in D(m) |-> IF i = n + 1 THEN <<>> ELSE one(i) \o f[i + 1]]
           S == {m \in Nat : m <= n => P(m)}
<1> HIDE DEF one
<1>1. 0 \in S
  <2>1. D(0) = {n + 1}
    OBVIOUS
  <2> DEFINE f == [i \in D(0) |-> <<>>]
  <2>2. f = [i \in D(0) |-> IF i = n + 1 THEN <<>> ELSE one(i) \o f[i + 1]]
    BY <2>1
  <2> QED
    BY <2>2, Zenon
<1>2. ASSUME NEW m \in Nat, m \in S PROVE m + 1 \in S
  <2> SUFFICES ASSUME m + 1 <= n
               PROVE  P(m + 1)
    <3> HIDE DEF P
    <3> QED
      OBVIOUS
  <2>1. PICK f : f = [i \in D(m) |-> IF i = n + 1 THEN <<>> ELSE one(i) \o f[i + 1]]
    <3>1. P(m)
      <4> HIDE DEF P
      <4> QED
        BY <1>2
    <3> QED
      BY <3>1, Zenon
  <2> DEFINE k == n - m
             g == [i \in D(m + 1) |-> IF i = k THEN one(k) \o f[k + 1] ELSE f[i]]
  <2>2. k \in 1..n /\ k + 1 \in D(m) /\ D(m + 1) = D(m) \cup {k} /\ k \notin D(m) /\ n \in Nat
    OBVIOUS
  <2>3. ASSUME NEW i \in D(m + 1)
        PROVE  g[i] = IF i = n + 1 THEN <<>> ELSE one(i) \o g[i + 1]
    <3>1. CASE i = k
      <4>1. i # n + 1 /\ k + 1 # k /\ k + 1 \in D(m + 1)
        BY <2>2, <3>1
      <4>2. g[i] = one(k) \o f[k + 1] /\ g[k + 1] = f[k + 1]
        BY <2>2, <3>1, <4>1, Zenon
      <4> QED
        BY <3>1, <4>1, <4>2, Zenon
    <3>2. CASE i # k
      <4>1. i \in D(m) /\ g[i] = f[i]
        BY <2>2, <3>2, Zenon
      <4>2. f[i] = IF i = n + 1 THEN <<>> ELSE one(i) \o f[i + 1]
        BY <2>1, <4>1, Zenon
      <4>3. i # n + 1 => i + 1 \in D(m + 1) /\ i + 1 # k
        BY <2>2, <4>1
      <4> QED
        BY <4>1, <4>2, <4>3, Zenon
    <3> QED
      BY <3>1, <3>2, Zenon
  <2>4. g = [i \in D(m + 1) |-> IF i = n + 1 THEN <<>> ELSE one(i) \o g[i + 1]]
    BY <2>3, Zenon
  <2> QED
    BY <2>4, Zenon
<1>3. n \in Nat
  OBVIOUS
<1>4. Nat \subseteq S
  <2> HIDE DEF S
  <2> QED
    BY <1>1, <1>2, Induct, Zenon
<1>5. P(n)
  <2> HIDE DEF P
  <2> QED
    BY <1>3, <1>4
<1>6. D(n) = 1..(n + 1)
  BY <1>3
<1>7. \E f : f = [i \in 1..(n + 1) |-> IF i = n + 1 THEN <<>> ELSE one(i) \o f[i + 1]]
  BY <1>5, <1>6, Zenon
<1> QED
  BY <1>7, Zenon DEF UserFrom, one

\* The equations of UserFrom.
LEMMA UserFromSteps ==
  ASSUME NEW s \in Seq(Positions), NEW n \in 0..Len(s)
  PROVE  /\ UserFrom(s, n)[n + 1] = <<>>
         /\ \A i \in 1..n : s[i].user => UserFrom(s, n)[i] = <<s[i]>> \o UserFrom(s, n)[i + 1]
         /\ \A i \in 1..n : ~s[i].user => UserFrom(s, n)[i] = <<>> \o UserFrom(s, n)[i + 1]
<1> DEFINE U == UserFrom(s, n)
<1>1. U = [i \in 1..(n + 1) |->
             IF i = n + 1 THEN <<>>
             ELSE (IF s[i].user THEN <<s[i]>> ELSE <<>>) \o U[i + 1]]
  BY UserFromExists, Zenon
<1> HIDE DEF U
<1>2. n + 1 \in 1..(n + 1) /\ \A i \in 1..n : i \in 1..(n + 1) /\ i # n + 1
  OBVIOUS
<1>3. U[n + 1] = <<>>
  BY <1>1, <1>2, Zenon
<1>4. \A i \in 1..n : U[i] = (IF s[i].user THEN <<s[i]>> ELSE <<>>) \o U[i + 1]
  BY <1>1, <1>2, Zenon
<1>5. ASSUME NEW i \in 1..n, s[i].user PROVE U[i] = <<s[i]>> \o U[i + 1]
  BY <1>4, <1>5, Zenon
<1>6. ASSUME NEW i \in 1..n, ~s[i].user PROVE U[i] = <<>> \o U[i + 1]
  BY <1>4, <1>6, Zenon
<1> QED
  BY <1>3, <1>5, <1>6, Zenon DEF U

\* Its values are sequences of positions.
LEMMA UserFromType ==
  ASSUME NEW s \in Seq(Positions), NEW n \in 0..Len(s), NEW i \in 1..(n + 1)
  PROVE  UserFrom(s, n)[i] \in Seq(Positions)
<1> DEFINE U == UserFrom(s, n)
           S == {m \in Nat : m <= n => U[n + 1 - m] \in Seq(Positions)}
<1>1. /\ U[n + 1] = <<>>
      /\ \A j \in 1..n : s[j].user => U[j] = <<s[j]>> \o U[j + 1]
      /\ \A j \in 1..n : ~s[j].user => U[j] = <<>> \o U[j + 1]
  BY UserFromSteps, Zenon
<1> HIDE DEF U
<1>2. 0 \in S
  <2>1. U[n + 1] \in Seq(Positions) /\ n + 1 - 0 = n + 1
    BY <1>1, EmptySeq
  <2>2. 0 <= n => U[n + 1 - 0] \in Seq(Positions)
    BY <2>1
  <2> QED
    BY <2>2
<1>3. ASSUME NEW m \in Nat, m \in S PROVE m + 1 \in S
  <2> SUFFICES ASSUME m + 1 <= n PROVE U[n + 1 - (m + 1)] \in Seq(Positions)
    OBVIOUS
  <2> DEFINE j == n + 1 - (m + 1)
  <2>1. j \in 1..n /\ j + 1 = n + 1 - m /\ j \in 1..Len(s)
    OBVIOUS
  <2>2. U[j + 1] \in Seq(Positions)
    BY <1>3, <2>1
  <2>3. s[j] \in Positions
    BY <2>1
  <2> HIDE DEF j
  <2>4. <<s[j]>> \o U[j + 1] \in Seq(Positions) /\ <<>> \o U[j + 1] \in Seq(Positions)
    BY <2>2, <2>3
  <2>5. U[j] \in Seq(Positions)
    BY <1>1, <2>1, <2>4, Zenon
  <2> QED
    BY <2>5 DEF j
<1>4. Nat \subseteq S
  <2> HIDE DEF S
  <2> QED
    BY <1>2, <1>3, Induct, Zenon
<1>5. n + 1 - i \in Nat /\ n + 1 - i <= n /\ n + 1 - (n + 1 - i) = i
  OBVIOUS
<1>6. U[n + 1 - (n + 1 - i)] \in Seq(Positions)
  BY <1>4, <1>5, Zenon
<1> QED
  BY <1>5, <1>6, Zenon DEF U

\* The marker, if the stack is cut; and what is expected of its frames from the i-th on.
MarkerOf(s, depth) == IF Kept(s, depth) < Len(s) THEN <<Truncated>> ELSE <<>>
Rest(s, depth, i) == UserFrom(s, Kept(s, depth))[i] \o MarkerOf(s, depth)

\* Traces are concatenated like other sequences.
LEMMA TraceConcat ==
  /\ \A a, b, c \in Trace : (a \o b) \o c = a \o (b \o c)
  /\ \A a \in Trace : <<>> \o a = a
<1>1. ASSUME NEW a \in Trace, NEW b \in Trace, NEW c \in Trace
      PROVE  (a \o b) \o c = a \o (b \o c) /\ <<>> \o a = a
  <2> DEFINE S == Positions \cup {Truncated}
  <2>1. a \in Seq(S) /\ b \in Seq(S) /\ c \in Seq(S)
    BY Zenon DEF Trace
  <2> HIDE DEF S
  <2>2. (a \o b) \o c = a \o (b \o c)
    BY <2>1, ConcatAssociative, SMTT(30)
  <2>3. <<>> \o a = a
    BY <2>1, ConcatEmptySeq, ZenonT(40)
  <2> QED
    BY <2>2, <2>3, Zenon
<1> QED
  BY <1>1, ZenonT(40)

\* One frame more of what is expected, as find_or_add_frame returns from it.
LEMMA RestStep ==
  ASSUME NEW s \in Seq(Positions), NEW depth \in Nat
  PROVE  /\ Kept(s, depth) \in 0..Len(s)
         /\ Rest(s, depth, Kept(s, depth) + 1) = MarkerOf(s, depth)
         /\ \A i \in 1..Kept(s, depth) :
               /\ s[i].user => Rest(s, depth, i) = <<s[i]>> \o Rest(s, depth, i + 1)
               /\ ~s[i].user => Rest(s, depth, i) = Rest(s, depth, i + 1)
<1> DEFINE n == Kept(s, depth)
           U == UserFrom(s, n)
           m == MarkerOf(s, depth)
<1>1. n \in 0..Len(s)
  BY DEF Kept
<1>2. \A i : Rest(s, depth, i) = U[i] \o m
  BY DEF Rest
<1>3. m \in Trace
  <2>1. <<Truncated>> \in Trace /\ <<>> \in Trace
    BY DEF Trace
  <2> QED
    BY <2>1 DEF MarkerOf
<1> HIDE DEF n, m
<1>4. /\ U[n + 1] = <<>>
      /\ \A i \in 1..n : s[i].user => U[i] = <<s[i]>> \o U[i + 1]
      /\ \A i \in 1..n : ~s[i].user => U[i] = <<>> \o U[i + 1]
  BY <1>1, UserFromSteps, Zenon
<1>5. \A i \in 1..(n + 1) : U[i] \in Trace
  <2>1. \A q \in Seq(Positions) : q \in Trace
    BY DEF Trace
  <2> QED
    BY <1>1, <2>1, UserFromType, Zenon
<1> HIDE DEF U
<1>6. Rest(s, depth, n + 1) = m
  <2>1. <<>> \o m = m
    BY <1>3, TraceConcat, Zenon
  <2> QED
    BY <1>2, <1>4, <2>1, Zenon
<1>7. ASSUME NEW i \in 1..n, s[i].user
      PROVE  Rest(s, depth, i) = <<s[i]>> \o Rest(s, depth, i + 1)
  <2>1. i + 1 \in 1..(n + 1) /\ i \in 1..Len(s)
    BY <1>1
  <2>2. U[i + 1] \in Trace /\ <<s[i]>> \in Trace
    BY <1>5, <2>1 DEF Trace
  <2>3. (<<s[i]>> \o U[i + 1]) \o m = <<s[i]>> \o (U[i + 1] \o m)
    BY <1>3, <2>2, TraceConcat, Zenon
  <2> QED
    BY <1>2, <1>4, <1>7, <2>3, Zenon
<1>8. ASSUME NEW i \in 1..n, ~s[i].user
      PROVE  Rest(s, depth, i) = Rest(s, depth, i + 1)
  <2>1. i + 1 \in 1..(n + 1)
    BY <1>1
  <2>2. <<>> \o U[i + 1] = U[i + 1]
    BY <1>5, <2>1, TraceConcat, Zenon
  <2> QED
    BY <1>2, <1>4, <1>8, <2>2, Zenon
<1> QED
  BY <1>1, <1>6, <1>7, <1>8, Zenon DEF n, m

\* Expected, in these terms.
LEMMA ExpectedRest ==
  ASSUME NEW x
  PROVE  Expected(x) = Rest(x.stack, x.max_depth, 1)
<1>1. \A s, n : UserFrames(s, n) = UserFrom(s, n)[1]
  BY DEF UserFrames, UserFrom
<1> QED
  BY <1>1, Zenon DEF Expected, Rest, MarkerOf

\* While excimer_log_add is executing, the frames done are what is expected of the
\* frames beyond at; and so is every sample's trace.
SampledInv ==
  /\ count > 0 => at <= Kept(stack, max_depth) /\ want = Rest(stack, max_depth, at + 1)
  /\ \A k \in DOMAIN samples :
        samples[k].trace = Rest(samples[k].stack, samples[k].max_depth, 1)
  /\ event_count \in Nat

\* Every step of excimer_log_add keeps to what is expected.
LEMMA SampledStep ==
  ASSUME LogInv, SampledInv, [Next]_vars
  PROVE  SampledInv'
<1>0. LogShape /\ max_depth \in Nat /\ count \in Nat /\ stack \in Seq(Positions)
  BY Zenon DEF LogInv, LogShape
<1>1. ASSUME NEW depth \in MaxDepths, excimer_log_set_max_depth(depth) PROVE SampledInv'
  BY <1>0, <1>1 DEF excimer_log_set_max_depth, callVars, SampledInv
<1>2. ASSUME NEW s \in Stacks, NEW n \in Counts, add_descend(s, n) PROVE SampledInv'
  <2>1. s \in Seq(Positions) /\ n \in Nat \ {0} /\ Len(s) \in Nat
    BY LogAssumption
  <2>2. /\ stack' = s /\ UNCHANGED <<max_depth, samples, event_count>>
        /\ at' = Kept(s, max_depth) /\ want' = MarkerOf(s, max_depth)
    BY <1>0, <1>2, <2>1 DEF add_descend, beyond_max_depth, Kept, MarkerOf
  <2>3. Kept(s, max_depth) \in Nat /\ Rest(s, max_depth, Kept(s, max_depth) + 1) = want'
    BY <1>0, <2>1, <2>2, RestStep
  <2>4. at' <= Kept(stack', max_depth') /\ want' = Rest(stack', max_depth', at' + 1)
    BY <2>2, <2>3
  <2> QED
    BY <2>2, <2>4 DEF SampledInv
<1>3. CASE find_or_add_frame
  <2>1. /\ count > 0 /\ at > 0 /\ at' = at - 1
        /\ UNCHANGED <<max_depth, stack, count, samples, event_count>>
        /\ want' = IF stack[at].user THEN <<stack[at]>> \o want ELSE want
    BY <1>3, Zenon DEF find_or_add_frame
  <2>2. /\ at \in Nat /\ at \in 1..Kept(stack, max_depth) /\ at' + 1 = at
        /\ want = Rest(stack, max_depth, at + 1) /\ Kept(stack, max_depth) \in Nat
    <3>1. at \in Nat /\ Kept(stack, max_depth) \in Nat
      <4>1. at \in 0..Len(stack) /\ Len(stack) \in Nat
        BY <1>0 DEF LogShape
      <4>2. Kept(stack, max_depth) \in 0..Len(stack)
        BY <1>0, RestStep, Zenon
      <4> QED
        BY <4>1, <4>2
    <3> QED
      BY <2>1, <3>1 DEF SampledInv
  <2>3. want' = Rest(stack, max_depth, at)
    BY <1>0, <2>1, <2>2, RestStep, Zenon
  <2>4. at' <= Kept(stack', max_depth') /\ want' = Rest(stack', max_depth', at' + 1)
    BY <2>1, <2>2, <2>3
  <2> QED
    BY <2>1, <2>4, Zenon DEF SampledInv
<1>4. CASE add_entry
  <2> DEFINE x == [stack |-> stack, max_depth |-> max_depth, trace |-> want, count |-> count]
             M == Len(samples)
  <2>1. count' = 0 /\ samples' = Append(samples, x) /\ event_count' \in Nat
    BY <1>0, <1>4 DEF add_entry, SampledInv
  <2>2. x.trace = Rest(x.stack, x.max_depth, 1)
    <3>1. at + 1 = 1 /\ want = Rest(stack, max_depth, at + 1)
      BY <1>4 DEF add_entry, SampledInv
    <3> QED
      BY <3>1, Zenon
  <2> HIDE DEF x
  <2>3. \E S : samples \in Seq(S)
    BY <1>0 DEF LogShape
  <2>4. /\ M \in Nat /\ DOMAIN samples = 1..M /\ DOMAIN samples' = 1..(M + 1)
        /\ samples'[M + 1] = x /\ \A k \in 1..M : samples'[k] = samples[k]
    BY <2>1, <2>3
  <2>5. \A k \in 1..(M + 1) : k = M + 1 \/ k \in 1..M
    BY <2>4
  <2>6. \A k \in DOMAIN samples' :
           samples'[k].trace = Rest(samples'[k].stack, samples'[k].max_depth, 1)
    BY <2>2, <2>4, <2>5, Zenon DEF SampledInv
  <2> QED
    BY <2>1, <2>6 DEF SampledInv
<1>5. CASE UNCHANGED vars
  BY <1>5 DEF vars, logVars, callVars, SampledInv
<1> QED
  BY <1>1, <1>2, <1>3, <1>4, <1>5, Zenon DEF Next

\* getTrace gives the stack that was executing when the event happened: the loop over
\* prev_index meets all user functions of the stack in order, or those down to the depth
\* limit of that time and then the marker.
THEOREM TracesAreComplete ==
  ASSUME LineDeterminesFunction
  PROVE  Spec => []TracesComplete
<1>1. Init => SampledInv
  BY DEF Init, SampledInv
<1>2. LogInv /\ SampledInv /\ [Next]_vars => SampledInv'
  BY SampledStep
<1>3. LogInv /\ SampledInv => TracesComplete
  <2> SUFFICES ASSUME LogInv, SampledInv PROVE TracesComplete
    OBVIOUS
  <2>1. LogShape /\ CallersFirst /\ ChainsLinked /\ KeysTrue /\ TracesFaithful
    BY Zenon DEF LogInv
  <2>2. TypeOK
    <3>1. \A k \in DOMAIN reverse_frames : reverse_frames[k] \in Nat
      BY <2>1 DEF KeysTrue, LogShape
    <3>2. marker \in Nat /\ prev_index \in Nat
      BY <2>1 DEF LogShape
    <3> QED
      BY <2>1, <3>1, <3>2, Zenon DEF TypeOK, LogShape, SampledInv
  <2>3. ASSUME NEW k \in DOMAIN entries
        PROVE  trace_to_array(entries[k].frame_index) = Expected(samples[k])
    <3>1. entries[k].frame_index \in 0..Len(frames)
      BY <2>1 DEF CallersFirst
    <3>2. trace_to_array(entries[k].frame_index) = chain_of(entries[k].frame_index)
      BY <2>1, <3>1, WalkIsChain, Zenon
    <3>3. samples[k].trace = chain_of(entries[k].frame_index)
      BY <2>1 DEF TracesFaithful, chain_of
    <3>4. k \in DOMAIN samples
      BY <2>1 DEF LogShape
    <3>5. samples[k].trace = Expected(samples[k])
      BY <3>4, ExpectedRest DEF SampledInv
    <3> QED
      BY <3>2, <3>3, <3>5, Zenon
  <2> QED
    BY <2>2, <2>3 DEF TracesComplete
<1> QED
  BY <1>1, <1>2, <1>3, LogInvariant, PTL DEF Spec
===================================================================================
