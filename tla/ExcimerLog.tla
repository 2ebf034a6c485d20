-------------------------------- MODULE ExcimerLog --------------------------------
(***************************************************************************)
(* excimer_log.c: one log.  Every distinct frame with its callers is       *)
(* stored once, as a link to the frame of its caller; an entry of the log  *)
(* is the index of the frame that was executing.  excimer_log_add walks    *)
(* the PHP stack recursively; the model has one step per return of         *)
(* excimer_log_find_or_add_frame, from the outermost frame inwards.        *)
(*                                                                         *)
(* frames[0] of the code, which stands for "no frame", has no counterpart: *)
(* frames[i] is the code's frames[i], and frames_size is Len(frames) + 1.  *)
(***************************************************************************)
EXTENDS Integers, Sequences

CONSTANTS
  Positions,    \* places in the PHP program: records of file, lineno, class, function,
                \* closure_line and user (FALSE for an internal function)
  Stacks,       \* stacks of the program: sequences of positions, the innermost first
  MaxDepths,    \* values of max_depth; 0 stands for no limit
  Counts,       \* event counts of a sample
  MaxEntries    \* bound: entries of the log

\* The frame of a truncated trace, which no program has.
Truncated == [file |-> "excimer fake file", lineno |-> 1, class |-> "",
              function |-> "excimer_truncated", closure_line |-> 0, user |-> TRUE]

ASSUME LogAssumption ==
  /\ Stacks \subseteq Seq(Positions)
  /\ MaxDepths \subseteq Nat /\ Counts \subseteq Nat \ {0} /\ MaxEntries \in Nat
  /\ Truncated \notin Positions

VARIABLES
  frames, entries, event_count, max_depth,  \* fields of excimer_log
  reverse_frames,   \* index by filename, lineno and prev_index ...
  marker,           \* ... and by "excimer_truncated", 0 if it is not there
  stack, at,        \* execute_data of the call in progress; its frames still to do
  prev_index,       \* what the last return of find_or_add_frame gave
  count,            \* event_count of the call in progress, 0 if there is none
  want,             \* history: the frames done in this call, the innermost first
  samples,          \* history: the arguments, max_depth and want of every call
  chain             \* history: for each frame, want when it was added

logVars == <<frames, entries, event_count, max_depth, reverse_frames, marker>>
callVars == <<stack, at, prev_index, count>>
vars == <<logVars, callVars, want, samples, chain>>

\* excimer_log_init, by ExcimerLog_new; ExcimerProfiler_new sets max_depth.
Init ==
  /\ frames = <<>> /\ entries = <<>> /\ event_count = 0
  /\ max_depth \in MaxDepths
  /\ reverse_frames = << >> /\ marker = 0
  /\ stack = <<>> /\ at = 0 /\ prev_index = 0 /\ count = 0
  /\ want = <<>> /\ samples = <<>> /\ chain = <<>>

excimer_log_set_max_depth(depth) ==
  /\ count = 0
  /\ max_depth' = depth
  /\ UNCHANGED <<frames, entries, event_count, reverse_frames, marker, callVars,
                 want, samples, chain>>

-----------------------------------------------------------------------------------
(* excimer_log_add                                                         *)

\* Plausible bug: the limit also cuts a stack that is just as deep as it.
beyond_max_depth_early(s) == max_depth > 0 /\ Len(s) >= max_depth + 1

\* depth >= max_depth at a frame that has a caller: depth starts with 0.
beyond_max_depth(s) == max_depth > 0 /\ Len(s) > max_depth + 1

\* excimer_log_get_truncation_marker: the marker's frame is added once.
get_truncation_marker ==
  IF marker # 0
  THEN prev_index' = marker /\ UNCHANGED <<frames, marker, chain>>
  ELSE /\ frames' = Append(frames, [pos |-> Truncated, prev_index |-> 0])
       /\ marker' = Len(frames) + 1 /\ prev_index' = Len(frames) + 1
       /\ chain' = Append(chain, <<Truncated>>)

\* The recursion descends to the outermost frame, or to the limit.
add_descend(s, n) ==
  /\ count = 0 /\ Len(entries) < MaxEntries
  /\ stack' = s /\ count' = n
  /\ IF beyond_max_depth(s)
     THEN at' = max_depth + 1 /\ want' = <<Truncated>> /\ get_truncation_marker
     ELSE at' = Len(s) /\ want' = <<>> /\ prev_index' = 0 /\ UNCHANGED <<frames, marker, chain>>
  /\ UNCHANGED <<entries, event_count, max_depth, reverse_frames, samples>>

\* Plausible bug: the caller is left out of the key.
frame_key_no_caller(pos, prev) == <<pos.file, pos.lineno, 0>>

frame_key(pos, prev) == <<pos.file, pos.lineno, prev>>

new_frame(pos, key) ==
  /\ frames' = Append(frames, [pos |-> pos, prev_index |-> prev_index])
  /\ reverse_frames' = [k \in DOMAIN reverse_frames \cup {key} |->
                          IF k = key THEN Len(frames) + 1 ELSE reverse_frames[k]]
  /\ prev_index' = Len(frames) + 1
  /\ chain' = Append(chain, <<pos>> \o want)

\* excimer_log_find_or_add_frame once it has the index of the caller's frame.
\* Internal functions have no frame.
find_or_add_frame ==
  /\ count > 0 /\ at > 0
  /\ at' = at - 1
  /\ LET pos == stack[at]  key == frame_key(pos, prev_index) IN
     /\ \/ ~pos.user /\ UNCHANGED <<frames, reverse_frames, chain, prev_index>>
        \/ /\ pos.user /\ key \in DOMAIN reverse_frames
           /\ prev_index' = reverse_frames[key]
           /\ UNCHANGED <<frames, reverse_frames, chain>>
        \/ /\ pos.user /\ key \notin DOMAIN reverse_frames
           /\ new_frame(pos, key)
     /\ want' = IF pos.user THEN <<pos>> \o want ELSE want
  /\ UNCHANGED <<entries, event_count, max_depth, marker, stack, count, samples>>

add_entry ==
  /\ count > 0 /\ at = 0
  /\ entries' = Append(entries, [frame_index |-> prev_index, event_count |-> count])
  /\ event_count' = event_count + count
  /\ samples' = Append(samples, [stack |-> stack, max_depth |-> max_depth, trace |-> want,
                                 count |-> count])
  /\ stack' = <<>> /\ prev_index' = 0 /\ count' = 0 /\ want' = <<>>
  /\ UNCHANGED <<frames, max_depth, reverse_frames, marker, at, chain>>

Next ==
  \/ \E depth \in MaxDepths : excimer_log_set_max_depth(depth)
  \/ \E s \in Stacks, n \in Counts : add_descend(s, n)
  \/ find_or_add_frame \/ add_entry

Spec == Init /\ [][Next]_vars

-----------------------------------------------------------------------------------
(* excimer_log_trace_to_array                                              *)

\* The frames that the loops over prev_index visit.
trace_to_array(frame_index) ==
  LET visit[i \in 0..Len(frames)] ==
        IF i = 0 THEN <<>> ELSE <<frames[i].pos>> \o visit[frames[i].prev_index]
  IN  visit[frame_index]

-----------------------------------------------------------------------------------
(* Properties.                                                             *)

Frame == [pos : Positions \cup {Truncated}, prev_index : Nat]
Trace == Seq(Positions \cup {Truncated})

TypeOK ==
  /\ frames \in Seq(Frame) /\ chain \in Seq(Trace)
  /\ entries \in Seq([frame_index : Nat, event_count : Nat \ {0}])
  /\ samples \in Seq([stack : Seq(Positions), max_depth : Nat, trace : Trace,
                        count : Nat \ {0}])
  /\ event_count \in Nat /\ max_depth \in Nat /\ marker \in Nat
  /\ \A k \in DOMAIN reverse_frames : reverse_frames[k] \in Nat
  /\ stack \in Seq(Positions) /\ at \in 0..Len(stack)
  /\ prev_index \in Nat /\ count \in Nat /\ want \in Trace

\* Every caller's index is smaller than the frame's own, and no index is beyond the
\* array: each of the loops over prev_index reads frames of the log, and ends.
CallersFirst ==
  /\ \A i \in DOMAIN frames : frames[i].prev_index < i
  /\ \A k \in DOMAIN entries : entries[k].frame_index \in 0..Len(frames)

\* What a line executes determines the function it belongs to.
LineDeterminesFunction ==
  \A p, q \in Positions :
     p.user /\ q.user /\ p.file = q.file /\ p.lineno = q.lineno => p = q

\* chain describes the frames: the callers of a frame are those of its prev_index.
ChainsLinked ==
  /\ Len(chain) = Len(frames)
  /\ \A i \in DOMAIN frames :
        chain[i] = <<frames[i].pos>> \o
                   (IF frames[i].prev_index = 0 THEN <<>> ELSE chain[frames[i].prev_index])

\* The stack trace of every entry is the one at the time of the event
\* (ExcimerLogEntry::getTrace): no deduplication mixes up two stacks.
TracesFaithful ==
  \A k \in DOMAIN entries :
     samples[k].trace = IF entries[k].frame_index = 0 THEN <<>>
                        ELSE chain[entries[k].frame_index]

\* Frames are not stored twice, so the index of a stack identifies it.
FramesUnique == \A i, j \in DOMAIN frames : frames[i] = frames[j] => i = j

\* The log is a faithful record of the samples: the walks over prev_index end, follow the
\* callers and give the sampled stack, and no frame is there twice.
LogFaithful == CallersFirst /\ ChainsLinked /\ TracesFaithful /\ FramesUnique

\* Between two calls of excimer_log_add.
Idle == count = 0

\* The user functions among the n innermost frames of a stack.
UserFrames(s, n) ==
  LET from[i \in 1..(n + 1)] ==
        IF i = n + 1 THEN <<>>
        ELSE (IF s[i].user THEN <<s[i]>> ELSE <<>>) \o from[i + 1]
  IN  from[1]

\* How many frames of a stack the limit leaves.
Kept(s, depth) == IF depth > 0 /\ Len(s) > depth + 1 THEN depth + 1 ELSE Len(s)

\* The user functions of a stack down to the limit, and then the marker.
Expected(sample) ==
  LET kept == Kept(sample.stack, sample.max_depth)
  IN  UserFrames(sample.stack, kept)
        \o (IF kept < Len(sample.stack) THEN <<Truncated>> ELSE <<>>)

\* ExcimerLogEntry::getTrace gives the stack at the time of the event: all of it, or
\* the frames down to the limit that applied and a marker.
TracesComplete ==
  /\ TypeOK
  /\ Idle => \A k \in DOMAIN entries :
                trace_to_array(entries[k].frame_index) = Expected(samples[k])
===================================================================================
