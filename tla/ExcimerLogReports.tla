----------------------------- MODULE ExcimerLogReports -----------------------------
(***************************************************************************)
(* What excimer_log.c makes of a log: collapsed stacks, speedscope data    *)
(* and totals by function, with the loops of the code as folds.  Each is   *)
(* compared with a definition in terms of the samples that were added.     *)
(* A hash table is a function from its keys; its order is left out, except *)
(* where it is sorted.                                                     *)
(***************************************************************************)
EXTENDS ExcimerLog, SequencesExt

CONSTANTS
  no_spaces(_),  \* external to the model of data: excimer_log_append_no_spaces
  Period         \* log->period

\* The parts of a function's name.
name_parts(pos) ==
  CASE pos.closure_line # 0 -> <<"{closure:", pos.file, pos.closure_line>>
    [] pos.closure_line = 0 /\ pos.function = "" -> <<pos.file>>
    [] OTHER -> IF pos.class = "" THEN <<pos.function>> ELSE <<pos.class, pos.function>>

\* Every part is written without spaces.
frame_name(pos) ==
  name_parts([pos EXCEPT !.file = no_spaces(@), !.class = no_spaces(@),
                         !.function = no_spaces(@)])

Map(op(_), seq) == [i \in DOMAIN seq |-> op(seq[i])]

\* ht[key] += term
array_incr(ht, key, term) ==
  [k \in DOMAIN ht \cup {key} |->
     IF k # key THEN ht[k] ELSE term + IF key \in DOMAIN ht THEN ht[key] ELSE 0]

\* Plausible bug: a second frame with the same line of output replaces the first.
array_set(ht, key, term) == [k \in DOMAIN ht \cup {key} |-> IF k # key THEN ht[k] ELSE term]

-----------------------------------------------------------------------------------
(* excimer_log_format_collapsed                                            *)

frame_counts ==
  FoldLeft(LAMBDA ht, e : array_incr(ht, e.frame_index, e.event_count), << >>, entries)

\* The names from the outermost function to the innermost, between semicolons.
collapsed_line(frame_index) == Reverse(Map(frame_name, trace_to_array(frame_index)))

collapsed_lines_replaced ==
  FoldSet(LAMBDA i, ht : array_set(ht, collapsed_line(i), frame_counts[i]),
          << >>, DOMAIN frame_counts)

collapsed_lines ==
  FoldSet(LAMBDA i, ht : array_incr(ht, collapsed_line(i), frame_counts[i]),
          << >>, DOMAIN frame_counts)

-----------------------------------------------------------------------------------
(* excimer_log_get_speedscope_data                                         *)

speedscope_frame_key(pos) == <<frame_name(pos), pos.file>>

\* The "frames" array: the distinct keys in the order of the log's frames.
speedscope_frames ==
  FoldLeft(LAMBDA keys, f : LET key == speedscope_frame_key(f.pos) IN
             IF Contains(keys, key) THEN keys ELSE Append(keys, key), <<>>, frames)

\* lp_frame_indexes
frame_index_of(pos) ==
  CHOOSE i \in DOMAIN speedscope_frames : speedscope_frames[i] = speedscope_frame_key(pos)

\* Plausible bug: the stack is written in the order in which it is read.
speedscope_sample_forward(entry) == Map(frame_index_of, trace_to_array(entry.frame_index))

\* The stack of an entry is written backwards, so that it ends with the innermost frame.
speedscope_sample(entry) == Reverse(Map(frame_index_of, trace_to_array(entry.frame_index)))

speedscope_weight(entry) == entry.event_count * Period

-----------------------------------------------------------------------------------
(* excimer_log_aggr_by_func                                                *)

\* The same name, with its spaces.
aggr_name(pos) == name_parts(pos)

\* Plausible bug: a recursive function counts once for each of its frames.
aggr_frame_every(acc, pos, n) ==
  LET name == aggr_name(pos)
      info == IF name \in DOMAIN acc.result THEN acc.result[name]
              ELSE [frame |-> pos, self |-> 0, inclusive |-> 0]
      new == [info EXCEPT !.self = @ + (IF acc.is_top THEN n ELSE 0), !.inclusive = @ + n]
  IN  [result |-> [k \in DOMAIN acc.result \cup {name} |->
                     IF k = name THEN new ELSE acc.result[k]],
       unique_names |-> acc.unique_names \cup {name},
       is_top |-> FALSE]

\* One frame of an entry: the top frame counts for "self", the first frame of a
\* function for "inclusive".
aggr_frame(acc, pos, n) ==
  LET name == aggr_name(pos)
      info == IF name \in DOMAIN acc.result THEN acc.result[name]
              ELSE [frame |-> pos, self |-> 0, inclusive |-> 0]
      new == [info EXCEPT !.self = @ + (IF acc.is_top THEN n ELSE 0),
                          !.inclusive = @ + (IF name \in acc.unique_names THEN 0 ELSE n)]
  IN  [result |-> [k \in DOMAIN acc.result \cup {name} |->
                     IF k = name THEN new ELSE acc.result[k]],
       unique_names |-> acc.unique_names \cup {name},
       is_top |-> FALSE]

aggr_entry(result, entry) ==
  FoldLeft(LAMBDA acc, pos : aggr_frame(acc, pos, entry.event_count),
           [result |-> result, unique_names |-> {}, is_top |-> TRUE],
           trace_to_array(entry.frame_index)).result

aggr_unsorted == FoldLeft(aggr_entry, << >>, entries)

\* The names in the order of the result: descending by "inclusive".
aggr_by_func ==
  SetToSortSeq(DOMAIN aggr_unsorted,
               LAMBDA a, b : aggr_unsorted[a].inclusive > aggr_unsorted[b].inclusive)

-----------------------------------------------------------------------------------
(* Properties, of every log between two calls of excimer_log_add.          *)

\* The events of the samples numbered by a set.
Events(K) == MapThenSumSet(LAMBDA k : samples[k].count, K)

\* ExcimerLog::formatCollapsed has one line for each distinct stack of names, with the
\* number of events in which that stack appeared.
CollapsedExact ==
  Idle => LET line(k) == Reverse(Map(frame_name, Expected(samples[k]))) IN
          collapsed_lines = [l \in {line(k) : k \in DOMAIN samples} |->
                               Events({k \in DOMAIN samples : line(k) = l})]

\* Decoding the speedscope data gives back the names and files of every sample, the
\* outermost first, and the weights add up to the time the log represents.
SpeedscopeExact ==
  Idle =>
    /\ IsInjective(speedscope_frames)
    /\ \A k \in DOMAIN entries :
          LET decode(i) == speedscope_frames[i] IN
          Map(decode, speedscope_sample(entries[k])) =
             Reverse(Map(speedscope_frame_key, Expected(samples[k])))
    /\ MapThenSumSet(LAMBDA k : speedscope_weight(entries[k]), DOMAIN entries) =
          event_count * Period

\* ExcimerLog::aggregateByFunction: "self" counts the events in which a function was the
\* innermost user function, "inclusive" those in which it appeared, recursion or not;
\* line and file are those of its first sample; the order is descending.
AggregateExact ==
  Idle =>
    LET names(k) == Map(aggr_name, Expected(samples[k]))
        all == UNION {ToSet(names(k)) : k \in DOMAIN samples}
        first(name) == CHOOSE k \in DOMAIN samples :
                         /\ name \in ToSet(names(k))
                         /\ \A j \in 1..(k - 1) : name \notin ToSet(names(j))
    IN  /\ DOMAIN aggr_unsorted = all
        /\ \A name \in all :
             LET info == aggr_unsorted[name] IN
             /\ info.self = Events({k \in DOMAIN samples :
                                      names(k) # <<>> /\ names(k)[1] = name})
             /\ info.inclusive = Events({k \in DOMAIN samples : name \in ToSet(names(k))})
             /\ info.frame = SelectSeq(Expected(samples[first(name)]),
                                       LAMBDA p : aggr_name(p) = name)[1]
        /\ ToSet(aggr_by_func) = all
        /\ \A i, j \in DOMAIN aggr_by_func :
              i < j => aggr_unsorted[aggr_by_func[i]].inclusive >=
                          aggr_unsorted[aggr_by_func[j]].inclusive
===================================================================================
