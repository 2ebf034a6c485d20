----------------------------- MODULE ExcimerLogObjects -----------------------------
(***************************************************************************)
(* An ExcimerLog object of excimer.c, the ExcimerLogEntry objects that     *)
(* refer to it, its own iterator (current, key, next, rewind, valid) and   *)
(* the iterators of foreach, while the profiler may still add entries.     *)
(* An entry object is an index into the log; the cached current entry      *)
(* makes a cycle of references, which PHP's collector does not see.        *)
(* Of the log itself (see ExcimerLog) there are the number of entries and  *)
(* the frames, for their strings: file, class and function names belong to *)
(* the compiled code, which the program may discard (closures, eval).  A   *)
(* function has one string here, and a frame is a line of a function.      *)
(***************************************************************************)
EXTENDS Integers, FiniteSets

CONSTANTS
  Functions,   \* functions that the program may discard, each with its string
  Lines,       \* lines of a function
  Marker,      \* the string of the frame of a truncated trace
  Iterators,   \* foreach loops that may be executing
  Objects,     \* bound: ExcimerLogEntry objects at one time, a subset of Nat \ {0}
  MaxEntries,  \* bound: entries of the log
  MaxVars      \* bound: PHP variables that refer to the log or to an entry object

ASSUME LogObjectsAssumption ==
  /\ Objects \subseteq Nat \ {0} /\ MaxEntries \in Nat /\ MaxVars \in Nat
  /\ Marker \notin Functions
  /\ IsFiniteSet(Objects) /\ IsFiniteSet(Iterators)

\* A zval that holds no object.
NULL == 0

VARIABLES
  entries_size,      \* log.entries_size
  frames,            \* log.frames, each a string and a line
  string_refs,       \* the reference counts of the strings
  memory,            \* the strings that are not freed
  compiled,          \* the functions that the program has
  log_refs,          \* the reference count of the log; 0 when it is freed
  iter_entry_index,  \* the log's own iterator
  z_current,         \* its cached entry object, or NULL
  objects,           \* the ExcimerLogEntry objects, by address: index and reference count
  iterators,         \* the foreach iterators: active, index, z_current
  profiling,         \* whether the profiler refers to the log
  log_vars,          \* how many PHP variables refer to the log
  entry_vars         \* how many PHP variables refer to each entry object

iterVars == <<iter_entry_index, z_current>>
stringVars == <<frames, string_refs, memory>>
phpVars == <<profiling, log_vars, entry_vars, compiled>>
vars == <<entries_size, stringVars, log_refs, iterVars, objects, iterators, phpVars>>

Strings == Functions \cup {Marker}

freed == [refs |-> 0, index |-> 0]
no_iterator == [active |-> FALSE, index |-> 0, z_current |-> NULL]

\* ExcimerLog_new, for a profiler.
Init ==
  /\ entries_size = 0 /\ log_refs = 1
  /\ frames = {} /\ memory = Functions /\ compiled = Functions
  /\ string_refs = [s \in Strings |-> IF s \in Functions THEN 1 ELSE 0]
  /\ iter_entry_index = 0 /\ z_current = NULL
  /\ objects = [e \in Objects |-> freed]
  /\ iterators = [i \in Iterators |-> no_iterator]
  /\ profiling = TRUE /\ log_vars = 0 /\ entry_vars = [e \in Objects |-> 0]

-----------------------------------------------------------------------------------
(* Reference counting.  A heap is the two reference counts that change.    *)

heap == [log |-> log_refs, objects |-> objects]

\* zend_string_delref for every frame of the log.
delref(s) == Cardinality({fr \in frames : fr[1] = s})

\* excimer_log_destroy gives the references back, and frees no string.
excimer_log_destroy ==
  /\ string_refs' = [s \in Strings |-> string_refs[s] - delref(s)]
  /\ frames' = {}
  /\ UNCHANGED memory

\* The log is destroyed with the last reference to it.
Heap(h) ==
  /\ log_refs' = h.log /\ objects' = h.objects
  /\ IF h.log = 0 /\ log_refs > 0 THEN excimer_log_destroy ELSE UNCHANGED stringVars

\* Plausible bug: ExcimerLogEntry_free_object keeps its reference to the log.
zval_ptr_dtor_leak(h, e) ==
  IF e = NULL THEN h
  ELSE IF h.objects[e].refs = 1 THEN [h EXCEPT !.objects[e] = freed]
  ELSE [h EXCEPT !.objects[e].refs = @ - 1]

\* zval_ptr_dtor of an entry object, with ExcimerLogEntry_free_object.
zval_ptr_dtor(h, e) ==
  IF e = NULL THEN h
  ELSE IF h.objects[e].refs = 1
  THEN [log |-> h.log - 1, objects |-> [h.objects EXCEPT ![e] = freed]]
  ELSE [h EXCEPT !.objects[e].refs = @ - 1]

\* ExcimerLog_init_entry, for an index into the log: a new object at e.
init_entry(h, e, index) ==
  [log |-> h.log + 1, objects |-> [h.objects EXCEPT ![e] = [refs |-> 1, index |-> index]]]

is_free(e) == objects[e].refs = 0

\* RETURN_ZVAL into a PHP variable.
to_variable(h, e) ==
  /\ Heap([h EXCEPT !.objects[e].refs = @ + 1])
  /\ entry_vars[e] < MaxVars
  /\ entry_vars' = [entry_vars EXCEPT ![e] = @ + 1]

-----------------------------------------------------------------------------------
(* The profiler and PHP variables.                                         *)

\* Plausible bug: the reference is not taken for a new frame.
addref_not(fs) == string_refs

\* zend_string_addref for new frames; those of a known frame are given back at once.
\* The marker's string is made with one reference.
addref(fs) ==
  [s \in Strings |-> string_refs[s] + Cardinality({fr \in fs \ frames : fr[1] = s})]

\* excimer_log_add, in an interrupt, when the given line of f executes.
log_add(f, line, truncated) ==
  LET trace == {<<f, line>>} \cup IF truncated THEN {<<Marker, 1>>} ELSE {} IN
  /\ profiling /\ entries_size < MaxEntries /\ f \in compiled
  /\ entries_size' = entries_size + 1
  /\ frames' = frames \cup trace
  /\ string_refs' = addref(trace)
  /\ memory' = IF truncated THEN memory \cup {Marker} ELSE memory
  /\ UNCHANGED <<log_refs, iterVars, objects, iterators, phpVars>>

\* The profiler flushes the log, or is freed.
profiler_lets_go ==
  /\ profiling
  /\ profiling' = FALSE
  /\ Heap([heap EXCEPT !.log = @ - 1])
  /\ UNCHANGED <<entries_size, iterVars, iterators, log_vars, entry_vars, compiled>>

\* External: the program discards a function, with zend_string_release.
discard(f) ==
  /\ f \in compiled
  /\ compiled' = compiled \ {f}
  /\ string_refs' = [string_refs EXCEPT ![f] = @ - 1]
  /\ memory' = IF string_refs[f] = 1 THEN memory \ {f} ELSE memory
  /\ UNCHANGED <<entries_size, frames, log_refs, iterVars, objects, iterators, profiling,
                 log_vars, entry_vars>>

\* External: ExcimerProfiler::getLog and assignments, which copy a reference.
assign_log ==
  /\ (profiling \/ log_vars > 0) /\ log_vars < MaxVars
  /\ log_vars' = log_vars + 1
  /\ Heap([heap EXCEPT !.log = @ + 1])
  /\ UNCHANGED <<entries_size, iterVars, iterators, profiling, entry_vars, compiled>>

unset_log ==
  /\ log_vars > 0
  /\ log_vars' = log_vars - 1
  /\ Heap([heap EXCEPT !.log = @ - 1])
  /\ UNCHANGED <<entries_size, iterVars, iterators, profiling, entry_vars, compiled>>

unset_entry(e) ==
  /\ entry_vars[e] > 0
  /\ entry_vars' = [entry_vars EXCEPT ![e] = @ - 1]
  /\ Heap(zval_ptr_dtor(heap, e))
  /\ UNCHANGED <<entries_size, iterVars, iterators, profiling, log_vars, compiled>>

-----------------------------------------------------------------------------------
(* The methods of ExcimerLog.                                              *)

\* valid, and with it key, which is then the index.
valid == iter_entry_index < entries_size

\* e: the address of a new entry object.
current(e) ==
  /\ log_vars > 0
  /\ \/ /\ z_current = NULL /\ valid
        /\ is_free(e)
        /\ z_current' = e
        /\ to_variable(init_entry(heap, e, iter_entry_index), e)
     \/ /\ z_current = e
        /\ to_variable(heap, e)
        /\ UNCHANGED z_current
  /\ UNCHANGED <<entries_size, iter_entry_index, iterators, profiling, log_vars, compiled>>

\* Plausible bug: the cached entry is kept.
next_cached ==
  /\ log_vars > 0
  /\ iter_entry_index' = IF valid THEN iter_entry_index + 1 ELSE iter_entry_index
  /\ UNCHANGED <<entries_size, stringVars, z_current, log_refs, objects, iterators, phpVars>>

next ==
  /\ log_vars > 0
  /\ z_current' = NULL /\ Heap(zval_ptr_dtor(heap, z_current))
  /\ iter_entry_index' = IF valid THEN iter_entry_index + 1 ELSE iter_entry_index
  /\ UNCHANGED <<entries_size, iterators, phpVars>>

rewind ==
  /\ log_vars > 0
  /\ iter_entry_index' = 0
  /\ z_current' = NULL /\ Heap(zval_ptr_dtor(heap, z_current))
  /\ UNCHANGED <<entries_size, iterators, phpVars>>

offsetExists(offset) == offset >= 0 /\ offset < entries_size

\* Any other offset gives null.
offsetGet(e, offset) ==
  /\ log_vars > 0 /\ is_free(e)
  /\ offsetExists(offset)
  /\ Heap(init_entry(heap, e, offset))
  /\ entry_vars' = [entry_vars EXCEPT ![e] = 1]
  /\ UNCHANGED <<entries_size, iterVars, iterators, profiling, log_vars, compiled>>

-----------------------------------------------------------------------------------
(* foreach.                                                                *)

get_iterator(i) ==
  /\ log_vars > 0 /\ ~iterators[i].active
  /\ iterators' = [iterators EXCEPT ![i] = [active |-> TRUE, index |-> 0, z_current |-> NULL]]
  /\ Heap([heap EXCEPT !.log = @ + 1])
  /\ UNCHANGED <<entries_size, iterVars, phpVars>>

iterator_valid(i) == iterators[i].index < entries_size

\* The value goes to the variable of the loop.
iterator_get_current_data(i, e) ==
  /\ iterators[i].active
  /\ \/ /\ iterators[i].z_current = NULL /\ iterator_valid(i)
        /\ is_free(e)
        /\ iterators' = [iterators EXCEPT ![i].z_current = e]
        /\ to_variable(init_entry(heap, e, iterators[i].index), e)
     \/ /\ iterators[i].z_current = e
        /\ to_variable(heap, e)
        /\ UNCHANGED iterators
  /\ UNCHANGED <<entries_size, iterVars, profiling, log_vars, compiled>>

\* The iterator i drops its cached entry and goes to index.
iterator_to(i, index) ==
  /\ iterators[i].active
  /\ iterators' = [iterators EXCEPT ![i].z_current = NULL, ![i].index = index]
  /\ Heap(zval_ptr_dtor(heap, iterators[i].z_current))
  /\ UNCHANGED <<entries_size, iterVars, phpVars>>

iterator_move_forward(i) ==
  iterator_to(i, IF iterator_valid(i) THEN iterators[i].index + 1 ELSE iterators[i].index)

iterator_rewind(i) == iterator_to(i, 0)

iterator_invalidate_current(i) == iterator_to(i, iterators[i].index)

iterator_dtor(i) ==
  /\ iterators[i].active
  /\ iterators' = [iterators EXCEPT ![i] = no_iterator]
  /\ LET h == zval_ptr_dtor(heap, iterators[i].z_current)
     IN  Heap([h EXCEPT !.log = @ - 1])
  /\ UNCHANGED <<entries_size, iterVars, phpVars>>

Next ==
  \/ \E f \in Functions, line \in Lines, truncated \in BOOLEAN : log_add(f, line, truncated)
  \/ \E f \in Functions : discard(f)
  \/ profiler_lets_go \/ assign_log \/ unset_log \/ next \/ rewind
  \/ \E e \in Objects :
        \/ unset_entry(e) \/ current(e)
        \/ \E offset \in -1..MaxEntries : offsetGet(e, offset)
        \/ \E i \in Iterators : iterator_get_current_data(i, e)
  \/ \E i \in Iterators :
        \/ get_iterator(i) \/ iterator_move_forward(i) \/ iterator_rewind(i)
        \/ iterator_invalidate_current(i) \/ iterator_dtor(i)

Spec == Init /\ [][Next]_vars

-----------------------------------------------------------------------------------
(* Properties.                                                             *)

TypeOK ==
  /\ entries_size \in 0..MaxEntries /\ log_refs \in Nat
  /\ frames \subseteq Strings \X (Lines \cup {1}) /\ string_refs \in [Strings -> Nat]
  /\ memory \subseteq Strings /\ compiled \subseteq Functions
  /\ iter_entry_index \in 0..MaxEntries /\ z_current \in Objects \cup {NULL}
  /\ objects \in [Objects -> [refs : Nat, index : Nat]]
  /\ iterators \in [Iterators -> [active : BOOLEAN, index : Nat, z_current : Objects \cup {NULL}]]
  /\ profiling \in BOOLEAN /\ log_vars \in 0..MaxVars /\ entry_vars \in [Objects -> 0..MaxVars]

live == {e \in Objects : ~is_free(e)}
active == {i \in Iterators : iterators[i].active}
one(b) == IF b THEN 1 ELSE 0

\* The reference counts of the log and of every entry object are the number of places
\* that refer to it.
RefsExact ==
  /\ TypeOK
  /\ log_refs = one(profiling) + log_vars + Cardinality(active) + Cardinality(live)
  /\ \A e \in Objects :
       objects[e].refs = entry_vars[e] + one(z_current = e)
                         + Cardinality({i \in active : iterators[i].z_current = e})

\* An entry object refers to an entry of a log that exists: getTimestamp, getEventCount
\* and getTrace use the entry without looking.  A cached current entry is the entry that
\* key() names, in the log's own iterator and in foreach, whatever was added, rewound or
\* advanced since it was cached.  And an iterator at the end is just beyond the last
\* entry, so that the next entry the profiler adds is the next one it sees.
EntriesExact ==
  /\ \A e \in live : log_refs > 0 /\ objects[e].index < entries_size
  /\ z_current # NULL =>
        ~is_free(z_current) /\ objects[z_current].index = iter_entry_index /\ valid
  /\ \A i \in active : iterators[i].z_current # NULL =>
        /\ ~is_free(iterators[i].z_current)
        /\ objects[iterators[i].z_current].index = iterators[i].index
        /\ iterator_valid(i)
  /\ iter_entry_index <= entries_size
  /\ \A i \in active : iterators[i].index <= entries_size

\* The strings of the frames are in memory as long as an entry object or anything else
\* refers to the log, also when the program has discarded the function; and a string is
\* counted once for the function and once for each frame.
StringsInMemory ==
  /\ \A fr \in frames : log_refs > 0 /\ fr[1] \in memory
  /\ \A s \in Strings : string_refs[s] = one(s \in compiled) + delref(s)
===================================================================================
