-------------------------- MODULE ExcimerLogObjectsProofs --------------------------
(***************************************************************************)
(* The reference counts of ExcimerLogObjects are exact, for any number of  *)
(* entry objects, foreach loops, functions and variables, and with them    *)
(* the cached entries and the strings of the frames.                       *)
(***************************************************************************)
EXTENDS ExcimerLogObjectsSteps, FiniteSetTheorems

\* What the steps need of finite sets.
LEMMA FiniteSetsHold == FiniteSetFacts
<1>1. IsFiniteSet({}) /\ Cardinality({}) = 0
  BY FS_EmptySet
<1>2. ASSUME NEW S, IsFiniteSet(S)
      PROVE  /\ Cardinality(S) \in Nat /\ (Cardinality(S) = 0 => S = {})
             /\ \A T \in SUBSET S : IsFiniteSet(T)
             /\ \A x \in S : Cardinality(S \ {x}) = Cardinality(S) - 1
             /\ \A x : x \notin S => Cardinality(S \cup {x}) = Cardinality(S) + 1
  <2>1. Cardinality(S) \in Nat /\ (Cardinality(S) = 0 => S = {})
    BY <1>2, FS_CardinalityType, FS_EmptySet
  <2>2. \A T \in SUBSET S : IsFiniteSet(T)
    BY <1>2, FS_Subset
  <2>3. \A x \in S : Cardinality(S \ {x}) = Cardinality(S) - 1
    BY <1>2, FS_RemoveElement
  <2>4. \A x : x \notin S => Cardinality(S \cup {x}) = Cardinality(S) + 1
    BY <1>2, FS_AddElement
  <2> QED
    BY <2>1, <2>2, <2>3, <2>4, Zenon
<1> QED
  BY <1>1, <1>2, Zenon DEF FiniteSetFacts

USE FiniteSetsHold

\* At first only the profiler refers to the log, and every string is the program's.
LEMMA InitExact ==
  Init => LogObjectsInv
<1> SUFFICES ASSUME Init PROVE LogObjectsInv
  OBVIOUS
<1>1. /\ \A s : {fr \in frames : fr[1] = s} = {}
      /\ \A e : {i \in active : iterators[i].z_current = e} = {}
      /\ active = {} /\ live = {}
  BY DEF Init, active, live, is_free, freed, no_iterator
<1>2. Cardinality({}) = 0 /\ IsFiniteSet({})
  BY FS_EmptySet
<1>3. TypeOK
  BY LogObjectsAssumption DEF Init, TypeOK, freed, no_iterator, Strings, NULL
<1>4. RefsExact
  <2>1. \A e \in Objects : one(z_current = e) = 0
    BY LogObjectsAssumption DEF Init, one, NULL
  <2>2. \A e \in Objects : objects[e].refs = 0 /\ entry_vars[e] = 0
    BY DEF Init, freed
  <2>3. log_refs = one(profiling) + log_vars + Cardinality(active) + Cardinality(live)
    BY <1>1, <1>2 DEF Init, one
  <2>4. \A e \in Objects :
          objects[e].refs = entry_vars[e] + one(z_current = e)
                            + Cardinality({i \in active : iterators[i].z_current = e})
    <3> TAKE e \in Objects
    <3>1. Cardinality({i \in active : iterators[i].z_current = e}) = 0
      BY <1>1, <1>2
    <3> QED
      BY <2>1, <2>2, <3>1
  <2> QED
    BY <1>3, <2>3, <2>4, Zenon DEF RefsExact
<1>5. EntriesExact
  BY <1>1 DEF Init, EntriesExact
<1>6. StringsInMemory
  <2>1. \A s : delref(s) = 0
    BY <1>1, <1>2 DEF delref
  <2> QED
    BY <2>1 DEF Init, StringsInMemory, one, Strings
<1> QED
  BY <1>2, <1>4, <1>5, <1>6 DEF LogObjectsInv, Init

\* The frames that are counted for a string are a finite set.
LEMMA FramesOf ==
  ASSUME NEW F, IsFiniteSet(F), NEW s
  PROVE  /\ IsFiniteSet({fr \in F : fr[1] = s})
         /\ Cardinality({fr \in F : fr[1] = s}) \in Nat
<1>1. {fr \in F : fr[1] = s} \in SUBSET F
  OBVIOUS
<1> QED
  BY <1>1, FS_Subset, FS_CardinalityType

\* The profiler adds an entry, with references to the strings of the frames that are new.
LEMMA LogAdd ==
  ASSUME LogObjectsInv, NEW f \in Functions, NEW line \in Lines, NEW truncated \in BOOLEAN,
         log_add(f, line, truncated)
  PROVE  LogObjectsInv'
<1> DEFINE trace == {<<f, line>>} \cup IF truncated THEN {<<Marker, 1>>} ELSE {}
<1>1. /\ profiling /\ entries_size < MaxEntries /\ f \in compiled
      /\ entries_size' = entries_size + 1 /\ frames' = frames \cup trace
      /\ string_refs' = addref(trace)
      /\ memory' = IF truncated THEN memory \cup {Marker} ELSE memory
      /\ UNCHANGED <<log_refs, iter_entry_index, z_current, objects, iterators, profiling, log_vars,
                     entry_vars, compiled>>
  BY DEF log_add, iterVars, phpVars
<1>2. /\ TypeOK /\ RefsExact /\ EntriesExact /\ StringsInMemory /\ compiled \subseteq memory
      /\ IsFiniteSet(frames)
  BY DEF LogObjectsInv, RefsExact
<1>3. \A fr \in trace : /\ fr \in Strings \X (Lines \cup {1})
                        /\ fr[1] = f \/ (truncated /\ fr[1] = Marker)
  BY DEF Strings
<1>4. IsFiniteSet(trace)
  <2>1. trace = IF truncated THEN {<<f, line>>, <<Marker, 1>>} ELSE {<<f, line>>}
    OBVIOUS
  <2> HIDE DEF trace
  <2>2. IsFiniteSet({<<f, line>>}) /\ IsFiniteSet({<<Marker, 1>>})
    BY FS_Singleton, Zenon
  <2>3. IsFiniteSet({<<f, line>>} \cup {<<Marker, 1>>})
    BY <2>2, FS_Union, Zenon
  <2>4. {<<f, line>>} \cup {<<Marker, 1>>} = {<<f, line>>, <<Marker, 1>>}
    OBVIOUS
  <2> QED
    BY <2>1, <2>2, <2>3, <2>4
<1> HIDE DEF trace
<1>5. IsFiniteSet(frames')
  BY <1>1, <1>2, <1>4, FS_Union, Zenon
<1>6. ASSUME NEW s \in Strings
      PROVE  /\ string_refs'[s] = one(s \in compiled') + delref(s)'
             /\ string_refs'[s] \in Nat
  <2> DEFINE A == {fr \in frames : fr[1] = s}
             B == {fr \in trace \ frames : fr[1] = s}
  <2>1. IsFiniteSet(trace \ frames)
    BY <1>4, FS_Difference, Zenon
  <2>2. /\ IsFiniteSet(A) /\ Cardinality(A) \in Nat
        /\ IsFiniteSet(B) /\ Cardinality(B) \in Nat
    BY <1>2, <2>1, FramesOf, Zenon
  <2>3. A \cap B = {} /\ A \cup B = {fr \in frames' : fr[1] = s}
    BY <1>1
  <2>4. string_refs'[s] = string_refs[s] + Cardinality(B)
    BY <1>1 DEF addref
  <2>5. string_refs[s] = one(s \in compiled) + Cardinality(A)
    BY <1>2 DEF StringsInMemory, delref
  <2> HIDE DEF A, B
  <2>6. Cardinality(A \cup B) = Cardinality(A) + Cardinality(B)
    <3>1. /\ Cardinality(A \cup B) = Cardinality(A) + Cardinality(B) - Cardinality(A \cap B)
          /\ Cardinality({}) = 0
      BY <2>2, FS_Union, FS_EmptySet
    <3>2. Cardinality(A \cap B) = 0
      BY <2>3, <3>1, Zenon
    <3>3. \A a, b, c \in Int : c = 0 => a + b - c = a + b
      OBVIOUS
    <3> QED
      BY <2>2, <3>1, <3>2, <3>3
  <2>7. delref(s)' = Cardinality(A \cup B)
    BY <2>3, Zenon DEF delref
  <2>8. one(s \in compiled) \in Nat /\ compiled' = compiled
    BY <1>1 DEF one
  <2> QED
    BY <2>2, <2>4, <2>5, <2>6, <2>7, <2>8
<1>7. log_refs' > 0
  <2>1. /\ log_refs = one(profiling) + log_vars + Cardinality(active) + Cardinality(live)
        /\ log_vars \in Nat
    BY <1>2, LogObjectsAssumption DEF RefsExact, TypeOK
  <2>2. /\ one(profiling) = 1 /\ Cardinality(active) \in Nat /\ Cardinality(live) \in Nat
    <3>1. active \in SUBSET Iterators /\ live \in SUBSET Objects
      BY DEF active, live
    <3> QED
      BY <1>1, <3>1, FS_Subset, FS_CardinalityType, LogObjectsAssumption, Zenon DEF one
  <2>3. \A a, b, c \in Nat : 1 + a + b + c > 0
    OBVIOUS
  <2>4. log_refs > 0
    BY <2>1, <2>2, <2>3
  <2> QED
    BY <1>1, <2>4
<1>8. StringsInMemory'
  <2>1. \A fr \in frames' : fr[1] \in memory'
    BY <1>1, <1>2, <1>3 DEF StringsInMemory
  <2> QED
    BY <1>6, <1>7, <2>1 DEF StringsInMemory
<1>9. TypeOK'
  <2>1. string_refs' \in [Strings -> Nat]
    BY <1>1, <1>6, Zenon DEF addref
  <2>2. frames' \subseteq Strings \X (Lines \cup {1})
    BY <1>1, <1>2, <1>3 DEF TypeOK
  <2>3. entries_size' \in 0..MaxEntries
    BY <1>1, <1>2, LogObjectsAssumption DEF TypeOK
  <2>4. memory' \subseteq Strings
    BY <1>1, <1>2 DEF TypeOK, Strings
  <2> QED
    BY <1>1, <1>2, <2>1, <2>2, <2>3, <2>4, Zenon DEF TypeOK
<1>10. RefsExact'
  BY <1>1, <1>2, <1>9, ZenonT(40) DEF RefsExact, active, live, is_free
<1>11. EntriesExact'
  <2>1. live' = live /\ active' = active /\ entries_size \in Nat
    BY <1>1, <1>2, LogObjectsAssumption DEF live, active, is_free, TypeOK
  <2>2. \A e \in live : objects[e].index \in Nat
    BY <1>2 DEF live, TypeOK
  <2>3. \A i \in active : iterators[i].index \in Nat
    BY <1>2 DEF active, TypeOK
  <2>4. iter_entry_index \in Nat
    BY <1>2, LogObjectsAssumption DEF TypeOK
  <2> QED
    BY <1>1, <1>2, <2>1, <2>2, <2>3, <2>4 DEF EntriesExact, is_free, valid, iterator_valid
<1>12. compiled' \subseteq memory'
  BY <1>1, <1>2
<1> QED
  BY <1>5, <1>8, <1>10, <1>11, <1>12, Zenon DEF LogObjectsInv

\* The program discards a function: its string stays if a frame has it.
LEMMA Discard ==
  ASSUME LogObjectsInv, NEW f \in Functions, discard(f)
  PROVE  LogObjectsInv'
<1>1. /\ f \in compiled /\ compiled' = compiled \ {f}
      /\ string_refs' = [string_refs EXCEPT ![f] = @ - 1]
      /\ memory' = IF string_refs[f] = 1 THEN memory \ {f} ELSE memory
      /\ UNCHANGED <<entries_size, frames, log_refs, iter_entry_index, z_current, objects, iterators,
                     profiling, log_vars, entry_vars>>
  BY DEF discard, iterVars
<1>2. /\ TypeOK /\ RefsExact /\ EntriesExact /\ StringsInMemory /\ compiled \subseteq memory
      /\ IsFiniteSet(frames) /\ f \in Strings
  BY DEF LogObjectsInv, RefsExact, Strings
<1>3. \A s : delref(s) \in Nat /\ delref(s)' = delref(s)
  BY <1>1, <1>2, FramesOf, Zenon DEF delref
<1>4. ASSUME NEW s \in Strings
      PROVE  /\ string_refs'[s] = one(s \in compiled') + delref(s)'
             /\ string_refs'[s] \in Nat
  <2>1. string_refs[s] = one(s \in compiled) + delref(s)
    BY <1>2 DEF StringsInMemory
  <2>2. CASE s = f
    <3>1. one(s \in compiled) = 1 /\ one(s \in compiled') = 0
      BY <1>1, <2>2 DEF one
    <3>2. string_refs'[s] = string_refs[s] - 1
      BY <1>1, <1>2, <2>2 DEF TypeOK
    <3> QED
      BY <1>3, <2>1, <3>1, <3>2
  <2>3. CASE s # f
    <3>1. one(s \in compiled) = one(s \in compiled') /\ one(s \in compiled) \in Nat
      BY <1>1, <2>3 DEF one
    <3>2. string_refs'[s] = string_refs[s]
      BY <1>1, <1>2, <2>3 DEF TypeOK
    <3> QED
      BY <1>3, <2>1, <3>1, <3>2
  <2> QED
    BY <2>2, <2>3
<1>5. \A fr \in frames : fr[1] \in memory'
  <2> SUFFICES ASSUME NEW fr \in frames, fr[1] = f PROVE string_refs[f] # 1
    BY <1>1, <1>2 DEF StringsInMemory
  <2>1. IsFiniteSet({x \in frames : x[1] = f}) /\ fr \in {x \in frames : x[1] = f}
    BY <1>2, FramesOf
  <2>2. delref(f) > 0
    BY <2>1, HasOne DEF delref
  <2>3. string_refs[f] = 1 + delref(f)
    BY <1>1, <1>2 DEF StringsInMemory, one
  <2> QED
    BY <1>3, <2>2, <2>3
<1>6. StringsInMemory'
  BY <1>1, <1>2, <1>4, <1>5, Zenon DEF StringsInMemory
<1>7. TypeOK'
  <2>1. string_refs' \in [Strings -> Nat]
    BY <1>1, <1>2, <1>4 DEF TypeOK
  <2> QED
    BY <1>1, <1>2, <2>1 DEF TypeOK
<1>8. RefsExact'
  BY <1>1, <1>2, <1>7 DEF RefsExact, active, live, is_free
<1>9. EntriesExact'
  BY <1>1, <1>2, Zenon DEF EntriesExact, active, live, is_free, valid, iterator_valid
<1>10. compiled' \subseteq memory' /\ IsFiniteSet(frames')
  BY <1>1, <1>2
<1> QED
  BY <1>6, <1>8, <1>9, <1>10 DEF LogObjectsInv

\* Every function keeps the invariant.
LEMMA NextExact ==
  LogObjectsInv /\ [Next]_vars => LogObjectsInv'
<1> SUFFICES ASSUME LogObjectsInv, [Next]_vars PROVE LogObjectsInv'
  OBVIOUS
<1>1. ASSUME NEW f \in Functions, NEW line \in Lines, NEW truncated \in BOOLEAN,
             log_add(f, line, truncated)
      PROVE  LogObjectsInv'
  BY <1>1, LogAdd
<1>2. ASSUME NEW f \in Functions, discard(f) PROVE LogObjectsInv'
  BY <1>2, Discard
<1>3. CASE profiler_lets_go \/ assign_log \/ unset_log
  BY <1>3, LogVariables
<1>4. CASE next \/ rewind
  BY <1>4, OwnIterator
<1>5. ASSUME NEW e \in Objects, unset_entry(e) PROVE LogObjectsInv'
  BY <1>5, UnsetEntry
<1>6. ASSUME NEW e \in Objects, current(e) PROVE LogObjectsInv'
  BY <1>6, Current
<1>7. ASSUME NEW e \in Objects, NEW offset \in -1..MaxEntries, offsetGet(e, offset)
      PROVE  LogObjectsInv'
  BY <1>7, OffsetGet
<1>8. ASSUME NEW i \in Iterators, NEW e \in Objects, iterator_get_current_data(i, e)
      PROVE  LogObjectsInv'
  BY <1>8, CurrentData
<1>9. ASSUME NEW i \in Iterators, get_iterator(i) PROVE LogObjectsInv'
  BY <1>9, GetIterator
<1>10. ASSUME NEW i \in Iterators,
              iterator_move_forward(i) \/ iterator_rewind(i) \/ iterator_invalidate_current(i)
       PROVE  LogObjectsInv'
  <2>1. /\ iterators[i].active =>
             iterators[i].index \in Nat /\ iterators[i].index <= entries_size
        /\ entries_size \in Nat
    BY Facts DEF Active
  <2>2. \E n \in Nat : n <= entries_size /\ iterator_to(i, n)
    <3>1. CASE iterator_move_forward(i)
      <4> DEFINE n == IF iterator_valid(i) THEN iterators[i].index + 1 ELSE iterators[i].index
      <4>1. iterator_to(i, n) /\ iterators[i].active
        BY <3>1 DEF iterator_move_forward, iterator_to
      <4>2. n \in Nat /\ n <= entries_size
        BY <2>1, <4>1 DEF iterator_valid
      <4> HIDE DEF n
      <4> QED
        BY <4>1, <4>2
    <3>2. CASE iterator_rewind(i)
      BY <2>1, <3>2 DEF iterator_rewind
    <3>3. CASE iterator_invalidate_current(i)
      <4>1. iterator_to(i, iterators[i].index) /\ iterators[i].active
        BY <3>3 DEF iterator_invalidate_current, iterator_to
      <4> QED
        BY <2>1, <4>1
    <3> QED
      BY <1>10, <3>1, <3>2, <3>3
  <2> QED
    BY <2>2, IteratorTo
<1>11. ASSUME NEW i \in Iterators, iterator_dtor(i) PROVE LogObjectsInv'
  BY <1>11, IteratorDtor
<1>12. CASE UNCHANGED vars
  <2>1. UNCHANGED <<entries_size, frames, string_refs, memory, log_refs, iter_entry_index, z_current,
                    objects, iterators, profiling, log_vars, entry_vars, compiled>>
    BY <1>12 DEF vars, iterVars, stringVars, phpVars
  <2>2. TypeOK /\ RefsExact /\ EntriesExact /\ StringsInMemory
    BY DEF LogObjectsInv, RefsExact
  <2>3. TypeOK'
    BY <2>1, <2>2 DEF TypeOK
  <2>4. live' = live /\ active' = active
    BY <2>1 DEF live, active, is_free
  <2>5. RefsExact'
    BY <2>1, <2>2, <2>3, <2>4 DEF RefsExact
  <2>6. EntriesExact'
    BY <2>1, <2>2, <2>4 DEF EntriesExact, is_free, valid, iterator_valid
  <2>7. StringsInMemory'
    BY <2>1, <2>2, Zenon DEF StringsInMemory, delref
  <2> QED
    BY <2>1, <2>5, <2>6, <2>7 DEF LogObjectsInv
<1> QED
  BY <1>1, <1>2, <1>3, <1>4, <1>5, <1>6, <1>7, <1>8, <1>9, <1>10, <1>11, <1>12 DEF Next

\* The reference counts that assignment, unset, foreach and the iterators keep for the log
\* and for each entry object are the number of places that refer to it.
THEOREM ReferencesAreExact == Spec => []RefsExact
<1>1. LogObjectsInv => RefsExact
  BY DEF LogObjectsInv
<1> QED
  BY <1>1, InitExact, NextExact, PTL DEF Spec

\* An entry object is for an entry of a log that exists, and the entry that current() or
\* foreach has cached is the entry of key().
THEOREM EntriesAreExact == Spec => []EntriesExact
<1>1. LogObjectsInv => EntriesExact
  BY Zenon DEF LogObjectsInv
<1> QED
  BY <1>1, InitExact, NextExact, PTL DEF Spec

\* The strings of the frames outlive the functions of the program, as long as anything
\* refers to the log, and are counted exactly.
THEOREM StringsStayInMemory == Spec => []StringsInMemory
<1>1. LogObjectsInv => StringsInMemory
  BY DEF LogObjectsInv
<1> QED
  BY <1>1, InitExact, NextExact, PTL DEF Spec
===================================================================================
