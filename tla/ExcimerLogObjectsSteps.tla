-------------------------- MODULE ExcimerLogObjectsSteps --------------------------
(***************************************************************************)
(* Each step of ExcimerLogObjects that changes references keeps the        *)
(* reference counts exact and the cached entries right.  What the proofs   *)
(* need of finite sets is FiniteSetFacts.                                  *)
(***************************************************************************)
EXTENDS ExcimerLogObjects, Integers, TLAPS

\* The live objects of a heap, the active iterators, and those with e cached.
Live(objs) == {e \in Objects : objs[e].refs # 0}
Active(its) == {i \in Iterators : its[i].active}
Holders(its, e) == {i \in Iterators : its[i].active /\ its[i].z_current = e}

ObjectTable == [Objects -> [refs : Nat, index : Nat]]
IteratorTable ==
  [Iterators -> [active : BOOLEAN, index : Nat, z_current : Objects \cup {NULL}]]

\* The inductive invariant: the properties themselves, and that a function that the
\* program has keeps its string.
LogObjectsInv ==
  /\ RefsExact /\ EntriesExact /\ StringsInMemory
  /\ compiled \subseteq memory /\ IsFiniteSet(frames)

\* Sizes of finite sets, and of sets that differ in an element.  ExcimerLogObjectsProofs
\* has this from the theorems about finite sets.
FiniteSetFacts ==
  /\ IsFiniteSet({}) /\ Cardinality({}) = 0
  /\ \A S : IsFiniteSet(S) =>
        /\ Cardinality(S) \in Nat /\ (Cardinality(S) = 0 => S = {})
        /\ \A T \in SUBSET S : IsFiniteSet(T)
        /\ \A x \in S : Cardinality(S \ {x}) = Cardinality(S) - 1
        /\ \A x : x \notin S => Cardinality(S \cup {x}) = Cardinality(S) + 1

\* A finite set that changes at one element only.
LEMMA CountOne ==
  ASSUME FiniteSetFacts,
         NEW S, IsFiniteSet(S), NEW x \in S, NEW A, NEW B, A \subseteq S, B \subseteq S,
         \A y \in S : y # x => (y \in A <=> y \in B)
  PROVE  /\ Cardinality(A) \in Nat /\ Cardinality(B) \in Nat
         /\ Cardinality(B) = Cardinality(A) - one(x \in A) + one(x \in B)
<1>1. IsFiniteSet(A) /\ IsFiniteSet(B) /\ Cardinality(A) \in Nat /\ Cardinality(B) \in Nat
  BY DEF FiniteSetFacts
<1>2. CASE x \in A /\ x \in B
  <2>1. A = B
    BY <1>2
  <2> QED
    BY <1>1, <1>2, <2>1 DEF one
<1>3. CASE x \notin A /\ x \notin B
  <2>1. A = B
    BY <1>3
  <2> QED
    BY <1>1, <1>3, <2>1 DEF one
<1>4. CASE x \in A /\ x \notin B
  <2>1. B = A \ {x}
    BY <1>4
  <2>2. Cardinality(A \ {x}) = Cardinality(A) - 1
    BY <1>1, <1>4, Zenon DEF FiniteSetFacts
  <2> QED
    BY <1>1, <1>4, <2>1, <2>2 DEF one
<1>5. CASE x \notin A /\ x \in B
  <2>1. B = A \cup {x}
    BY <1>5
  <2>2. Cardinality(A \cup {x}) = Cardinality(A) + 1
    BY <1>1, <1>5, Zenon DEF FiniteSetFacts
  <2> QED
    BY <1>1, <1>5, <2>1, <2>2 DEF one
<1> QED
  BY <1>2, <1>3, <1>4, <1>5

\* The counts are numbers.
LEMMA Sizes ==
  ASSUME FiniteSetFacts, NEW objs, NEW its, NEW e
  PROVE  /\ IsFiniteSet(Live(objs)) /\ Cardinality(Live(objs)) \in Nat
         /\ IsFiniteSet(Active(its)) /\ Cardinality(Active(its)) \in Nat
         /\ IsFiniteSet(Holders(its, e)) /\ Cardinality(Holders(its, e)) \in Nat
<1>1. /\ Live(objs) \in SUBSET Objects /\ Active(its) \in SUBSET Iterators
      /\ Holders(its, e) \in SUBSET Iterators
  BY DEF Live, Active, Holders
<1> QED
  BY <1>1, LogObjectsAssumption DEF FiniteSetFacts

\* How often an iterator counts: for the log, and for the entry object e.
Counts(it) == IF it.active THEN 1 ELSE 0
Caches(it, e) == IF it.active /\ it.z_current = e THEN 1 ELSE 0

\* One iterator changes.
LEMMA IteratorChanges ==
  ASSUME FiniteSetFacts,
         NEW its, NEW new, NEW i \in Iterators, \A j \in Iterators : j # i => new[j] = its[j]
  PROVE  /\ Cardinality(Active(new)) = Cardinality(Active(its)) - Counts(its[i]) + Counts(new[i])
         /\ \A e : Cardinality(Holders(new, e)) =
                     Cardinality(Holders(its, e)) - Caches(its[i], e) + Caches(new[i], e)
<1>1. IsFiniteSet(Iterators)
  BY LogObjectsAssumption
<1>2. Cardinality(Active(new)) = Cardinality(Active(its)) - one(i \in Active(its))
                                                          + one(i \in Active(new))
  <2>1. /\ Active(its) \subseteq Iterators /\ Active(new) \subseteq Iterators
        /\ \A y \in Iterators : y # i => (y \in Active(its) <=> y \in Active(new))
    BY DEF Active
  <2> QED
    BY <1>1, <2>1, CountOne
<1>3. ASSUME NEW e
      PROVE  Cardinality(Holders(new, e)) = Cardinality(Holders(its, e)) - one(i \in Holders(its, e))
                                                                       + one(i \in Holders(new, e))
  <2>1. /\ Holders(its, e) \subseteq Iterators /\ Holders(new, e) \subseteq Iterators
        /\ \A y \in Iterators : y # i => (y \in Holders(its, e) <=> y \in Holders(new, e))
    BY DEF Holders
  <2> QED
    BY <1>1, <2>1, CountOne
<1>4. one(i \in Active(its)) = Counts(its[i]) /\ one(i \in Active(new)) = Counts(new[i])
  BY DEF Active, one, Counts
<1>5. \A e : /\ one(i \in Holders(its, e)) = Caches(its[i], e)
             /\ one(i \in Holders(new, e)) = Caches(new[i], e)
  BY DEF Holders, one, Caches
<1> QED
  BY <1>2, <1>3, <1>4, <1>5

\* One object changes.
LEMMA ObjectChanges ==
  ASSUME FiniteSetFacts,
         NEW objs \in ObjectTable, NEW e \in Objects, NEW r \in [refs : Nat, index : Nat]
  PROVE  LET new == [objs EXCEPT ![e] = r] IN
         /\ new \in ObjectTable
         /\ new[e] = r /\ \A d \in Objects : d # e => new[d] = objs[d]
         /\ Cardinality(Live(new)) =
               Cardinality(Live(objs)) - one(objs[e].refs # 0) + one(r.refs # 0)
<1> DEFINE new == [objs EXCEPT ![e] = r]
<1>1. new \in ObjectTable /\ new[e] = r /\ \A d \in Objects : d # e => new[d] = objs[d]
  BY DEF ObjectTable
<1> HIDE DEF new
<1>2. Cardinality(Live(new)) =
        Cardinality(Live(objs)) - one(e \in Live(objs)) + one(e \in Live(new))
  <2>1. /\ Live(objs) \subseteq Objects /\ Live(new) \subseteq Objects
        /\ \A y \in Objects : y # e => (y \in Live(objs) <=> y \in Live(new))
    BY <1>1 DEF Live
  <2>2. IsFiniteSet(Objects)
    BY LogObjectsAssumption
  <2> QED
    BY <2>1, <2>2, CountOne
<1>3. /\ one(e \in Live(objs)) = one(objs[e].refs # 0)
      /\ one(e \in Live(new)) = one(r.refs # 0)
  BY <1>1 DEF Live, one
<1> QED
  BY <1>1, <1>2, <1>3 DEF new

\* A heap.
IsHeap(h) == h = [log |-> h.log, objects |-> h.objects] /\ h.log \in Int /\ h.objects \in ObjectTable

\* The references to the log that are not those of entry objects.
Surplus(h) == h.log - Cardinality(Live(h.objects))

\* zval_ptr_dtor takes one reference to the object away; with the last one the object
\* goes, and its reference to the log.
LEMMA Release ==
  ASSUME FiniteSetFacts, NEW h, IsHeap(h), NEW e \in Objects, h.objects[e].refs # 0
  PROVE  LET g == zval_ptr_dtor(h, e) IN
         /\ IsHeap(g) /\ Surplus(g) = Surplus(h)
         /\ g.objects[e].refs = h.objects[e].refs - 1
         /\ g.objects[e].refs # 0 => g.objects[e].index = h.objects[e].index
         /\ \A d \in Objects : d # e => g.objects[d] = h.objects[d]
<1>1. /\ h.objects \in ObjectTable /\ h.log \in Int
      /\ h.objects[e].refs \in Nat /\ h.objects[e].index \in Nat
  BY DEF IsHeap, ObjectTable
<1>2. e # NULL
  BY LogObjectsAssumption DEF NULL
<1>3. \A objs : Cardinality(Live(objs)) \in Nat
  BY Sizes
<1>4. CASE h.objects[e].refs = 1
  <2> DEFINE o == [h.objects EXCEPT ![e] = freed]
  <2>1. zval_ptr_dtor(h, e) = [log |-> h.log - 1, objects |-> o]
    BY <1>2, <1>4 DEF zval_ptr_dtor
  <2>2. freed \in [refs : Nat, index : Nat] /\ freed.refs = 0
    BY DEF freed
  <2>3. /\ o \in ObjectTable /\ o[e] = freed /\ \A d \in Objects : d # e => o[d] = h.objects[d]
        /\ Cardinality(Live(o)) =
             Cardinality(Live(h.objects)) - one(h.objects[e].refs # 0) + one(freed.refs # 0)
    BY <1>1, <2>2, ObjectChanges
  <2>4. Cardinality(Live(o)) = Cardinality(Live(h.objects)) - 1
    BY <1>3, <1>4, <2>2, <2>3 DEF one
  <2> HIDE DEF o
  <2> QED
    BY <1>1, <1>3, <1>4, <2>1, <2>2, <2>3, <2>4 DEF IsHeap, Surplus
<1>5. CASE h.objects[e].refs # 1
  <2> DEFINE r == [refs |-> h.objects[e].refs - 1, index |-> h.objects[e].index]
             o == [h.objects EXCEPT ![e] = r]
  <2>1. zval_ptr_dtor(h, e) = [log |-> h.log, objects |-> o]
    <3>1. h.objects[e] = [refs |-> h.objects[e].refs, index |-> h.objects[e].index]
      BY DEF IsHeap, ObjectTable
    <3>2. [h.objects[e] EXCEPT !.refs = @ - 1] = r
      BY <3>1
    <3> QED
      BY <1>2, <1>5, <3>2 DEF zval_ptr_dtor, IsHeap
  <2>2. r \in [refs : Nat, index : Nat] /\ r.refs # 0 /\ r.refs = h.objects[e].refs - 1
        /\ r.index = h.objects[e].index
    BY <1>1, <1>5
  <2> HIDE DEF r
  <2>3. /\ o \in ObjectTable /\ o[e] = r /\ \A d \in Objects : d # e => o[d] = h.objects[d]
        /\ Cardinality(Live(o)) =
             Cardinality(Live(h.objects)) - one(h.objects[e].refs # 0) + one(r.refs # 0)
    BY <1>1, <2>2, ObjectChanges
  <2>4. Cardinality(Live(o)) = Cardinality(Live(h.objects))
    BY <1>3, <2>2, <2>3 DEF one
  <2> HIDE DEF o
  <2> QED
    BY <1>1, <1>3, <2>1, <2>2, <2>3, <2>4 DEF IsHeap, Surplus
<1> QED
  BY <1>4, <1>5

\* ExcimerLog_init_entry makes an object with a reference to the log.
LEMMA Initialise ==
  ASSUME FiniteSetFacts, NEW h, IsHeap(h), NEW e \in Objects, h.objects[e].refs = 0, NEW n \in Nat
  PROVE  LET g == init_entry(h, e, n) IN
         /\ IsHeap(g) /\ Surplus(g) = Surplus(h)
         /\ g.objects[e] = [refs |-> 1, index |-> n]
         /\ \A d \in Objects : d # e => g.objects[d] = h.objects[d]
<1> DEFINE r == [refs |-> 1, index |-> n]
           o == [h.objects EXCEPT ![e] = r]
<1>1. h.objects \in ObjectTable /\ h.log \in Int
  BY DEF IsHeap
<1>2. r \in [refs : Nat, index : Nat] /\ r.refs = 1
  OBVIOUS
<1>3. init_entry(h, e, n) = [log |-> h.log + 1, objects |-> o]
  BY DEF init_entry
<1>4. Cardinality(Live(o)) \in Nat /\ Cardinality(Live(h.objects)) \in Nat
  BY Sizes
<1> HIDE DEF r
<1>5. /\ o \in ObjectTable /\ o[e] = r /\ \A d \in Objects : d # e => o[d] = h.objects[d]
      /\ Cardinality(Live(o)) =
           Cardinality(Live(h.objects)) - one(h.objects[e].refs # 0) + one(r.refs # 0)
  BY <1>1, <1>2, ObjectChanges
<1>6. Cardinality(Live(o)) = Cardinality(Live(h.objects)) + 1
  BY <1>2, <1>4, <1>5 DEF one
<1> HIDE DEF o
<1>7. IsHeap(init_entry(h, e, n)) /\ Surplus(init_entry(h, e, n)) = Surplus(h)
  BY <1>1, <1>3, <1>4, <1>5, <1>6 DEF IsHeap, Surplus
<1> QED
  BY <1>3, <1>5, <1>7 DEF r

\* RETURN_ZVAL of an object that is live.
LEMMA Addref ==
  ASSUME FiniteSetFacts, NEW h, IsHeap(h), NEW e \in Objects, h.objects[e].refs # 0
  PROVE  LET g == [h EXCEPT !.objects[e].refs = @ + 1] IN
         /\ IsHeap(g) /\ Surplus(g) = Surplus(h)
         /\ g.objects[e].refs = h.objects[e].refs + 1
         /\ g.objects[e].index = h.objects[e].index
         /\ \A d \in Objects : d # e => g.objects[d] = h.objects[d]
<1> DEFINE r == [refs |-> h.objects[e].refs + 1, index |-> h.objects[e].index]
           o == [h.objects EXCEPT ![e] = r]
           g == [h EXCEPT !.objects[e].refs = @ + 1]
<1>1. /\ h.objects \in ObjectTable /\ h.log \in Int
      /\ h.objects[e].refs \in Nat /\ h.objects[e].index \in Nat
      /\ h.objects[e] = [refs |-> h.objects[e].refs, index |-> h.objects[e].index]
  BY DEF IsHeap, ObjectTable
<1>2. /\ r \in [refs : Nat, index : Nat] /\ r.refs # 0
      /\ r.refs = h.objects[e].refs + 1 /\ r.index = h.objects[e].index
  BY <1>1
<1>3. g = [log |-> h.log, objects |-> o]
  <2>1. [h.objects[e] EXCEPT !.refs = @ + 1] = r
    BY <1>1
  <2> QED
    BY <2>1 DEF IsHeap
<1>4. Cardinality(Live(o)) \in Nat /\ Cardinality(Live(h.objects)) \in Nat
  BY Sizes
<1> HIDE DEF r, g
<1>5. /\ o \in ObjectTable /\ o[e] = r /\ \A d \in Objects : d # e => o[d] = h.objects[d]
      /\ Cardinality(Live(o)) =
           Cardinality(Live(h.objects)) - one(h.objects[e].refs # 0) + one(r.refs # 0)
  BY <1>1, <1>2, ObjectChanges
<1>6. Cardinality(Live(o)) = Cardinality(Live(h.objects))
  BY <1>2, <1>4, <1>5 DEF one
<1> HIDE DEF o
<1>7. /\ IsHeap(g) /\ Surplus(g) = Surplus(h)
      /\ g.objects[e].refs = h.objects[e].refs + 1
      /\ g.objects[e].index = h.objects[e].index
      /\ \A d \in Objects : d # e => g.objects[d] = h.objects[d]
  BY <1>1, <1>2, <1>3, <1>4, <1>5, <1>6 DEF IsHeap, Surplus
<1> QED
  BY <1>7 DEF g

\* A finite set with an element has a positive size.
LEMMA HasOne ==
  ASSUME FiniteSetFacts, NEW S, IsFiniteSet(S), NEW x \in S
  PROVE  Cardinality(S) \in Nat /\ Cardinality(S) > 0
<1>1. Cardinality(S) \in Nat /\ Cardinality(S) # 0
  BY DEF FiniteSetFacts
<1> QED
  BY <1>1

\* The strings, when only references to objects change: the log goes with its last one.
LEMMA StringsKept ==
  ASSUME FiniteSetFacts, LogObjectsInv, NEW g, Heap(g), g.log \in Nat, compiled' = compiled
  PROVE  /\ StringsInMemory' /\ compiled' \subseteq memory' /\ IsFiniteSet(frames')
         /\ frames' \subseteq Strings \X (Lines \cup {1}) /\ string_refs' \in [Strings -> Nat]
         /\ memory' \subseteq Strings /\ compiled' \subseteq Functions
<1>1. /\ TypeOK /\ StringsInMemory /\ compiled \subseteq memory /\ IsFiniteSet(frames)
      /\ log_refs \in Nat /\ log_refs' = g.log
  BY DEF LogObjectsInv, RefsExact, TypeOK, Heap
<1>2. CASE g.log = 0 /\ log_refs > 0
  <2>1. frames' = {} /\ memory' = memory
        /\ string_refs' = [s \in Strings |-> string_refs[s] - delref(s)]
    BY <1>2 DEF Heap, excimer_log_destroy
  <2>2. \A s : delref(s) \in Nat
    <3>1. \A s : {fr \in frames : fr[1] = s} \in SUBSET frames
      OBVIOUS
    <3> QED
      BY <1>1, <3>1 DEF FiniteSetFacts, delref
  <2>3. \A s \in Strings : string_refs'[s] = one(s \in compiled)
    BY <1>1, <2>1, <2>2 DEF StringsInMemory, one
  <2>4. \A s : delref(s)' = 0
    <3>1. \A s : {fr \in frames' : fr[1] = s} = {}
      BY <2>1
    <3> QED
      BY <3>1, Zenon DEF FiniteSetFacts, delref
  <2>5. StringsInMemory'
    BY <2>1, <2>3, <2>4 DEF StringsInMemory, one
  <2>6. string_refs' \in [Strings -> Nat]
    BY <2>1, <2>3 DEF one
  <2> QED
    BY <1>1, <2>1, <2>5, <2>6 DEF FiniteSetFacts, TypeOK
<1>3. CASE ~ (g.log = 0 /\ log_refs > 0)
  <2>1. UNCHANGED <<frames, string_refs, memory>>
    BY <1>3 DEF Heap, stringVars
  <2>2. \A fr \in frames : log_refs' > 0
    BY <1>1, <1>3 DEF StringsInMemory
  <2>3. StringsInMemory'
    BY <1>1, <2>1, <2>2, Zenon DEF StringsInMemory, delref, one
  <2> QED
    BY <1>1, <2>1, <2>3 DEF TypeOK
<1> QED
  BY <1>2, <1>3

\* The reference counts of the heap g are those of the references: whether the profiler
\* has one, n variables with the log, ev with each object, the cached z and its iterators.
Exact(g, p, n, ev, z, its) ==
  /\ p \in BOOLEAN /\ n \in 0..MaxVars /\ ev \in [Objects -> 0..MaxVars]
  /\ z \in Objects \cup {NULL} /\ its \in IteratorTable
  /\ Surplus(g) = one(p) + n + Cardinality(Active(its))
  /\ \A e \in Objects : g.objects[e].refs = ev[e] + one(z = e) + Cardinality(Holders(its, e))

\* The objects of the heap g are for entries that exist, and the cached ones are for the
\* entry where their iterator is: z for the log's own at index ix, and those of its.
Cached(g, ix, z, its) ==
  /\ ix \in 0..entries_size
  /\ \A e \in Objects : g.objects[e].refs # 0 => g.objects[e].index < entries_size
  /\ z # NULL => /\ g.objects[z].refs # 0 => g.objects[z].index = ix
                 /\ ix < entries_size
  /\ \A i \in Active(its) :
        /\ its[i].index <= entries_size
        /\ its[i].z_current # NULL =>
              /\ g.objects[its[i].z_current].refs # 0 =>
                    g.objects[its[i].z_current].index = its[i].index
              /\ its[i].index < entries_size

\* What a function that changes references has to show: that the reference counts of the
\* heap it leaves are those of the references it leaves, and that the cached entries are
\* those of the iterators.
LEMMA HeapKeeps ==
  ASSUME FiniteSetFacts, LogObjectsInv, NEW g, IsHeap(g), Heap(g),
         compiled' = compiled, entries_size' = entries_size,
         Exact(g, profiling', log_vars', entry_vars', z_current', iterators'),
         Cached(g, iter_entry_index', z_current', iterators')
  PROVE  LogObjectsInv'
<1>0. /\ Surplus(g) = one(profiling') + log_vars' + Cardinality(Active(iterators'))
      /\ \A e \in Objects :
            /\ g.objects[e].refs = entry_vars'[e] + one(z_current' = e)
                                   + Cardinality(Holders(iterators', e))
            /\ g.objects[e].refs # 0 => g.objects[e].index < entries_size
      /\ profiling' \in BOOLEAN /\ log_vars' \in 0..MaxVars
      /\ entry_vars' \in [Objects -> 0..MaxVars]
      /\ iter_entry_index' \in 0..entries_size /\ z_current' \in Objects \cup {NULL}
      /\ z_current' # NULL =>
            /\ g.objects[z_current'].refs # 0 => g.objects[z_current'].index = iter_entry_index'
            /\ iter_entry_index' < entries_size
      /\ iterators' \in IteratorTable
      /\ \A i \in Active(iterators') :
            /\ iterators'[i].index <= entries_size
            /\ iterators'[i].z_current # NULL =>
                  /\ g.objects[iterators'[i].z_current].refs # 0 =>
                        g.objects[iterators'[i].z_current].index = iterators'[i].index
                  /\ iterators'[i].index < entries_size
  BY DEF Exact, Cached
<1>1. /\ log_refs' = g.log /\ objects' = g.objects
      /\ objects' \in ObjectTable /\ g.log \in Int
  BY DEF Heap, IsHeap
<1>2. /\ Cardinality(Live(objects')) \in Nat /\ IsFiniteSet(Live(objects'))
      /\ Cardinality(Active(iterators')) \in Nat
      /\ \A e : Cardinality(Holders(iterators', e)) \in Nat /\ IsFiniteSet(Holders(iterators', e))
  BY Sizes
<1>3. /\ live' = Live(objects') /\ active' = Active(iterators')
      /\ \A e : {i \in active : iterators[i].z_current = e}' = Holders(iterators', e)
  BY DEF live, Live, active, Active, Holders, is_free
<1>4. \A b : one(b) \in {0, 1}
  BY DEF one
<1>5. MaxVars \in Nat /\ entries_size \in 0..MaxEntries /\ MaxEntries \in Nat
  BY LogObjectsAssumption, Zenon DEF LogObjectsInv, RefsExact, TypeOK
<1>6. /\ log_refs' \in Nat
      /\ log_refs' = one(profiling') + log_vars' + Cardinality(active') + Cardinality(live')
  BY <1>0, <1>1, <1>2, <1>3, <1>4, <1>5 DEF Surplus
<1>7. /\ StringsInMemory' /\ compiled' \subseteq memory' /\ IsFiniteSet(frames')
      /\ frames' \subseteq Strings \X (Lines \cup {1}) /\ string_refs' \in [Strings -> Nat]
      /\ memory' \subseteq Strings /\ compiled' \subseteq Functions
  BY <1>1, <1>6, StringsKept, Zenon
<1>8. TypeOK'
  <2>1. entries_size' \in 0..MaxEntries /\ iter_entry_index' \in 0..MaxEntries
    BY <1>0, <1>5
  <2> QED
    BY <1>0, <1>1, <1>6, <1>7, <2>1, Zenon DEF TypeOK, ObjectTable, IteratorTable
<1>9. RefsExact'
  <2>1. \A e \in Objects :
          objects'[e].refs = entry_vars'[e] + one(z_current' = e)
                             + Cardinality({i \in active : iterators[i].z_current = e}')
    <3> TAKE e \in Objects
    <3>1. {i \in active : iterators[i].z_current = e}' = Holders(iterators', e)
      BY <1>3, Zenon
    <3>2. objects'[e].refs = entry_vars'[e] + one(z_current' = e) + Cardinality(Holders(iterators', e))
      BY <1>0, <1>1, Zenon
    <3> QED
      BY <3>1, <3>2, Zenon
  <2>2. \A e \in Objects :
          (objects[e].refs = entry_vars[e] + one(z_current = e)
                             + Cardinality({i \in active : iterators[i].z_current = e}))'
    BY <2>1
  <2>3. (log_refs = one(profiling) + log_vars + Cardinality(active) + Cardinality(live))'
    BY <1>6, Zenon
  <2> QED
    BY <1>8, <2>2, <2>3 DEF RefsExact
<1>10. \A e \in Objects : z_current' = e => objects'[e].refs # 0
  BY <1>0, <1>1, <1>2, <1>4, <1>5 DEF one
<1>11. ASSUME NEW i \in Active(iterators'), iterators'[i].z_current # NULL
       PROVE  /\ iterators'[i].z_current \in Objects
              /\ objects'[iterators'[i].z_current].refs # 0
  <2> DEFINE e == iterators'[i].z_current
  <2>1. e \in Objects /\ i \in Holders(iterators', e)
    BY <1>0, <1>11 DEF IteratorTable, Active, Holders
  <2> HIDE DEF e
  <2>2. Cardinality(Holders(iterators', e)) > 0
    BY <1>2, <2>1, HasOne, Zenon
  <2>3. objects'[e].refs # 0
    BY <1>0, <1>1, <1>2, <1>4, <1>5, <2>1, <2>2
  <2> QED
    BY <2>1, <2>3, Zenon DEF e
<1>12. \A e \in live' : log_refs' > 0 /\ objects'[e].index < entries_size'
  <2>1. ASSUME NEW e \in live' PROVE log_refs' > 0
    <3>1. Cardinality(live') > 0
      BY <1>2, <1>3, HasOne, Zenon
    <3> QED
      BY <1>0, <1>2, <1>3, <1>4, <1>5, <1>6, <3>1
  <2> QED
    BY <1>0, <1>1, <1>3, <2>1, Zenon DEF Live
<1>13. z_current' # NULL => /\ ~is_free(z_current)' /\ valid'
                            /\ objects'[z_current'].index = iter_entry_index'
  BY <1>0, <1>1, <1>10, Zenon DEF is_free, valid
<1>14. \A i \in active' :
          /\ iterators'[i].index <= entries_size'
          /\ iterators'[i].z_current # NULL =>
                /\ objects'[iterators'[i].z_current].refs # 0
                /\ objects'[iterators'[i].z_current].index = iterators'[i].index
                /\ iterators'[i].index < entries_size'
  BY <1>0, <1>1, <1>3, <1>11, Zenon
<1>15. iter_entry_index' <= entries_size'
  BY <1>0, <1>5
<1>16. EntriesExact'
  BY <1>12, <1>13, <1>14, <1>15, Zenon DEF EntriesExact, is_free, iterator_valid
<1> QED
  BY <1>7, <1>9, <1>16, Zenon DEF LogObjectsInv

\* The inductive invariant in the terms of the lemmas above.
LEMMA Facts ==
  ASSUME FiniteSetFacts, LogObjectsInv
  PROVE  /\ IsHeap(heap) /\ heap.objects = objects /\ heap.log = log_refs
         /\ Surplus(heap) = one(profiling) + log_vars + Cardinality(Active(iterators))
         /\ \A e \in Objects :
               /\ objects[e].refs = entry_vars[e] + one(z_current = e)
                                    + Cardinality(Holders(iterators, e))
               /\ objects[e].refs \in Nat /\ objects[e].index \in Nat
               /\ objects[e].refs # 0 => objects[e].index < entries_size
         /\ profiling \in BOOLEAN /\ log_vars \in 0..MaxVars
         /\ entry_vars \in [Objects -> 0..MaxVars] /\ entries_size \in 0..MaxEntries
         /\ iter_entry_index \in 0..entries_size /\ z_current \in Objects \cup {NULL}
         /\ z_current # NULL =>
               /\ objects[z_current].refs # 0
               /\ objects[z_current].index = iter_entry_index
               /\ iter_entry_index < entries_size
         /\ iterators \in IteratorTable
         /\ \A i \in Active(iterators) :
               /\ iterators[i].index \in Nat /\ iterators[i].index <= entries_size
               /\ iterators[i].z_current # NULL =>
                     /\ objects[iterators[i].z_current].refs # 0
                     /\ objects[iterators[i].z_current].index = iterators[i].index
                     /\ iterators[i].index < entries_size
         /\ MaxVars \in Nat /\ MaxEntries \in Nat
<1>1. /\ live = Live(objects) /\ active = Active(iterators)
      /\ \A e : {i \in active : iterators[i].z_current = e} = Holders(iterators, e)
  BY DEF live, Live, active, Active, Holders, is_free
<1>2. TypeOK /\ MaxVars \in Nat /\ MaxEntries \in Nat
  BY LogObjectsAssumption DEF LogObjectsInv, RefsExact
<1>3. IsHeap(heap) /\ heap.objects = objects /\ heap.log = log_refs
  BY <1>2 DEF IsHeap, heap, TypeOK, ObjectTable
<1>4. Cardinality(Live(objects)) \in Nat /\ Cardinality(Active(iterators)) \in Nat
  BY Sizes
<1>5. Surplus(heap) = one(profiling) + log_vars + Cardinality(Active(iterators))
  <2>1. log_refs = one(profiling) + log_vars + Cardinality(Active(iterators))
                   + Cardinality(Live(objects))
    BY <1>1 DEF LogObjectsInv, RefsExact
  <2>2. one(profiling) \in Nat /\ log_vars \in Nat
    BY <1>2 DEF one, TypeOK
  <2> QED
    BY <1>3, <1>4, <2>1, <2>2 DEF Surplus
<1>6. \A e \in Objects :
         /\ objects[e].refs = entry_vars[e] + one(z_current = e)
                              + Cardinality(Holders(iterators, e))
         /\ objects[e].refs \in Nat /\ objects[e].index \in Nat
  BY <1>1, <1>2 DEF LogObjectsInv, RefsExact, TypeOK
<1>7. \A e \in Objects : objects[e].refs # 0 => objects[e].index < entries_size
  BY <1>1 DEF LogObjectsInv, EntriesExact, Live
<1>8. z_current # NULL =>
         /\ objects[z_current].refs # 0
         /\ objects[z_current].index = iter_entry_index
         /\ iter_entry_index < entries_size
  BY DEF LogObjectsInv, EntriesExact, is_free, valid
<1>9. iterators \in IteratorTable
  BY <1>2, Zenon DEF TypeOK, IteratorTable
<1>10. \A i \in Active(iterators) :
         /\ iterators[i].index \in Nat /\ iterators[i].index <= entries_size
         /\ iterators[i].z_current # NULL =>
               /\ objects[iterators[i].z_current].refs # 0
               /\ objects[iterators[i].z_current].index = iterators[i].index
               /\ iterators[i].index < entries_size
  <2>1. \A i \in Active(iterators) : iterators[i].index \in Nat
    BY <1>9 DEF IteratorTable, Active
  <2> QED
    BY <1>1, <2>1 DEF LogObjectsInv, EntriesExact, is_free, iterator_valid
<1>11. iter_entry_index \in 0..entries_size
  BY <1>2 DEF LogObjectsInv, EntriesExact, TypeOK
<1> QED
  BY <1>2, <1>3, <1>5, <1>6, <1>7, <1>8, <1>9, <1>10, <1>11, Zenon DEF TypeOK

\* The numbers among them, and that an entry object is not the null pointer.
LEMMA Numbers ==
  ASSUME FiniteSetFacts, LogObjectsInv
  PROVE  /\ log_vars \in Nat /\ entries_size \in Nat /\ iter_entry_index \in Nat
         /\ \A e \in Objects : entry_vars[e] \in Nat /\ e # NULL
<1>1. log_vars \in Nat /\ entries_size \in Nat /\ iter_entry_index \in Nat
  BY Facts
<1>2. \A e \in Objects : entry_vars[e] \in Nat
  BY Facts
<1>3. \A e \in Objects : e # NULL
  BY LogObjectsAssumption DEF NULL
<1> QED
  BY <1>1, <1>2, <1>3, Zenon

\* A reference to the log more or less.
LEMMA LogCount ==
  ASSUME FiniteSetFacts, NEW h, IsHeap(h)
  PROVE  /\ LET g == [h EXCEPT !.log = @ + 1] IN
            IsHeap(g) /\ Surplus(g) = Surplus(h) + 1 /\ g.objects = h.objects
         /\ LET g == [h EXCEPT !.log = @ - 1] IN
            IsHeap(g) /\ Surplus(g) = Surplus(h) - 1 /\ g.objects = h.objects
<1>1. /\ [h EXCEPT !.log = @ + 1] = [log |-> h.log + 1, objects |-> h.objects]
      /\ [h EXCEPT !.log = @ - 1] = [log |-> h.log - 1, objects |-> h.objects]
      /\ h.log \in Int /\ h.objects \in ObjectTable
  BY DEF IsHeap
<1>2. Cardinality(Live(h.objects)) \in Nat
  BY Sizes, Zenon
<1> QED
  BY <1>1, <1>2 DEF IsHeap, Surplus

\* Objects that keep their index leave the cached entries of an iterator what they are.
LEMMA CachesKept ==
  ASSUME FiniteSetFacts, LogObjectsInv, NEW g,
         \A d \in Objects :
            /\ g.objects[d].refs # 0 => g.objects[d].index < entries_size
            /\ g.objects[d].refs # 0 /\ objects[d].refs # 0 =>
                  g.objects[d].index = objects[d].index
  PROVE  Cached(g, iter_entry_index, z_current, iterators)
<1>1. z_current # NULL => z_current \in Objects
  BY Facts, Zenon
<1>2. \A i \in Active(iterators) : iterators[i].z_current # NULL => iterators[i].z_current \in Objects
  BY Facts, Zenon DEF IteratorTable, Active
<1>3. z_current # NULL =>
        /\ g.objects[z_current].refs # 0 => g.objects[z_current].index = iter_entry_index
        /\ iter_entry_index < entries_size
  BY <1>1, Facts, Zenon
<1>4. \A i \in Active(iterators) :
        /\ iterators[i].index <= entries_size
        /\ iterators[i].z_current # NULL =>
              /\ g.objects[iterators[i].z_current].refs # 0 =>
                    g.objects[iterators[i].z_current].index = iterators[i].index
              /\ iterators[i].index < entries_size
  BY <1>2, Facts, Zenon
<1>5. iter_entry_index \in 0..entries_size
  BY Facts, Zenon
<1> QED
  BY <1>3, <1>4, <1>5, Zenon DEF Cached

\* The references of the profiler and of PHP variables to the log.
LEMMA LogVariables ==
  ASSUME FiniteSetFacts, LogObjectsInv, profiler_lets_go \/ assign_log \/ unset_log
  PROVE  LogObjectsInv'
<1>1. Cardinality(Active(iterators)) \in Nat
  BY Sizes
<1>2. /\ UNCHANGED <<entries_size, iter_entry_index, z_current, iterators, entry_vars, compiled>>
  BY Zenon DEF profiler_lets_go, assign_log, unset_log, iterVars
<1>3. /\ Surplus(heap) = one(profiling) + log_vars + Cardinality(Active(iterators))
      /\ IsHeap(heap) /\ profiling \in BOOLEAN /\ log_vars \in Nat /\ MaxVars \in Nat
      /\ log_vars \in 0..MaxVars
  BY Facts, Numbers, Zenon
<1>4. \E g : /\ IsHeap(g) /\ Heap(g) /\ g.objects = heap.objects
             /\ profiling' \in BOOLEAN /\ log_vars' \in 0..MaxVars
             /\ Surplus(g) = one(profiling') + log_vars' + Cardinality(Active(iterators))
  <2>1. CASE profiler_lets_go
    <3> DEFINE g == [heap EXCEPT !.log = @ - 1]
    <3>1. Heap(g) /\ profiling = TRUE /\ profiling' = FALSE /\ log_vars' = log_vars
      BY <1>3, <2>1 DEF profiler_lets_go
    <3>2. IsHeap(g) /\ Surplus(g) = Surplus(heap) - 1 /\ g.objects = heap.objects
      BY <1>3, LogCount, Zenon
    <3> HIDE DEF g
    <3>3. Surplus(g) = one(profiling') + log_vars' + Cardinality(Active(iterators))
      BY <1>1, <1>3, <3>1, <3>2 DEF one
    <3> QED
      BY <1>3, <3>1, <3>2, <3>3, Zenon
  <2>2. CASE assign_log
    <3> DEFINE g == [heap EXCEPT !.log = @ + 1]
    <3>1. /\ Heap(g) /\ profiling' = profiling /\ log_vars < MaxVars
          /\ log_vars' = log_vars + 1
      BY <2>2 DEF assign_log
    <3>2. IsHeap(g) /\ Surplus(g) = Surplus(heap) + 1 /\ g.objects = heap.objects
      BY <1>3, LogCount, Zenon
    <3> HIDE DEF g
    <3>3. Surplus(g) = one(profiling') + log_vars' + Cardinality(Active(iterators))
      BY <1>1, <1>3, <3>1, <3>2 DEF one
    <3> QED
      BY <1>3, <3>1, <3>2, <3>3
  <2>3. CASE unset_log
    <3> DEFINE g == [heap EXCEPT !.log = @ - 1]
    <3>1. /\ Heap(g) /\ profiling' = profiling /\ log_vars > 0 /\ log_vars' = log_vars - 1
      BY <2>3 DEF unset_log
    <3>2. IsHeap(g) /\ Surplus(g) = Surplus(heap) - 1 /\ g.objects = heap.objects
      BY <1>3, LogCount, Zenon
    <3> HIDE DEF g
    <3>3. Surplus(g) = one(profiling') + log_vars' + Cardinality(Active(iterators))
      BY <1>1, <1>3, <3>1, <3>2 DEF one
    <3> QED
      BY <1>3, <3>1, <3>2, <3>3
  <2> QED
    BY <2>1, <2>2, <2>3
<1>5. PICK g : /\ IsHeap(g) /\ Heap(g) /\ g.objects = heap.objects
               /\ profiling' \in BOOLEAN /\ log_vars' \in 0..MaxVars
               /\ Surplus(g) = one(profiling') + log_vars' + Cardinality(Active(iterators))
  BY <1>4
<1>6. g.objects = objects /\ \A d \in Objects : objects[d].refs # 0 => objects[d].index < entries_size
  BY <1>5, Facts
<1>7. Cached(g, iter_entry_index, z_current, iterators)
  BY <1>6, CachesKept
<1>8. Exact(g, profiling', log_vars', entry_vars, z_current, iterators)
  BY <1>5, <1>6, Facts DEF Exact
<1> QED
  BY <1>2, <1>5, <1>7, <1>8, HeapKeeps

\* unset of a variable with an entry object.
LEMMA UnsetEntry ==
  ASSUME FiniteSetFacts, LogObjectsInv, NEW e \in Objects, unset_entry(e)
  PROVE  LogObjectsInv'
<1> DEFINE g == zval_ptr_dtor(heap, e)
<1>1. /\ UNCHANGED <<entries_size, iter_entry_index, z_current, iterators, profiling, log_vars,
                     compiled>>
      /\ entry_vars[e] > 0 /\ entry_vars' = [entry_vars EXCEPT ![e] = @ - 1] /\ Heap(g)
  BY DEF unset_entry, iterVars
<1>2. Cardinality(Active(iterators)) \in Nat /\ \A d : Cardinality(Holders(iterators, d)) \in Nat
  BY Sizes
<1>3. \A b : one(b) \in {0, 1}
  BY Zenon DEF one
<1>4. heap.objects[e].refs # 0
  BY <1>1, <1>2, <1>3, Facts
<1>5. /\ IsHeap(g) /\ Surplus(g) = Surplus(heap)
      /\ g.objects[e].refs = objects[e].refs - 1
      /\ g.objects[e].refs # 0 => g.objects[e].index = objects[e].index
      /\ \A d \in Objects : d # e => g.objects[d] = objects[d]
  BY <1>4, Facts, Release
<1> HIDE DEF g
<1>6. /\ entry_vars' \in [Objects -> 0..MaxVars] /\ entry_vars'[e] = entry_vars[e] - 1
      /\ \A d \in Objects : d # e => entry_vars'[d] = entry_vars[d]
  BY <1>1, Facts
<1>7. \A d \in Objects :
        /\ g.objects[d].refs = entry_vars'[d] + one(z_current' = d)
                               + Cardinality(Holders(iterators', d))
        /\ g.objects[d].refs # 0 => g.objects[d].index < entries_size
  <2> SUFFICES ASSUME NEW d \in Objects
               PROVE  /\ g.objects[d].refs = entry_vars'[d] + one(z_current = d)
                                             + Cardinality(Holders(iterators, d))
                      /\ g.objects[d].refs # 0 => g.objects[d].index < entries_size
    BY <1>1, Zenon
  <2>1. /\ objects[d].refs = entry_vars[d] + one(z_current = d) + Cardinality(Holders(iterators, d))
        /\ entry_vars[d] \in Nat /\ objects[d].refs \in Nat
        /\ objects[d].refs # 0 => objects[d].index < entries_size
    BY Facts, Numbers, Zenon
  <2>2. CASE d = e
    <3>1. g.objects[e].refs = entry_vars'[e] + one(z_current = e) + Cardinality(Holders(iterators, e))
      BY <1>2, <1>3, <1>5, <1>6, <2>1, <2>2
    <3>2. objects[e].refs # 0
      BY <1>4, Facts, Zenon
    <3> QED
      BY <1>5, <2>1, <2>2, <3>1, <3>2, Zenon
  <2>3. CASE d # e
    BY <1>5, <1>6, <2>1, <2>3, Zenon
  <2> QED
    BY <2>2, <2>3, Zenon
<1>8. \A d \in Objects : g.objects[d].refs # 0 => g.objects[d].index = objects[d].index
  BY <1>5, Zenon
<1>9. Cached(g, iter_entry_index, z_current, iterators)
  BY <1>7, <1>8, CachesKept, Zenon
<1>10. Exact(g, profiling, log_vars, entry_vars', z_current, iterators)
  BY <1>1, <1>5, <1>6, <1>7, Facts, Zenon DEF Exact
<1> QED
  BY <1>1, <1>5, <1>9, <1>10, HeapKeeps, Zenon

\* zval_ptr_dtor of what a zval holds, if it holds an object.
LEMMA ReleaseCached ==
  ASSUME FiniteSetFacts,
         NEW h, IsHeap(h), NEW e \in Objects \cup {NULL}, e # NULL => h.objects[e].refs # 0,
         NEW g, g = zval_ptr_dtor(h, e)
  PROVE  /\ IsHeap(g) /\ Surplus(g) = Surplus(h)
         /\ \A d \in Objects :
               /\ g.objects[d].refs = h.objects[d].refs - one(d = e)
               /\ g.objects[d].refs # 0 => g.objects[d].index = h.objects[d].index
<1>1. \A d \in Objects : h.objects[d].refs \in Nat
  BY Zenon DEF IsHeap, ObjectTable
<1>2. CASE e = NULL
  <2>1. g = h /\ \A d \in Objects : d # e
    BY <1>2, LogObjectsAssumption DEF zval_ptr_dtor, NULL
  <2>2. \A d \in Objects : one(d = e) = 0
    BY <2>1 DEF one
  <2>3. IsHeap(g) /\ Surplus(g) = Surplus(h)
    BY <2>1
  <2>4. \A d \in Objects : g.objects[d].refs = h.objects[d].refs - one(d = e)
    BY <1>1, <2>1, <2>2
  <2>5. \A d \in Objects : g.objects[d].index = h.objects[d].index
    BY <2>1, Zenon
  <2> QED
    BY <2>3, <2>4, <2>5, Zenon
<1>3. CASE e # NULL
  <2>1. /\ IsHeap(g) /\ Surplus(g) = Surplus(h)
        /\ g.objects[e].refs = h.objects[e].refs - 1
        /\ g.objects[e].refs # 0 => g.objects[e].index = h.objects[e].index
        /\ \A d \in Objects : d # e => g.objects[d] = h.objects[d]
    BY <1>3, Release, Zenon
  <2>2. \A d \in Objects : g.objects[d].refs = h.objects[d].refs - one(d = e)
    BY <1>1, <2>1 DEF one
  <2> QED
    BY <2>1, <2>2, Zenon
<1> QED
  BY <1>2, <1>3, Zenon

\* next and rewind: the cached entry goes, and the index moves.
LEMMA OwnIterator ==
  ASSUME FiniteSetFacts, LogObjectsInv, next \/ rewind
  PROVE  LogObjectsInv'
<1> DEFINE g == zval_ptr_dtor(heap, z_current)
<1>1. /\ UNCHANGED <<entries_size, iterators, profiling, log_vars, entry_vars, compiled>>
      /\ z_current' = NULL /\ Heap(g)
  BY DEF next, rewind, phpVars
<1>2. iter_entry_index' \in 0..entries_size
  <2>1. iter_entry_index \in 0..entries_size /\ entries_size \in Nat
    BY Facts, Numbers, Zenon
  <2> QED
    BY <2>1 DEF next, rewind, valid
<1>3. /\ IsHeap(g) /\ Surplus(g) = Surplus(heap)
      /\ \A d \in Objects :
            /\ g.objects[d].refs = objects[d].refs - one(d = z_current)
            /\ g.objects[d].refs # 0 => g.objects[d].index = objects[d].index
  BY Facts, ReleaseCached
<1> HIDE DEF g
<1>4. \A d \in Objects :
        /\ g.objects[d].refs = entry_vars'[d] + one(z_current' = d)
                               + Cardinality(Holders(iterators', d))
        /\ g.objects[d].refs # 0 => g.objects[d].index < entries_size
  <2> SUFFICES ASSUME NEW d \in Objects
               PROVE  /\ g.objects[d].refs = entry_vars[d] + one(NULL = d)
                                             + Cardinality(Holders(iterators, d))
                      /\ g.objects[d].refs # 0 => g.objects[d].index < entries_size
    BY <1>1, Zenon
  <2>1. /\ objects[d].refs = entry_vars[d] + one(z_current = d) + Cardinality(Holders(iterators, d))
        /\ entry_vars[d] \in Nat /\ objects[d].refs \in Nat
        /\ objects[d].refs # 0 => objects[d].index < entries_size
    BY Facts, Numbers, Zenon
  <2>2. Cardinality(Holders(iterators, d)) \in Nat
    BY Sizes
  <2>3. /\ one(NULL = d) = 0 /\ one(d = z_current) = one(z_current = d) /\ one(d = z_current) \in {0, 1}
    BY LogObjectsAssumption, Zenon DEF one, NULL
  <2>4. /\ g.objects[d].refs = objects[d].refs - one(d = z_current)
        /\ g.objects[d].refs # 0 => g.objects[d].index = objects[d].index
    BY <1>3, Zenon
  <2>5. g.objects[d].refs = entry_vars[d] + one(NULL = d) + Cardinality(Holders(iterators, d))
    BY <2>1, <2>2, <2>3, <2>4
  <2>6. g.objects[d].refs # 0 => objects[d].refs # 0
    BY <2>1, <2>2, <2>3, <2>4, <2>5
  <2> QED
    BY <2>1, <2>4, <2>5, <2>6, Zenon
<1>5. Cached(g, iter_entry_index, z_current, iterators)
  BY <1>3, <1>4, CachesKept, Zenon
<1>6. Cached(g, iter_entry_index', NULL, iterators)
  BY <1>2, <1>5, Zenon DEF Cached
<1>7. Exact(g, profiling, log_vars, entry_vars, NULL, iterators)
  BY <1>1, <1>3, <1>4, Facts, Zenon DEF Exact
<1> QED
  BY <1>1, <1>3, <1>6, <1>7, HeapKeeps, Zenon

\* Nothing refers to an address where there is no object.
LEMMA FreeIsUnreferenced ==
  ASSUME FiniteSetFacts, LogObjectsInv, NEW e \in Objects, is_free(e)
  PROVE  /\ entry_vars[e] = 0 /\ z_current # e /\ Cardinality(Holders(iterators, e)) = 0
         /\ \A i \in Active(iterators) : iterators[i].z_current # e
<1>1. /\ objects[e].refs = entry_vars[e] + one(z_current = e) + Cardinality(Holders(iterators, e))
      /\ entry_vars[e] \in Nat /\ objects[e].refs = 0
  BY Facts DEF is_free
<1>2. /\ Cardinality(Holders(iterators, e)) \in Nat /\ IsFiniteSet(Holders(iterators, e))
      /\ one(z_current = e) \in Nat
  BY Sizes, Zenon DEF one
<1>3. /\ entry_vars[e] = 0 /\ Cardinality(Holders(iterators, e)) = 0 /\ one(z_current = e) = 0
  BY <1>1, <1>2
<1>4. \A i \in Active(iterators) : iterators[i].z_current # e
  BY <1>2, <1>3, HasOne DEF Active, Holders
<1> QED
  BY <1>3, <1>4 DEF one

\* A new object at e, cached by an iterator, goes to a variable too.
LEMMA NewToVariable ==
  ASSUME FiniteSetFacts, LogObjectsInv, NEW e \in Objects, is_free(e), NEW n \in Nat,
         to_variable(init_entry(heap, e, n), e)
  PROVE  \E g : /\ IsHeap(g) /\ Heap(g) /\ Surplus(g) = Surplus(heap)
                /\ g.objects[e].refs = 2 /\ g.objects[e].index = n
                /\ \A d \in Objects : d # e => g.objects[d] = objects[d]
                /\ entry_vars[e] = 0
                /\ entry_vars' \in [Objects -> 0..MaxVars] /\ entry_vars'[e] = 1
                /\ \A d \in Objects : d # e => entry_vars'[d] = entry_vars[d]
<1> DEFINE h == init_entry(heap, e, n)
           g == [h EXCEPT !.objects[e].refs = @ + 1]
<1>1. /\ IsHeap(h) /\ Surplus(h) = Surplus(heap)
      /\ h.objects[e] = [refs |-> 1, index |-> n]
      /\ \A d \in Objects : d # e => h.objects[d] = objects[d]
  BY Facts, Initialise DEF is_free
<1>2. /\ Heap(g) /\ entry_vars[e] < MaxVars /\ entry_vars' = [entry_vars EXCEPT ![e] = @ + 1]
  BY Zenon DEF to_variable
<1> HIDE DEF h
<1>3. /\ IsHeap(g) /\ Surplus(g) = Surplus(heap)
      /\ g.objects[e].refs = 2 /\ g.objects[e].index = n
      /\ \A d \in Objects : d # e => g.objects[d] = objects[d]
  <2>1. h.objects[e].refs = 1 /\ h.objects[e].index = n
    <3>1. h.objects[e] = [refs |-> 1, index |-> n]
      BY <1>1, Zenon
    <3> QED
      BY <3>1
  <2>2. /\ IsHeap(g) /\ Surplus(g) = Surplus(h)
        /\ g.objects[e].refs = h.objects[e].refs + 1
        /\ g.objects[e].index = h.objects[e].index
        /\ \A d \in Objects : d # e => g.objects[d] = h.objects[d]
    BY <1>1, <2>1, Addref
  <2> HIDE DEF g
  <2>3. g.objects[e].refs = 2
    BY <2>1, <2>2
  <2> QED
    BY <1>1, <2>1, <2>2, <2>3, ZenonT(40)
<1>4. entry_vars[e] = 0
  BY FreeIsUnreferenced
<1>5. /\ entry_vars' \in [Objects -> 0..MaxVars] /\ entry_vars'[e] = 1
      /\ \A d \in Objects : d # e => entry_vars'[d] = entry_vars[d]
  BY <1>2, <1>4, Facts
<1> HIDE DEF g
<1> QED
  BY <1>2, <1>3, <1>4, <1>5, Zenon

\* An object that a cached entry refers to goes to a variable.
LEMMA CachedToVariable ==
  ASSUME FiniteSetFacts, LogObjectsInv, NEW e \in Objects, ~is_free(e), to_variable(heap, e)
  PROVE  \E g : /\ IsHeap(g) /\ Heap(g) /\ Surplus(g) = Surplus(heap)
                /\ g.objects[e].refs = objects[e].refs + 1
                /\ g.objects[e].index = objects[e].index
                /\ \A d \in Objects : d # e => g.objects[d] = objects[d]
                /\ entry_vars' \in [Objects -> 0..MaxVars] /\ entry_vars'[e] = entry_vars[e] + 1
                /\ \A d \in Objects : d # e => entry_vars'[d] = entry_vars[d]
<1> DEFINE g == [heap EXCEPT !.objects[e].refs = @ + 1]
<1>1. /\ Heap(g) /\ entry_vars[e] < MaxVars /\ entry_vars' = [entry_vars EXCEPT ![e] = @ + 1]
  BY DEF to_variable
<1>2. /\ IsHeap(g) /\ Surplus(g) = Surplus(heap)
      /\ g.objects[e].refs = objects[e].refs + 1
      /\ g.objects[e].index = objects[e].index
      /\ \A d \in Objects : d # e => g.objects[d] = objects[d]
  BY Facts, Addref DEF is_free
<1> HIDE DEF g
<1>3. /\ entry_vars' \in [Objects -> 0..MaxVars] /\ entry_vars'[e] = entry_vars[e] + 1
      /\ \A d \in Objects : d # e => entry_vars'[d] = entry_vars[d]
  BY <1>1, Facts
<1> QED
  BY <1>1, <1>2, <1>3

\* current, with a new entry object or with the cached one.
LEMMA Current ==
  ASSUME FiniteSetFacts, LogObjectsInv, NEW e \in Objects, current(e)
  PROVE  LogObjectsInv'
<1>1. UNCHANGED <<entries_size, iter_entry_index, iterators, profiling, log_vars, compiled>>
  BY Zenon DEF current
<1>2. \A d \in Objects :
        /\ objects[d].refs = entry_vars[d] + one(z_current = d) + Cardinality(Holders(iterators, d))
        /\ entry_vars[d] \in Nat /\ Cardinality(Holders(iterators, d)) \in Nat
        /\ objects[d].refs \in Nat
        /\ objects[d].refs # 0 => objects[d].index < entries_size
  BY Facts, Numbers, Sizes, Zenon
<1>3. e # NULL
  BY LogObjectsAssumption DEF NULL
<1>4. CASE z_current = NULL /\ valid /\ is_free(e) /\ z_current' = e
           /\ to_variable(init_entry(heap, e, iter_entry_index), e)
  <2>1. iter_entry_index \in Nat /\ iter_entry_index < entries_size
    <3>1. entries_size \in 0..MaxEntries /\ iter_entry_index \in 0..entries_size /\ MaxEntries \in Nat
      BY Facts, Zenon
    <3>2. iter_entry_index < entries_size
      BY <1>4, Zenon DEF valid
    <3> QED
      BY <3>1, <3>2
  <2>2. PICK g : /\ IsHeap(g) /\ Heap(g) /\ Surplus(g) = Surplus(heap)
                 /\ g.objects[e].refs = 2 /\ g.objects[e].index = iter_entry_index
                 /\ \A d \in Objects : d # e => g.objects[d] = objects[d]
                 /\ entry_vars[e] = 0
                 /\ entry_vars' \in [Objects -> 0..MaxVars] /\ entry_vars'[e] = 1
                 /\ \A d \in Objects : d # e => entry_vars'[d] = entry_vars[d]
    BY <1>4, <2>1, NewToVariable, Zenon
  <2>3. /\ Cardinality(Holders(iterators, e)) = 0
        /\ \A i \in Active(iterators) : iterators[i].z_current # e
    BY <1>4, FreeIsUnreferenced, Zenon
  <2>4. \A d \in Objects :
          /\ g.objects[d].refs = entry_vars'[d] + one(e = d) + Cardinality(Holders(iterators, d))
          /\ g.objects[d].refs # 0 => g.objects[d].index < entries_size
    <3> TAKE d \in Objects
    <3>1. CASE d = e
      <4>1. /\ g.objects[d].refs = 2 /\ g.objects[d].index = iter_entry_index
            /\ entry_vars'[d] = 1 /\ Cardinality(Holders(iterators, d)) = 0
        BY <2>2, <2>3, <3>1, Zenon
      <4>2. one(e = d) = 1
        BY <3>1, Zenon DEF one
      <4> QED
        BY <2>1, <4>1, <4>2
    <3>2. CASE d # e
      <4>1. one(z_current = d) = 0 /\ one(e = d) = 0
        BY <1>4, <3>2, LogObjectsAssumption, Zenon DEF one, NULL
      <4>2. g.objects[d] = objects[d] /\ entry_vars'[d] = entry_vars[d]
        BY <2>2, <3>2, Zenon
      <4>3. /\ objects[d].refs = entry_vars[d] + one(z_current = d) + Cardinality(Holders(iterators, d))
            /\ objects[d].refs # 0 => objects[d].index < entries_size
        BY <1>2, Zenon
      <4> QED
        BY <4>1, <4>2, <4>3, Zenon
    <3> QED
      BY <3>1, <3>2, Zenon
  <2>5. \A d \in Objects : g.objects[d].refs # 0 /\ objects[d].refs # 0 =>
                             g.objects[d].index = objects[d].index
    BY <1>4, <2>2, Zenon DEF is_free
  <2>6. Cached(g, iter_entry_index, z_current, iterators)
    BY <2>4, <2>5, CachesKept, Zenon
  <2>7. Cached(g, iter_entry_index, e, iterators)
    BY <2>1, <2>2, <2>6, Zenon DEF Cached
  <2>8. Exact(g, profiling, log_vars, entry_vars', e, iterators)
    BY <2>2, <2>4, Facts, Zenon DEF Exact
  <2> QED
    BY <1>1, <1>4, <2>2, <2>7, <2>8, HeapKeeps, Zenon
<1>5. CASE z_current = e /\ to_variable(heap, e) /\ UNCHANGED z_current
  <2>1. PICK g : /\ IsHeap(g) /\ Heap(g) /\ Surplus(g) = Surplus(heap)
                 /\ g.objects[e].refs = objects[e].refs + 1
                 /\ g.objects[e].index = objects[e].index
                 /\ \A d \in Objects : d # e => g.objects[d] = objects[d]
                 /\ entry_vars' \in [Objects -> 0..MaxVars] /\ entry_vars'[e] = entry_vars[e] + 1
                 /\ \A d \in Objects : d # e => entry_vars'[d] = entry_vars[d]
    <3>1. ~is_free(e)
      BY <1>3, <1>5, Facts, Zenon DEF is_free
    <3> QED
      BY <1>5, <3>1, CachedToVariable, Zenon
  <2>2. \A d \in Objects :
          /\ g.objects[d].refs = entry_vars'[d] + one(z_current = d)
                                 + Cardinality(Holders(iterators, d))
          /\ g.objects[d].refs # 0 => g.objects[d].index < entries_size
    <3> TAKE d \in Objects
    <3>1. one(z_current = d) \in {0, 1}
      BY Zenon DEF one
    <3>2. CASE d = e
      <4>1. objects[e].refs # 0
        BY <1>3, <1>5, Facts, ZenonT(40)
      <4>2. g.objects[d].refs = entry_vars'[d] + one(z_current = d) + Cardinality(Holders(iterators, d))
        BY <1>2, <2>1, <3>1, <3>2
      <4> QED
        BY <1>2, <2>1, <3>2, <4>1, <4>2, Zenon
    <3>3. CASE d # e
      BY <1>2, <2>1, <3>3, Zenon
    <3> QED
      BY <3>2, <3>3, Zenon
  <2>3. \A d \in Objects : g.objects[d].index = objects[d].index
    BY <2>1, Zenon
  <2>4. Cached(g, iter_entry_index, z_current, iterators)
    BY <2>2, <2>3, CachesKept, Zenon
  <2>5. Exact(g, profiling, log_vars, entry_vars', z_current, iterators)
    BY <2>1, <2>2, Facts, Zenon DEF Exact
  <2> QED
    BY <1>1, <1>5, <2>1, <2>4, <2>5, HeapKeeps, Zenon
<1> QED
  BY <1>4, <1>5 DEF current

\* offsetGet makes a new entry object for a variable.
LEMMA OffsetGet ==
  ASSUME FiniteSetFacts,
         LogObjectsInv, NEW e \in Objects, NEW offset \in -1..MaxEntries, offsetGet(e, offset)
  PROVE  LogObjectsInv'
<1> DEFINE g == init_entry(heap, e, offset)
<1>1. /\ UNCHANGED <<entries_size, iter_entry_index, z_current, iterators, profiling, log_vars,
                     compiled>>
      /\ log_vars > 0 /\ is_free(e) /\ 0 <= offset /\ offset < entries_size /\ Heap(g)
      /\ entry_vars' = [entry_vars EXCEPT ![e] = 1]
  <2>1. offset >= 0 => 0 <= offset
    BY LogObjectsAssumption
  <2> QED
    BY <2>1, Zenon DEF offsetGet, offsetExists, iterVars
<1>2. \A d \in Objects :
        /\ objects[d].refs = entry_vars[d] + one(z_current = d) + Cardinality(Holders(iterators, d))
        /\ entry_vars[d] \in Nat /\ Cardinality(Holders(iterators, d)) \in Nat
        /\ objects[d].refs # 0 => objects[d].index < entries_size
  BY Facts, Numbers, Sizes, Zenon
<1>3. /\ IsHeap(g) /\ Surplus(g) = Surplus(heap)
      /\ g.objects[e] = [refs |-> 1, index |-> offset]
      /\ \A d \in Objects : d # e => g.objects[d] = objects[d]
  <2>1. offset \in Nat
    BY <1>1, LogObjectsAssumption
  <2> QED
    <3>1. IsHeap(heap) /\ heap.objects = objects /\ heap.objects[e].refs = 0
      BY <1>1, Facts, Zenon DEF is_free
    <3> QED
      BY <2>1, <3>1, Initialise, SMT
<1> HIDE DEF g
<1>4. g.objects[e].refs = 1 /\ g.objects[e].index = offset
  BY <1>3
<1>5. /\ entry_vars[e] = 0 /\ z_current # e /\ Cardinality(Holders(iterators, e)) = 0
  BY <1>1, FreeIsUnreferenced, ZenonT(40)
<1>6. /\ entry_vars' \in [Objects -> 0..MaxVars] /\ entry_vars'[e] = 1
      /\ \A d \in Objects : d # e => entry_vars'[d] = entry_vars[d]
  BY <1>1, Facts
<1>7. \A d \in Objects :
        /\ g.objects[d].refs = entry_vars'[d] + one(z_current = d)
                               + Cardinality(Holders(iterators, d))
        /\ g.objects[d].refs # 0 => g.objects[d].index < entries_size
  <2> TAKE d \in Objects
  <2>1. CASE d = e
    <3>1. /\ g.objects[d].refs = 1 /\ g.objects[d].index = offset /\ offset < entries_size
          /\ entry_vars'[d] = 1 /\ Cardinality(Holders(iterators, d)) = 0
      BY <1>1, <1>4, <1>5, <1>6, <2>1, Zenon
    <3>2. one(z_current = d) = 0
      BY <1>5, <2>1, Zenon DEF one
    <3> QED
      BY <3>1, <3>2
  <2>2. CASE d # e
    BY <1>2, <1>3, <1>6, <2>2, Zenon
  <2> QED
    BY <2>1, <2>2, Zenon
<1>8. \A d \in Objects : objects[d].refs # 0 => g.objects[d].index = objects[d].index
  BY <1>1, <1>3, Zenon DEF is_free
<1>9. Cached(g, iter_entry_index, z_current, iterators)
  BY <1>7, <1>8, CachesKept, Zenon
<1>10. Exact(g, profiling, log_vars, entry_vars', z_current, iterators)
  BY <1>3, <1>6, <1>7, Facts, Zenon DEF Exact
<1> QED
  BY <1>1, <1>3, <1>9, <1>10, HeapKeeps, Zenon

\* A surplus is a number.
LEMMA SurplusType ==
  ASSUME FiniteSetFacts, NEW h, IsHeap(h)
  PROVE  Surplus(h) \in Int
<1>1. Cardinality(Live(h.objects)) \in Nat
  BY Sizes
<1> QED
  BY <1>1 DEF Surplus, IsHeap

\* The heap g when an iterator goes from it to new, and the variables are ev.
Follows(g, it, new, ev) ==
  \A d \in Objects :
     /\ g.objects[d].refs = objects[d].refs - Caches(it, d) + Caches(new, d)
                            + (ev[d] - entry_vars[d])
     /\ g.objects[d].refs # 0 => g.objects[d].index < entries_size
     /\ g.objects[d].refs # 0 /\ objects[d].refs # 0 => g.objects[d].index = objects[d].index

\* The entry that an iterator has cached is the one where it is.
CachedBy(g, it) ==
  it.active => /\ it.index <= entries_size
               /\ it.z_current # NULL =>
                     g.objects[it.z_current].index = it.index /\ it.index < entries_size

\* A step of one iterator: what remains to show for it when the others are unchanged.
LEMMA OneIterator ==
  ASSUME FiniteSetFacts, LogObjectsInv, NEW i \in Iterators, NEW g, IsHeap(g), Heap(g),
         iterators' \in IteratorTable, \A j \in Iterators : j # i => iterators'[j] = iterators[j],
         UNCHANGED <<entries_size, iter_entry_index, z_current, profiling, log_vars, compiled>>,
         Surplus(g) = Surplus(heap) - Counts(iterators[i]) + Counts(iterators'[i]),
         entry_vars' \in [Objects -> 0..MaxVars],
         Follows(g, iterators[i], iterators'[i], entry_vars'),
         CachedBy(g, iterators'[i])
  PROVE  LogObjectsInv'
<1> DEFINE r == iterators'[i]
<1>1. /\ Cardinality(Active(iterators')) =
            Cardinality(Active(iterators)) - Counts(iterators[i]) + Counts(r)
      /\ \A d : Cardinality(Holders(iterators', d)) =
                  Cardinality(Holders(iterators, d)) - Caches(iterators[i], d) + Caches(r, d)
  BY IteratorChanges, Zenon
<1> HIDE DEF r
<1>2. /\ Cardinality(Active(iterators)) \in Nat
      /\ \A d : Cardinality(Holders(iterators, d)) \in Nat
  BY Sizes, Zenon
<1>3. /\ \A b : one(b) \in Nat
      /\ \A it, d : Counts(it) \in Nat /\ Caches(it, d) \in Nat
  BY Zenon DEF one, Counts, Caches
<1>4. Surplus(g) = one(profiling') + log_vars' + Cardinality(Active(iterators'))
  <2>1. /\ Surplus(heap) = one(profiling) + log_vars + Cardinality(Active(iterators))
        /\ log_vars \in Nat
    BY Facts, Numbers, Zenon
  <2> QED
    BY <1>1, <1>2, <1>3, <2>1 DEF r
<1>5. \A d \in Objects :
        g.objects[d].refs = entry_vars'[d] + one(z_current' = d) + Cardinality(Holders(iterators', d))
  <2> SUFFICES ASSUME NEW d \in Objects
               PROVE  g.objects[d].refs = entry_vars'[d] + one(z_current = d)
                                          + Cardinality(Holders(iterators', d))
    BY ZenonT(40)
  <2>1. /\ objects[d].refs = entry_vars[d] + one(z_current = d) + Cardinality(Holders(iterators, d))
        /\ entry_vars[d] \in Nat /\ entry_vars'[d] \in Nat
    BY Facts
  <2>2. g.objects[d].refs = objects[d].refs
                            - Caches(iterators[i], d)
                            + Caches(r, d)
                            + (entry_vars'[d] - entry_vars[d])
    BY Zenon DEF Follows, r
  <2>3. Cardinality(Holders(iterators', d)) =
                  Cardinality(Holders(iterators, d))
                  - Caches(iterators[i], d)
                  + Caches(r, d)
    BY <1>1
  <2>4. one(z_current = d) \in Nat /\ Caches(iterators[i], d) \in Nat
        /\ Caches(r, d) \in Nat /\ Cardinality(Holders(iterators, d)) \in Nat
    BY <1>2, <1>3
  <2> QED
    BY <2>1, <2>2, <2>3, <2>4
<1>6. Cached(g, iter_entry_index, z_current, iterators)
  BY CachesKept, Zenon DEF Follows
<1>7. \A j \in Active(iterators') :
         /\ iterators'[j].index <= entries_size
         /\ iterators'[j].z_current # NULL =>
               /\ g.objects[iterators'[j].z_current].refs # 0 =>
                     g.objects[iterators'[j].z_current].index = iterators'[j].index
               /\ iterators'[j].index < entries_size
  <2> TAKE j \in Active(iterators')
  <2>1. CASE j = i
    BY <2>1 DEF Active, CachedBy
  <2>2. CASE j # i
    <3>1. j \in Active(iterators) /\ iterators'[j] = iterators[j]
      BY <2>2, Zenon DEF Active
    <3> QED
      BY <1>6, <3>1, Zenon DEF Cached
  <2> QED
    BY <2>1, <2>2, Zenon
<1>8. Cached(g, iter_entry_index, z_current, iterators')
  BY <1>6, <1>7, Zenon DEF Cached
<1>9. Exact(g, profiling', log_vars', entry_vars', z_current', iterators')
  BY <1>4, <1>5, Facts, Zenon DEF Exact
<1> QED
  BY <1>8, <1>9, HeapKeeps, Zenon

\* The start of a foreach loop.
LEMMA GetIterator ==
  ASSUME FiniteSetFacts, LogObjectsInv, NEW i \in Iterators, get_iterator(i)
  PROVE  LogObjectsInv'
<1> DEFINE g == [heap EXCEPT !.log = @ + 1]
<1>1. /\ UNCHANGED <<entries_size, iter_entry_index, z_current, profiling, log_vars, compiled,
                     entry_vars>>
      /\ ~iterators[i].active /\ Heap(g)
      /\ iterators' = [iterators EXCEPT ![i] = [active |-> TRUE, index |-> 0, z_current |-> NULL]]
  BY DEF get_iterator, iterVars, phpVars
<1>2. /\ iterators' \in IteratorTable /\ \A j \in Iterators : j # i => iterators'[j] = iterators[j]
      /\ iterators'[i].active /\ iterators'[i].index = 0 /\ iterators'[i].z_current = NULL
  BY <1>1, Facts DEF IteratorTable
<1>3. IsHeap(g) /\ Surplus(g) = Surplus(heap) + 1 /\ g.objects = objects
  BY Facts, LogCount, Zenon
<1> HIDE DEF g
<1>4. Counts(iterators[i]) = 0 /\ Counts(iterators'[i]) = 1
  BY <1>1, <1>2 DEF Counts
<1>5. Surplus(g) = Surplus(heap) - Counts(iterators[i]) + Counts(iterators'[i])
  <2>1. Surplus(heap) \in Int
    BY Facts, SurplusType, Zenon
  <2> QED
    BY <1>3, <1>4, <2>1
<1>6. Follows(g, iterators[i], iterators'[i], entry_vars')
  <2> SUFFICES ASSUME NEW d \in Objects
               PROVE  /\ objects[d].refs = objects[d].refs - Caches(iterators[i], d)
                                           + Caches(iterators'[i], d)
                                           + (entry_vars[d] - entry_vars[d])
                      /\ objects[d].refs # 0 => objects[d].index < entries_size
    BY <1>1, <1>3, Zenon DEF Follows
  <2>1. /\ objects[d].refs \in Nat /\ entry_vars[d] \in Nat /\ d # NULL
        /\ objects[d].refs # 0 => objects[d].index < entries_size
    BY Facts, Numbers, Zenon
  <2>2. Caches(iterators[i], d) = 0 /\ Caches(iterators'[i], d) = 0
    BY <1>1, <1>2, <2>1 DEF Caches
  <2>3. entry_vars[d] - entry_vars[d] = 0
    BY <2>1
  <2>4. objects[d].refs = objects[d].refs - 0 + 0 + (entry_vars[d] - entry_vars[d])
    BY <2>1, <2>3
  <2> QED
    BY <2>1, <2>2, <2>4
<1>7. entries_size \in Nat /\ entry_vars' \in [Objects -> 0..MaxVars]
  BY <1>1, Facts
<1>8. CachedBy(g, iterators'[i])
  BY <1>2, <1>7 DEF CachedBy
<1> QED
  BY <1>1, <1>2, <1>3, <1>5, <1>6, <1>7, <1>8, OneIterator, Zenon

\* The current entry of a foreach loop, new or cached, goes to the variable of the loop.
LEMMA CurrentData ==
  ASSUME FiniteSetFacts,
         LogObjectsInv, NEW i \in Iterators, NEW e \in Objects, iterator_get_current_data(i, e)
  PROVE  LogObjectsInv'
<1>1. /\ UNCHANGED <<entries_size, iter_entry_index, z_current, profiling, log_vars, compiled>>
      /\ iterators[i].active
  BY DEF iterator_get_current_data, iterVars
<1>2. \A d \in Objects :
        /\ entry_vars[d] \in Nat /\ objects[d].refs \in Nat /\ d # NULL
        /\ objects[d].refs # 0 => objects[d].index < entries_size
  BY Facts, Numbers, ZenonT(40)
<1>3. /\ iterators \in IteratorTable /\ i \in Active(iterators) /\ Surplus(heap) \in Int
      /\ entries_size \in Nat
  BY <1>1, Facts, SurplusType DEF Active
<1>4. /\ iterators[i].index \in Nat /\ iterators[i].index <= entries_size
      /\ iterators[i].z_current # NULL =>
            /\ objects[iterators[i].z_current].refs # 0
            /\ objects[iterators[i].z_current].index = iterators[i].index
            /\ iterators[i].index < entries_size
  BY <1>3, Facts
<1>5. CASE /\ iterators[i].z_current = NULL /\ iterator_valid(i) /\ is_free(e)
           /\ iterators' = [iterators EXCEPT ![i].z_current = e]
           /\ to_variable(init_entry(heap, e, iterators[i].index), e)
  <2>1. /\ iterators' \in IteratorTable /\ \A j \in Iterators : j # i => iterators'[j] = iterators[j]
        /\ iterators'[i].active /\ iterators'[i].index = iterators[i].index
        /\ iterators'[i].z_current = e
    BY <1>1, <1>3, <1>5 DEF IteratorTable
  <2>2. PICK g : /\ IsHeap(g) /\ Heap(g) /\ Surplus(g) = Surplus(heap)
                 /\ g.objects[e].refs = 2 /\ g.objects[e].index = iterators[i].index
                 /\ \A d \in Objects : d # e => g.objects[d] = objects[d]
                 /\ entry_vars[e] = 0
                 /\ entry_vars' \in [Objects -> 0..MaxVars] /\ entry_vars'[e] = 1
                 /\ \A d \in Objects : d # e => entry_vars'[d] = entry_vars[d]
    BY <1>4, <1>5, NewToVariable
  <2>3. Counts(iterators[i]) = 1 /\ Counts(iterators'[i]) = 1
    BY <1>1, <2>1 DEF Counts
  <2>4. Surplus(g) = Surplus(heap) - Counts(iterators[i]) + Counts(iterators'[i])
    BY <1>3, <2>2, <2>3
  <2>5. iterators[i].index < entries_size /\ objects[e].refs = 0
    BY <1>5, Zenon DEF iterator_valid, is_free
  <2>6. Follows(g, iterators[i], iterators'[i], entry_vars')
    <3> SUFFICES ASSUME NEW d \in Objects
                 PROVE  /\ g.objects[d].refs = objects[d].refs - Caches(iterators[i], d)
                                               + Caches(iterators'[i], d)
                                               + (entry_vars'[d] - entry_vars[d])
                        /\ g.objects[d].refs # 0 => g.objects[d].index < entries_size
                        /\ g.objects[d].refs # 0 /\ objects[d].refs # 0 =>
                              g.objects[d].index = objects[d].index
      BY DEF Follows
    <3>1. Caches(iterators[i], d) = 0 /\ Caches(iterators'[i], d) = one(d = e)
      BY <1>2, <1>5, <2>1, Zenon DEF Caches, one
    <3>2. CASE d = e
      <4>1. one(d = e) = 1
        BY <3>2 DEF one
      <4>2. 2 = 0 - 0 + 1 + (1 - 0)
        OBVIOUS
      <4> QED
        BY <2>2, <2>5, <3>1, <3>2, <4>1, <4>2, Zenon
    <3>3. CASE d # e
      <4>1. one(d = e) = 0 /\ g.objects[d] = objects[d] /\ entry_vars'[d] = entry_vars[d]
        BY <2>2, <3>3 DEF one
      <4>2. objects[d].refs = objects[d].refs - 0 + 0 + (entry_vars[d] - entry_vars[d])
        BY <1>2
      <4> QED
        BY <1>2, <3>1, <4>1, <4>2
    <3> QED
      BY <3>2, <3>3
  <2>7. CachedBy(g, iterators'[i])
    BY <1>4, <2>1, <2>2, <2>5, Zenon DEF CachedBy
  <2> QED
    BY <1>1, <2>1, <2>2, <2>4, <2>6, <2>7, OneIterator, Zenon
<1>6. CASE iterators[i].z_current = e /\ to_variable(heap, e) /\ UNCHANGED iterators
  <2>1. e # NULL /\ objects[e].refs # 0
    BY <1>2, <1>4, <1>6, ZenonT(40)
  <2>2. PICK g : /\ IsHeap(g) /\ Heap(g) /\ Surplus(g) = Surplus(heap)
                 /\ g.objects[e].refs = objects[e].refs + 1
                 /\ g.objects[e].index = objects[e].index
                 /\ \A d \in Objects : d # e => g.objects[d] = objects[d]
                 /\ entry_vars' \in [Objects -> 0..MaxVars] /\ entry_vars'[e] = entry_vars[e] + 1
                 /\ \A d \in Objects : d # e => entry_vars'[d] = entry_vars[d]
    BY <1>6, <2>1, CachedToVariable, Zenon DEF is_free
  <2>3. Counts(iterators[i]) \in Int /\ \A d : Caches(iterators[i], d) \in Int
    BY DEF Counts, Caches
  <2>4. Surplus(g) = Surplus(heap) - Counts(iterators[i]) + Counts(iterators'[i])
    BY <1>3, <1>6, <2>2, <2>3
  <2>5. Follows(g, iterators[i], iterators[i], entry_vars')
    <3> SUFFICES ASSUME NEW d \in Objects
                 PROVE  /\ g.objects[d].refs = objects[d].refs - Caches(iterators[i], d)
                                               + Caches(iterators[i], d)
                                               + (entry_vars'[d] - entry_vars[d])
                        /\ g.objects[d].refs # 0 => g.objects[d].index < entries_size
                        /\ g.objects[d].refs # 0 /\ objects[d].refs # 0 =>
                              g.objects[d].index = objects[d].index
      BY DEF Follows
    <3>1. \A n, m, c, k \in Int : n + 1 = n - c + c + ((m + 1) - m) /\ n = n - c + c + (m - m)
      OBVIOUS
    <3>2. CASE d = e
      <4>1. g.objects[d].refs = objects[d].refs - Caches(iterators[i], d) + Caches(iterators[i], d)
                                + (entry_vars'[d] - entry_vars[d])
        <5>1. g.objects[d].refs = objects[d].refs + 1 /\ entry_vars'[d] = entry_vars[d] + 1
          BY <2>2, <3>2, Zenon
        <5>2. objects[d].refs \in Int /\ entry_vars[d] \in Int /\ Caches(iterators[i], d) \in Int
          BY <1>2, <2>3
        <5>3. objects[d].refs + 1 = objects[d].refs - Caches(iterators[i], d)
                                    + Caches(iterators[i], d)
                                    + ((entry_vars[d] + 1) - entry_vars[d])
          BY <3>1, <5>2
        <5> QED
          BY <5>1, <5>3, Zenon
      <4> QED
        BY <1>2, <2>1, <2>2, <3>2, <4>1, ZenonT(40)
    <3>3. CASE d # e
      <4>1. g.objects[d] = objects[d] /\ entry_vars'[d] = entry_vars[d]
        BY <2>2, <3>3
      <4>2. g.objects[d].refs = objects[d].refs - Caches(iterators[i], d) + Caches(iterators[i], d)
                                + (entry_vars'[d] - entry_vars[d])
        BY <1>2, <2>3, <3>1, <4>1
      <4> QED
        BY <1>2, <4>1, <4>2, Zenon
    <3> QED
      BY <3>2, <3>3, Zenon
  <2>6. CachedBy(g, iterators[i])
    BY <1>4, <1>6, <2>1, <2>2, Zenon DEF CachedBy
  <2> QED
    BY <1>1, <1>3, <1>6, <2>2, <2>4, <2>5, <2>6, OneIterator, ZenonT(40)
<1> QED
  BY <1>5, <1>6 DEF iterator_get_current_data

\* A foreach loop drops its cached entry.
LEMMA CachedDropped ==
  ASSUME FiniteSetFacts,
         LogObjectsInv, NEW i \in Iterators, iterators[i].active, NEW r, r.z_current = NULL, NEW g,
         g = zval_ptr_dtor(heap, iterators[i].z_current)
  PROVE  IsHeap(g) /\ Surplus(g) = Surplus(heap) /\ Follows(g, iterators[i], r, entry_vars)
<1>1. /\ iterators \in IteratorTable /\ i \in Active(iterators)
      /\ IsHeap(heap) /\ heap.objects = objects
  BY Facts, Zenon DEF Active
<1>2. /\ iterators[i].z_current \in Objects \cup {NULL}
      /\ iterators[i].z_current # NULL => heap.objects[iterators[i].z_current].refs # 0
  BY <1>1, Facts, ZenonT(40) DEF IteratorTable
<1>3. /\ IsHeap(g) /\ Surplus(g) = Surplus(heap)
      /\ \A d \in Objects :
            /\ g.objects[d].refs = objects[d].refs - one(d = iterators[i].z_current)
            /\ g.objects[d].refs # 0 => g.objects[d].index = objects[d].index
  <2> DEFINE c == iterators[i].z_current
  <2>0. IsHeap(heap)
    BY <1>1, Zenon
  <2>1. /\ c \in Objects \cup {NULL}
        /\ c # NULL => heap.objects[c].refs # 0
        /\ g = zval_ptr_dtor(heap, c)
    BY <1>2, Zenon
  <2> HIDE DEF c
  <2>2. /\ IsHeap(g) /\ Surplus(g) = Surplus(heap)
        /\ \A d \in Objects :
              /\ g.objects[d].refs = heap.objects[d].refs - one(d = c)
              /\ g.objects[d].refs # 0 => g.objects[d].index = heap.objects[d].index
    BY <2>0, <2>1, ReleaseCached
  <2> QED
    BY <1>1, <2>2, Zenon DEF c
<1>4. ASSUME NEW d \in Objects
      PROVE  /\ g.objects[d].refs = objects[d].refs - Caches(iterators[i], d) + Caches(r, d)
                                    + (entry_vars[d] - entry_vars[d])
             /\ g.objects[d].refs # 0 => g.objects[d].index < entries_size
  <2>1. /\ entry_vars[d] \in Nat /\ objects[d].refs \in Nat /\ d # NULL
        /\ objects[d].refs # 0 => objects[d].index < entries_size
    BY Facts, Numbers, Zenon
  <2>2. /\ Caches(iterators[i], d) = one(d = iterators[i].z_current) /\ Caches(r, d) = 0
        /\ Caches(iterators[i], d) \in {0, 1}
    BY <2>1 DEF Caches, one
  <2>3. g.objects[d].refs = objects[d].refs - Caches(iterators[i], d)
    BY <1>3, <2>2
  <2>4. entry_vars[d] - entry_vars[d] = 0
    BY <2>1
  <2>5. g.objects[d].refs = objects[d].refs - Caches(iterators[i], d) + 0
                            + (entry_vars[d] - entry_vars[d])
    BY <2>1, <2>2, <2>3, <2>4
  <2>6. g.objects[d].refs # 0 => objects[d].refs # 0
    <3>1. objects[d].refs = 0 => one(d = iterators[i].z_current) = 0
      BY <1>1, <1>2, <2>1 DEF one
    <3> QED
      BY <2>1, <2>2, <2>3, <3>1
  <2> QED
    BY <1>3, <2>1, <2>2, <2>5, <2>6, Zenon
<1> QED
  BY <1>3, <1>4, Zenon DEF Follows

\* A foreach loop drops its cached entry and moves.
LEMMA IteratorTo ==
  ASSUME FiniteSetFacts,
         LogObjectsInv, NEW i \in Iterators, NEW n \in Nat, n <= entries_size, iterator_to(i, n)
  PROVE  LogObjectsInv'
<1> DEFINE g == zval_ptr_dtor(heap, iterators[i].z_current)
<1>1. /\ UNCHANGED <<entries_size, iter_entry_index, z_current, profiling, log_vars, compiled,
                     entry_vars>>
      /\ iterators[i].active /\ Heap(g)
      /\ iterators' = [iterators EXCEPT ![i].z_current = NULL, ![i].index = n]
  BY DEF iterator_to, iterVars, phpVars
<1>2. /\ iterators \in IteratorTable /\ entry_vars \in [Objects -> 0..MaxVars]
      /\ Surplus(heap) \in Int
  BY Facts, SurplusType, Zenon
<1>3. /\ iterators' \in IteratorTable /\ \A j \in Iterators : j # i => iterators'[j] = iterators[j]
      /\ iterators'[i].active /\ iterators'[i].index = n /\ iterators'[i].z_current = NULL
  BY <1>1, <1>2, Zenon DEF IteratorTable
<1>4. /\ IsHeap(g) /\ Surplus(g) = Surplus(heap)
      /\ Follows(g, iterators[i], iterators'[i], entry_vars)
  BY <1>1, <1>3, CachedDropped, Zenon
<1> HIDE DEF g
<1>5. Counts(iterators[i]) = 1 /\ Counts(iterators'[i]) = 1
  BY <1>1, <1>3, Zenon DEF Counts
<1>6. Surplus(g) = Surplus(heap) - Counts(iterators[i]) + Counts(iterators'[i])
  BY <1>2, <1>4, <1>5
<1>7. CachedBy(g, iterators'[i])
  BY <1>3 DEF CachedBy
<1> QED
  BY <1>1, <1>2, <1>3, <1>4, <1>6, <1>7, OneIterator, Zenon

\* The end of a foreach loop.
LEMMA IteratorDtor ==
  ASSUME FiniteSetFacts, LogObjectsInv, NEW i \in Iterators, iterator_dtor(i)
  PROVE  LogObjectsInv'
<1> DEFINE h == zval_ptr_dtor(heap, iterators[i].z_current)
           g == [h EXCEPT !.log = @ - 1]
<1>1. /\ UNCHANGED <<entries_size, iter_entry_index, z_current, profiling, log_vars, compiled,
                     entry_vars>>
      /\ iterators[i].active /\ Heap(g) /\ iterators' = [iterators EXCEPT ![i] = no_iterator]
  BY Zenon DEF iterator_dtor, iterVars, phpVars
<1>2. /\ iterators \in IteratorTable /\ entry_vars \in [Objects -> 0..MaxVars]
      /\ Surplus(heap) \in Int
  BY Facts, SurplusType
<1>3. /\ iterators' \in IteratorTable /\ \A j \in Iterators : j # i => iterators'[j] = iterators[j]
      /\ ~iterators'[i].active /\ iterators'[i].z_current = NULL
  BY <1>1, <1>2 DEF IteratorTable, no_iterator
<1>4. /\ IsHeap(h) /\ Surplus(h) = Surplus(heap)
      /\ Follows(h, iterators[i], iterators'[i], entry_vars)
  BY <1>1, <1>3, CachedDropped
<1> HIDE DEF h
<1>5. IsHeap(g) /\ Surplus(g) = Surplus(h) - 1 /\ g.objects = h.objects
  BY <1>4, LogCount, Zenon
<1> HIDE DEF g
<1>6. Counts(iterators[i]) = 1 /\ Counts(iterators'[i]) = 0
  BY <1>1, <1>3, Zenon DEF Counts
<1>7. Surplus(g) = Surplus(heap) - Counts(iterators[i]) + Counts(iterators'[i])
  <2>1. Surplus(heap) \in Int /\ Surplus(g) = Surplus(heap) - 1
    BY <1>2, <1>4, <1>5, Zenon
  <2> QED
    BY <1>6, <2>1
<1>8. CachedBy(g, iterators'[i])
  BY <1>3 DEF CachedBy
<1>9. Follows(g, iterators[i], iterators'[i], entry_vars)
  BY <1>4, <1>5 DEF Follows
<1> QED
  BY <1>1, <1>2, <1>3, <1>5, <1>7, <1>8, <1>9, OneIterator, Zenon
===================================================================================
