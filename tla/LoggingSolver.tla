---------------------------- MODULE LoggingSolver ----------------------------
(***************************************************************************)
(* LoggingSolver (src/src/logging_solver.cpp) with the LoggingTerms it     *)
(* creates and the TermHashTable it shares them through.  The wrapped      *)
(* solver may rewrite terms (And(x, x) is x) and alias sorts (Bool is a    *)
(* bit-vector of width 1); LoggingSolver gives back exactly the term that  *)
(* was asked for, and the same object whenever it is asked for again.      *)
(*                                                                         *)
(* A LoggingTerm object is a position in heap.terms: comparing positions   *)
(* is comparing pointers (Term::get).  The wrapped solver is external: it  *)
(* is given by the W constants, which map a request to a wrapped term, or  *)
(* to something outside WTerms when the wrapped solver throws.             *)
(***************************************************************************)
EXTENDS Naturals, Sequences, FiniteSets

CONSTANTS
  WTerms,              \* terms of the wrapped solver, up to its own ==
  Hash(_),             \* wrapped_term->hash()
  Sorts,               \* LoggingSorts, up to LoggingSort::compare
  Values,              \* pairs <<w, sort>>: w is a value term of that sort
  Names,               \* the names of symbols and parameters
  WSymbol(_, _),       \* wrapped_solver->make_symbol(name, sort)
  WParam(_, _),        \* wrapped_solver->make_param(name, sort)
  Ops,                 \* the operators
  WApply(_, _),        \* wrapped_solver->make_term(op, wrapped children)
  WConstArray(_, _),   \* wrapped_solver->make_term(wrapped value, array sort)
  ComputeSort(_, _),   \* compute_sort(op, child sorts) of sort_inference
  IsArray(_),          \* get_sort_kind() == ARRAY
  ElemSort(_),         \* get_elemsort()
  IndexSort(_),        \* get_indexsort()
  HasValue(_),         \* sort kind in supported_sortkinds_for_get_value
  BoolSort,            \* the sort of assumptions
  NoOp, NoName,        \* the null Op; no name
  Store,               \* the array update operator
  NDEBUG,              \* TRUE in a build without assertions
  MaxTerms,            \* bound of the model: LoggingTerm objects created
  MaxResets,           \* bound of the model: calls of reset
  MaxAssumptions       \* bound of the model: assumptions of one check

ASSUME LoggingAssumption ==
  /\ NoOp \notin Ops
  /\ Store \in Ops
  /\ NoName \notin Names
  /\ Values \subseteq WTerms \X Sorts
  /\ NDEBUG \in BOOLEAN
  /\ MaxTerms \in Nat
  /\ MaxResets \in Nat
  /\ MaxAssumptions \in Nat

(* Two leaves that the wrapped solver tells apart only by their role would *)
(* be one LoggingTerm: compare() looks at neither name nor role.  The      *)
(* wrapped solver must keep symbols, parameters and values distinct.       *)
ASSUME WrappedLeavesDistinct ==
  \A n1, n2 \in Names : \A t1, t2 \in Sorts :
    /\ WSymbol(n1, t1) \in WTerms /\ WSymbol(n1, t1) = WSymbol(n2, t2) => n1 = n2
    /\ WParam(n1, t1) \in WTerms /\ WParam(n1, t1) = WParam(n2, t2) => n1 = n2
    /\ WSymbol(n1, t1) \in WTerms => WSymbol(n1, t1) # WParam(n2, t2)
    /\ <<WSymbol(n1, t1), t1>> \notin Values /\ <<WParam(n1, t1), t1>> \notin Values

VARIABLES
  heap,                \* the objects, the hash table and next_term_id
  symbol_table,        \* name -> object, on the names declared so far
  assumption_cache,    \* wrapped term -> object, of the last check_sat_assuming
  wrapped_assumed,     \* the assumptions the wrapped solver has a core for
  held,                \* what the client holds since the last reset: pairs of
                       \* the term it asked for and the object it was given
  assumed,             \* history: the objects of the last check_sat_assuming
  core,                \* `out' when the last call was get_unsat_assumptions
  uncached,            \* history: get_unsat_assumptions threw
  resets,              \* how many times reset was called
  tainted,             \* history: get_symbol returned a term from before a reset
  aborted              \* an assertion failed

vars == <<heap, symbol_table, assumption_cache, wrapped_assumed, held, assumed,
          core, uncached, resets, tainted, aborted>>

-----------------------------------------------------------------------------
(* LoggingTerm and TermHashTable *)

Leaf(w, s, name, role) ==
  [wrapped |-> w, sort |-> s, op |-> NoOp, children |-> <<>>, repr |-> name,
   role |-> role, id |-> 0]

Node(w, s, op, cs) ==
  [wrapped |-> w, sort |-> s, op |-> op, children |-> cs, repr |-> NoName,
   role |-> "term", id |-> 0]

Value(v) == Leaf(v[1], v[2], NoName, "value")

Hashes == {Hash(w) : w \in WTerms}

Objects(h) == 1 .. Len(h.terms)

(* Mutant of Compare: the terms are as equal as their wrapped terms. *)
CompareWrapped(t, u) == t.wrapped = u.wrapped

(* Mutant of Compare: equality by get_id. *)
CompareId(t, u) == t.wrapped = u.wrapped /\ t.id = u.id

(* LoggingTerm::compare; children are compared as pointers *)
Compare(t, u) ==
  /\ t.wrapped = u.wrapped
  /\ t.sort = u.sort
  /\ t.op = u.op
  /\ t.children = u.children

(* what contains and lookup of TermHashTable find for a term: the objects  *)
(* of its bucket that compare equal to it                                  *)
Found(h, t) == {p \in h.table[Hash(t.wrapped)] : Compare(h.terms[p], t)}

Contains(h, p) == Found(h, h.terms[p]) # {}

(* Mutant of Interned: the term is inserted before it is looked up. *)
InternedUnseen(h, t) ==
  [terms |-> Append(h.terms, [t EXCEPT !.id = h.next]),
   table |-> [h.table EXCEPT ![Hash(t.wrapped)] = @ \cup {Len(h.terms) + 1}],
   next  |-> h.next + 1]

(* Mutant of Interned: an insertion replaces what its bucket holds. *)
InternedReplacing(h, t) ==
  IF Found(h, t) # {} THEN h
  ELSE [terms |-> Append(h.terms, [t EXCEPT !.id = h.next]),
        table |-> [h.table EXCEPT ![Hash(t.wrapped)] = {Len(h.terms) + 1}],
        next  |-> h.next + 1]

(* The sequence every function that makes a term ends with: construct the  *)
(* LoggingTerm with next_term_id, look it up, and unless it is known insert*)
(* it and increment next_term_id.  If it is known the new one is destroyed.*)
Interned(h, t) ==
  IF Found(h, t) # {} THEN h
  ELSE [terms |-> Append(h.terms, [t EXCEPT !.id = h.next]),
        table |-> [h.table EXCEPT ![Hash(t.wrapped)] = @ \cup {Len(h.terms) + 1}],
        next  |-> h.next + 1]

(* Mutant of Pointer: `res' still points to the object that was destroyed. *)
PointerToNew(h, t) == Len(h.terms) + 1

(* the object that `res' points to afterwards *)
Pointer(h, t) ==
  IF Found(h, t) # {} THEN CHOOSE p \in Found(h, t) : TRUE ELSE Len(h.terms) + 1

-----------------------------------------------------------------------------
Init ==
  /\ heap = [terms |-> <<>>, table |-> [b \in Hashes |-> {}], next |-> 0]
  /\ symbol_table = [n \in {} |-> 0]
  /\ assumption_cache = [w \in {} |-> 0]
  /\ wrapped_assumed = {}
  /\ held = {}
  /\ assumed = {}
  /\ core = {}
  /\ uncached = FALSE
  /\ resets = 0
  /\ tainted = FALSE
  /\ aborted = FALSE

Term(p) == heap.terms[p]

Handles == {g[2] : g \in held}

(* hash-cons t in the heap h and return it to the client *)
Return(h, t) ==
  /\ heap' = Interned(h, t)
  /\ held' = held \cup {<<t, Pointer(h, t)>>}
  /\ core' = {}
  /\ Len(heap'.terms) <= MaxTerms

SolvingState == <<assumption_cache, wrapped_assumed, assumed, uncached>>
Others == <<SolvingState, resets, tainted, aborted>>

(* make_term of a Boolean, a number, a string *)
MakeValue(v) ==
  /\ ~aborted
  /\ Return(heap, Value(v))
  /\ UNCHANGED <<symbol_table, Others>>

(* The wrapped make_symbol throws when the name is in use. *)
Declared ==
  {n \in Names : \E b \in Hashes : \E p \in heap.table[b] :
                   Term(p).repr = n /\ Term(p).role = "symbol"}

make_symbol(n, s) ==
  /\ ~aborted
  /\ n \notin Declared
  /\ WSymbol(n, s) \in WTerms
  /\ LET t == Leaf(WSymbol(n, s), s, n, "symbol")
     IN  /\ Return(heap, t)
         /\ symbol_table' = [k \in DOMAIN symbol_table \cup {n} |->
                               IF k = n THEN Pointer(heap, t) ELSE symbol_table[k]]
  /\ UNCHANGED Others

InTable(h) == UNION {h.table[b] : b \in Hashes}

get_symbol(n) ==
  /\ ~aborted
  /\ n \in DOMAIN symbol_table
  /\ LET p == symbol_table[n]
     IN  /\ held' = held \cup {<<[Term(p) EXCEPT !.id = 0], p>>}
         /\ tainted' = (tainted \/ p \notin InTable(heap))
  /\ core' = {}
  /\ UNCHANGED <<heap, symbol_table, SolvingState, resets, aborted>>

make_param(n, s) ==
  /\ ~aborted
  /\ WParam(n, s) \in WTerms
  /\ Return(heap, Leaf(WParam(n, s), s, n, "param"))
  /\ UNCHANGED <<symbol_table, Others>>

ConstArray(h, p, s) == Node(WConstArray(h.terms[p].wrapped, s), s, NoOp, <<p>>)

(* make_term(val, sort), for constant arrays only *)
MakeConstArray(p, s) ==
  /\ ~aborted
  /\ WConstArray(Term(p).wrapped, s) \in WTerms
  /\ IsArray(s)
  /\ Return(heap, ConstArray(heap, p, s))
  /\ UNCHANGED <<symbol_table, Others>>

Application(h, op, ps) ==
  Node(WApply(op, [i \in DOMAIN ps |-> h.terms[ps[i]].wrapped]),
       ComputeSort(op, [i \in DOMAIN ps |-> h.terms[ps[i]].sort]), op, ps)

(* make_term(op, children): the wrapped solver and compute_sort may throw; *)
(* assert(hashtable->contains(child)) for every child, which the TermVec   *)
(* overload evaluates first.                                               *)
MakeTerm(op, ps) ==
  LET t     == Application(heap, op, ps)
      known == \A i \in DOMAIN ps : Contains(heap, ps[i])
  IN  /\ ~aborted
      /\ \/ /\ NDEBUG \/ known
            /\ t.wrapped \in WTerms
            /\ t.sort \in Sorts
            /\ Return(heap, t)
            /\ UNCHANGED aborted
         \/ /\ ~NDEBUG /\ ~known
            /\ aborted' = TRUE
            /\ UNCHANGED <<heap, held, core>>
      /\ UNCHANGED <<symbol_table, SolvingState, resets, tainted>>

(* get_value of a term that is no array: the wrapped solver's value, with  *)
(* the LoggingSort of the term                                             *)
get_value(p, v) ==
  /\ ~aborted
  /\ HasValue(Term(p).sort) /\ ~IsArray(Term(p).sort)
  /\ v[2] = Term(p).sort
  /\ Return(heap, Value(v))
  /\ UNCHANGED <<symbol_table, Others>>

(* get_value of an array: get_array_values hash-conses the constant base   *)
(* and the stored pairs, then get_value builds a constant array and the    *)
(* chain of Stores over it.  Bound of the model: the wrapped solver stored *)
(* no pair (the first disjunct) or one pair (i, e).                        *)
GetArrayValue(p, base, i, e) ==
  LET s     == Term(p).sort
      h1    == Interned(heap, Value(base))
      h2    == Interned(h1, Value(i))
      h3    == Interned(h2, Value(e))
      array == ConstArray(h3, Pointer(heap, Value(base)), s)
      h4    == Interned(h3, array)
      store == Application(h4, Store, <<Pointer(h3, array), Pointer(h1, Value(i)),
                                        Pointer(h2, Value(e))>>)
  IN  /\ IsArray(s) /\ HasValue(s)
      /\ ~aborted
      /\ base[2] = ElemSort(s)
      /\ array.wrapped \in WTerms
      /\ \/ /\ i = base /\ e = base
            /\ Return(h1, ConstArray(h1, Pointer(heap, Value(base)), s))
         \/ /\ i[2] = IndexSort(s) /\ e[2] = ElemSort(s)
            /\ store.wrapped \in WTerms /\ store.sort = s
            /\ Return(h4, store)
      /\ UNCHANGED <<symbol_table, Others>>

-----------------------------------------------------------------------------
(* assert_formula, check_sat, push, pop, reset_assertions: dispatched; the *)
(* wrapped solver forgets its core, LoggingSolver keeps assumption_cache.  *)
Dispatch ==
  /\ ~aborted
  /\ wrapped_assumed' = {}
  /\ core' = {}
  /\ UNCHANGED <<heap, symbol_table, assumption_cache, held, assumed, uncached,
                 resets, tainted, aborted>>

(* Mutant of check_sat_assuming: the cache is not cleared before emplace,  *)
(* which keeps the entry it finds.                                         *)
check_sat_emplacing(A) ==
  LET W == {Term(p).wrapped : p \in A}
  IN  /\ ~aborted
      /\ wrapped_assumed' = W
      /\ \E f \in [W -> A] :
           /\ \A w \in W : Term(f[w]).wrapped = w
           /\ assumption_cache' =
                [w \in W \cup DOMAIN assumption_cache |->
                   IF w \in DOMAIN assumption_cache THEN assumption_cache[w] ELSE f[w]]
      /\ assumed' = A
      /\ core' = {}
      /\ UNCHANGED <<heap, symbol_table, held, uncached, resets, tainted, aborted>>

(* check_sat_assuming, check_sat_assuming_list, check_sat_assuming_set:    *)
(* assumption_cache is cleared and then filled in the order of the         *)
(* container; of two assumptions with one wrapped term the later one stays.*)
check_sat_assuming(A) ==
  LET W == {Term(p).wrapped : p \in A}
  IN  /\ ~aborted
      /\ wrapped_assumed' = W
      /\ assumption_cache' \in {f \in [W -> A] : \A w \in W : Term(f[w]).wrapped = w}
      /\ assumed' = A
      /\ core' = {}
      /\ UNCHANGED <<heap, symbol_table, held, uncached, resets, tainted, aborted>>

(* The wrapped solver's core is any set of its assumptions. *)
get_unsat_assumptions(W) ==
  /\ ~aborted
  /\ wrapped_assumed # {}
  /\ W \subseteq wrapped_assumed
  /\ uncached' = (uncached \/ ~(W \subseteq DOMAIN assumption_cache))
  /\ core' = {assumption_cache[c] : c \in W \cap DOMAIN assumption_cache}
  /\ UNCHANGED <<heap, symbol_table, assumption_cache, wrapped_assumed, held, assumed,
                 resets, tainted, aborted>>

(* Mutant of reset: the ids start again from 0. *)
reset_ids ==
  /\ ~aborted
  /\ resets < MaxResets
  /\ resets' = resets + 1
  /\ heap' = [heap EXCEPT !.table = [b \in Hashes |-> {}], !.next = 0]
  /\ wrapped_assumed' = {}
  /\ held' = {}
  /\ core' = {}
  /\ UNCHANGED <<symbol_table, assumption_cache, assumed, uncached, tainted, aborted>>

(* reset: only the hash table is cleared.  "This destroys all created      *)
(* terms" (solver.h): the client drops what it holds.                      *)
reset ==
  /\ ~aborted
  /\ resets < MaxResets
  /\ resets' = resets + 1
  /\ heap' = [heap EXCEPT !.table = [b \in Hashes |-> {}]]
  /\ wrapped_assumed' = {}
  /\ held' = {}
  /\ core' = {}
  /\ UNCHANGED <<symbol_table, assumption_cache, assumed, uncached, tainted, aborted>>

Next ==
  \/ \E v \in Values : MakeValue(v)
  \/ \E n \in Names, s \in Sorts : make_symbol(n, s)
  \/ \E n \in Names : get_symbol(n)
  \/ \E n \in Names, s \in Sorts : make_param(n, s)
  \/ \E p \in Handles, s \in Sorts : MakeConstArray(p, s)
  \/ \E op \in Ops, p \in Handles : MakeTerm(op, <<p>>)
  \/ \E op \in Ops, p, q \in Handles : MakeTerm(op, <<p, q>>)
  \/ \E op \in Ops, p, q, r \in Handles : MakeTerm(op, <<p, q, r>>)
  \/ \E p \in Handles, v \in Values : get_value(p, v)
  \/ \E p \in Handles, base, i, e \in Values : GetArrayValue(p, base, i, e)
  \/ Dispatch
  \/ \E A \in SUBSET {p \in Handles : Term(p).sort = BoolSort} :
       Cardinality(A) <= MaxAssumptions /\ check_sat_assuming(A)
  \/ \E W \in SUBSET wrapped_assumed : get_unsat_assumptions(W)
  \/ reset

Spec == Init /\ [][Next]_vars
-----------------------------------------------------------------------------
(* Properties *)

Records == [wrapped : WTerms, sort : Sorts, op : Ops \cup {NoOp}, children : Seq(Nat),
            repr : Names \cup {NoName}, role : {"value", "symbol", "param", "term"}, id : Nat]

(* Types.  The objects a table, a cache or the client refers to exist, a   *)
(* term's children were created before it, and an object is filed under    *)
(* the hash of its wrapped term.                                           *)
TypeOK ==
  /\ heap.terms \in Seq(Records)
  /\ heap.next \in Nat
  /\ DOMAIN heap.table = Hashes
  /\ \A b \in Hashes : \A p \in heap.table[b] :
       p \in Objects(heap) /\ Hash(Term(p).wrapped) = b
  /\ \A p \in Objects(heap) : \A i \in DOMAIN Term(p).children :
       Term(p).children[i] \in 1 .. p - 1
  /\ \A n \in DOMAIN symbol_table : n \in Names /\ symbol_table[n] \in Objects(heap)
  /\ Handles \subseteq Objects(heap)
  /\ assumed \subseteq Objects(heap)
  /\ core \subseteq Objects(heap)
  /\ wrapped_assumed \subseteq WTerms
  /\ \A w \in DOMAIN assumption_cache : assumption_cache[w] \in Objects(heap)
  /\ resets \in 0 .. MaxResets
  /\ {uncached, tainted, aborted} \subseteq BOOLEAN

(* Hash-consing: what the hash table holds under two pointers is two       *)
(* different terms, by LoggingTerm::compare.                               *)
NoTwins ==
  \A p, q \in InTable(heap) : Compare(Term(p), Term(q)) => p = q

(* get_id is unique among all LoggingTerms ever created, those a caller    *)
(* kept from before a reset included ("unique id for this term").          *)
UniqueIds ==
  \A p, q \in Objects(heap) : Term(p).id = Term(q).id => p = q

(* "you always get exactly what you created" (test-logging-solver.cpp):    *)
(* whatever the wrapped solver rewrote or aliased, the object a client got *)
(* has the operator, the children, the sort, the name and the role that    *)
(* it asked for.                                                           *)
AsRequested ==
  \A g \in held : [Term(g[2]) EXCEPT !.id = 0] = g[1]

(* Sound use of pointers for children: until get_symbol hands out a term   *)
(* from before a reset, the children of every term in the table are in the *)
(* table, and assert(hashtable->contains(child)) never fails.              *)
ChildrenInTable ==
  ~tainted =>
    /\ ~aborted
    /\ Handles \subseteq InTable(heap)
    /\ \A p \in InTable(heap) : \A i \in DOMAIN Term(p).children :
         Term(p).children[i] \in InTable(heap)

(* The term that an object stands for, as a tree: pointers are followed. *)
Trees ==
  LET tree[p \in Objects(heap)] ==
        [sort |-> Term(p).sort, op |-> Term(p).op,
         leaf |-> IF Term(p).children = <<>> THEN Term(p).wrapped ELSE NoName,
         children |-> [i \in DOMAIN Term(p).children |-> tree[Term(p).children[i]]]]
  IN  tree

(* Pointer equality is structural equality, through the whole DAG: two     *)
(* objects in the table never stand for the same tree.                     *)
StructureIsPointer ==
  ~tainted => \A p, q \in InTable(heap) : Trees[p] = Trees[q] => p = q

(* What get_unsat_assumptions returns is a subset of the assumptions of    *)
(* the last check_sat_assuming, and its InternalSolverException ("not      *)
(* cached") is never thrown.                                               *)
CoreFromAssumptions == core \subseteq assumed /\ ~uncached

(* The invariant behind them.  Shape: a term without children is a symbol, *)
(* a parameter or a value, as the wrapped solver makes it; the terms that  *)
(* have children have neither a name nor the role of a leaf.               *)
Shape(t) ==
  \/ \E n \in Names, s \in Sorts : WSymbol(n, s) \in WTerms /\ t = Leaf(WSymbol(n, s), s, n, "symbol")
  \/ \E n \in Names, s \in Sorts : WParam(n, s) \in WTerms /\ t = Leaf(WParam(n, s), s, n, "param")
  \/ \E v \in Values : t = Value(v)
  \/ t.children # <<>> /\ t.repr = NoName /\ t.role = "term"

Heaps == [terms : Seq(Records), table : [Hashes -> SUBSET Nat], next : Nat]

Filed(h) ==
  \A b \in Hashes : \A p \in h.table[b] : p \in Objects(h) /\ Hash(h.terms[p].wrapped) = b

WellMade(h) ==
  \A p \in Objects(h) :
    /\ h.terms[p].id = p - 1
    /\ Shape([h.terms[p] EXCEPT !.id = 0])
    /\ \A i \in DOMAIN h.terms[p].children : h.terms[p].children[i] \in 1 .. p - 1

Distinct(h) ==
  \A p, q \in InTable(h) : Compare(h.terms[p], h.terms[q]) => p = q

HeapOK(h) ==
  h \in Heaps /\ h.next = Len(h.terms) /\ Filed(h) /\ WellMade(h) /\ Distinct(h)

Closed(h) ==
  \A p \in InTable(h) : \A i \in DOMAIN h.terms[p].children :
    h.terms[p].children[i] \in InTable(h)

HeldOK ==
  \A g \in held : /\ g[2] \in Objects(heap)
                  /\ [Term(g[2]) EXCEPT !.id = 0] = g[1]

SymbolsOK == \A n \in DOMAIN symbol_table : n \in Names /\ symbol_table[n] \in Objects(heap)

CacheOK ==
  /\ assumed \subseteq Objects(heap)
  /\ wrapped_assumed \subseteq WTerms /\ wrapped_assumed \subseteq DOMAIN assumption_cache
  /\ \A w \in DOMAIN assumption_cache : assumption_cache[w] \in assumed
  /\ core \subseteq assumed
  /\ uncached = FALSE

TaintOK == ~tainted => ~aborted /\ Handles \subseteq InTable(heap) /\ Closed(heap)

FlagsOK == resets \in 0 .. MaxResets /\ tainted \in BOOLEAN /\ aborted \in BOOLEAN

IInv == HeapOK(heap) /\ HeldOK /\ SymbolsOK /\ CacheOK /\ TaintOK /\ FlagsOK

(* reset returns the solver "to it's startup state" and "destroys all      *)
(* created terms" (solver.h): a symbol that get_symbol can return was      *)
(* created after the last reset.                                           *)
SymbolsLive ==
  \A n \in DOMAIN symbol_table : symbol_table[n] \in InTable(heap)
=============================================================================
