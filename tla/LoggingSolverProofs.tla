------------------------- MODULE LoggingSolverProofs -------------------------
(***************************************************************************)
(* What LoggingSolver guarantees for every wrapped solver that keeps its   *)
(* leaves distinct (LoggingAssumption, WrappedLeavesDistinct), whatever it *)
(* rewrites or aliases, and for any number of terms and resets.            *)
(***************************************************************************)
EXTENDS LoggingSolver, TLAPS, SequenceTheorems

(* a LoggingTerm that may be interned in h *)
New(h, t) ==
  /\ t \in Records
  /\ t.id = 0
  /\ Shape(t)
  /\ \A i \in DOMAIN t.children : t.children[i] \in Objects(h)

(* the heap g is h with objects added to it *)
Extends(h, g) ==
  /\ Objects(h) \subseteq Objects(g)
  /\ \A p \in Objects(h) : g.terms[p] = h.terms[p]
  /\ InTable(h) \subseteq InTable(g)

-----------------------------------------------------------------------------
(* Leaves *)

(* the fields of a symbol, of a parameter and of a value                   *)
SymbolFields(t) ==
  \E n \in Names, s \in Sorts :
    WSymbol(n, s) \in WTerms /\ t.wrapped = WSymbol(n, s) /\ t.sort = s
    /\ t.repr = n /\ t.role = "symbol"

ParamFields(t) ==
  \E n \in Names, s \in Sorts :
    WParam(n, s) \in WTerms /\ t.wrapped = WParam(n, s) /\ t.sort = s
    /\ t.repr = n /\ t.role = "param"

ValueFields(t) ==
  <<t.wrapped, t.sort>> \in Values /\ t.repr = NoName /\ t.role = "value"

(* A record without children is a symbol, a parameter or a value, and     *)
(* what it wraps says which.                                              *)
LEMMA LeafFields ==
  ASSUME NEW t, Shape(t), t.children = <<>>
  PROVE  SymbolFields(t) \/ ParamFields(t) \/ ValueFields(t)
<1>1. ASSUME NEW n \in Names, NEW s \in Sorts, WSymbol(n, s) \in WTerms,
             t = Leaf(WSymbol(n, s), s, n, "symbol")
      PROVE  SymbolFields(t)
  <2>1. t.wrapped = WSymbol(n, s) /\ t.sort = s /\ t.repr = n /\ t.role = "symbol"
    BY <1>1 DEF Leaf
  <2> QED BY <1>1, <2>1 DEF SymbolFields
<1>2. ASSUME NEW n \in Names, NEW s \in Sorts, WParam(n, s) \in WTerms,
             t = Leaf(WParam(n, s), s, n, "param")
      PROVE  ParamFields(t)
  <2>1. t.wrapped = WParam(n, s) /\ t.sort = s /\ t.repr = n /\ t.role = "param"
    BY <1>2 DEF Leaf
  <2> QED BY <1>2, <2>1 DEF ParamFields
<1>3. ASSUME NEW v \in Values, t = Value(v)
      PROVE  ValueFields(t)
  <2>1. t.wrapped = v[1] /\ t.sort = v[2] /\ t.repr = NoName /\ t.role = "value"
    BY <1>3 DEF Value, Leaf
  <2>2. v = <<v[1], v[2]>>
    BY LoggingAssumption DEF LoggingAssumption
  <2> QED BY <2>1, <2>2 DEF ValueFields
<1>4. \/ \E n \in Names, s \in Sorts : WSymbol(n, s) \in WTerms /\ t = Leaf(WSymbol(n, s), s, n, "symbol")
      \/ \E n \in Names, s \in Sorts : WParam(n, s) \in WTerms /\ t = Leaf(WParam(n, s), s, n, "param")
      \/ \E v \in Values : t = Value(v)
  BY DEF Shape
<1> QED BY <1>1, <1>2, <1>3, <1>4

(* No symbol wraps what a parameter wraps.                                *)
LEMMA RolesDistinct ==
  ASSUME NEW t, NEW u, t.wrapped = u.wrapped, SymbolFields(t), ParamFields(u)
  PROVE  FALSE
<1>1. PICK n1 \in Names, t1 \in Sorts : WSymbol(n1, t1) \in WTerms /\ t.wrapped = WSymbol(n1, t1)
  BY DEF SymbolFields
<1>2. PICK n2 \in Names, t2 \in Sorts : u.wrapped = WParam(n2, t2)
  BY DEF ParamFields
<1>3. WSymbol(n1, t1) # WParam(n2, t2)
  BY <1>1, WrappedLeavesDistinct DEF WrappedLeavesDistinct
<1> QED BY <1>1, <1>2, <1>3

(* Equal by LoggingTerm::compare is equal in every field but the id.       *)
LEMMA CompareIsEqual ==
  ASSUME NEW t \in Records, NEW u \in Records, Shape(t), Shape(u),
         Compare(t, u), t.id = u.id
  PROVE  t = u
<1>1. t.children = u.children /\ t.wrapped = u.wrapped /\ t.sort = u.sort /\ t.op = u.op
  BY DEF Compare
<1>2. CASE t.children # <<>>
  <2>1. t.repr = u.repr /\ t.role = u.role
    BY <1>1, <1>2 DEF Shape, Leaf, Value
  <2> QED BY <1>1, <2>1 DEF Records
<1>3. CASE t.children = <<>>
  <2>1. \/ SymbolFields(t) \/ ParamFields(t) \/ ValueFields(t)
    BY <1>3, LeafFields
  <2>2. \/ SymbolFields(u) \/ ParamFields(u) \/ ValueFields(u)
    BY <1>1, <1>3, LeafFields
  <2>3. ~(SymbolFields(t) /\ ParamFields(u)) /\ ~(SymbolFields(u) /\ ParamFields(t))
    BY <1>1, RolesDistinct
  <2>4. ~(SymbolFields(t) /\ ValueFields(u)) /\ ~(SymbolFields(u) /\ ValueFields(t))
    BY <1>1, WrappedLeavesDistinct DEF SymbolFields, ValueFields, WrappedLeavesDistinct
  <2>5. ~(ParamFields(t) /\ ValueFields(u)) /\ ~(ParamFields(u) /\ ValueFields(t))
    BY <1>1, WrappedLeavesDistinct DEF ParamFields, ValueFields, WrappedLeavesDistinct
  <2>6. /\ SymbolFields(t) /\ SymbolFields(u) => t.repr = u.repr /\ t.role = u.role
        /\ ParamFields(t) /\ ParamFields(u) => t.repr = u.repr /\ t.role = u.role
        /\ ValueFields(t) /\ ValueFields(u) => t.repr = u.repr /\ t.role = u.role
    BY <1>1, WrappedLeavesDistinct
       DEF SymbolFields, ParamFields, ValueFields, WrappedLeavesDistinct
  <2>7. t.repr = u.repr /\ t.role = u.role
    BY <2>1, <2>2, <2>3, <2>4, <2>5, <2>6
  <2> QED BY <1>1, <2>7 DEF Records
<1> QED BY <1>2, <1>3

-----------------------------------------------------------------------------
(* Interning *)

(* An object found in a heap is in its table, and is the term looked for.  *)
LEMMA FoundIsTerm ==
  ASSUME NEW h, HeapOK(h), NEW t, New(h, t), NEW p \in Found(h, t)
  PROVE  p \in Objects(h) /\ p \in InTable(h) /\ [h.terms[p] EXCEPT !.id = 0] = t
<1>1. Hash(t.wrapped) \in Hashes
  BY DEF New, Records, Hashes
<1>2. p \in h.table[Hash(t.wrapped)] /\ Compare(h.terms[p], t)
  BY DEF Found
<1>3. p \in Objects(h) /\ p \in InTable(h)
  BY <1>1, <1>2 DEF HeapOK, Filed, InTable
<1>4. h.terms[p] \in Records
  BY <1>3 DEF HeapOK, Heaps, Objects
<1> DEFINE u == [h.terms[p] EXCEPT !.id = 0]
<1>5. u \in Records /\ Shape(u) /\ u.id = 0 /\ Compare(u, t)
  BY <1>2, <1>3, <1>4 DEF Records, HeapOK, WellMade, Compare
<1>6. u = t
  <2> HIDE DEF u
  <2> QED BY <1>5, CompareIsEqual DEF New
<1> QED BY <1>3, <1>6

(* A term that is not found gets a new object, at the end of the heap.     *)
LEMMA Appended ==
  ASSUME NEW h, HeapOK(h), NEW t, New(h, t), Found(h, t) = {}
  PROVE  LET g == Interned(h, t)
             n == Len(h.terms) + 1
         IN  /\ g \in Heaps
             /\ Len(g.terms) = n /\ n \in Nat
             /\ g.next = Len(g.terms)
             /\ Objects(g) = Objects(h) \cup {n}
             /\ n \notin Objects(h)
             /\ \A p \in Objects(h) : g.terms[p] = h.terms[p]
             /\ g.terms[n] = [t EXCEPT !.id = n - 1]
             /\ \A b \in Hashes : g.table[b] = IF b = Hash(t.wrapped) THEN h.table[b] \cup {n}
                                               ELSE h.table[b]
             /\ Hash(t.wrapped) \in Hashes
<1> DEFINE g == Interned(h, t)
           n == Len(h.terms) + 1
           t1 == [t EXCEPT !.id = h.next]
<1>1. h.terms \in Seq(Records) /\ h.table \in [Hashes -> SUBSET Nat] /\ h.next = Len(h.terms)
  BY DEF HeapOK, Heaps
<1>2. Len(h.terms) \in Nat /\ n \in Nat /\ h.next = n - 1
  BY <1>1
<1>3. t1 \in Records
  BY <1>1, <1>2 DEF New, Records
<1>4. Hash(t.wrapped) \in Hashes
  BY DEF New, Records, Hashes
<1>5. g = [terms |-> Append(h.terms, t1),
           table |-> [h.table EXCEPT ![Hash(t.wrapped)] = @ \cup {n}],
           next  |-> h.next + 1]
  BY DEF Interned
<1>6. /\ Append(h.terms, t1) \in Seq(Records)
      /\ Len(Append(h.terms, t1)) = n
      /\ Append(h.terms, t1)[n] = t1
      /\ \A p \in 1 .. Len(h.terms) : Append(h.terms, t1)[p] = h.terms[p]
  <2> HIDE DEF t1
  <2> QED BY <1>1, <1>3
<1>7. [h.table EXCEPT ![Hash(t.wrapped)] = @ \cup {n}] \in [Hashes -> SUBSET Nat]
  BY <1>1, <1>2, <1>4
<1>8. g \in Heaps
  BY <1>2, <1>5, <1>6, <1>7 DEF Heaps
<1>9. Objects(g) = Objects(h) \cup {n} /\ n \notin Objects(h)
  BY <1>2, <1>5, <1>6 DEF Objects
<1>10. \A p \in Objects(h) : g.terms[p] = h.terms[p]
  <2> HIDE DEF t1
  <2> QED BY <1>5, <1>6 DEF Objects
<1>11. Len(g.terms) = n /\ g.next = Len(g.terms)
  <2> HIDE DEF t1, g
  <2> QED BY <1>1, <1>2, <1>5, <1>6
<1>12. g.terms[n] = [t EXCEPT !.id = n - 1]
  <2>1. g.terms[n] = t1
    <3> HIDE DEF t1, g
    <3> QED BY <1>5, <1>6
  <2> QED BY <1>2, <2>1
<1>13. \A b \in Hashes : g.table[b] = IF b = Hash(t.wrapped) THEN h.table[b] \cup {n}
                                      ELSE h.table[b]
  <2>1. g.table = [h.table EXCEPT ![Hash(t.wrapped)] = @ \cup {n}]
    <3> HIDE DEF t1, g
    <3> QED BY <1>5
  <2> HIDE DEF g, n
  <2> QED BY <1>1, <1>4, <2>1
<1> QED BY <1>2, <1>4, <1>8, <1>9, <1>10, <1>11, <1>12, <1>13

(* Hash-consing keeps the heap an invariant heap, only adds to it, and the *)
(* pointer it returns stands for the term that was asked for.              *)
LEMMA InternedOK ==
  ASSUME NEW h, HeapOK(h), NEW t, New(h, t)
  PROVE  LET g == Interned(h, t)
             p == Pointer(h, t)
         IN  /\ HeapOK(g)
             /\ Extends(h, g)
             /\ p \in Objects(g) /\ p \in InTable(g)
             /\ [g.terms[p] EXCEPT !.id = 0] = t
<1> DEFINE g == Interned(h, t)
           n == Len(h.terms) + 1
<1>1. CASE Found(h, t) # {}
  <2>1. g = h /\ Pointer(h, t) \in Found(h, t)
    BY <1>1 DEF Interned, Pointer
  <2> QED BY <2>1, FoundIsTerm DEF Extends
<1>2. CASE Found(h, t) = {}
  <2>0. Pointer(h, t) = n
    BY <1>2 DEF Pointer
  <2>1. /\ g \in Heaps
        /\ n \in Nat
        /\ g.next = Len(g.terms)
        /\ Objects(g) = Objects(h) \cup {n}
        /\ n \notin Objects(h)
        /\ \A p \in Objects(h) : g.terms[p] = h.terms[p]
        /\ g.terms[n] = [t EXCEPT !.id = n - 1]
        /\ \A b \in Hashes : g.table[b] = IF b = Hash(t.wrapped) THEN h.table[b] \cup {n}
                                          ELSE h.table[b]
        /\ Hash(t.wrapped) \in Hashes
    BY <1>2, Appended
  <2> HIDE DEF g
  <2>2. [g.terms[n] EXCEPT !.id = 0] = t /\ g.terms[n].id = n - 1
        /\ g.terms[n].wrapped = t.wrapped /\ g.terms[n].children = t.children
        /\ Compare(g.terms[n], t)
    BY <2>1 DEF New, Records, Compare
  <2>3. Filed(g)
    <3> SUFFICES ASSUME NEW b \in Hashes, NEW p \in g.table[b]
                 PROVE  p \in Objects(g) /\ Hash(g.terms[p].wrapped) = b
      BY DEF Filed
    <3>1. CASE p \in h.table[b]
      <4>1. p \in Objects(h) /\ Hash(h.terms[p].wrapped) = b
        BY <3>1 DEF HeapOK, Filed
      <4> QED BY <2>1, <4>1
    <3>2. CASE p \notin h.table[b]
      <4>1. p = n /\ b = Hash(t.wrapped)
        BY <2>1, <3>2
      <4> QED BY <2>1, <2>2, <4>1
    <3> QED BY <3>1, <3>2
  <2>4. WellMade(g)
    <3>1. ASSUME NEW p \in Objects(h)
          PROVE  /\ g.terms[p].id = p - 1
                 /\ Shape([g.terms[p] EXCEPT !.id = 0])
                 /\ \A i \in DOMAIN g.terms[p].children : g.terms[p].children[i] \in 1 .. p - 1
      BY <2>1 DEF HeapOK, WellMade
    <3>2. /\ g.terms[n].id = n - 1
          /\ Shape([g.terms[n] EXCEPT !.id = 0])
      BY <2>2 DEF New
    <3>3. 1 .. n - 1 = Objects(h)
      <4>1. Len(h.terms) \in Nat
        BY DEF HeapOK, Heaps
      <4> QED BY <4>1 DEF Objects
    <3>4. \A i \in DOMAIN g.terms[n].children : g.terms[n].children[i] \in 1 .. n - 1
      BY <2>2, <3>3 DEF New
    <3> QED BY <2>1, <3>1, <3>2, <3>4 DEF WellMade
  <2>5. InTable(g) = InTable(h) \cup {n}
    <3>1. ASSUME NEW p \in InTable(g)
          PROVE  p \in InTable(h) \/ p = n
      <4>1. PICK b \in Hashes : p \in g.table[b]
        BY DEF InTable
      <4>2. p \in h.table[b] \/ p = n
        BY <2>1, <4>1
      <4> QED BY <4>2 DEF InTable
    <3>2. ASSUME NEW p \in InTable(h)
          PROVE  p \in InTable(g)
      <4>1. PICK b \in Hashes : p \in h.table[b]
        BY DEF InTable
      <4>2. p \in g.table[b]
        BY <2>1, <4>1
      <4> QED BY <4>2 DEF InTable
    <3>3. n \in InTable(g)
      <4>1. n \in g.table[Hash(t.wrapped)]
        BY <2>1
      <4> QED BY <2>1, <4>1 DEF InTable
    <3> QED BY <3>1, <3>2, <3>3
  <2>6. ASSUME NEW p \in InTable(h)
        PROVE  p \in Objects(h) /\ p # n /\ ~Compare(g.terms[p], g.terms[n])
                                /\ ~Compare(g.terms[n], g.terms[p])
    <3>1. p \in Objects(h) /\ p \in h.table[Hash(h.terms[p].wrapped)]
      BY DEF InTable, HeapOK, Filed
    <3>2. ~Compare(h.terms[p], t)
      <4>1. ASSUME Compare(h.terms[p], t) PROVE FALSE
        <5>1. h.terms[p].wrapped = t.wrapped
          BY <4>1 DEF Compare
        <5>2. p \in Found(h, t)
          BY <3>1, <4>1, <5>1 DEF Found
        <5> QED BY <1>2, <5>2
      <4> QED BY <4>1
    <3> QED BY <2>1, <2>2, <3>1, <3>2 DEF Compare
  <2>7. Distinct(g)
    <3> SUFFICES ASSUME NEW p \in InTable(g), NEW q \in InTable(g),
                        Compare(g.terms[p], g.terms[q])
                 PROVE  p = q
      BY DEF Distinct
    <3>1. CASE p = n \/ q = n
      BY <2>5, <2>6, <3>1
    <3>2. CASE p # n /\ q # n
      <4>1. p \in InTable(h) /\ q \in InTable(h)
        BY <2>5, <3>2
      <4>2. Compare(h.terms[p], h.terms[q])
        BY <2>1, <2>6, <4>1
      <4> QED BY <4>1, <4>2 DEF HeapOK, Distinct
    <3> QED BY <3>1, <3>2
  <2>8. HeapOK(g)
    BY <2>1, <2>3, <2>4, <2>7 DEF HeapOK
  <2>9. Extends(h, g)
    BY <2>1, <2>5 DEF Extends
  <2> QED
    BY <2>0, <2>1, <2>2, <2>5, <2>8, <2>9 DEF g
<1> QED BY <1>1, <1>2

(* A heap that grows twice has grown.                                      *)
LEMMA ExtendsTransitive ==
  ASSUME NEW h, NEW g, NEW k, Extends(h, g), Extends(g, k)
  PROVE  Extends(h, k)
BY DEF Extends

(* Interning a term whose children are in the table keeps the children of  *)
(* what the table holds in the table.                                      *)
LEMMA InternedClosed ==
  ASSUME NEW h, HeapOK(h), NEW t, New(h, t), Closed(h),
         \A i \in DOMAIN t.children : t.children[i] \in InTable(h)
  PROVE  Closed(Interned(h, t))
<1> DEFINE g == Interned(h, t)
           n == Len(h.terms) + 1
<1>1. CASE Found(h, t) # {}
  BY <1>1 DEF Interned
<1>2. CASE Found(h, t) = {}
  <2>1. /\ n \notin Objects(h)
        /\ \A p \in Objects(h) : g.terms[p] = h.terms[p]
        /\ g.terms[n] = [t EXCEPT !.id = n - 1]
        /\ \A b \in Hashes : g.table[b] = IF b = Hash(t.wrapped) THEN h.table[b] \cup {n}
                                          ELSE h.table[b]
    BY <1>2, Appended
  <2>2. Extends(h, g)
    BY InternedOK
  <2> HIDE DEF g
  <2> SUFFICES ASSUME NEW p \in InTable(g), NEW i \in DOMAIN g.terms[p].children
               PROVE  g.terms[p].children[i] \in InTable(h)
    BY <2>2 DEF Closed, Extends, g
  <2>3. PICK b \in Hashes : p \in g.table[b]
    BY DEF InTable
  <2>4. CASE p \in h.table[b]
    <3>1. p \in Objects(h) /\ p \in InTable(h)
      BY <2>4 DEF HeapOK, Filed, InTable
    <3> QED BY <2>1, <3>1 DEF Closed
  <2>5. CASE p \notin h.table[b]
    <3>1. p = n
      BY <2>1, <2>3, <2>5
    <3>2. g.terms[n].children = t.children
      BY <2>1 DEF New, Records
    <3> QED BY <3>1, <3>2
  <2> QED BY <2>4, <2>5
<1> QED BY <1>1, <1>2

(* Every leaf that the wrapped solver can make may be interned.            *)
LEMMA NewLeaf ==
  ASSUME NEW h,
         NEW t,
         \/ \E n \in Names, s \in Sorts : WSymbol(n, s) \in WTerms /\ t = Leaf(WSymbol(n, s), s, n, "symbol")
         \/ \E n \in Names, s \in Sorts : WParam(n, s) \in WTerms /\ t = Leaf(WParam(n, s), s, n, "param")
         \/ \E v \in Values : t = Value(v)
  PROVE  New(h, t) /\ t.children = <<>>
<1>1. Shape(t)
  BY DEF Shape
<1>2. <<>> \in Seq(Nat) /\ DOMAIN <<>> = {}
  OBVIOUS
<1>3. ASSUME NEW v \in Values PROVE v[1] \in WTerms /\ v[2] \in Sorts
  BY LoggingAssumption DEF LoggingAssumption
<1>4. ASSUME NEW w \in WTerms, NEW s \in Sorts, NEW name \in Names \cup {NoName},
             NEW role \in {"symbol", "param", "value"}
      PROVE  /\ Leaf(w, s, name, role) \in Records
             /\ Leaf(w, s, name, role).id = 0
             /\ Leaf(w, s, name, role).children = <<>>
  BY <1>2 DEF Leaf, Records
<1>5. t \in Records /\ t.id = 0 /\ t.children = <<>>
  BY <1>3, <1>4 DEF Value
<1> QED BY <1>1, <1>2, <1>5 DEF New

(* A term over objects of the heap may be interned.                        *)
LEMMA NewNode ==
  ASSUME NEW h, HeapOK(h), NEW w \in WTerms, NEW s \in Sorts, NEW op \in Ops \cup {NoOp},
         NEW ps \in Seq(Objects(h)), ps # <<>>
  PROVE  New(h, Node(w, s, op, ps)) /\ Node(w, s, op, ps).children = ps
<1>1. ps \in Seq(Nat) /\ \A i \in DOMAIN ps : ps[i] \in Objects(h)
  BY DEF Objects
<1>2. Node(w, s, op, ps) \in Records
  BY <1>1 DEF Node, Records
<1>3. Shape(Node(w, s, op, ps))
  BY DEF Shape, Node
<1> QED BY <1>1, <1>2, <1>3 DEF New, Node

-----------------------------------------------------------------------------
(* Steps *)

(* Returning a new term over a heap that grew from the current one keeps   *)
(* every part of the invariant but SymbolsOK.                              *)
LEMMA ReturnOK ==
  ASSUME IInv, NEW h, HeapOK(h), Extends(heap, h), NEW t, New(h, t), Return(h, t),
         ~tainted => /\ Closed(h)
                     /\ \A i \in DOMAIN t.children : t.children[i] \in InTable(h),
         UNCHANGED <<SolvingState, resets, tainted, aborted>>
  PROVE  /\ (HeapOK(heap) /\ HeldOK /\ CacheOK /\ TaintOK /\ FlagsOK)'
         /\ Extends(heap, heap')
         /\ Pointer(h, t) \in Objects(heap')
<1> DEFINE p == Pointer(h, t)
<1>1. heap' = Interned(h, t) /\ held' = held \cup {<<t, p>>} /\ core' = {}
  BY DEF Return
<1>2. /\ HeapOK(heap') /\ Extends(h, heap')
      /\ p \in Objects(heap') /\ p \in InTable(heap')
      /\ [heap'.terms[p] EXCEPT !.id = 0] = t
  BY <1>1, InternedOK
<1>3. Extends(heap, heap')
  BY <1>2, ExtendsTransitive
<1> HIDE DEF p
<1>4. HeldOK'
  <2> SUFFICES ASSUME NEW g \in held'
               PROVE  g[2] \in Objects(heap') /\ [heap'.terms[g[2]] EXCEPT !.id = 0] = g[1]
    BY DEF HeldOK, Term
  <2>1. CASE g \in held
    BY <1>3, <2>1 DEF IInv, HeldOK, Term, Extends
  <2>2. CASE g = <<t, p>>
    BY <1>2, <2>2
  <2> QED BY <1>1, <2>1, <2>2
<1>5. CacheOK'
  <2>1. UNCHANGED <<assumption_cache, wrapped_assumed, assumed, uncached>>
    BY DEF SolvingState
  <2> QED BY <1>1, <1>3, <2>1 DEF IInv, CacheOK, Extends
<1>6. TaintOK'
  <2> SUFFICES ASSUME ~tainted
               PROVE  /\ ~aborted
                      /\ \A g \in held' : g[2] \in InTable(heap')
                      /\ Closed(heap')
    BY DEF TaintOK, Handles
  <2>1. ~aborted
    BY DEF IInv, TaintOK
  <2>2. ASSUME NEW g \in held'
        PROVE  g[2] \in InTable(heap')
    <3>1. CASE g \in held
      BY <1>3, <3>1 DEF IInv, TaintOK, Handles, Extends
    <3>2. CASE g = <<t, p>>
      BY <1>2, <3>2
    <3> QED BY <1>1, <3>1, <3>2
  <2>3. Closed(heap')
    BY <1>1, InternedClosed
  <2> QED BY <2>1, <2>2, <2>3
<1>7. FlagsOK'
  BY DEF IInv, FlagsOK
<1> QED BY <1>2, <1>3, <1>4, <1>5, <1>6, <1>7 DEF p

(* A call that only adds terms leaves every entry of symbol_table the     *)
(* term it was.                                                           *)
LEMMA SymbolsKept ==
  ASSUME IInv, Extends(heap, heap'), UNCHANGED symbol_table
  PROVE  SymbolsOK'
BY DEF IInv, SymbolsOK, Extends

(* A call that adds no term extends the heap, too.                        *)
LEMMA ExtendsReflexive ==
  ASSUME NEW h
  PROVE  Extends(h, h)
BY DEF Extends

(* Returning a leaf. *)
LEMMA ReturnLeafOK ==
  ASSUME IInv,
         NEW t,
         \/ \E n \in Names, s \in Sorts : WSymbol(n, s) \in WTerms /\ t = Leaf(WSymbol(n, s), s, n, "symbol")
         \/ \E n \in Names, s \in Sorts : WParam(n, s) \in WTerms /\ t = Leaf(WParam(n, s), s, n, "param")
         \/ \E v \in Values : t = Value(v),
         Return(heap, t),
         UNCHANGED Others
  PROVE  /\ (HeapOK(heap) /\ HeldOK /\ CacheOK /\ TaintOK /\ FlagsOK)'
         /\ Extends(heap, heap')
         /\ Pointer(heap, t) \in Objects(heap')
<1>1. New(heap, t) /\ t.children = <<>>
  BY NewLeaf
<1>2. ~tainted => Closed(heap) /\ \A i \in DOMAIN t.children : t.children[i] \in InTable(heap)
  BY <1>1 DEF IInv, TaintOK
<1>3. Extends(heap, heap) /\ HeapOK(heap)
  BY ExtendsReflexive DEF IInv
<1>4. UNCHANGED <<SolvingState, resets, tainted, aborted>>
  BY DEF Others
<1> QED BY <1>1, <1>2, <1>3, <1>4, ReturnOK

(* The objects a client holds exist, and have a record.                    *)
LEMMA HandleIsObject ==
  ASSUME IInv, NEW p \in Handles
  PROVE  p \in Objects(heap) /\ Term(p) \in Records
<1>1. p \in Objects(heap)
  BY DEF IInv, HeldOK, Handles
<1> QED BY <1>1 DEF IInv, HeapOK, Heaps, Objects, Term

(* One lemma per call: it keeps the invariant. First the calls that       *)
(* return a leaf.                                                         *)
LEMMA MakeValueOK ==
  ASSUME IInv, NEW v \in Values, MakeValue(v)
  PROVE  IInv'
<1>1. Return(heap, Value(v)) /\ UNCHANGED symbol_table /\ UNCHANGED Others
  BY DEF MakeValue
<1>2. (HeapOK(heap) /\ HeldOK /\ CacheOK /\ TaintOK /\ FlagsOK)' /\ Extends(heap, heap')
  BY <1>1, ReturnLeafOK
<1> QED BY <1>1, <1>2, SymbolsKept DEF IInv

(* A value of the model is interned as any other leaf.                    *)
LEMMA GetValueOK ==
  ASSUME IInv, NEW p, NEW v \in Values, get_value(p, v)
  PROVE  IInv'
<1>1. Return(heap, Value(v)) /\ UNCHANGED symbol_table /\ UNCHANGED Others
  BY DEF get_value
<1>2. (HeapOK(heap) /\ HeldOK /\ CacheOK /\ TaintOK /\ FlagsOK)' /\ Extends(heap, heap')
  BY <1>1, ReturnLeafOK
<1> QED BY <1>1, <1>2, SymbolsKept DEF IInv

(* make_param.                                                            *)
LEMMA MakeParamOK ==
  ASSUME IInv, NEW n \in Names, NEW s \in Sorts, make_param(n, s)
  PROVE  IInv'
<1> DEFINE t == Leaf(WParam(n, s), s, n, "param")
<1>1. WParam(n, s) \in WTerms /\ Return(heap, t) /\ UNCHANGED symbol_table /\ UNCHANGED Others
  BY DEF make_param
<1> HIDE DEF t
<1>2. (HeapOK(heap) /\ HeldOK /\ CacheOK /\ TaintOK /\ FlagsOK)' /\ Extends(heap, heap')
  BY <1>1, ReturnLeafOK DEF t
<1> QED BY <1>1, <1>2, SymbolsKept DEF IInv

(* make_symbol enters the term it returns into symbol_table, too.         *)
LEMMA MakeSymbolOK ==
  ASSUME IInv, NEW n \in Names, NEW s \in Sorts, make_symbol(n, s)
  PROVE  IInv'
<1> DEFINE t == Leaf(WSymbol(n, s), s, n, "symbol")
<1>1. /\ WSymbol(n, s) \in WTerms
      /\ Return(heap, t)
      /\ symbol_table' = [k \in DOMAIN symbol_table \cup {n} |->
                            IF k = n THEN Pointer(heap, t) ELSE symbol_table[k]]
      /\ UNCHANGED Others
  BY DEF make_symbol
<1> HIDE DEF t
<1>2. /\ (HeapOK(heap) /\ HeldOK /\ CacheOK /\ TaintOK /\ FlagsOK)'
      /\ Extends(heap, heap')
      /\ Pointer(heap, t) \in Objects(heap')
  BY <1>1, ReturnLeafOK DEF t
<1>3. SymbolsOK'
  <2> SUFFICES ASSUME NEW k \in DOMAIN symbol_table \cup {n}
               PROVE  k \in Names /\ symbol_table'[k] \in Objects(heap')
    BY <1>1 DEF SymbolsOK
  <2>1. CASE k = n
    BY <1>1, <1>2, <2>1
  <2>2. CASE k # n
    BY <1>1, <1>2, <2>2 DEF IInv, SymbolsOK, Extends
  <2> QED BY <2>1, <2>2
<1> QED BY <1>2, <1>3 DEF IInv

(* A term whose children the client holds. *)
LEMMA ReturnNodeOK ==
  ASSUME IInv, NEW w \in WTerms, NEW s \in Sorts, NEW op \in Ops \cup {NoOp},
         NEW ps \in Seq(Handles), ps # <<>>,
         Return(heap, Node(w, s, op, ps)),
         UNCHANGED <<symbol_table, SolvingState, resets, tainted, aborted>>
  PROVE  IInv'
<1> DEFINE t == Node(w, s, op, ps)
<1>1. ps \in Seq(Objects(heap))
  BY HandleIsObject
<1>2. New(heap, t) /\ t.children = ps
  <2>1. HeapOK(heap)
    BY DEF IInv
  <2> QED BY <1>1, <2>1, NewNode, ZenonT(60)
<1> HIDE DEF t
<1>3. ~tainted => Closed(heap) /\ \A i \in DOMAIN t.children : t.children[i] \in InTable(heap)
  BY <1>2 DEF IInv, TaintOK
<1>4. Extends(heap, heap) /\ HeapOK(heap)
  BY ExtendsReflexive DEF IInv
<1>5. (HeapOK(heap) /\ HeldOK /\ CacheOK /\ TaintOK /\ FlagsOK)' /\ Extends(heap, heap')
  BY <1>2, <1>3, <1>4, ReturnOK DEF t
<1> QED BY <1>5, SymbolsKept DEF IInv

(* A constant array is a node with one child and no operator.             *)
LEMMA MakeConstArrayOK ==
  ASSUME IInv, NEW p \in Handles, NEW s \in Sorts, MakeConstArray(p, s)
  PROVE  IInv'
<1>1. /\ WConstArray(Term(p).wrapped, s) \in WTerms
      /\ Return(heap, Node(WConstArray(Term(p).wrapped, s), s, NoOp, <<p>>))
      /\ UNCHANGED <<symbol_table, SolvingState, resets, tainted, aborted>>
  BY DEF MakeConstArray, ConstArray, Others, Term
<1>2. <<p>> \in Seq(Handles) /\ <<p>> # <<>>
  OBVIOUS
<1> QED BY <1>1, <1>2, ReturnNodeOK

(* make_term over terms the client holds: the assertion fails only when a  *)
(* term from before a reset was handed out.                                *)
LEMMA MakeTermOK ==
  ASSUME IInv, NEW op \in Ops, NEW ps \in Seq(Handles), ps # <<>>, MakeTerm(op, ps)
  PROVE  IInv'
<1> DEFINE t == Application(heap, op, ps)
           known == \A i \in DOMAIN ps : Contains(heap, ps[i])
<1>1. CASE /\ t.wrapped \in WTerms /\ t.sort \in Sorts /\ Return(heap, t)
           /\ UNCHANGED <<symbol_table, SolvingState, resets, tainted, aborted>>
  <2>1. t = Node(t.wrapped, t.sort, op, ps)
    BY DEF Application, Node
  <2> HIDE DEF t
  <2> QED BY <1>1, <2>1, ReturnNodeOK
<1>2. CASE /\ ~known /\ aborted' = TRUE
           /\ UNCHANGED <<heap, held, core, symbol_table, SolvingState, resets, tainted>>
  <2>1. PICK i \in DOMAIN ps : ~Contains(heap, ps[i])
    BY <1>2
  <2>2. ps[i] \in Handles
    OBVIOUS
  <2>3. ps[i] \notin InTable(heap)
    <3>1. ASSUME ps[i] \in InTable(heap) PROVE FALSE
      <4>1. PICK b \in Hashes : ps[i] \in heap.table[b]
        BY <3>1 DEF InTable
      <4>2. Hash(heap.terms[ps[i]].wrapped) = b
        BY <4>1 DEF IInv, HeapOK, Filed
      <4>3. ps[i] \in Found(heap, heap.terms[ps[i]])
        BY <4>1, <4>2 DEF Found, Compare
      <4> QED BY <2>1, <4>3 DEF Contains
    <3> QED BY <3>1
  <2>4. tainted
    BY <2>2, <2>3 DEF IInv, TaintOK
  <2> QED BY <1>2, <2>4 DEF IInv, HeldOK, SymbolsOK, CacheOK, TaintOK, FlagsOK, SolvingState, Term
<1> QED BY <1>1, <1>2 DEF MakeTerm

(* Interning a value that get_array_values meets: the heap grows, stays an *)
(* invariant heap, and stays closed.                                       *)
LEMMA InternValue ==
  ASSUME NEW h, HeapOK(h), NEW v \in Values
  PROVE  LET g == Interned(h, Value(v))
             p == Pointer(h, Value(v))
         IN  /\ HeapOK(g) /\ Extends(h, g)
             /\ p \in Objects(g) /\ p \in InTable(g)
             /\ Closed(h) => Closed(g)
<1> DEFINE t == Value(v)
<1>1. New(h, t) /\ t.children = <<>>
  BY NewLeaf
<1> HIDE DEF t
<1>2. Closed(h) => Closed(Interned(h, t))
  BY <1>1, InternedClosed
<1>3. /\ HeapOK(Interned(h, t)) /\ Extends(h, Interned(h, t))
      /\ Pointer(h, t) \in Objects(Interned(h, t)) /\ Pointer(h, t) \in InTable(Interned(h, t))
  BY <1>1, InternedOK
<1> QED BY <1>2, <1>3 DEF t

(* The constant array and the Store over it are returned in a heap that    *)
(* grew by the values they are made of.                                    *)
LEMMA GetArrayValueOK ==
  ASSUME IInv, NEW p \in Handles, NEW base \in Values, NEW i \in Values, NEW e \in Values,
         GetArrayValue(p, base, i, e)
  PROVE  IInv'
<1> DEFINE s     == Term(p).sort
           pb    == Pointer(heap, Value(base))
           h1    == Interned(heap, Value(base))
           pi    == Pointer(h1, Value(i))
           h2    == Interned(h1, Value(i))
           pe    == Pointer(h2, Value(e))
           h3    == Interned(h2, Value(e))
           array == ConstArray(h3, pb, s)
           pa    == Pointer(h3, array)
           h4    == Interned(h3, array)
           store == Application(h4, Store, <<pa, pi, pe>>)
<1>1. /\ array.wrapped \in WTerms
      /\ \/ Return(h1, ConstArray(h1, pb, s))
         \/ store.wrapped \in WTerms /\ store.sort = s /\ Return(h4, store)
      /\ UNCHANGED <<symbol_table, SolvingState, resets, tainted, aborted>>
  BY DEF GetArrayValue, Others
<1>2. s \in Sorts
  BY HandleIsObject DEF Records
<1>3. /\ HeapOK(heap) /\ (~tainted => Closed(heap))
  BY DEF IInv, TaintOK
<1>4. /\ HeapOK(h1) /\ Extends(heap, h1)
      /\ pb \in Objects(h1) /\ pb \in InTable(h1)
      /\ ~tainted => Closed(h1)
  BY <1>3, InternValue
<1>5. /\ HeapOK(h2) /\ Extends(h1, h2)
      /\ pi \in Objects(h2) /\ pi \in InTable(h2)
      /\ ~tainted => Closed(h2)
  <2> HIDE DEF h1, pb
  <2> QED BY <1>4, InternValue
<1>6. /\ HeapOK(h3) /\ Extends(h2, h3)
      /\ pe \in Objects(h3) /\ pe \in InTable(h3)
      /\ ~tainted => Closed(h3)
  <2> HIDE DEF h2, pi
  <2> QED BY <1>5, InternValue
<1> HIDE DEF h1, h2, h3, pb, pi, pe
<1>7. Extends(h1, h3) /\ Extends(heap, h3)
  BY <1>4, <1>5, <1>6, ExtendsTransitive
<1>8. ASSUME NEW h, HeapOK(h), Extends(h1, h), ~tainted => Closed(h),
             WConstArray(h.terms[pb].wrapped, s) \in WTerms
      PROVE  /\ New(h, ConstArray(h, pb, s))
             /\ ~tainted => /\ Closed(h)
                            /\ \A k \in DOMAIN ConstArray(h, pb, s).children :
                                 ConstArray(h, pb, s).children[k] \in InTable(h)
  <2>1. <<pb>> \in Seq(Objects(h)) /\ <<pb>> # <<>> /\ pb \in InTable(h)
    BY <1>4, <1>8 DEF Extends
  <2>2. ConstArray(h, pb, s) = Node(WConstArray(h.terms[pb].wrapped, s), s, NoOp, <<pb>>)
    BY DEF ConstArray
  <2>3. New(h, ConstArray(h, pb, s)) /\ ConstArray(h, pb, s).children = <<pb>>
    <3> DEFINE w  == WConstArray(h.terms[pb].wrapped, s)
               ps == <<pb>>
    <3>1. w \in WTerms /\ ps \in Seq(Objects(h)) /\ ps # <<>> /\ NoOp \in Ops \cup {NoOp}
      BY <1>8, <2>1
    <3>2. ConstArray(h, pb, s) = Node(w, s, NoOp, ps)
      BY <2>2
    <3> HIDE DEF w, ps, s
    <3>3. HeapOK(h) /\ s \in Sorts
      BY <1>2, <1>8
    <3>4. New(h, Node(w, s, NoOp, ps)) /\ Node(w, s, NoOp, ps).children = ps
      BY <3>1, <3>3, NewNode, ZenonT(60)
    <3> QED BY <3>2, <3>4 DEF ps
  <2>4. \A k \in DOMAIN <<pb>> : <<pb>>[k] = pb
    OBVIOUS
  <2>5. \A k \in DOMAIN ConstArray(h, pb, s).children :
          ConstArray(h, pb, s).children[k] \in InTable(h)
    BY <2>1, <2>3, <2>4
  <2> QED BY <1>8, <2>3, <2>5
<1>9. WConstArray(h3.terms[pb].wrapped, s) \in WTerms
  BY <1>1 DEF ConstArray, Node
<1>10. h1.terms[pb] = h3.terms[pb]
  BY <1>4, <1>7 DEF Extends
<1>11. CASE Return(h1, ConstArray(h1, pb, s))
  <2> DEFINE t == ConstArray(h1, pb, s)
  <2>1. /\ New(h1, t)
        /\ ~tainted => Closed(h1) /\ \A k \in DOMAIN t.children : t.children[k] \in InTable(h1)
    BY <1>4, <1>8, <1>9, <1>10, ExtendsReflexive
  <2>2. (HeapOK(heap) /\ HeldOK /\ CacheOK /\ TaintOK /\ FlagsOK)' /\ Extends(heap, heap')
    <3> HIDE DEF t
    <3> QED BY <1>1, <1>4, <1>11, <2>1, ReturnOK DEF t
  <2> QED BY <1>1, <2>2, SymbolsKept DEF IInv
<1>12. CASE store.wrapped \in WTerms /\ store.sort = s /\ Return(h4, store)
  <2>1. /\ New(h3, array)
        /\ ~tainted => Closed(h3) /\ \A k \in DOMAIN array.children : array.children[k] \in InTable(h3)
    BY <1>6, <1>7, <1>8, <1>9
  <2> HIDE DEF array
  <2>2. /\ HeapOK(h4) /\ Extends(h3, h4)
        /\ pa \in Objects(h4) /\ pa \in InTable(h4)
    BY <1>6, <2>1, InternedOK
  <2>3. ~tainted => Closed(h4)
    BY <1>6, <2>1, InternedClosed
  <2> HIDE DEF h4, pa
  <2>4. Extends(heap, h4) /\ Extends(h2, h4)
    BY <1>6, <1>7, <2>2, ExtendsTransitive
  <2>5. \A q \in {pa, pi, pe} : q \in Objects(h4) /\ q \in InTable(h4)
    BY <1>5, <1>6, <2>2, <2>4 DEF Extends
  <2>6. <<pa, pi, pe>> \in Seq(Objects(h4)) /\ <<pa, pi, pe>> # <<>>
    BY <2>5
  <2>7. store = Node(store.wrapped, store.sort, Store, <<pa, pi, pe>>)
    BY DEF Application, Node
  <2>8. Store \in Ops \cup {NoOp}
    BY LoggingAssumption DEF LoggingAssumption
  <2> HIDE DEF store, s
  <2>9. New(h4, store) /\ store.children = <<pa, pi, pe>>
    <3> DEFINE w  == store.wrapped
               ps == <<pa, pi, pe>>
    <3>1. w \in WTerms /\ ps \in Seq(Objects(h4)) /\ ps # <<>>
      BY <1>12, <2>6
    <3>2. store = Node(w, s, Store, ps)
      BY <1>12, <2>7
    <3> HIDE DEF w, ps
    <3>3. HeapOK(h4) /\ s \in Sorts
      BY <1>2, <2>2
    <3>4. New(h4, Node(w, s, Store, ps)) /\ Node(w, s, Store, ps).children = ps
      BY <2>8, <3>1, <3>3, NewNode, ZenonT(60)
    <3> QED BY <3>2, <3>4 DEF ps
  <2>10. \A k \in DOMAIN store.children : store.children[k] \in InTable(h4)
    <3>1. \A k \in DOMAIN <<pa, pi, pe>> : <<pa, pi, pe>>[k] \in {pa, pi, pe}
      OBVIOUS
    <3> QED BY <2>5, <2>9, <3>1
  <2>11. (HeapOK(heap) /\ HeldOK /\ CacheOK /\ TaintOK /\ FlagsOK)' /\ Extends(heap, heap')
    BY <1>1, <1>12, <2>2, <2>3, <2>4, <2>9, <2>10, ReturnOK
  <2> QED BY <1>1, <2>11, SymbolsKept DEF IInv
<1> QED BY <1>1, <1>11, <1>12

(* get_symbol returns what symbol_table holds, which a reset may have     *)
(* left outside the table.                                                *)
LEMMA GetSymbolOK ==
  ASSUME IInv, NEW n \in Names, get_symbol(n)
  PROVE  IInv'
<1> DEFINE p == symbol_table[n]
<1>1. /\ held' = held \cup {<<[Term(p) EXCEPT !.id = 0], p>>}
      /\ tainted' = (tainted \/ p \notin InTable(heap))
      /\ core' = {}
      /\ UNCHANGED <<heap, symbol_table, SolvingState, resets, aborted>>
  BY DEF get_symbol
<1>2. p \in Objects(heap)
  BY DEF get_symbol, IInv, SymbolsOK
<1> HIDE DEF p
<1>3. HeldOK'
  BY <1>1, <1>2 DEF IInv, HeldOK, Term
<1>4. TaintOK'
  <2> SUFFICES ASSUME ~tainted'
               PROVE  /\ ~aborted
                      /\ \A g \in held' : g[2] \in InTable(heap)
                      /\ Closed(heap)
    BY <1>1 DEF TaintOK, Handles
  <2>1. ~tainted /\ p \in InTable(heap)
    BY <1>1 DEF IInv, FlagsOK
  <2>2. ~aborted /\ Closed(heap) /\ Handles \subseteq InTable(heap)
    BY <2>1 DEF IInv, TaintOK
  <2>3. ASSUME NEW g \in held'
        PROVE  g[2] \in InTable(heap)
    <3>1. CASE g \in held
      BY <2>2, <3>1 DEF Handles
    <3>2. CASE g = <<[Term(p) EXCEPT !.id = 0], p>>
      BY <2>1, <3>2
    <3> QED BY <1>1, <3>1, <3>2
  <2> QED BY <2>2, <2>3
<1>5. FlagsOK'
  BY <1>1 DEF IInv, FlagsOK
<1>6. (HeapOK(heap) /\ SymbolsOK /\ CacheOK)'
  BY <1>1 DEF IInv, SymbolsOK, CacheOK, SolvingState
<1> QED BY <1>3, <1>4, <1>5, <1>6 DEF IInv

(* check_sat_assuming maps every wrapped assumption back to one that was  *)
(* passed.                                                                *)
LEMMA CheckSatAssumingOK ==
  ASSUME IInv, NEW A \in SUBSET Handles, check_sat_assuming(A)
  PROVE  IInv'
<1> DEFINE W == {Term(p).wrapped : p \in A}
<1>1. /\ wrapped_assumed' = W
      /\ assumption_cache' \in [W -> A]
      /\ assumed' = A /\ core' = {}
      /\ UNCHANGED <<heap, symbol_table, held, uncached, resets, tainted, aborted>>
  BY DEF check_sat_assuming
<1>2. A \subseteq Objects(heap) /\ W \subseteq WTerms
  BY HandleIsObject DEF Records
<1> HIDE DEF W
<1>3. CacheOK'
  BY <1>1, <1>2 DEF IInv, CacheOK
<1> QED
  BY <1>1, <1>3 DEF IInv, HeldOK, SymbolsOK, TaintOK, FlagsOK, Handles, Term

(* The core that is returned comes out of the cache.                      *)
LEMMA GetUnsatAssumptionsOK ==
  ASSUME IInv, NEW W \in SUBSET wrapped_assumed, get_unsat_assumptions(W)
  PROVE  IInv'
<1>1. /\ uncached' = (uncached \/ ~(W \subseteq DOMAIN assumption_cache))
      /\ core' = {assumption_cache[c] : c \in W \cap DOMAIN assumption_cache}
      /\ UNCHANGED <<heap, symbol_table, assumption_cache, wrapped_assumed, held, assumed,
                     resets, tainted, aborted>>
  BY DEF get_unsat_assumptions
<1>2. uncached' = FALSE /\ core' \subseteq assumed
  <2>1. W \subseteq DOMAIN assumption_cache /\ uncached = FALSE
    BY DEF IInv, CacheOK
  <2>2. uncached' = FALSE
    BY <1>1, <2>1
  <2>3. core' \subseteq assumed
    BY <1>1 DEF IInv, CacheOK
  <2> QED BY <2>2, <2>3
<1>3. CacheOK'
  BY <1>1, <1>2 DEF IInv, CacheOK
<1> QED
  BY <1>1, <1>3 DEF IInv, HeldOK, SymbolsOK, TaintOK, FlagsOK, Handles, Term

(* reset empties the table but keeps the objects, and their ids in use.    *)
LEMMA ResetOK ==
  ASSUME IInv, reset
  PROVE  IInv'
<1>1. /\ resets < MaxResets /\ resets' = resets + 1
      /\ heap' = [heap EXCEPT !.table = [b \in Hashes |-> {}]]
      /\ wrapped_assumed' = {} /\ held' = {} /\ core' = {}
      /\ UNCHANGED <<symbol_table, assumption_cache, assumed, uncached, tainted, aborted>>
  BY DEF reset
<1>2. /\ heap' \in Heaps
      /\ heap'.terms = heap.terms /\ heap'.next = heap.next
      /\ heap'.table = [b \in Hashes |-> {}]
  BY <1>1 DEF IInv, HeapOK, Heaps
<1>3. InTable(heap') = {} /\ Objects(heap') = Objects(heap)
  BY <1>2 DEF InTable, Objects
<1>4. HeapOK(heap')
  BY <1>2, <1>3 DEF IInv, HeapOK, Filed, WellMade, Distinct
<1>5. (HeldOK /\ SymbolsOK /\ CacheOK)'
  BY <1>1, <1>3 DEF IInv, HeldOK, SymbolsOK, CacheOK
<1>6. TaintOK'
  BY <1>1, <1>3 DEF IInv, TaintOK, Handles, Closed
<1>7. FlagsOK'
  BY <1>1, LoggingAssumption DEF IInv, FlagsOK, LoggingAssumption
<1> QED BY <1>4, <1>5, <1>6, <1>7 DEF IInv

-----------------------------------------------------------------------------
(* Theorems *)

(* The solver starts with an empty heap.                                  *)
LEMMA InitOK == Init => IInv
<1> SUFFICES ASSUME Init PROVE IInv
  OBVIOUS
<1>1. /\ heap = [terms |-> <<>>, table |-> [b \in Hashes |-> {}], next |-> 0]
      /\ DOMAIN symbol_table = {} /\ DOMAIN assumption_cache = {}
      /\ wrapped_assumed = {} /\ held = {} /\ assumed = {} /\ core = {}
      /\ uncached = FALSE /\ resets = 0 /\ tainted = FALSE /\ aborted = FALSE
  BY DEF Init
<1>2. heap.terms = <<>> /\ heap.next = 0 /\ heap.table = [b \in Hashes |-> {}]
  BY <1>1
<1>3. heap \in Heaps
  <2>1. <<>> \in Seq(Records)
    OBVIOUS
  <2>2. [b \in Hashes |-> {}] \in [Hashes -> SUBSET Nat]
    OBVIOUS
  <2> QED BY <1>1, <2>1, <2>2 DEF Heaps
<1>4. Objects(heap) = {} /\ InTable(heap) = {} /\ Len(heap.terms) = 0
  BY <1>2 DEF Objects, InTable
<1>5. HeapOK(heap)
  BY <1>2, <1>3, <1>4 DEF HeapOK, Filed, WellMade, Distinct
<1>6. TaintOK
  BY <1>1, <1>4 DEF TaintOK, Handles, Closed
<1>7. HeldOK /\ SymbolsOK /\ CacheOK
  BY <1>1 DEF HeldOK, SymbolsOK, CacheOK
<1>8. FlagsOK
  <2>1. resets = 0 /\ tainted = FALSE /\ aborted = FALSE
    BY <1>1
  <2>2. MaxResets \in Nat
    BY LoggingAssumption DEF LoggingAssumption
  <2>3. 0 \in 0 .. MaxResets
    BY <2>2
  <2> QED BY <2>1, <2>3 DEF FlagsOK
<1> QED BY <1>5, <1>6, <1>7, <1>8 DEF IInv

(* Every call, and a stuttering step, keeps the invariant.                 *)
LEMMA StepOK == IInv /\ [Next]_vars => IInv'
<1> SUFFICES ASSUME IInv, [Next]_vars PROVE IInv'
  OBVIOUS
<1>1. CASE \E v \in Values : MakeValue(v)
  BY <1>1, MakeValueOK
<1>2. CASE \E n \in Names, s \in Sorts : make_symbol(n, s)
  BY <1>2, MakeSymbolOK
<1>3. CASE \E n \in Names : get_symbol(n)
  BY <1>3, GetSymbolOK
<1>4. CASE \E n \in Names, s \in Sorts : make_param(n, s)
  BY <1>4, MakeParamOK
<1>5. CASE \E p \in Handles, s \in Sorts : MakeConstArray(p, s)
  BY <1>5, MakeConstArrayOK
<1>6. CASE \E op \in Ops, p \in Handles : MakeTerm(op, <<p>>)
  <2>1. PICK op \in Ops, p \in Handles : MakeTerm(op, <<p>>)
    BY <1>6
  <2>2. <<p>> \in Seq(Handles) /\ <<p>> # <<>>
    OBVIOUS
  <2> QED BY <2>1, <2>2, MakeTermOK
<1>7. CASE \E op \in Ops, p, q \in Handles : MakeTerm(op, <<p, q>>)
  <2>1. PICK op \in Ops, p \in Handles, q \in Handles : MakeTerm(op, <<p, q>>)
    BY <1>7
  <2>2. <<p, q>> \in Seq(Handles) /\ <<p, q>> # <<>>
    OBVIOUS
  <2> QED BY <2>1, <2>2, MakeTermOK
<1>8. CASE \E op \in Ops, p, q, r \in Handles : MakeTerm(op, <<p, q, r>>)
  <2>1. PICK op \in Ops, p \in Handles, q \in Handles, r \in Handles : MakeTerm(op, <<p, q, r>>)
    BY <1>8
  <2>2. <<p, q, r>> \in Seq(Handles) /\ <<p, q, r>> # <<>>
    OBVIOUS
  <2> QED BY <2>1, <2>2, MakeTermOK
<1>9. CASE \E p \in Handles, v \in Values : get_value(p, v)
  BY <1>9, GetValueOK
<1>10. CASE \E p \in Handles, base, i, e \in Values : GetArrayValue(p, base, i, e)
  BY <1>10, GetArrayValueOK
<1>11. CASE Dispatch
  BY <1>11 DEF Dispatch, IInv, HeldOK, SymbolsOK, CacheOK, TaintOK, FlagsOK, Handles, Term
<1>12. CASE \E A \in SUBSET {p \in Handles : Term(p).sort = BoolSort} :
              Cardinality(A) <= MaxAssumptions /\ check_sat_assuming(A)
  <2>1. PICK A \in SUBSET {p \in Handles : Term(p).sort = BoolSort} : check_sat_assuming(A)
    BY <1>12
  <2> QED BY <2>1, CheckSatAssumingOK
<1>13. CASE \E W \in SUBSET wrapped_assumed : get_unsat_assumptions(W)
  BY <1>13, GetUnsatAssumptionsOK
<1>14. CASE reset
  BY <1>14, ResetOK
<1>15. CASE UNCHANGED vars
  BY <1>15 DEF vars, IInv, HeldOK, SymbolsOK, CacheOK, TaintOK, FlagsOK, Handles, Term
<1> QED
  BY <1>1, <1>2, <1>3, <1>4, <1>5, <1>6, <1>7, <1>8, <1>9, <1>10, <1>11, <1>12, <1>13,
     <1>14, <1>15 DEF Next

(* The heap stays hash-consed and closed, whatever is called.              *)
THEOREM Invariance == Spec => []IInv
BY InitOK, StepOK, PTL DEF Spec

(* Every pointer the solver or its client keeps is to an object that       *)
(* exists, filed under its wrapped term's hash (TermHashTable).            *)
THEOREM TypeCorrect == Spec => []TypeOK
<1>1. IInv => TypeOK
  <2> SUFFICES ASSUME IInv PROVE TypeOK
    OBVIOUS
  <2>1. /\ heap.terms \in Seq(Records) /\ heap.next \in Nat /\ DOMAIN heap.table = Hashes
    BY DEF IInv, HeapOK, Heaps
  <2>2. \A b \in Hashes : \A p \in heap.table[b] :
          p \in Objects(heap) /\ Hash(Term(p).wrapped) = b
    BY DEF IInv, HeapOK, Filed, Term
  <2>3. \A p \in Objects(heap) : \A i \in DOMAIN Term(p).children :
          Term(p).children[i] \in 1 .. p - 1
    BY DEF IInv, HeapOK, WellMade, Term
  <2>4. /\ \A n \in DOMAIN symbol_table : n \in Names /\ symbol_table[n] \in Objects(heap)
        /\ Handles \subseteq Objects(heap)
    BY DEF IInv, SymbolsOK, HeldOK, Handles
  <2>5. /\ assumed \subseteq Objects(heap) /\ core \subseteq Objects(heap)
        /\ wrapped_assumed \subseteq WTerms
        /\ \A w \in DOMAIN assumption_cache : assumption_cache[w] \in Objects(heap)
    BY DEF IInv, CacheOK
  <2>6. resets \in 0 .. MaxResets /\ {uncached, tainted, aborted} \subseteq BOOLEAN
    BY DEF IInv, CacheOK, FlagsOK
  <2> QED BY <2>1, <2>2, <2>3, <2>4, <2>5, <2>6 DEF TypeOK
<1> QED BY <1>1, Invariance, PTL

(* The hash table never holds two objects that LoggingTerm::compare says   *)
(* are equal.                                                              *)
THEOREM HashConsing == Spec => []NoTwins
<1>1. IInv => NoTwins
  BY DEF IInv, HeapOK, Distinct, NoTwins, Term
<1> QED BY <1>1, Invariance, PTL

(* No two LoggingTerms ever have the same id, across resets as well.       *)
THEOREM IdsUnique == Spec => []UniqueIds
<1>1. IInv => UniqueIds
  <2> SUFFICES ASSUME IInv, NEW p \in Objects(heap), NEW q \in Objects(heap),
                      Term(p).id = Term(q).id
               PROVE  p = q
    BY DEF UniqueIds
  <2>1. Term(p).id = p - 1 /\ Term(q).id = q - 1
    BY DEF IInv, HeapOK, WellMade, Term
  <2>2. p \in Nat /\ q \in Nat
    BY DEF Objects
  <2>3. p - 1 = q - 1
    BY <2>1
  <2> QED BY <2>2, <2>3
<1> QED BY <1>1, Invariance, PTL

(* What a client gets is exactly the term it asked for, however the        *)
(* wrapped solver rewrites terms and aliases sorts.                        *)
THEOREM ExactlyAsCreated == Spec => []AsRequested
<1>1. IInv => AsRequested
  BY DEF IInv, HeldOK, AsRequested
<1> QED BY <1>1, Invariance, PTL

(* Until a symbol from before a reset is handed out, the assertions        *)
(* hashtable->contains(child) of make_term never fail.                     *)
THEOREM ChildrenKnown == Spec => []ChildrenInTable
<1>1. IInv => ChildrenInTable
  BY DEF IInv, TaintOK, Closed, ChildrenInTable, Term
<1> QED BY <1>1, Invariance, PTL

(* get_unsat_assumptions returns assumptions of the last check, and never  *)
(* meets a wrapped term that is not in its cache.                          *)
THEOREM CoreRecovered == Spec => []CoreFromAssumptions
<1>1. IInv => CoreFromAssumptions
  BY DEF IInv, CacheOK, CoreFromAssumptions
<1> QED BY <1>1, Invariance, PTL
=============================================================================
