-------------------------- MODULE SmtLibReaderProofs --------------------------
(***************************************************************************)
(* SmtLibReader, for any names, sorts and bounds: the scopes of its maps   *)
(* follow those of the text, what it asserts is closed and in scope, and   *)
(* its two flat maps are environments with one level per scope.            *)
(***************************************************************************)
EXTENDS SmtLibReader, TLAPS, SequenceTheorems, FiniteSetTheorems


-----------------------------------------------------------------------------
(* The inductive invariant *)

Kinds == {"assert", "define", "let", "quantifier"}
Frames ==
  [kind : Kinds, part : {"head", "body"}, name : Names \cup {NoName},
   args : Seq(Leaves), term : Terms]
Bindings == UNION {[S -> Terms] : S \in SUBSET Names}
Maps == [scopes : Seq(SUBSET Names), map : Bindings]

(* A scoped map: a name is bound exactly if a scope has it, and one only.  *)
ScopedMap(m) ==
  /\ m \in Maps /\ Len(m.scopes) > 0
  /\ Bound(m) = UNION {m.scopes[i] : i \in 1 .. Len(m.scopes)}
  /\ \A i, j \in 1 .. Len(m.scopes) : i # j => m.scopes[i] \cap m.scopes[j] = {}

(* An assertion or a definition is open, and in it lets and quantifiers;   *)
(* only a let has something inside of its head.                            *)
StackOK(st) ==
  /\ st \in Seq(Frames)
  /\ \A i \in 1 .. Len(st) :
       /\ st[i].kind \in {"assert", "define"} <=> i = 1
       /\ st[i].kind = "assert" => st[i].part = "body"
       /\ st[i].kind \in {"assert", "let"} => st[i].args = <<>>
       /\ st[i].kind = "define" => st[i].name \in Names
       /\ i < Len(st) => st[i].part = "body" \/ st[i].kind = "let"

(* A definition has as many arguments as variables of any sort in use.     *)
IdsInv ==
  /\ sort_arg_ids \in Seq([Sorts -> Nat])
  /\ stack # <<>> /\ Inner.kind = "define" /\ Inner.part = "head" =>
       \A s \in Sorts : sort_arg_ids[Len(sort_arg_ids)][s] <= Len(Inner.args)

DefsInv ==
  /\ DOMAIN defs \subseteq Names
  /\ \A f \in DOMAIN defs : defs[f].body \in Terms /\ defs[f].args \in Seq(Leaves)

SolverInv ==
  /\ DOMAIN all_symbols \subseteq Names
  /\ \A n \in DOMAIN all_symbols : all_symbols[n] \in Sorts
  /\ declared = DOMAIN all_symbols /\ refused = FALSE
  /\ level \in Nat /\ dangling \in BOOLEAN /\ down \in BOOLEAN

(* Nothing is ever bound outside of a let, a quantifier or a definition.   *)
ScopesInv ==
  /\ ScopedMap(global_symbols) /\ ScopedMap(arg_param_map)
  /\ arg_param_map.scopes[1] = {}
  /\ leaked \in 0 .. MaxLeaked
  /\ InStep

BaseInv == StackOK(stack) /\ IdsInv /\ DefsInv /\ SolverInv /\ ScopesInv

(* The arguments and parameters free in t, and those of the frames up to   *)
(* the i-th; frame i binds its names in scope i + Shift.                   *)
Vars(t) == {x \in t : x.kind # "symbol"}
ArgSet(fr) == {fr.args[k] : k \in 1 .. Len(fr.args)}
ArgsTo(st, i) == UNION {ArgSet(st[j]) : j \in 1 .. i}
Shift(st) == IF st # <<>> /\ st[1].kind = "assert" THEN 0 ELSE 1

(* What stands in a frame or is bound in its scope is closed under it.     *)
FramesClosed(st) == \A i \in 1 .. Len(st) : Vars(st[i].term) \subseteq ArgsTo(st, i)
MapClosed(m, st) ==
  \A j \in 1 .. Len(m.scopes) : \A n \in m.scopes[j] :
    Vars(m.map[n]) \subseteq ArgsTo(st, j - Shift(st))
GlobalsClosed(m) == \A n \in Bound(m) : Vars(m.map[n]) = {}
DefsClosed(ds) ==
  \A f \in DOMAIN ds :
    Vars(ds[f].body) \subseteq {ds[f].args[k] : k \in 1 .. Len(ds[f].args)}

VarsInv ==
  /\ FramesClosed(stack) /\ MapClosed(arg_param_map, stack)
  /\ GlobalsClosed(global_symbols) /\ DefsClosed(defs)

(* A symbol that is in use is visible, one that a global name stands for   *)
(* in a scope no younger than the name's.                                  *)
UpTo(m, i) == UNION {m.scopes[j] : j \in 1 .. i}
FramesIn(st, B) == \A i \in 1 .. Len(st) : SymbolsOf(st[i].term) \subseteq B
MapIn(m, B) == \A n \in Bound(m) : SymbolsOf(m.map[n]) \subseteq B
DefsIn(ds, B) == \A f \in DOMAIN ds : SymbolsOf(ds[f].body) \subseteq B
GlobalsIn(m) ==
  \A i \in 1 .. Len(m.scopes) : \A n \in m.scopes[i] :
    SymbolsOf(m.map[n]) \subseteq UpTo(m, i)

SymbolsInv ==
  /\ FramesIn(stack, Bound(global_symbols))
  /\ MapIn(arg_param_map, Bound(global_symbols))
  /\ DefsIn(defs, Bound(global_symbols))
  /\ GlobalsIn(global_symbols)

IInv ==
  /\ BaseInv
  /\ leaked = 0 => VarsInv
  /\ leaked = 0 /\ ~dangling => SymbolsInv

-----------------------------------------------------------------------------
(* Scoped maps *)

(* The constants.                                                          *)
LEMMA Bounds ==
  /\ MaxLevel \in Nat /\ MaxNesting \in Nat /\ MaxArgs \in Nat
  /\ MaxLeaves \in Nat /\ MaxLeaves > 0
  /\ MaxDefs \in Nat /\ MaxParams \in Nat /\ MaxLeaked \in Nat
  /\ NDEBUG \in BOOLEAN /\ DefinedNames \subseteq Names
BY ReaderAssumption DEF ReaderAssumption

(* The empty term and a leaf are terms.                                    *)
LEMMA SmallTerms ==
  /\ {} \in Terms
  /\ \A x \in Leaves : {x} \in Terms
<1>1. {} \in Terms
  BY Bounds, FS_EmptySet DEF Terms
<1>2. ASSUME NEW x \in Leaves PROVE {x} \in Terms
  <2>1. Cardinality({x}) = 1
    BY FS_Singleton
  <2>2. 1 <= MaxLeaves
    BY Bounds
  <2> QED BY <2>1, <2>2 DEF Terms
<1> QED BY <1>1, <1>2

(* What a scoped map consists of.                                          *)
LEMMA MapFacts ==
  ASSUME NEW m, ScopedMap(m)
  PROVE  /\ m.scopes \in Seq(SUBSET Names)
         /\ Len(m.scopes) \in Nat /\ Len(m.scopes) > 0
         /\ DOMAIN m.scopes = 1 .. Len(m.scopes)
         /\ \A i \in 1 .. Len(m.scopes) : m.scopes[i] \subseteq Names
         /\ Bound(m) \in SUBSET Names /\ m.map \in [Bound(m) -> Terms]
         /\ m = [scopes |-> m.scopes, map |-> m.map]
         /\ \A n : n \in Bound(m) <=> \E i \in 1 .. Len(m.scopes) : n \in m.scopes[i]
         /\ \A i, j \in 1 .. Len(m.scopes) : \A n \in m.scopes[i] : n \in m.scopes[j] => i = j
<1>1. m \in Maps
  BY DEF ScopedMap
<1>2. /\ m.scopes \in Seq(SUBSET Names) /\ m.map \in Bindings
      /\ m = [scopes |-> m.scopes, map |-> m.map]
  BY <1>1 DEF Maps
<1>3. Len(m.scopes) \in Nat /\ DOMAIN m.scopes = 1 .. Len(m.scopes)
  BY <1>2
<1>4. \A i \in 1 .. Len(m.scopes) : m.scopes[i] \subseteq Names
  BY <1>2
<1>5. PICK S \in SUBSET Names : m.map \in [S -> Terms]
  BY <1>2 DEF Bindings
<1>6. Bound(m) = S
  BY <1>5 DEF Bound
<1>7. \A n : n \in Bound(m) <=> \E i \in 1 .. Len(m.scopes) : n \in m.scopes[i]
  BY DEF ScopedMap
<1>8. \A i, j \in 1 .. Len(m.scopes) : \A n \in m.scopes[i] : n \in m.scopes[j] => i = j
  BY DEF ScopedMap
<1>9. Len(m.scopes) > 0
  BY DEF ScopedMap
<1> QED BY <1>2, <1>3, <1>4, <1>5, <1>6, <1>7, <1>8, <1>9

(* A record of such parts is one.                                          *)
LEMMA MapMade ==
  ASSUME NEW m, NEW s, NEW f, m = [scopes |-> s, map |-> f],
         s \in Seq(SUBSET Names), Len(s) > 0,
         DOMAIN f \in SUBSET Names, f \in [DOMAIN f -> Terms],
         \A n : n \in DOMAIN f <=> \E i \in 1 .. Len(s) : n \in s[i],
         \A i, j \in 1 .. Len(s) : \A n \in s[i] : n \in s[j] => i = j
  PROVE  ScopedMap(m)
<1>1. m.scopes = s /\ m.map = f
  OBVIOUS
<1>2. f \in Bindings
  BY DEF Bindings
<1>3. m \in Maps
  BY <1>2 DEF Maps
<1>4. Bound(m) = DOMAIN f
  BY <1>1 DEF Bound
<1>5. DOMAIN f = UNION {s[i] : i \in 1 .. Len(s)}
  <2> DEFINE D == DOMAIN f
             U == UNION {s[i] : i \in 1 .. Len(s)}
  <2>1. \A n : n \in D <=> \E i \in 1 .. Len(s) : n \in s[i]
    OBVIOUS
  <2>2. \A n : n \in U <=> \E i \in 1 .. Len(s) : n \in s[i]
    OBVIOUS
  <2> HIDE DEF D, U
  <2>3. D = U
    BY <2>1, <2>2
  <2> QED BY <2>3 DEF D, U
<1>6. \A i, j \in 1 .. Len(s) : i # j => s[i] \cap s[j] = {}
  <2> SUFFICES ASSUME NEW i \in 1 .. Len(s), NEW j \in 1 .. Len(s), i # j,
                      NEW n \in s[i] \cap s[j]
               PROVE  FALSE
    OBVIOUS
  <2> QED OBVIOUS
<1> QED BY <1>1, <1>3, <1>4, <1>5, <1>6 DEF ScopedMap

(* A new reader's maps.                                                    *)
LEMMA EmptyOK ==
  /\ ScopedMap(EmptyMap) /\ Bound(EmptyMap) = {}
  /\ Len(EmptyMap.scopes) = 1 /\ EmptyMap.scopes[1] = {}
<1>1. /\ <<{}>> \in Seq(SUBSET Names) /\ Len(<<{}>>) = 1 /\ <<{}>>[1] = {}
  OBVIOUS
<1> DEFINE f == [n \in {} |-> {}]
<1>2. DOMAIN f = {} /\ f \in [DOMAIN f -> Terms]
  OBVIOUS
<1>3. EmptyMap = [scopes |-> <<{}>>, map |-> f]
  BY DEF EmptyMap
<1> HIDE DEF f
<1>4. ScopedMap(EmptyMap)
  <2>1. \A n : n \in DOMAIN f <=> \E i \in 1 .. Len(<<{}>>) : n \in <<{}>>[i]
    BY <1>1, <1>2
  <2>2. \A i, j \in 1 .. Len(<<{}>>) : \A n \in <<{}>>[i] : n \in <<{}>>[j] => i = j
    BY <1>1
  <2>3. <<{}>> \in Seq(SUBSET Names) /\ Len(<<{}>>) > 0 /\ DOMAIN f \in SUBSET Names
    BY <1>1, <1>2
  <2> QED BY <1>2, <1>3, <2>1, <2>2, <2>3, MapMade
<1>5. EmptyMap.scopes = <<{}>> /\ EmptyMap.map = f
  BY <1>3
<1> QED BY <1>1, <1>2, <1>4, <1>5 DEF Bound

(* w has the scopes of m first, or those with n added to the last.         *)
Keeps(m, w) == \A i \in 1 .. Len(m.scopes) : w.scopes[i] = m.scopes[i]
KeepsWith(m, n, w) ==
  \A i \in 1 .. Len(m.scopes) :
    w.scopes[i] = IF i = Len(m.scopes) THEN m.scopes[i] \cup {n} ELSE m.scopes[i]

(* k scopes more.                                                          *)
LEMMA PushedMap ==
  ASSUME NEW m, ScopedMap(m), NEW k \in Nat, NEW w, w = push_scopes(m, k)
  PROVE  /\ ScopedMap(w) /\ Len(w.scopes) = Len(m.scopes) + k
         /\ w.map = m.map /\ Bound(w) = Bound(m)
         /\ Keeps(m, w)
         /\ \A i \in Len(m.scopes) + 1 .. Len(m.scopes) + k : w.scopes[i] = {}
<1> DEFINE P == SUBSET Names
           e == [i \in 1 .. k |-> {}]
           s == m.scopes
           L == Len(m.scopes)
<1>1. /\ s \in Seq(P) /\ L \in Nat /\ L > 0 /\ L = Len(s)
      /\ Bound(m) \in P /\ m.map \in [Bound(m) -> Terms]
      /\ m = [scopes |-> s, map |-> m.map]
      /\ \A n : n \in Bound(m) <=> \E i \in 1 .. L : n \in s[i]
      /\ \A i, j \in 1 .. L : \A n \in s[i] : n \in s[j] => i = j
  BY MapFacts
<1>2. {} \in P
  OBVIOUS
<1>3. w = [scopes |-> s \o e, map |-> m.map]
  BY <1>1 DEF push_scopes
<1> HIDE DEF P
<1>4. e \in Seq(P) /\ Len(e) = k /\ \A i \in 1 .. k : e[i] = {}
  BY <1>2
<1> HIDE DEF e, s, L
<1>5. /\ s \o e \in Seq(P) /\ Len(s \o e) = Len(s) + Len(e)
      /\ \A i \in 1 .. Len(s) + Len(e) : (s \o e)[i] = IF i <= Len(s) THEN s[i] ELSE e[i - Len(s)]
  <2>1. s \in Seq(P) /\ e \in Seq(P)
    BY <1>1, <1>4
  <2> QED BY <2>1, ConcatProperties, Zenon
<1>6. PICK r : r = s \o e
  OBVIOUS
<1>7. r \in Seq(P) /\ Len(r) = L + k /\ w.scopes = r /\ w.map = m.map
  BY <1>1, <1>3, <1>4, <1>5, <1>6
<1>8. \A i \in 1 .. L : i \in 1 .. L + k /\ r[i] = s[i]
  BY <1>1, <1>4, <1>5, <1>6
<1>9. \A i \in 1 .. L + k : i \in 1 .. L \/ r[i] = {}
  BY <1>1, <1>4, <1>5, <1>6
<1>10. \A i \in L + 1 .. L + k : r[i] = {}
  BY <1>1, <1>9
<1>11. Bound(w) = Bound(m) /\ Bound(m) = DOMAIN m.map
  BY <1>7 DEF Bound
<1>12. \A n : n \in Bound(m) <=> \E i \in 1 .. L + k : n \in r[i]
  BY <1>1, <1>8, <1>9
<1>13. \A i, j \in 1 .. L + k : \A n \in r[i] : n \in r[j] => i = j
  BY <1>1, <1>8, <1>9
<1>14. ScopedMap(w)
  <2>1. w = [scopes |-> r, map |-> m.map]
    BY <1>3, <1>6
  <2>2. DOMAIN m.map \in SUBSET Names /\ m.map \in [DOMAIN m.map -> Terms]
    BY <1>1, <1>11 DEF P
  <2>3. r \in Seq(SUBSET Names) /\ Len(r) > 0
    BY <1>1, <1>7 DEF P
  <2>4. \A n : n \in DOMAIN m.map <=> \E i \in 1 .. Len(r) : n \in r[i]
    BY <1>7, <1>11, <1>12
  <2>5. \A i, j \in 1 .. Len(r) : \A n \in r[i] : n \in r[j] => i = j
    BY <1>7, <1>13
  <2> QED BY <2>1, <2>2, <2>3, <2>4, <2>5, MapMade
<1> QED BY <1>7, <1>8, <1>10, <1>11, <1>14 DEF s, L, Keeps

(* k scopes less: what they bound is gone, the rest as it was.             *)
LEMMA PoppedMap ==
  ASSUME NEW m, ScopedMap(m), NEW k \in Nat, k < Len(m.scopes), NEW w, w = pop_scopes(m, k)
  PROVE  /\ ScopedMap(w) /\ Len(w.scopes) = Len(m.scopes) - k
         /\ \A i \in 1 .. Len(w.scopes) : w.scopes[i] = m.scopes[i]
         /\ Bound(w) = Bound(m) \ Erased(m, k)
         /\ \A n \in Bound(w) : w.map[n] = m.map[n]
<1> DEFINE P == SUBSET Names
           s == m.scopes
           L == Len(m.scopes) - k
           f == [n \in DOMAIN m.map \ Erased(m, k) |-> m.map[n]]
<1>1. /\ s \in Seq(P) /\ Len(s) \in Nat /\ L \in Nat /\ L > 0 /\ L <= Len(s)
      /\ Len(m.scopes) = L + k
      /\ Bound(m) \in P /\ m.map \in [Bound(m) -> Terms]
      /\ \A i \in 1 .. Len(s) : s[i] \in P
      /\ \A n : n \in Bound(m) <=> \E i \in 1 .. Len(s) : n \in s[i]
      /\ \A i, j \in 1 .. Len(s) : \A n \in s[i] : n \in s[j] => i = j
  <2>1. Len(m.scopes) \in Nat /\ L \in Nat /\ L > 0 /\ L <= Len(m.scopes) /\ Len(m.scopes) = L + k
    BY MapFacts
  <2> QED BY <2>1, MapFacts
<1>2. w = [scopes |-> SubSeq(s, 1, L), map |-> f]
  BY DEF pop_scopes, Bound
<1>3. \A n : n \in Erased(m, k) <=> \E i \in L + 1 .. Len(s) : n \in s[i]
  BY DEF Erased
<1>4. /\ DOMAIN f = Bound(m) \ Erased(m, k)
      /\ \A n \in DOMAIN f : f[n] = m.map[n]
  BY DEF Bound
<1>5. f \in [DOMAIN f -> Terms]
  BY <1>1, <1>4
<1> HIDE DEF P, s, L, f
<1>6. /\ SubSeq(s, 1, L) \in Seq(P) /\ Len(SubSeq(s, 1, L)) = L
      /\ \A i \in 1 .. L : SubSeq(s, 1, L)[i] = s[i]
  <2>1. \A i \in 1 .. L : s[i] \in P
    BY <1>1
  <2> QED BY <1>1, <2>1, SubSeqProperties
<1>7. PICK r : r = SubSeq(s, 1, L)
  OBVIOUS
<1>8. /\ r \in Seq(P) /\ Len(r) = L /\ \A i \in 1 .. L : r[i] = s[i]
      /\ w = [scopes |-> r, map |-> f]
  BY <1>2, <1>6, <1>7
<1>9. Bound(w) = DOMAIN f /\ w.scopes = r /\ w.map = f
  BY <1>8 DEF Bound
<1>10. ASSUME NEW n PROVE n \in DOMAIN f <=> \E i \in 1 .. L : n \in r[i]
  <2>1. ASSUME NEW i \in 1 .. L, n \in s[i] PROVE n \in Bound(m) /\ n \notin Erased(m, k)
    <3>1. i \in 1 .. Len(s) /\ \A j \in L + 1 .. Len(s) : j \in 1 .. Len(s) /\ j # i
      BY <1>1
    <3> QED BY <1>1, <1>3, <2>1, <3>1
  <2>2. ASSUME n \in Bound(m), n \notin Erased(m, k) PROVE \E i \in 1 .. L : n \in s[i]
    <3>1. PICK i \in 1 .. Len(s) : n \in s[i]
      BY <1>1, <2>2
    <3>2. i \notin L + 1 .. Len(s)
      BY <1>3, <2>2, <3>1
    <3>3. i \in 1 .. L
      BY <1>1, <3>2
    <3> QED BY <3>1, <3>3
  <2> QED BY <1>4, <1>8, <2>1, <2>2
<1>11. \A i, j \in 1 .. L : \A n \in r[i] : n \in r[j] => i = j
  <2>1. \A i \in 1 .. L : i \in 1 .. Len(s)
    BY <1>1
  <2> QED BY <1>1, <1>8, <2>1
<1>12. ScopedMap(w)
  <2>1. DOMAIN f \in SUBSET Names
    BY <1>1, <1>4 DEF P
  <2>2. r \in Seq(SUBSET Names) /\ Len(r) > 0
    BY <1>1, <1>8 DEF P
  <2> QED BY <1>5, <1>8, <1>10, <1>11, <2>1, <2>2, MapMade
<1> QED BY <1>4, <1>8, <1>9, <1>12 DEF s, L

(* One name more in the last scope.                                        *)
LEMMA AddedMap ==
  ASSUME NEW m, ScopedMap(m), NEW n \in Names, n \notin Bound(m), NEW t \in Terms,
         NEW w, w = Added(m, Len(m.scopes), n, t)
  PROVE  /\ ScopedMap(w) /\ Len(w.scopes) = Len(m.scopes)
         /\ Bound(w) = Bound(m) \cup {n}
         /\ KeepsWith(m, n, w)
         /\ w.map[n] = t
         /\ \A x \in Bound(m) : w.map[x] = m.map[x]
<1> DEFINE P == SUBSET Names
           s == m.scopes
           L == Len(m.scopes)
           f == [x \in Bound(m) \cup {n} |-> IF x = n THEN t ELSE m.map[x]]
           r == [s EXCEPT ![L] = @ \cup {n}]
<1>1. /\ s \in Seq(P) /\ L \in Nat /\ L > 0 /\ L = Len(s)
      /\ Bound(m) \in P /\ m.map \in [Bound(m) -> Terms]
      /\ \A x : x \in Bound(m) <=> \E i \in 1 .. L : x \in s[i]
      /\ \A i, j \in 1 .. L : \A x \in s[i] : x \in s[j] => i = j
  BY MapFacts
<1>2. w = [scopes |-> r, map |-> f]
  BY DEF Added
<1>3. /\ DOMAIN f = Bound(m) \cup {n} /\ f[n] = t
      /\ \A x \in Bound(m) : f[x] = m.map[x]
  OBVIOUS
<1>4. f \in [DOMAIN f -> Terms] /\ DOMAIN f \in P
  BY <1>1, <1>3
<1>5. \A x \in P : x \cup {n} \in P
  OBVIOUS
<1> HIDE DEF P, s, L, f
<1>6. /\ r \in [1 .. L -> P]
      /\ \A i \in 1 .. L : r[i] = IF i = L THEN s[i] \cup {n} ELSE s[i]
  <2>1. s \in [1 .. L -> P] /\ L \in 1 .. L
    BY <1>1
  <2>2. s[L] \cup {n} \in P
    BY <1>5, <2>1
  <2> QED BY <2>1, <2>2
<1> HIDE DEF r
<1>7. r \in Seq(P) /\ Len(r) = L
  BY <1>1, <1>6
<1>8. w.scopes = r /\ w.map = f /\ Bound(w) = DOMAIN f
  BY <1>2 DEF Bound
<1>9. L \in 1 .. L
  BY <1>1
<1>10. \A x : x \in DOMAIN f <=> \E i \in 1 .. L : x \in r[i]
  BY <1>1, <1>3, <1>6, <1>9
<1>11. \A i \in 1 .. L : n \notin s[i]
  BY <1>1
<1>12. \A i, j \in 1 .. L : \A x \in r[i] : x \in r[j] => i = j
  BY <1>1, <1>6, <1>11
<1>13. ScopedMap(w)
  <2>1. DOMAIN f \in SUBSET Names /\ r \in Seq(SUBSET Names) /\ Len(r) > 0
    BY <1>1, <1>4, <1>7 DEF P
  <2> QED BY <1>2, <1>4, <1>7, <1>10, <1>12, <2>1, MapMade
<1> QED BY <1>3, <1>6, <1>7, <1>8, <1>13 DEF s, L, KeepsWith

-----------------------------------------------------------------------------
(* What is open *)

(* The innermost frame, and how deep the scopes of the text are.           *)
LEMMA TopFacts ==
  ASSUME BaseInv, stack # <<>>
  PROVE  /\ Len(stack) \in Nat /\ Len(stack) > 0 /\ Len(stack) \in 1 .. Len(stack)
         /\ Inner = stack[Len(stack)] /\ Inner \in Frames
         /\ Inner.kind \in Kinds /\ Inner.part \in {"head", "body"}
         /\ Inner.name \in Names \cup {NoName} /\ Inner.args \in Seq(Leaves)
         /\ Inner.term \in Terms
         /\ Inner.kind \in {"assert", "define"} <=> Len(stack) = 1
         /\ Inner.kind = "assert" => Inner.part = "body"
         /\ Inner.kind \in {"assert", "let"} => Inner.args = <<>>
         /\ Inner.kind = "define" => Inner.name \in Names
         /\ stack[1].kind \in {"assert", "define"}
<1>1. /\ stack \in Seq(Frames)
      /\ \A i \in 1 .. Len(stack) :
           /\ stack[i].kind \in {"assert", "define"} <=> i = 1
           /\ stack[i].kind = "assert" => stack[i].part = "body"
           /\ stack[i].kind \in {"assert", "let"} => stack[i].args = <<>>
           /\ stack[i].kind = "define" => stack[i].name \in Names
  BY DEF BaseInv, StackOK
<1>2. /\ Len(stack) \in Nat /\ Len(stack) > 0 /\ Len(stack) \in 1 .. Len(stack)
      /\ 1 \in 1 .. Len(stack)
  BY <1>1
<1>3. Inner = stack[Len(stack)] /\ Inner \in Frames
  BY <1>1, <1>2 DEF Inner
<1>4. /\ Inner.kind \in Kinds /\ Inner.part \in {"head", "body"}
      /\ Inner.name \in Names \cup {NoName} /\ Inner.args \in Seq(Leaves)
      /\ Inner.term \in Terms
  BY <1>3 DEF Frames
<1> QED BY <1>1, <1>2, <1>3, <1>4

(* The number of scopes.                                                   *)
LEMMA Depth ==
  ASSUME BaseInv
  PROVE  /\ leaked \in Nat /\ Len(stack) \in Nat
         /\ Len(arg_param_map.scopes) \in Nat
         /\ Len(arg_param_map.scopes) = leaked + Len(stack) + Shift(stack)
         /\ Len(sort_arg_ids) = Len(arg_param_map.scopes) - 1
         /\ Shift(stack) \in {0, 1}
         /\ stack = <<>> <=> Len(stack) = 0
         /\ stack = <<>> => Shift(stack) = 1
<1>1. /\ ScopedMap(arg_param_map) /\ leaked \in 0 .. MaxLeaked /\ InStep
      /\ stack \in Seq(Frames)
  BY DEF BaseInv, ScopesInv, StackOK
<1>2. Len(arg_param_map.scopes) \in Nat /\ leaked \in Nat /\ Len(stack) \in Nat
  BY <1>1, MapFacts, Bounds
<1>3. stack = <<>> <=> Len(stack) = 0
  BY <1>1
<1>4. CASE stack # <<>> /\ stack[1].kind = "assert"
  BY <1>1, <1>2, <1>3, <1>4 DEF InStep, current_scope, Shift
<1>5. CASE ~(stack # <<>> /\ stack[1].kind = "assert")
  <2>1. Shift(stack) = 1
    BY <1>5 DEF Shift
  <2>2. Len(arg_param_map.scopes) - 1 = leaked + Len(stack) - 0
    BY <1>1, <1>5 DEF InStep, current_scope
  <2>3. Len(sort_arg_ids) = Len(arg_param_map.scopes) - 1
    BY <1>1 DEF InStep, current_scope
  <2> QED BY <1>2, <1>3, <2>1, <2>2, <2>3
<1> QED BY <1>4, <1>5

(* With no scope open a local map is empty.                                *)
LEMMA OnlyScope ==
  ASSUME NEW m, ScopedMap(m), m.scopes[1] = {}, Len(m.scopes) = 1
  PROVE  Bound(m) = {} /\ (\A st : MapClosed(m, st)) /\ \A B : MapIn(m, B)
<1>1. \A i \in 1 .. Len(m.scopes) : m.scopes[i] = {}
  OBVIOUS
<1> QED BY <1>1, MapFacts DEF MapClosed, MapIn

(* So with none open in the reader.                                        *)
LEMMA NoLocals ==
  ASSUME BaseInv, Len(arg_param_map.scopes) = 1
  PROVE  Bound(arg_param_map) = {} /\ \A st : MapClosed(arg_param_map, st)
BY OnlyScope DEF BaseInv, ScopesInv

(* A function on 1 .. n is a sequence.                                     *)
LEMMA FunctionSeq ==
  ASSUME NEW S, NEW n \in Nat, NEW w \in [1 .. n -> S]
  PROVE  w \in Seq(S) /\ Len(w) = n
OBVIOUS

(* w is the stack with another innermost frame.                            *)
SameBelow(w) ==
  /\ StackOK(w) /\ w # <<>> /\ Len(w) = Len(stack)
  /\ \A i \in 1 .. Len(stack) : i # Len(stack) => w[i] = stack[i]
  /\ w[1].kind = stack[1].kind /\ Shift(w) = Shift(stack)

(* Another frame in place of the innermost.                                *)
LEMMA TopChanged ==
  ASSUME BaseInv, stack # <<>>, NEW fr \in Frames, fr.kind = Inner.kind,
         fr.kind = "assert" => fr.part = "body",
         fr.kind \in {"assert", "let"} => fr.args = <<>>, fr.name = Inner.name,
         NEW w, w = [stack EXCEPT ![Len(stack)] = fr]
  PROVE  SameBelow(w) /\ w[Len(w)] = fr
<1> DEFINE L == Len(stack)
<1>1. /\ stack \in Seq(Frames)
      /\ \A i \in 1 .. L :
           /\ stack[i].kind \in {"assert", "define"} <=> i = 1
           /\ stack[i].kind = "assert" => stack[i].part = "body"
           /\ stack[i].kind \in {"assert", "let"} => stack[i].args = <<>>
           /\ stack[i].kind = "define" => stack[i].name \in Names
           /\ i < L => stack[i].part = "body" \/ stack[i].kind = "let"
  BY DEF BaseInv, StackOK
<1>2. L \in Nat /\ L > 0 /\ L \in 1 .. L /\ 1 \in 1 .. L /\ Inner = stack[L]
  BY TopFacts
<1>3. w \in [1 .. L -> Frames] /\ DOMAIN w = 1 .. L
  BY <1>1, <1>2
<1>4. w[L] = fr /\ \A i \in 1 .. L : i # L => w[i] = stack[i]
  BY <1>1, <1>2
<1>5. w \in Seq(Frames) /\ Len(w) = L
  BY <1>2, <1>3, FunctionSeq
<1>6. \A i \in 1 .. L : w[i].kind = stack[i].kind
  BY <1>2, <1>4
<1>7. ASSUME NEW i \in 1 .. L
      PROVE  /\ w[i].kind \in {"assert", "define"} <=> i = 1
             /\ w[i].kind = "assert" => w[i].part = "body"
             /\ w[i].kind \in {"assert", "let"} => w[i].args = <<>>
             /\ w[i].kind = "define" => w[i].name \in Names
             /\ i < L => w[i].part = "body" \/ w[i].kind = "let"
  <2>1. CASE i = L
    BY <1>1, <1>2, <1>4, <1>6, <2>1
  <2>2. CASE i # L
    BY <1>1, <1>4, <2>2
  <2> QED BY <2>1, <2>2
<1>8. StackOK(w)
  BY <1>5, <1>7 DEF StackOK
<1>9. w # <<>>
  BY <1>2, <1>5
<1>10. w[1].kind = stack[1].kind
  BY <1>2, <1>6
<1>11. Shift(w) = Shift(stack)
  BY <1>9, <1>10 DEF Shift
<1> QED BY <1>4, <1>5, <1>8, <1>9, <1>10, <1>11 DEF SameBelow

(* The arguments of frames.                                                *)
LEMMA ArgsFacts ==
  /\ \A st, i, x : x \in ArgsTo(st, i) <=> \E j \in 1 .. i : x \in ArgSet(st[j])
  /\ \A st, w : \A i \in Nat :
       (\A j \in 1 .. i : ArgSet(st[j]) \subseteq ArgSet(w[j]))
         => ArgsTo(st, i) \subseteq ArgsTo(w, i)
  /\ \A st : \A i, k \in Nat : i <= k => ArgsTo(st, i) \subseteq ArgsTo(st, k)
  /\ \A st : ArgsTo(st, 0) = {}
  /\ \A fr : fr.args = <<>> => ArgSet(fr) = {}
<1>1. \A st, i, x : x \in ArgsTo(st, i) <=> \E j \in 1 .. i : x \in ArgSet(st[j])
  BY DEF ArgsTo
<1>2. ASSUME NEW st, NEW w, NEW i \in Nat,
             \A j \in 1 .. i : ArgSet(st[j]) \subseteq ArgSet(w[j])
      PROVE  ArgsTo(st, i) \subseteq ArgsTo(w, i)
  BY <1>1, <1>2
<1>3. ASSUME NEW st, NEW i \in Nat, NEW k \in Nat, i <= k
      PROVE  ArgsTo(st, i) \subseteq ArgsTo(st, k)
  <2>1. \A j \in 1 .. i : j \in 1 .. k
    BY <1>3
  <2> QED BY <1>1, <2>1
<1>4. \A st : ArgsTo(st, 0) = {}
  BY <1>1
<1>5. \A fr : fr.args = <<>> => ArgSet(fr) = {}
  BY DEF ArgSet
<1> QED BY <1>1, <1>2, <1>3, <1>4, <1>5

(* The innermost frame keeps its arguments and may have more.              *)
LEMMA TopClosed ==
  ASSUME BaseInv, leaked = 0, VarsInv, stack # <<>>, NEW w,
         Len(w) = Len(stack), Shift(w) = Shift(stack),
         \A i \in 1 .. Len(stack) : i # Len(stack) => w[i] = stack[i],
         ArgSet(Inner) \subseteq ArgSet(w[Len(w)]),
         Vars(w[Len(w)].term) \subseteq ArgsTo(w, Len(w))
  PROVE  /\ FramesClosed(w) /\ MapClosed(arg_param_map, w)
         /\ ArgsTo(stack, Len(stack)) \subseteq ArgsTo(w, Len(w))
<1> DEFINE L == Len(stack)
<1>1. L \in Nat /\ L > 0 /\ L \in 1 .. L /\ Inner = stack[L]
  BY TopFacts
<1>2. \A j \in 1 .. L : ArgSet(stack[j]) \subseteq ArgSet(w[j])
  BY <1>1
<1>3. \A i \in 0 .. L : ArgsTo(stack, i) \subseteq ArgsTo(w, i)
  <2> SUFFICES ASSUME NEW i \in 0 .. L PROVE ArgsTo(stack, i) \subseteq ArgsTo(w, i)
    OBVIOUS
  <2>1. i \in Nat /\ \A j \in 1 .. i : j \in 1 .. L
    BY <1>1
  <2> QED BY <1>2, <2>1, ArgsFacts
<1>4. FramesClosed(w)
  <2> SUFFICES ASSUME NEW i \in 1 .. L PROVE Vars(w[i].term) \subseteq ArgsTo(w, i)
    BY DEF FramesClosed
  <2>1. CASE i = L
    BY <2>1
  <2>2. CASE i # L
    <3>1. Vars(stack[i].term) \subseteq ArgsTo(stack, i)
      BY DEF VarsInv, FramesClosed
    <3>2. i \in 0 .. L
      BY <1>1
    <3> QED BY <1>3, <2>2, <3>1, <3>2
  <2> QED BY <2>1, <2>2
<1>5. MapClosed(arg_param_map, w)
  <2> SUFFICES ASSUME NEW j \in 1 .. Len(arg_param_map.scopes),
                      NEW n \in arg_param_map.scopes[j]
               PROVE  Vars(arg_param_map.map[n]) \subseteq ArgsTo(w, j - Shift(w))
    BY DEF MapClosed
  <2>1. j - Shift(stack) \in 0 .. L
    BY Depth
  <2>2. Vars(arg_param_map.map[n]) \subseteq ArgsTo(stack, j - Shift(stack))
    BY DEF VarsInv, MapClosed
  <2> QED BY <1>3, <2>1, <2>2
<1>6. L \in 0 .. L
  BY <1>1
<1> QED BY <1>3, <1>4, <1>5, <1>6

-----------------------------------------------------------------------------
(* Steps between the commands, and failures *)

(* The scopes follow the text, from the number of scopes.                  *)
LEMMA InStepMade ==
  ASSUME leaked' \in Nat, Len(stack') \in Nat,
         Len(arg_param_map'.scopes) = leaked' + Len(stack') + Shift(stack'),
         Len(sort_arg_ids') = Len(arg_param_map'.scopes) - 1,
         ~down' => Len(global_symbols'.scopes) = level' + 1
  PROVE  InStep'
<1>1. CASE stack' # <<>> /\ stack'[1].kind = "assert"
  BY <1>1 DEF InStep, current_scope, Shift
<1>2. CASE ~(stack' # <<>> /\ stack'[1].kind = "assert")
  <2>1. Shift(stack') = 1
    BY <1>2 DEF Shift
  <2>2. Len(arg_param_map'.scopes) - 1 = leaked' + Len(stack') - 0
    BY <2>1
  <2> QED BY <1>2, <2>2 DEF InStep, current_scope
<1> QED BY <1>1, <1>2

(* A new reader.                                                           *)
LEMMA InitInv == Init => IInv
<1> SUFFICES ASSUME Init PROVE IInv
  OBVIOUS
<1>1. /\ global_symbols = EmptyMap /\ arg_param_map = EmptyMap
      /\ DOMAIN all_symbols = {} /\ DOMAIN defs = {} /\ sort_arg_ids = <<>>
      /\ stack = <<>> /\ level = 0 /\ declared = {}
      /\ leaked = 0 /\ dangling = FALSE /\ refused = FALSE /\ down = FALSE
  BY DEF Init
<1>2. /\ ScopedMap(global_symbols) /\ Bound(global_symbols) = {}
      /\ ScopedMap(arg_param_map) /\ Bound(arg_param_map) = {}
      /\ Len(global_symbols.scopes) = 1 /\ Len(arg_param_map.scopes) = 1
      /\ global_symbols.scopes[1] = {} /\ arg_param_map.scopes[1] = {}
  BY <1>1, EmptyOK
<1>3. StackOK(stack)
  BY <1>1 DEF StackOK
<1>4. IdsInv
  BY <1>1 DEF IdsInv
<1>5. DefsInv
  BY <1>1 DEF DefsInv
<1>6. SolverInv
  BY <1>1 DEF SolverInv
<1>7. InStep
  BY <1>1, <1>2 DEF InStep, current_scope
<1>8. ScopesInv
  BY <1>1, <1>2, <1>7, Bounds DEF ScopesInv
<1>9. VarsInv
  BY <1>1, <1>2 DEF VarsInv, FramesClosed, MapClosed, GlobalsClosed, DefsClosed
<1>10. SymbolsInv
  BY <1>1, <1>2 DEF SymbolsInv, FramesIn, MapIn, DefsIn, GlobalsIn
<1> QED BY <1>3, <1>4, <1>5, <1>6, <1>8, <1>9, <1>10 DEF IInv, BaseInv

(* Nothing changes.                                                        *)
LEMMA Stutter == IInv /\ UNCHANGED vars => IInv'
<1> SUFFICES ASSUME IInv, UNCHANGED vars PROVE IInv'
  OBVIOUS
<1> USE DEF vars, scopes, solver, history
<1>1. BaseInv'
  BY DEF IInv, BaseInv, IdsInv, DefsInv, SolverInv, ScopesInv, InStep, current_scope, Inner
<1>2. VarsInv = VarsInv' /\ SymbolsInv = SymbolsInv'
  BY DEF VarsInv, SymbolsInv
<1> QED BY <1>1, <1>2 DEF IInv

(* A parse ends where it is: nothing is open, and no scope is closed.      *)
LEMMA FailedStep ==
  ASSUME IInv, stack # <<>>, Failed,
         UNCHANGED <<global_symbols, all_symbols, defs, scopes, solver>>
  PROVE  IInv'
<1> USE DEF scopes, solver
<1>1. /\ BaseInv /\ (leaked = 0 => VarsInv)
      /\ leaked = 0 /\ ~dangling => SymbolsInv
  BY DEF IInv
<1>2. /\ stack' = <<>> /\ Len(stack') = 0 /\ leaked' <= MaxLeaked
      /\ UNCHANGED <<dangling, refused, down>>
  BY DEF Failed
<1>3. /\ leaked \in Nat /\ Len(stack) \in Nat /\ Len(stack) > 0
      /\ Len(arg_param_map.scopes) = leaked + Len(stack) + Shift(stack)
      /\ Len(sort_arg_ids) = Len(arg_param_map.scopes) - 1
      /\ Shift(stack) \in {0, 1}
  BY <1>1, Depth, TopFacts
<1>4. leaked' = leaked + Len(stack) + Shift(stack) - 1
  <2>1. CASE stack[1].kind = "assert"
    BY <1>3, <2>1 DEF Failed, Shift
  <2>2. CASE stack[1].kind # "assert"
    BY <1>3, <2>2 DEF Failed, Shift
  <2> QED BY <2>1, <2>2
<1>5. leaked' \in Nat /\ leaked' \in 0 .. MaxLeaked
  BY <1>2, <1>3, <1>4, Bounds
<1>6. StackOK(stack')
  BY <1>2 DEF StackOK
<1>7. IdsInv'
  BY <1>1, <1>2 DEF BaseInv, IdsInv
<1>8. DefsInv' /\ SolverInv'
  BY <1>1, <1>2 DEF BaseInv, DefsInv, SolverInv
<1>9. ScopesInv'
  <2>1. Shift(stack') = 1
    BY <1>2 DEF Shift
  <2>2. ~down' => Len(global_symbols'.scopes) = level' + 1
    BY <1>1, <1>2 DEF BaseInv, ScopesInv, InStep
  <2>3. Len(arg_param_map'.scopes) = leaked' + Len(stack') + Shift(stack')
    BY <1>2, <1>3, <1>4, <2>1
  <2>4. InStep'
    BY <1>2, <1>3, <1>5, <2>2, <2>3, InStepMade
  <2> QED BY <1>1, <1>5, <2>4 DEF BaseInv, ScopesInv
<1>10. ASSUME leaked' = 0 PROVE leaked = 0 /\ Len(arg_param_map.scopes) = 1
  <2>1. \A a, b, c \in Nat : b > 0 /\ a + b + c - 1 = 0 => a = 0 /\ a + b + c = 1
    OBVIOUS
  <2>2. leaked \in Nat /\ Len(stack) \in Nat /\ Shift(stack) \in Nat
    BY <1>3
  <2> QED BY <1>3, <1>4, <1>10, <2>1, <2>2
<1>11. ASSUME leaked' = 0 PROVE VarsInv'
  <2>1. VarsInv /\ MapClosed(arg_param_map, stack')
    BY <1>1, <1>10, <1>11, NoLocals
  <2>2. FramesClosed(stack')
    BY <1>2 DEF FramesClosed
  <2> QED BY <2>1, <2>2 DEF VarsInv
<1>12. ASSUME leaked' = 0, ~dangling' PROVE SymbolsInv'
  <2>1. SymbolsInv
    BY <1>1, <1>2, <1>10, <1>12
  <2>2. FramesIn(stack', Bound(global_symbols))
    BY <1>2 DEF FramesIn
  <2> QED BY <2>1, <2>2 DEF SymbolsInv
<1> QED BY <1>6, <1>7, <1>8, <1>9, <1>11, <1>12 DEF IInv, BaseInv

(* One frame, of an assertion or of a definition.                          *)
LEMMA OneFrame ==
  ASSUME NEW fr \in Frames, fr.kind \in {"assert", "define"},
         fr.kind = "assert" => fr.part = "body", fr.args = <<>>,
         fr.kind = "define" => fr.name \in Names
  PROVE  /\ StackOK(<<fr>>) /\ Len(<<fr>>) = 1 /\ <<fr>> # <<>> /\ <<fr>>[1] = fr
<1>1. <<fr>> \in Seq(Frames) /\ Len(<<fr>>) = 1 /\ <<fr>> # <<>> /\ <<fr>>[1] = fr
  OBVIOUS
<1>2. \A i \in 1 .. Len(<<fr>>) : i = 1 /\ ~(i < Len(<<fr>>)) /\ <<fr>>[i] = fr
  BY <1>1
<1> QED BY <1>1, <1>2 DEF StackOK

(* An assertion begins or ends.                                            *)
LEMMA AssertStep ==
  ASSUME IInv, BeginAssert \/ EndAssert
  PROVE  IInv'
<1> USE DEF scopes, solver, history
<1>1. /\ BaseInv /\ (leaked = 0 => VarsInv)
      /\ leaked = 0 /\ ~dangling => SymbolsInv
  BY DEF IInv
<1> DEFINE fr == Frame("assert", "body", NoName)
<1>2. /\ UNCHANGED <<global_symbols, all_symbols, defs, scopes, solver, history, down>>
      /\ \/ stack = <<>> /\ stack' = <<fr>>
         \/ Len(stack) = 1 /\ Inner.kind = "assert" /\ stack' = <<>>
  BY DEF BeginAssert, EndAssert, Ready
<1>3. /\ fr \in Frames /\ fr.kind = "assert" /\ fr.part = "body" /\ fr.args = <<>>
      /\ fr.term = {}
  BY SmallTerms DEF Frame, Frames, Kinds
<1> HIDE DEF fr
<1>4. StackOK(stack') /\ Len(stack') \in Nat
  <2>1. StackOK(<<>>)
    BY DEF StackOK
  <2>2. StackOK(<<fr>>)
    BY <1>3, OneFrame
  <2> QED BY <1>2, <2>1, <2>2
<1>5. /\ (Len(stack') = 0 /\ Shift(stack') = 1) \/ (Len(stack') = 1 /\ Shift(stack') = 0)
      /\ (Len(stack) = 0 /\ Shift(stack) = 1) \/ (Len(stack) = 1 /\ Shift(stack) = 0)
  <2>1. CASE stack = <<>> /\ stack' = <<fr>>
    BY <1>3, <2>1 DEF Shift
  <2>2. CASE Len(stack) = 1 /\ Inner.kind = "assert" /\ stack' = <<>>
    BY <2>2 DEF Shift, Inner
  <2> QED BY <1>2, <2>1, <2>2
<1>6. \A i \in 1 .. Len(stack') : stack'[i].term = {} /\ stack'[i].kind = "assert"
  BY <1>2, <1>3
<1>7. IdsInv'
  <2>1. stack' # <<>> => Inner'.kind = "assert"
    BY <1>2, <1>3 DEF Inner
  <2> QED BY <1>1, <1>2, <2>1 DEF BaseInv, IdsInv
<1>8. DefsInv' /\ SolverInv'
  BY <1>1, <1>2 DEF BaseInv, DefsInv, SolverInv
<1>9. ScopesInv'
  <2>1. /\ Len(arg_param_map.scopes) = leaked + Len(stack) + Shift(stack)
        /\ Len(sort_arg_ids) = Len(arg_param_map.scopes) - 1
        /\ leaked \in Nat /\ Len(stack) \in Nat /\ Shift(stack) \in {0, 1}
    BY <1>1, Depth
  <2>2. Len(arg_param_map'.scopes) = leaked' + Len(stack') + Shift(stack')
    <3>1. Len(arg_param_map.scopes) = leaked + 1
      <4>1. CASE Len(stack) = 0 /\ Shift(stack) = 1
        BY <2>1, <4>1
      <4>2. CASE Len(stack) = 1 /\ Shift(stack) = 0
        BY <2>1, <4>2
      <4> QED BY <1>5, <4>1, <4>2
    <3>2. leaked + Len(stack') + Shift(stack') = leaked + 1
      <4>1. CASE Len(stack') = 0 /\ Shift(stack') = 1
        BY <2>1, <4>1
      <4>2. CASE Len(stack') = 1 /\ Shift(stack') = 0
        BY <2>1, <4>2
      <4> QED BY <1>5, <4>1, <4>2
    <3> QED BY <1>2, <3>1, <3>2
  <2>3. ~down' => Len(global_symbols'.scopes) = level' + 1
    BY <1>1, <1>2 DEF BaseInv, ScopesInv, InStep
  <2>4. InStep'
    BY <1>2, <1>4, <2>1, <2>2, <2>3, InStepMade
  <2> QED BY <1>1, <1>2, <2>4 DEF BaseInv, ScopesInv
<1>10. ASSUME leaked = 0 PROVE Len(arg_param_map.scopes) = 1
  <2>1. Len(arg_param_map.scopes) = 0 + Len(stack) + Shift(stack)
    BY <1>1, <1>10, Depth
  <2>2. CASE Len(stack) = 0 /\ Shift(stack) = 1
    BY <2>1, <2>2
  <2>3. CASE Len(stack) = 1 /\ Shift(stack) = 0
    BY <2>1, <2>3
  <2> QED BY <1>5, <2>2, <2>3
<1>11. ASSUME leaked' = 0 PROVE VarsInv'
  <2>1. VarsInv /\ MapClosed(arg_param_map, stack')
    BY <1>1, <1>2, <1>10, <1>11, NoLocals
  <2>2. FramesClosed(stack')
    BY <1>6 DEF FramesClosed, Vars
  <2> QED BY <1>2, <2>1, <2>2 DEF VarsInv
<1>12. ASSUME leaked' = 0, ~dangling' PROVE SymbolsInv'
  <2>1. SymbolsInv
    BY <1>1, <1>2, <1>12
  <2>2. FramesIn(stack', Bound(global_symbols))
    BY <1>6 DEF FramesIn, SymbolsOf
  <2> QED BY <1>2, <2>1, <2>2 DEF SymbolsInv
<1> QED BY <1>4, <1>7, <1>8, <1>9, <1>11, <1>12 DEF IInv, BaseInv

-----------------------------------------------------------------------------
(* Commands on the global symbols *)

(* The names of the scopes up to the i-th.                                 *)
LEMMA UpToFacts ==
  /\ \A m, i, x : x \in UpTo(m, i) <=> \E j \in 1 .. i : x \in m.scopes[j]
  /\ \A m : ScopedMap(m) => UpTo(m, Len(m.scopes)) = Bound(m)
<1>1. \A m, i, x : x \in UpTo(m, i) <=> \E j \in 1 .. i : x \in m.scopes[j]
  BY DEF UpTo
<1>2. ASSUME NEW m, ScopedMap(m) PROVE UpTo(m, Len(m.scopes)) = Bound(m)
  <2>1. \A x : x \in Bound(m) <=> \E j \in 1 .. Len(m.scopes) : x \in m.scopes[j]
    BY <1>2, MapFacts
  <2> QED BY <1>1, <2>1
<1> QED BY <1>1, <1>2

(* A global name for a term of visible symbols.                            *)
LEMMA GlobalAdded ==
  ASSUME NEW m, ScopedMap(m), NEW n \in Names, n \notin Bound(m), NEW t \in Terms,
         NEW w, w = Added(m, Len(m.scopes), n, t)
  PROVE  /\ GlobalsClosed(m) /\ Vars(t) = {} => GlobalsClosed(w)
         /\ GlobalsIn(m) /\ SymbolsOf(t) \subseteq Bound(m) \cup {n} => GlobalsIn(w)
<1> DEFINE L == Len(m.scopes)
<1>1. /\ L \in Nat /\ L \in 1 .. L
      /\ \A x : x \in Bound(m) <=> \E i \in 1 .. L : x \in m.scopes[i]
  BY MapFacts
<1>2. /\ ScopedMap(w) /\ Len(w.scopes) = L
      /\ Bound(w) = Bound(m) \cup {n} /\ KeepsWith(m, n, w)
      /\ w.map[n] = t
      /\ \A x \in Bound(m) : w.map[x] = m.map[x]
  BY AddedMap
<1>3. /\ ScopedMap(w) /\ Len(w.scopes) = L
      /\ Bound(w) = Bound(m) \cup {n}
      /\ \A i \in 1 .. L :
           w.scopes[i] = IF i = L THEN m.scopes[i] \cup {n} ELSE m.scopes[i]
      /\ w.map[n] = t
      /\ \A x \in Bound(m) : w.map[x] = m.map[x]
  BY <1>2 DEF KeepsWith
<1>4. ASSUME GlobalsClosed(m), Vars(t) = {} PROVE GlobalsClosed(w)
  BY <1>3, <1>4 DEF GlobalsClosed
<1>5. ASSUME GlobalsIn(m), SymbolsOf(t) \subseteq Bound(m) \cup {n} PROVE GlobalsIn(w)
  <2> SUFFICES ASSUME NEW i \in 1 .. L, NEW x \in w.scopes[i]
               PROVE  SymbolsOf(w.map[x]) \subseteq UpTo(w, i)
    BY <1>3 DEF GlobalsIn
  <2>1. CASE x = n
    <3>1. i = L
      BY <1>1, <1>3, <2>1
    <3>2. UpTo(w, L) = Bound(w)
      BY <1>3, UpToFacts
    <3> QED BY <1>3, <1>5, <2>1, <3>1, <3>2
  <2>2. CASE x # n
    <3>1. x \in m.scopes[i] /\ x \in Bound(m)
      BY <1>1, <1>3, <2>2
    <3>2. SymbolsOf(m.map[x]) \subseteq UpTo(m, i)
      BY <1>5, <3>1 DEF GlobalsIn
    <3>3. \A j \in 1 .. i : m.scopes[j] \subseteq w.scopes[j]
      <4>1. \A j \in 1 .. i : j \in 1 .. L
        BY <1>1
      <4>2. \A j \in 1 .. L : m.scopes[j] \subseteq w.scopes[j]
        BY <1>3
      <4> QED BY <4>1, <4>2
    <3>4. UpTo(m, i) \subseteq UpTo(w, i)
      BY <3>3, UpToFacts
    <3> QED BY <1>3, <3>1, <3>2, <3>4
  <2> QED BY <2>1, <2>2
<1> QED BY <1>4, <1>5

(* A step between commands that touches the global symbols and the solver. *)
LEMMA CommandStep ==
  ASSUME IInv, stack = <<>>,
         UNCHANGED <<defs, arg_param_map, sort_arg_ids, stack, leaked>>,
         SolverInv', ScopedMap(global_symbols'),
         ~down' => Len(global_symbols'.scopes) = level' + 1,
         GlobalsClosed(global_symbols) => GlobalsClosed(global_symbols'),
         ~dangling' => ~dangling,
         ~dangling' /\ GlobalsIn(global_symbols) => GlobalsIn(global_symbols'),
         ~dangling' /\ DefsIn(defs, Bound(global_symbols))
           => DefsIn(defs, Bound(global_symbols'))
  PROVE  IInv'
<1>1. /\ BaseInv
      /\ leaked = 0 => VarsInv
      /\ leaked = 0 /\ ~dangling => SymbolsInv
  BY DEF IInv
<1>2. /\ leaked \in Nat /\ Len(stack) = 0 /\ Shift(stack) = 1
      /\ Len(arg_param_map.scopes) = leaked + Len(stack) + Shift(stack)
      /\ Len(sort_arg_ids) = Len(arg_param_map.scopes) - 1
  BY <1>1, Depth
<1>3. StackOK(stack') /\ IdsInv' /\ DefsInv'
  BY <1>1 DEF BaseInv, IdsInv, DefsInv
<1>4. ScopesInv'
  <2>1. InStep'
    <3>1. Len(arg_param_map'.scopes) = leaked' + Len(stack') + Shift(stack')
      BY <1>2
    <3> QED BY <1>2, <3>1, InStepMade
  <2> QED BY <1>1, <2>1 DEF BaseInv, ScopesInv
<1>5. ASSUME leaked' = 0 PROVE VarsInv'
  BY <1>1, <1>5 DEF VarsInv
<1>6. ASSUME leaked' = 0, ~dangling' PROVE SymbolsInv'
  <2>1. SymbolsInv
    BY <1>1, <1>6
  <2>2. FramesIn(stack', Bound(global_symbols'))
    BY DEF FramesIn
  <2>3. MapIn(arg_param_map', Bound(global_symbols'))
    <3>1. Len(arg_param_map.scopes) = 1
      BY <1>2, <1>6
    <3> QED BY <1>1, <3>1, NoLocals DEF MapIn
  <2> QED BY <1>6, <2>1, <2>2, <2>3 DEF SymbolsInv
<1> QED BY <1>3, <1>4, <1>5, <1>6 DEF IInv, BaseInv

(* A symbol is a term of itself.                                           *)
LEMMA SymbolTerm ==
  ASSUME NEW n \in Names, NEW s \in Sorts
  PROVE  /\ {Symbol(n, s)} \in Terms /\ Vars({Symbol(n, s)}) = {}
         /\ SymbolsOf({Symbol(n, s)}) = {n}
<1>1. Symbol(n, s) \in Leaves
  BY DEF Leaves
<1>2. Symbol(n, s).kind = "symbol" /\ Symbol(n, s).name = n
  BY DEF Symbol
<1> QED BY <1>1, <1>2, SmallTerms DEF Vars, SymbolsOf

(* new_symbol keeps the invariant.                                         *)
LEMMA NewSymbolStep ==
  ASSUME IInv, NEW n \in Names, NEW s \in Sorts, new_symbol(n, s)
  PROVE  IInv'
<1> DEFINE t == {Symbol(n, s)}
           a == [x \in DOMAIN all_symbols \cup {n} |-> IF x = n THEN s ELSE all_symbols[x]]
           g == Added(global_symbols, Len(global_symbols.scopes), n, t)
<1>1. BaseInv
  BY DEF IInv
<1>2. /\ stack = <<>> /\ n \notin Bound(global_symbols)
      /\ UNCHANGED <<defs, arg_param_map, sort_arg_ids, stack, level, leaked, dangling, down>>
  BY DEF new_symbol, Ready, scopes
<1>3. /\ DOMAIN all_symbols \subseteq Names /\ \A x \in DOMAIN all_symbols : all_symbols[x] \in Sorts
      /\ declared = DOMAIN all_symbols /\ refused = FALSE
      /\ level \in Nat /\ dangling \in BOOLEAN /\ down \in BOOLEAN
  BY <1>1 DEF BaseInv, SolverInv
<1>4. /\ global_symbols' = g /\ UNCHANGED refused
      /\ \/ UNCHANGED <<all_symbols, declared>>
         \/ all_symbols' = a /\ declared' = declared \cup {n}
  BY <1>3 DEF new_symbol, add_mapping
<1>5. SolverInv'
  <2>1. CASE UNCHANGED <<all_symbols, declared>>
    BY <1>2, <1>3, <1>4, <2>1 DEF SolverInv
  <2>2. CASE all_symbols' = a /\ declared' = declared \cup {n}
    <3>1. DOMAIN a = DOMAIN all_symbols \cup {n} /\ \A x \in DOMAIN a : a[x] \in Sorts
      BY <1>3
    <3> HIDE DEF a
    <3> QED BY <1>2, <1>3, <1>4, <2>2, <3>1 DEF SolverInv
  <2> QED BY <1>4, <2>1, <2>2
<1>6. /\ ScopedMap(global_symbols) /\ t \in Terms /\ Vars(t) = {} /\ SymbolsOf(t) = {n}
      /\ ~down => Len(global_symbols.scopes) = level + 1
  BY <1>1, SymbolTerm DEF BaseInv, ScopesInv, InStep
<1> HIDE DEF t
<1>7. /\ ScopedMap(global_symbols') /\ Len(global_symbols'.scopes) = Len(global_symbols.scopes)
      /\ Bound(global_symbols') = Bound(global_symbols) \cup {n}
  BY <1>2, <1>4, <1>6, AddedMap
<1>8. /\ GlobalsClosed(global_symbols) => GlobalsClosed(global_symbols')
      /\ GlobalsIn(global_symbols) => GlobalsIn(global_symbols')
  BY <1>2, <1>4, <1>6, GlobalAdded
<1>9. DefsIn(defs, Bound(global_symbols)) => DefsIn(defs, Bound(global_symbols'))
  BY <1>7 DEF DefsIn
<1> QED BY <1>2, <1>5, <1>6, <1>7, <1>8, <1>9, CommandStep

(* push keeps the invariant.                                               *)
LEMMA PushStep ==
  ASSUME IInv, NEW k \in 1 .. MaxLevel, push(k)
  PROVE  IInv'
<1>1. BaseInv
  BY DEF IInv
<1>2. k \in Nat
  BY Bounds
<1>3. /\ stack = <<>> /\ ~down /\ global_symbols' = push_scopes(global_symbols, k)
      /\ \/ level' = level + k /\ UNCHANGED down
         \/ down' = TRUE /\ UNCHANGED level
      /\ UNCHANGED <<all_symbols, defs, arg_param_map, sort_arg_ids, stack, declared,
                     leaked, dangling, refused>>
  BY DEF push, Ready, scopes
<1>4. SolverInv'
  <2>1. SolverInv
    BY <1>1 DEF BaseInv
  <2>2. level' \in Nat /\ down' \in BOOLEAN
    <3>1. level \in Nat /\ down \in BOOLEAN
      BY <2>1 DEF SolverInv
    <3>2. CASE level' = level + k /\ UNCHANGED down
      BY <1>2, <3>1, <3>2
    <3>3. CASE down' = TRUE /\ UNCHANGED level
      BY <3>1, <3>3
    <3> QED BY <1>3, <3>2, <3>3
  <2> QED BY <1>3, <2>1, <2>2 DEF SolverInv
<1> DEFINE m == global_symbols
           L == Len(m.scopes)
<1>5. PICK w : w = push_scopes(global_symbols, k)
  OBVIOUS
<1>6. ScopedMap(m) /\ L \in Nat /\ L = level + 1 /\ level \in Nat
  BY <1>1, <1>3, MapFacts DEF BaseInv, ScopesInv, SolverInv, InStep
<1>7. /\ ScopedMap(w) /\ Len(w.scopes) = L + k /\ w.map = m.map /\ Bound(w) = Bound(m)
       /\ Keeps(m, w) /\ \A i \in L + 1 .. L + k : w.scopes[i] = {}
  BY <1>2, <1>6, <1>5, PushedMap
<1>8. /\ ScopedMap(w) /\ Len(w.scopes) = L + k /\ w.map = m.map /\ Bound(w) = Bound(m)
      /\ \A i \in 1 .. L : w.scopes[i] = m.scopes[i]
      /\ \A i \in L + 1 .. L + k : w.scopes[i] = {}
  BY <1>7 DEF Keeps
<1>9. ~down' => Len(w.scopes) = level' + 1
  BY <1>2, <1>3, <1>6, <1>8
<1>10. GlobalsClosed(m) => GlobalsClosed(w)
  BY <1>8 DEF GlobalsClosed
<1>11. ASSUME GlobalsIn(m) PROVE GlobalsIn(w)
  <2> SUFFICES ASSUME NEW i \in 1 .. L + k, NEW x \in w.scopes[i]
               PROVE  SymbolsOf(w.map[x]) \subseteq UpTo(w, i)
    BY <1>8 DEF GlobalsIn
  <2>1. i \in 1 .. L
    <3>1. i \in 1 .. L \/ i \in L + 1 .. L + k
      BY <1>2, <1>6
    <3> QED BY <1>8, <3>1
  <2>2. SymbolsOf(m.map[x]) \subseteq UpTo(m, i)
    BY <1>8, <1>11, <2>1 DEF GlobalsIn
  <2>3. \A j \in 1 .. i : w.scopes[j] = m.scopes[j]
    BY <1>6, <1>8, <2>1
  <2>4. UpTo(m, i) \subseteq UpTo(w, i)
    BY <2>3, UpToFacts
  <2> QED BY <1>8, <2>2, <2>4
<1>12. DefsIn(defs, Bound(m)) => DefsIn(defs, Bound(w))
  BY <1>8
<1>13. global_symbols' = w
  BY <1>3, <1>5
<1> QED BY <1>3, <1>4, <1>8, <1>9, <1>10, <1>11, <1>12, <1>13, CommandStep

(* pop keeps the invariant.                                                *)
LEMMA PopStep ==
  ASSUME IInv, NEW k \in 1 .. MaxLevel, pop(k)
  PROVE  IInv'
<1>1. BaseInv
  BY DEF IInv
<1>2. k \in Nat
  BY Bounds
<1>3. /\ stack = <<>> /\ ~down
      /\ UNCHANGED <<all_symbols, defs, arg_param_map, sort_arg_ids, stack, declared,
                     leaked, refused>>
  BY DEF pop, Ready, scopes
<1> DEFINE m == global_symbols
           L == Len(m.scopes)
           w == pop_scopes(m, k)
<1>4. ScopedMap(m) /\ L \in Nat /\ L = level + 1 /\ level \in Nat
  BY <1>1, <1>3, MapFacts DEF BaseInv, ScopesInv, SolverInv, InStep
<1>5. CASE down' = TRUE /\ UNCHANGED <<global_symbols, level, dangling>>
  <2>1. SolverInv'
    BY <1>1, <1>3, <1>5 DEF BaseInv, SolverInv
  <2> QED BY <1>3, <1>4, <1>5, <2>1, CommandStep
<1>6. CASE /\ k < L /\ global_symbols' = w
           /\ dangling' = (dangling \/ \E f \in DOMAIN defs :
                              SymbolsOf(defs[f].body) \cap Erased(m, k) # {})
           /\ \/ k <= level /\ level' = level - k /\ UNCHANGED down
              \/ down' = TRUE /\ UNCHANGED level
  <2>1. /\ ScopedMap(w) /\ Len(w.scopes) = L - k
        /\ \A i \in 1 .. Len(w.scopes) : w.scopes[i] = m.scopes[i]
        /\ Bound(w) = Bound(m) \ Erased(m, k)
        /\ \A n \in Bound(w) : w.map[n] = m.map[n]
    BY <1>2, <1>4, <1>6, PoppedMap
  <2>2. dangling \in BOOLEAN
    BY <1>1 DEF BaseInv, SolverInv
  <2>3. SolverInv'
    <3>1. down \in BOOLEAN
      BY <1>1 DEF BaseInv, SolverInv
    <3>3. level' \in Nat /\ down' \in BOOLEAN
      <4>1. CASE k <= level /\ level' = level - k /\ UNCHANGED down
        BY <1>2, <1>4, <3>1, <4>1
      <4>2. CASE down' = TRUE /\ UNCHANGED level
        BY <1>4, <4>2
      <4> QED BY <1>6, <4>1, <4>2
    <3>2. dangling' \in BOOLEAN
      BY <1>6, <2>2
    <3> QED BY <1>1, <1>3, <3>2, <3>3 DEF BaseInv, SolverInv
  <2>4. ~dangling' => ~dangling /\ \A f \in DOMAIN defs :
                                     SymbolsOf(defs[f].body) \cap Erased(m, k) = {}
    BY <1>6
  <2> HIDE DEF w
  <2>5. ~down' => Len(w.scopes) = level' + 1
    BY <1>2, <1>4, <1>6, <2>1
  <2>6. GlobalsClosed(m) => GlobalsClosed(w)
    BY <2>1 DEF GlobalsClosed
  <2>7. ASSUME GlobalsIn(m) PROVE GlobalsIn(w)
    <3> SUFFICES ASSUME NEW i \in 1 .. Len(w.scopes), NEW x \in w.scopes[i]
                 PROVE  SymbolsOf(w.map[x]) \subseteq UpTo(w, i)
      BY DEF GlobalsIn
    <3>1. i \in 1 .. L /\ \A j \in 1 .. i : j \in 1 .. Len(w.scopes)
      BY <1>2, <1>4, <1>6, <2>1
    <3>2. SymbolsOf(m.map[x]) \subseteq UpTo(m, i)
      BY <2>1, <2>7, <3>1 DEF GlobalsIn
    <3>3. UpTo(m, i) \subseteq UpTo(w, i)
      BY <2>1, <3>1, UpToFacts
    <3>4. x \in Bound(w)
      BY <2>1, MapFacts
    <3> QED BY <2>1, <3>2, <3>3, <3>4
  <2>8. ~dangling' /\ DefsIn(defs, Bound(m)) => DefsIn(defs, Bound(w))
    BY <2>1, <2>4 DEF DefsIn
  <2> QED BY <1>3, <1>6, <2>1, <2>3, <2>4, <2>5, <2>6, <2>7, <2>8, CommandStep
<1>7. \/ down' = TRUE /\ UNCHANGED <<global_symbols, level, dangling>>
      \/ /\ k < L /\ global_symbols' = w
         /\ dangling' = (dangling \/ \E f \in DOMAIN defs :
                            SymbolsOf(defs[f].body) \cap Erased(m, k) # {})
         /\ \/ k <= level /\ level' = level - k /\ UNCHANGED down
            \/ down' = TRUE /\ UNCHANGED level
  BY DEF pop
<1> QED BY <1>5, <1>6, <1>7

-----------------------------------------------------------------------------
(* Steps inside of a command *)

(* The innermost frame gets another term.                                  *)
LEMMA TopTerm ==
  ASSUME BaseInv, stack # <<>>, NEW t \in Terms
  PROVE  LET w  == [stack EXCEPT ![Len(stack)].term = t]
             fr == w[Len(w)]
         IN  /\ SameBelow(w)
             /\ fr.kind = Inner.kind /\ fr.part = Inner.part
             /\ fr.args = Inner.args /\ fr.term = t
<1> DEFINE w  == [stack EXCEPT ![Len(stack)].term = t]
           fr == [Inner EXCEPT !.term = t]
<1>1. Inner \in Frames /\ Inner = stack[Len(stack)]
  BY TopFacts
<1>2. /\ fr \in Frames /\ fr.kind = Inner.kind /\ fr.part = Inner.part
      /\ fr.args = Inner.args /\ fr.term = t
      /\ fr.name = Inner.name
  BY <1>1 DEF Frames
<1>3. w = [stack EXCEPT ![Len(stack)] = fr]
  BY <1>1
<1> HIDE DEF w, fr
<1>4. SameBelow(w) /\ w[Len(w)] = fr
  BY <1>2, <1>3, TopChanged, TopFacts
<1> QED BY <1>2, <1>4 DEF w

(* Or one argument more, if it has arguments.                              *)
LEMMA TopArgs ==
  ASSUME BaseInv, stack # <<>>, Inner.kind \in {"define", "quantifier"}, NEW x \in Leaves
  PROVE  LET w  == [stack EXCEPT ![Len(stack)].args = Append(@, x)]
             fr == w[Len(w)]
         IN  /\ SameBelow(w)
             /\ fr.kind = Inner.kind /\ fr.part = Inner.part /\ fr.term = Inner.term
             /\ Len(fr.args) = Len(Inner.args) + 1
             /\ ArgSet(Inner) \subseteq ArgSet(fr) /\ x \in ArgSet(fr)
<1> DEFINE w  == [stack EXCEPT ![Len(stack)].args = Append(@, x)]
           a  == Append(Inner.args, x)
           fr == [Inner EXCEPT !.args = a]
<1>1. Inner \in Frames /\ Inner = stack[Len(stack)] /\ Inner.args \in Seq(Leaves)
  BY TopFacts
<1>2. /\ a \in Seq(Leaves) /\ Len(Inner.args) \in Nat /\ Len(a) = Len(Inner.args) + 1
      /\ \A k \in 1 .. Len(Inner.args) : a[k] = Inner.args[k]
      /\ a[Len(a)] = x /\ Len(a) \in 1 .. Len(a)
  BY <1>1
<1>3. w = [stack EXCEPT ![Len(stack)] = fr]
  BY <1>1
<1> HIDE DEF a
<1>4. /\ fr \in Frames /\ fr.kind = Inner.kind /\ fr.part = Inner.part
      /\ fr.args = a /\ fr.term = Inner.term
      /\ fr.name = Inner.name
  BY <1>1, <1>2 DEF Frames
<1> HIDE DEF w, fr
<1>5. SameBelow(w) /\ w[Len(w)] = fr
  <2>1. fr.kind # "assert" /\ fr.kind \notin {"assert", "let"}
    BY <1>4
  <2> QED BY <1>3, <1>4, <2>1, TopChanged
<1>6. x \in ArgSet(fr)
  BY <1>2, <1>4 DEF ArgSet
<1>7. ArgSet(Inner) \subseteq ArgSet(fr)
  <2>1. \A k \in 1 .. Len(Inner.args) : k \in 1 .. Len(a)
    BY <1>2
  <2> QED BY <1>2, <1>4, <2>1 DEF ArgSet
<1> QED BY <1>2, <1>4, <1>5, <1>6, <1>7 DEF w

(* Or its head ends.                                                       *)
LEMMA TopBody ==
  ASSUME BaseInv, stack # <<>>
  PROVE  LET w  == [stack EXCEPT ![Len(stack)].part = "body"]
             fr == w[Len(w)]
         IN  /\ SameBelow(w)
             /\ fr.kind = Inner.kind /\ fr.part = "body"
             /\ fr.args = Inner.args /\ fr.term = Inner.term
<1> DEFINE w  == [stack EXCEPT ![Len(stack)].part = "body"]
           fr == [Inner EXCEPT !.part = "body"]
<1>1. Inner \in Frames /\ Inner = stack[Len(stack)]
  BY TopFacts
<1>2. /\ fr \in Frames /\ fr.kind = Inner.kind /\ fr.part = "body"
      /\ fr.args = Inner.args /\ fr.term = Inner.term
      /\ fr.name = Inner.name
  BY <1>1 DEF Frames
<1>3. w = [stack EXCEPT ![Len(stack)] = fr]
  BY <1>1
<1> HIDE DEF w, fr
<1>4. SameBelow(w) /\ w[Len(w)] = fr
  BY <1>2, <1>3, TopChanged, TopFacts
<1> QED BY <1>2, <1>4 DEF w

(* The scopes and what is open change, nothing else.                       *)
LEMMA LocalStep ==
  ASSUME IInv,
         UNCHANGED <<global_symbols, all_symbols, defs, solver, history, down>>,
         StackOK(stack'), IdsInv',
         ScopedMap(arg_param_map'), arg_param_map'.scopes[1] = {},
         Len(arg_param_map'.scopes) = leaked + Len(stack') + Shift(stack'),
         Len(sort_arg_ids') = Len(arg_param_map'.scopes) - 1,
         leaked = 0 /\ VarsInv => FramesClosed(stack') /\ MapClosed(arg_param_map', stack'),
         leaked = 0 /\ SymbolsInv => /\ FramesIn(stack', Bound(global_symbols))
                                     /\ MapIn(arg_param_map', Bound(global_symbols))
  PROVE  IInv'
<1> USE DEF solver, history
<1>1. /\ BaseInv
      /\ leaked = 0 => VarsInv
      /\ leaked = 0 /\ ~dangling => SymbolsInv
  BY DEF IInv
<1>2. DefsInv' /\ SolverInv'
  BY <1>1 DEF BaseInv, DefsInv, SolverInv
<1>3. ScopesInv'
  <2>1. leaked' \in Nat /\ Len(stack') \in Nat
    BY <1>1, Depth DEF StackOK
  <2>2. ~down' => Len(global_symbols'.scopes) = level' + 1
    BY <1>1 DEF BaseInv, ScopesInv, InStep
  <2>3. Len(arg_param_map'.scopes) = leaked' + Len(stack') + Shift(stack')
    OBVIOUS
  <2>4. InStep'
    BY <2>1, <2>2, <2>3, InStepMade
  <2> QED BY <1>1, <2>4 DEF BaseInv, ScopesInv
<1>4. ASSUME leaked' = 0 PROVE VarsInv'
  BY <1>1, <1>4 DEF VarsInv
<1>5. ASSUME leaked' = 0, ~dangling' PROVE SymbolsInv'
  BY <1>1, <1>5 DEF SymbolsInv
<1> QED BY <1>2, <1>3, <1>4, <1>5 DEF IInv, BaseInv

(* The innermost frame changes, and the scopes keep their number.          *)
LEMMA TopStep ==
  ASSUME IInv, stack # <<>>,
         UNCHANGED <<global_symbols, all_symbols, defs, solver, history, down>>,
         SameBelow(stack'), IdsInv',
         ScopedMap(arg_param_map'), arg_param_map'.scopes[1] = {},
         Len(arg_param_map'.scopes) = Len(arg_param_map.scopes),
         Len(sort_arg_ids') = Len(sort_arg_ids),
         ArgSet(Inner) \subseteq ArgSet(Inner'),
         leaked = 0 /\ VarsInv =>
           /\ Vars(Inner'.term) \subseteq ArgsTo(stack', Len(stack'))
           /\ MapClosed(arg_param_map, stack') => MapClosed(arg_param_map', stack'),
         leaked = 0 /\ SymbolsInv =>
           /\ SymbolsOf(Inner'.term) \subseteq Bound(global_symbols)
           /\ MapIn(arg_param_map', Bound(global_symbols))
  PROVE  IInv'
<1>1. BaseInv
  BY DEF IInv
<1>2. /\ StackOK(stack') /\ stack' # <<>> /\ Len(stack') = Len(stack)
      /\ \A i \in 1 .. Len(stack) : i # Len(stack) => stack'[i] = stack[i]
      /\ Shift(stack') = Shift(stack) /\ Inner' = stack'[Len(stack')]
  BY DEF SameBelow, Inner
<1>3. /\ Len(arg_param_map'.scopes) = leaked + Len(stack') + Shift(stack')
      /\ Len(sort_arg_ids') = Len(arg_param_map'.scopes) - 1
  BY <1>1, <1>2, Depth
<1>4. leaked = 0 /\ VarsInv => FramesClosed(stack') /\ MapClosed(arg_param_map', stack')
  BY <1>1, <1>2, TopClosed
<1>5. leaked = 0 /\ SymbolsInv => FramesIn(stack', Bound(global_symbols))
  <2> SUFFICES ASSUME leaked = 0, SymbolsInv, NEW i \in 1 .. Len(stack')
               PROVE  SymbolsOf(stack'[i].term) \subseteq Bound(global_symbols)
    BY DEF FramesIn
  <2>1. CASE i = Len(stack')
    BY <1>2, <2>1
  <2>2. CASE i # Len(stack')
    BY <1>2, <2>2 DEF SymbolsInv, FramesIn
  <2> QED BY <2>1, <2>2
<1> QED BY <1>2, <1>3, <1>4, <1>5, LocalStep

(* The head of a definition, a let or a quantifier ends.                   *)
LEMMA EndHeadStep ==
  ASSUME IInv, EndHead
  PROVE  IInv'
<1>1. BaseInv
  BY DEF IInv
<1>2. /\ stack # <<>> /\ Inner.part = "head"
      /\ stack' = [stack EXCEPT ![Len(stack)].part = "body"]
      /\ UNCHANGED <<global_symbols, all_symbols, defs, arg_param_map, sort_arg_ids,
                     solver, history, down>>
  BY DEF EndHead, scopes
<1>3. /\ SameBelow(stack') /\ Inner'.part = "body"
      /\ Inner'.args = Inner.args /\ Inner'.term = Inner.term
  BY <1>1, <1>2, TopBody DEF Inner
<1>4. IdsInv'
  BY <1>1, <1>2, <1>3 DEF BaseInv, IdsInv
<1>5. ScopedMap(arg_param_map) /\ arg_param_map.scopes[1] = {}
  BY <1>1 DEF BaseInv, ScopesInv
<1>6. ArgSet(Inner') = ArgSet(Inner)
  BY <1>3 DEF ArgSet
<1>7. ASSUME VarsInv PROVE Vars(Inner'.term) \subseteq ArgsTo(stack', Len(stack'))
  <2>1. Vars(Inner.term) \subseteq ArgsTo(stack, Len(stack))
    BY <1>1, <1>2, <1>7, TopFacts DEF VarsInv, FramesClosed
  <2>2. /\ Len(stack') = Len(stack) /\ Len(stack) \in Nat /\ Inner = stack[Len(stack)]
        /\ Inner' = stack'[Len(stack)]
        /\ \A i \in 1 .. Len(stack) : i # Len(stack) => stack'[i] = stack[i]
    BY <1>1, <1>2, <1>3, TopFacts DEF SameBelow, Inner
  <2>3. \A i \in 1 .. Len(stack) : ArgSet(stack[i]) \subseteq ArgSet(stack'[i])
    BY <1>6, <2>2
  <2>4. ArgsTo(stack, Len(stack)) \subseteq ArgsTo(stack', Len(stack))
    BY <2>2, <2>3, ArgsFacts
  <2> QED BY <1>3, <2>1, <2>2, <2>4
<1>8. ASSUME SymbolsInv
      PROVE  /\ SymbolsOf(Inner'.term) \subseteq Bound(global_symbols)
             /\ MapIn(arg_param_map, Bound(global_symbols))
  BY <1>1, <1>2, <1>3, <1>8, TopFacts DEF SymbolsInv, FramesIn
<1> QED BY <1>2, <1>3, <1>4, <1>5, <1>6, <1>7, <1>8, TopStep

(* What the innermost frame has, it has in terms of the frames up to it.   *)
LEMMA InnerClosed ==
  ASSUME BaseInv, stack # <<>>, SameBelow(stack'),
         ArgSet(Inner) \subseteq ArgSet(Inner')
  PROVE  /\ ArgsTo(stack, Len(stack)) \subseteq ArgsTo(stack', Len(stack'))
         /\ ArgSet(Inner') \subseteq ArgsTo(stack', Len(stack'))
         /\ VarsInv => Vars(Inner.term) \subseteq ArgsTo(stack, Len(stack))
         /\ SymbolsInv => SymbolsOf(Inner.term) \subseteq Bound(global_symbols)
<1>1. /\ Len(stack') = Len(stack) /\ Len(stack) \in Nat /\ Inner = stack[Len(stack)]
      /\ Inner' = stack'[Len(stack)] /\ Len(stack) \in 1 .. Len(stack)
      /\ \A i \in 1 .. Len(stack) : i # Len(stack) => stack'[i] = stack[i]
  BY TopFacts DEF SameBelow, Inner
<1>2. \A i \in 1 .. Len(stack) : ArgSet(stack[i]) \subseteq ArgSet(stack'[i])
  BY <1>1
<1>3. ArgsTo(stack, Len(stack)) \subseteq ArgsTo(stack', Len(stack'))
  BY <1>1, <1>2, ArgsFacts
<1>4. ArgSet(Inner') \subseteq ArgsTo(stack', Len(stack'))
  BY <1>1, ArgsFacts
<1>5. VarsInv => Vars(Inner.term) \subseteq ArgsTo(stack, Len(stack))
  BY <1>1 DEF VarsInv, FramesClosed
<1>6. SymbolsInv => SymbolsOf(Inner.term) \subseteq Bound(global_symbols)
  BY <1>1 DEF SymbolsInv, FramesIn
<1> QED BY <1>3, <1>4, <1>5, <1>6

(* The variables and symbols of parts.                                     *)
LEMMA PartsFacts ==
  /\ \A t, u : Vars(t \cup u) = Vars(t) \cup Vars(u)
  /\ \A t, u : SymbolsOf(t \cup u) = SymbolsOf(t) \cup SymbolsOf(u)
  /\ Vars({}) = {} /\ SymbolsOf({}) = {}
<1>1. \A t, u : Vars(t \cup u) = Vars(t) \cup Vars(u)
  BY DEF Vars
<1>2. \A t, y : y \in SymbolsOf(t) <=> \E x \in t : x.kind = "symbol" /\ y = x.name
  BY DEF SymbolsOf
<1>3. \A t, u : SymbolsOf(t \cup u) = SymbolsOf(t) \cup SymbolsOf(u)
  BY <1>2
<1>4. Vars({}) = {} /\ SymbolsOf({}) = {}
  BY <1>2 DEF Vars
<1> QED BY <1>1, <1>3, <1>4

(* A term of known parts is added to the innermost one.                    *)
LEMMA BuiltStep ==
  ASSUME IInv, InTerm, NEW t \in SUBSET Leaves, Built(t),
         UNCHANGED <<global_symbols, all_symbols, defs, scopes, solver>>,
         leaked = 0 /\ VarsInv => Vars(t) \subseteq ArgsTo(stack, Len(stack)),
         leaked = 0 /\ SymbolsInv => SymbolsOf(t) \subseteq Bound(global_symbols)
  PROVE  IInv'
<1>1. BaseInv
  BY DEF IInv
<1>2. /\ stack # <<>> /\ Inner \in Frames
      /\ Inner.kind # "define" \/ Inner.part = "body"
  BY <1>1, TopFacts DEF InTerm
<1>3. /\ stack' = [stack EXCEPT ![Len(stack)].term = Inner.term \cup t]
      /\ Inner.term \cup t \in Terms /\ UNCHANGED <<history, down>>
  <2>1. Inner.term \in SUBSET Leaves
    BY <1>1, <1>2, TopFacts DEF Terms
  <2>2. Inner.term \cup t \in SUBSET Leaves /\ Cardinality(Inner.term \cup t) <= MaxLeaves
    BY <2>1 DEF Built
  <2>3. Inner.term \cup t \in Terms
    BY <2>2 DEF Terms
  <2> QED BY <2>3 DEF Built, Inner
<1>4. /\ SameBelow(stack') /\ Inner'.kind = Inner.kind /\ Inner'.part = Inner.part
      /\ Inner'.args = Inner.args /\ Inner'.term = Inner.term \cup t
  BY <1>1, <1>2, <1>3, TopTerm DEF Inner
<1>5. IdsInv'
  BY <1>1, <1>2, <1>4 DEF BaseInv, IdsInv, scopes
<1>6. ScopedMap(arg_param_map) /\ arg_param_map.scopes[1] = {}
  BY <1>1 DEF BaseInv, ScopesInv
<1>7. ArgSet(Inner') = ArgSet(Inner)
  BY <1>4 DEF ArgSet
<1>8. ASSUME leaked = 0, VarsInv PROVE Vars(Inner'.term) \subseteq ArgsTo(stack', Len(stack'))
  <2>1. /\ Vars(Inner.term) \subseteq ArgsTo(stack, Len(stack))
        /\ ArgsTo(stack, Len(stack)) \subseteq ArgsTo(stack', Len(stack'))
    BY <1>1, <1>2, <1>4, <1>7, <1>8, InnerClosed
  <2>2. Vars(Inner'.term) = Vars(Inner.term) \cup Vars(t)
    BY <1>4, PartsFacts
  <2> QED BY <1>8, <2>1, <2>2
<1>9. ASSUME leaked = 0, SymbolsInv
      PROVE  /\ SymbolsOf(Inner'.term) \subseteq Bound(global_symbols)
             /\ MapIn(arg_param_map, Bound(global_symbols))
  <2>1. SymbolsOf(Inner.term) \subseteq Bound(global_symbols)
    BY <1>1, <1>2, <1>4, <1>7, <1>9, InnerClosed
  <2>2. SymbolsOf(Inner'.term) = SymbolsOf(Inner.term) \cup SymbolsOf(t)
    BY <1>4, PartsFacts
  <2> QED BY <1>9, <2>1, <2>2 DEF SymbolsInv
<1> QED BY <1>2, <1>3, <1>4, <1>5, <1>6, <1>7, <1>8, <1>9, TopStep DEF scopes

(* A definition, a let or a quantifier has a scope of its own.             *)
LEMMA DeepScopes ==
  ASSUME BaseInv, stack # <<>>, Inner.kind # "assert"
  PROVE  Len(arg_param_map.scopes) \in Nat /\ Len(arg_param_map.scopes) >= 2
<1> DEFINE L == Len(arg_param_map.scopes)
<1>1. /\ L \in Nat /\ leaked \in Nat /\ L = leaked + Len(stack) + Shift(stack)
      /\ Len(stack) \in Nat /\ Len(stack) > 0 /\ Shift(stack) \in {0, 1}
  BY Depth, TopFacts
<1>2. CASE Len(stack) = 1
  <2>1. Shift(stack) = 1
    BY <1>2, TopFacts DEF Shift
  <2> QED BY <1>1, <1>2, <2>1
<1>3. CASE Len(stack) # 1
  <2>1. \A k \in Nat : k > 0 /\ k # 1 => k >= 2
    OBVIOUS
  <2>2. Len(stack) >= 2
    BY <1>1, <1>3, <2>1
  <2> QED BY <1>1, <2>2
<1> QED BY <1>1, <1>2, <1>3

(* A binding in the innermost scope.                                       *)
LEMMA LocalAdded ==
  ASSUME BaseInv, stack # <<>>, Inner.kind # "assert", NEW n \in Names, NEW t \in Terms,
         add_mapping(arg_param_map, n, t, arg_param_map')
  PROVE  /\ ScopedMap(arg_param_map') /\ arg_param_map'.scopes[1] = {}
         /\ Len(arg_param_map'.scopes) = Len(arg_param_map.scopes)
         /\ \A st : leaked = 0 /\ Shift(st) = Shift(stack) =>
              (MapClosed(arg_param_map, st) /\ Vars(t) \subseteq ArgsTo(st, Len(stack))
                 => MapClosed(arg_param_map', st))
         /\ \A B : MapIn(arg_param_map, B) /\ SymbolsOf(t) \subseteq B
                     => MapIn(arg_param_map', B)
<1> DEFINE m == arg_param_map
           L == Len(m.scopes)
<1>1. ScopedMap(m) /\ m.scopes[1] = {}
  BY DEF BaseInv, ScopesInv
<1>2. n \notin Bound(m) /\ arg_param_map' = Added(m, L, n, t)
  BY DEF add_mapping
<1>3. PICK w : w = Added(m, L, n, t)
  OBVIOUS
<1>4. /\ ScopedMap(w) /\ Len(w.scopes) = L /\ Bound(w) = Bound(m) \cup {n}
      /\ KeepsWith(m, n, w) /\ w.map[n] = t
      /\ \A x \in Bound(m) : w.map[x] = m.map[x]
  BY <1>1, <1>2, <1>3, AddedMap
<1>5. \A i \in 1 .. L : w.scopes[i] = IF i = L THEN m.scopes[i] \cup {n} ELSE m.scopes[i]
  BY <1>4 DEF KeepsWith
<1>6. /\ L \in Nat /\ leaked \in Nat /\ L = leaked + Len(stack) + Shift(stack)
      /\ L >= 2 /\ Len(stack) \in Nat
  BY Depth, DeepScopes
<1>7. w.scopes[1] = {}
  <2>1. 1 \in 1 .. L /\ 1 # L
    BY <1>6
  <2> QED BY <1>1, <1>5, <2>1
<1>8. ASSUME NEW st, leaked = 0, Shift(st) = Shift(stack), MapClosed(m, st),
             Vars(t) \subseteq ArgsTo(st, Len(stack))
      PROVE  MapClosed(w, st)
  <2> SUFFICES ASSUME NEW j \in 1 .. L, NEW x \in w.scopes[j]
               PROVE  Vars(w.map[x]) \subseteq ArgsTo(st, j - Shift(st))
    BY <1>4 DEF MapClosed
  <2>1. CASE x \in m.scopes[j]
    <3>1. w.map[x] = m.map[x]
      BY <1>1, <1>4, <2>1, MapFacts
    <3> QED BY <1>8, <2>1, <3>1 DEF MapClosed
  <2>2. CASE x \notin m.scopes[j]
    <3>1. j = L /\ x = n
      BY <1>5, <2>2
    <3>2. j - Shift(st) = Len(stack)
      <4>1. Shift(stack) \in {0, 1}
        BY Depth
      <4> QED BY <1>6, <1>8, <3>1, <4>1
    <3> QED BY <1>4, <1>8, <3>1, <3>2
  <2> QED BY <2>1, <2>2
<1>9. \A B : MapIn(m, B) /\ SymbolsOf(t) \subseteq B => MapIn(w, B)
  BY <1>4 DEF MapIn
<1>10. arg_param_map' = w
  BY <1>2, <1>3
<1>11. \A st : leaked = 0 /\ Shift(st) = Shift(stack) =>
         (MapClosed(m, st) /\ Vars(t) \subseteq ArgsTo(st, Len(stack))
            => MapClosed(arg_param_map', st))
  BY <1>8, <1>10
<1>12. \A B : MapIn(m, B) /\ SymbolsOf(t) \subseteq B => MapIn(arg_param_map', B)
  BY <1>9, <1>10, Zenon
<1> QED BY <1>4, <1>7, <1>10, <1>11, <1>12

(* A let binding keeps the invariant.                                      *)
LEMMA LetStep ==
  ASSUME IInv, NEW n \in Names, let_binding(n)
  PROVE  IInv'
<1>1. BaseInv
  BY DEF IInv
<1>2. /\ stack # <<>> /\ Inner.kind = "let" /\ Inner.part = "head"
      /\ UNCHANGED <<global_symbols, all_symbols, defs, sort_arg_ids, solver>>
  BY DEF let_binding
<1>3. CASE Failed /\ UNCHANGED arg_param_map
  BY <1>2, <1>3, FailedStep DEF scopes
<1>4. CASE /\ add_mapping(arg_param_map, n, Inner.term, arg_param_map')
           /\ stack' = [stack EXCEPT ![Len(stack)].term = {}]
           /\ UNCHANGED <<history, down>>
  <2>1. Inner.term \in Terms /\ Inner.kind # "assert"
    BY <1>1, <1>2, TopFacts
  <2>2. /\ SameBelow(stack') /\ Inner'.kind = "let" /\ Inner'.part = "head"
        /\ Inner'.args = Inner.args /\ Inner'.term = {}
    BY <1>1, <1>2, <1>4, TopTerm, SmallTerms DEF Inner
  <2>3. IdsInv'
    BY <1>1, <1>2, <2>2 DEF BaseInv, IdsInv
  <2>4. /\ ScopedMap(arg_param_map') /\ arg_param_map'.scopes[1] = {}
        /\ Len(arg_param_map'.scopes) = Len(arg_param_map.scopes)
    BY <1>1, <1>2, <1>4, <2>1, LocalAdded
  <2>5. ArgSet(Inner') = ArgSet(Inner)
    BY <2>2 DEF ArgSet
  <2>6. ASSUME leaked = 0, VarsInv
        PROVE  /\ Vars(Inner'.term) \subseteq ArgsTo(stack', Len(stack'))
               /\ MapClosed(arg_param_map, stack') => MapClosed(arg_param_map', stack')
    <3>1. Vars(Inner'.term) = {}
      BY <2>2, PartsFacts
    <3>2. Vars(Inner.term) \subseteq ArgsTo(stack', Len(stack'))
      BY <1>1, <1>2, <2>2, <2>5, <2>6, InnerClosed
    <3>3. Shift(stack') = Shift(stack) /\ Len(stack') = Len(stack)
      BY <2>2 DEF SameBelow
    <3>4. MapClosed(arg_param_map, stack') => MapClosed(arg_param_map', stack')
      BY <1>1, <1>2, <1>4, <2>1, <2>6, <3>2, <3>3, LocalAdded
    <3> QED BY <3>1, <3>4
  <2>7. ASSUME SymbolsInv
        PROVE  /\ SymbolsOf(Inner'.term) \subseteq Bound(global_symbols)
               /\ MapIn(arg_param_map', Bound(global_symbols))
    <3>1. SymbolsOf(Inner'.term) = {}
      BY <2>2, PartsFacts
    <3>2. SymbolsOf(Inner.term) \subseteq Bound(global_symbols)
      BY <1>1, <1>2, <2>2, <2>5, <2>7, InnerClosed
    <3>3. MapIn(arg_param_map, Bound(global_symbols))
      BY <2>7 DEF SymbolsInv
    <3> QED BY <1>1, <1>2, <1>4, <2>1, <3>1, <3>2, <3>3, LocalAdded
  <2> QED BY <1>2, <1>4, <2>2, <2>3, <2>4, <2>5, <2>6, <2>7, TopStep
<1> QED BY <1>3, <1>4 DEF let_binding

(* A variable of its own is bound in the innermost scope.                  *)
LEMMA BinderStep ==
  ASSUME IInv, stack # <<>>, Inner.kind \in {"define", "quantifier"}, Inner.part = "head",
         NEW n \in Names, NEW x \in Leaves, x.kind # "symbol",
         add_mapping(arg_param_map, n, {x}, arg_param_map'),
         stack' = [stack EXCEPT ![Len(stack)].args = Append(@, x)],
         UNCHANGED <<global_symbols, all_symbols, defs, solver, history, down>>,
         Len(sort_arg_ids') = Len(sort_arg_ids), sort_arg_ids' \in Seq([Sorts -> Nat]),
         Inner.kind = "define" =>
           \A s \in Sorts :
             sort_arg_ids'[Len(sort_arg_ids)][s] <= Len(Inner.args) + 1
  PROVE  IInv'
<1>1. BaseInv
  BY DEF IInv
<1>2. /\ SameBelow(stack') /\ Inner'.kind = Inner.kind /\ Inner'.part = "head"
      /\ Inner'.term = Inner.term /\ Len(Inner'.args) = Len(Inner.args) + 1
      /\ ArgSet(Inner) \subseteq ArgSet(Inner') /\ x \in ArgSet(Inner')
  BY <1>1, TopArgs DEF Inner
<1>3. IdsInv'
  <2>1. stack' # <<>> /\ Inner'.kind = "define" =>
          \A s \in Sorts : sort_arg_ids'[Len(sort_arg_ids')][s] <= Len(Inner'.args)
    BY <1>2
  <2> QED BY <2>1 DEF IdsInv
<1>4. {x} \in Terms /\ Inner.kind # "assert"
  BY SmallTerms
<1>5. /\ ScopedMap(arg_param_map') /\ arg_param_map'.scopes[1] = {}
      /\ Len(arg_param_map'.scopes) = Len(arg_param_map.scopes)
  BY <1>1, <1>4, LocalAdded
<1>6. ASSUME leaked = 0, VarsInv
      PROVE  /\ Vars(Inner'.term) \subseteq ArgsTo(stack', Len(stack'))
             /\ MapClosed(arg_param_map, stack') => MapClosed(arg_param_map', stack')
  <2>1. /\ Vars(Inner'.term) \subseteq ArgsTo(stack', Len(stack'))
        /\ {x} \subseteq ArgsTo(stack', Len(stack'))
    BY <1>1, <1>2, <1>6, InnerClosed
  <2>2. Vars({x}) \subseteq ArgsTo(stack', Len(stack'))
    BY <2>1 DEF Vars
  <2>3. Shift(stack') = Shift(stack) /\ Len(stack') = Len(stack)
    BY <1>2 DEF SameBelow
  <2>4. MapClosed(arg_param_map, stack') => MapClosed(arg_param_map', stack')
    BY <1>1, <1>4, <1>6, <2>2, <2>3, LocalAdded
  <2> QED BY <2>1, <2>4
<1>7. ASSUME SymbolsInv
      PROVE  /\ SymbolsOf(Inner'.term) \subseteq Bound(global_symbols)
             /\ MapIn(arg_param_map', Bound(global_symbols))
  <2>1. SymbolsOf(Inner'.term) \subseteq Bound(global_symbols)
    BY <1>1, <1>2, <1>7, InnerClosed
  <2>2. SymbolsOf({x}) = {}
    BY DEF SymbolsOf
  <2>3. MapIn(arg_param_map, Bound(global_symbols))
    BY <1>7 DEF SymbolsInv
  <2> QED BY <1>1, <1>4, <2>1, <2>2, <2>3, LocalAdded
<1> QED BY <1>2, <1>3, <1>5, <1>6, <1>7, TopStep

(* The variable of the next argument.                                      *)
LEMMA NextArg ==
  ASSUME BaseInv, stack # <<>>, Inner.kind = "define", Inner.part = "head",
         Len(Inner.args) < MaxArgs, NEW s \in Sorts
  PROVE  LET D == Len(sort_arg_ids)
             x == Arg(s, sort_arg_ids[D][s])
         IN  /\ x \in Leaves /\ x.kind # "symbol"
             /\ Len(Inner.args) \in Nat /\ D \in Nat /\ D \in 1 .. D
             /\ sort_arg_ids \in Seq([Sorts -> Nat]) /\ sort_arg_ids[D] \in [Sorts -> Nat]
             /\ \A r \in Sorts : sort_arg_ids[D][r] <= Len(Inner.args)
<1> DEFINE D == Len(sort_arg_ids)
           id == sort_arg_ids[D][s]
           x  == Arg(s, id)
<1>1. /\ Inner.args \in Seq(Leaves) /\ Len(Inner.args) \in Nat
  BY TopFacts
<1>2. /\ sort_arg_ids \in Seq([Sorts -> Nat])
      /\ \A r \in Sorts : sort_arg_ids[D][r] <= Len(Inner.args)
  BY DEF BaseInv, IdsInv
<1>3. D \in Nat /\ D > 0
  <2>1. Len(stack) = 1 /\ Shift(stack) = 1
    BY TopFacts DEF Shift
  <2>2. /\ D = Len(arg_param_map.scopes) - 1 /\ leaked \in Nat
        /\ Len(arg_param_map.scopes) = leaked + Len(stack) + Shift(stack)
    BY Depth
  <2> QED BY <2>1, <2>2
<1>4. D \in 1 .. D /\ sort_arg_ids[D] \in [Sorts -> Nat] /\ id \in Nat
  BY <1>2, <1>3
<1>5. id \in 0 .. MaxArgs - 1
  BY <1>1, <1>2, <1>4, Bounds
<1>6. x \in Leaves /\ x.kind # "symbol"
  <2> HIDE DEF id
  <2> QED BY <1>5 DEF Leaves, Arg
<1> QED BY <1>1, <1>2, <1>3, <1>4, <1>6

(* An argument of a definition keeps the invariant.                        *)
LEMMA RegisterStep ==
  ASSUME IInv, NEW n \in Names, NEW s \in Sorts, register_arg(n, s)
  PROVE  IInv'
<1> DEFINE D == Len(sort_arg_ids)
           id == sort_arg_ids[D][s]
           x  == Arg(s, id)
<1>1. BaseInv
  BY DEF IInv
<1>2. /\ stack # <<>> /\ Inner.kind = "define" /\ Inner.part = "head"
      /\ UNCHANGED <<global_symbols, all_symbols, defs, solver>>
  BY DEF register_arg
<1>3. CASE Failed /\ UNCHANGED scopes
  BY <1>2, <1>3, FailedStep
<1>4. CASE /\ Len(Inner.args) < MaxArgs
           /\ add_mapping(arg_param_map, n, {x}, arg_param_map')
           /\ sort_arg_ids' = [sort_arg_ids EXCEPT ![Len(sort_arg_ids)][s] = @ + 1]
           /\ stack' = [stack EXCEPT ![Len(stack)].args = Append(@, x)]
           /\ UNCHANGED <<history, down>>
  <2>1. /\ x \in Leaves /\ x.kind # "symbol"
        /\ Len(Inner.args) \in Nat /\ D \in Nat /\ D \in 1 .. D
        /\ sort_arg_ids \in Seq([Sorts -> Nat]) /\ sort_arg_ids[D] \in [Sorts -> Nat]
        /\ \A r \in Sorts : sort_arg_ids[D][r] <= Len(Inner.args)
    BY <1>1, <1>2, <1>4, NextArg
  <2> DEFINE g == [sort_arg_ids[D] EXCEPT ![s] = @ + 1]
  <2>2. sort_arg_ids' = [sort_arg_ids EXCEPT ![D] = g]
    BY <1>4
  <2>3. g \in [Sorts -> Nat] /\ \A r \in Sorts : g[r] <= Len(Inner.args) + 1
    <3>1. \A r \in Sorts : sort_arg_ids[D][r] \in Nat /\ sort_arg_ids[D][r] <= Len(Inner.args)
      BY <2>1
    <3>2. g[s] = sort_arg_ids[D][s] + 1 /\ \A r \in Sorts : r # s => g[r] = sort_arg_ids[D][r]
      BY <2>1
    <3>3. g \in [Sorts -> Nat]
      BY <2>1
    <3> HIDE DEF g
    <3>4. ASSUME NEW r \in Sorts PROVE g[r] <= Len(Inner.args) + 1
      <4>1. CASE r = s
        BY <2>1, <3>1, <3>2, <4>1
      <4>2. CASE r # s
        BY <2>1, <3>1, <3>2, <4>2
      <4> QED BY <4>1, <4>2
    <3> QED BY <3>3, <3>4
  <2> HIDE DEF g
  <2>4. /\ sort_arg_ids' \in Seq([Sorts -> Nat]) /\ Len(sort_arg_ids') = D
        /\ sort_arg_ids'[D] = g
    <3>1. /\ sort_arg_ids' \in [1 .. D -> [Sorts -> Nat]]
          /\ sort_arg_ids'[D] = g
      BY <2>1, <2>2, <2>3
    <3> QED BY <2>1, <3>1, FunctionSeq
  <2> QED BY <1>2, <1>4, <2>1, <2>3, <2>4, BinderStep
<1> QED BY <1>3, <1>4 DEF register_arg

(* A parameter of a quantifier keeps the invariant.                        *)
LEMMA ParamStep ==
  ASSUME IInv, NEW n \in Names, NEW s \in Sorts, create_param(n, s)
  PROVE  IInv'
<1>1. BaseInv
  BY DEF IInv
<1>2. PICK id \in 0 .. MaxParams - 1 :
        /\ stack # <<>> /\ Inner.kind = "quantifier" /\ Inner.part = "head"
        /\ \/ /\ add_mapping(arg_param_map, n, {Param(n, s, id)}, arg_param_map')
              /\ stack' = [stack EXCEPT ![Len(stack)].args = Append(@, Param(n, s, id))]
              /\ UNCHANGED <<history, down>>
           \/ Failed /\ UNCHANGED arg_param_map
        /\ UNCHANGED <<global_symbols, all_symbols, defs, sort_arg_ids, solver>>
  BY DEF create_param
<1>3. Param(n, s, id) \in Leaves /\ Param(n, s, id).kind # "symbol"
  BY DEF Leaves, Param
<1>4. CASE Failed /\ UNCHANGED arg_param_map
  BY <1>2, <1>4, FailedStep DEF scopes
<1>5. CASE /\ add_mapping(arg_param_map, n, {Param(n, s, id)}, arg_param_map')
           /\ stack' = [stack EXCEPT ![Len(stack)].args = Append(@, Param(n, s, id))]
           /\ UNCHANGED <<history, down>>
  <2>1. sort_arg_ids' \in Seq([Sorts -> Nat]) /\ Len(sort_arg_ids') = Len(sort_arg_ids)
    BY <1>1, <1>2 DEF BaseInv, IdsInv
  <2> QED BY <1>2, <1>3, <1>5, <2>1, BinderStep
<1> QED BY <1>2, <1>4, <1>5

(* A name stands for a term of the innermost scope.                        *)
LEMMA LookupFacts ==
  ASSUME IInv, stack # <<>>, NEW n \in Known
  PROVE  /\ lookup_symbol(n) \in Terms
         /\ leaked = 0 /\ VarsInv =>
              Vars(lookup_symbol(n)) \subseteq ArgsTo(stack, Len(stack))
         /\ leaked = 0 /\ SymbolsInv =>
              SymbolsOf(lookup_symbol(n)) \subseteq Bound(global_symbols)
<1>1. BaseInv
  BY DEF IInv
<1>2. ScopedMap(global_symbols) /\ ScopedMap(arg_param_map)
  BY <1>1 DEF BaseInv, ScopesInv
<1>3. CASE n \in Bound(arg_param_map)
  <2>1. current_scope > 0
    <3>1. Len(arg_param_map.scopes) \in Nat /\ Len(arg_param_map.scopes) > 0
      BY <1>2, MapFacts
    <3>2. Len(arg_param_map.scopes) # 1
      BY <1>1, <1>3, NoLocals
    <3>3. \A k \in Nat : k > 0 /\ k # 1 => k - 1 > 0
      OBVIOUS
    <3> QED BY <3>1, <3>2, <3>3 DEF current_scope
  <2>2. lookup_symbol(n) = arg_param_map.map[n]
    BY <1>3, <2>1 DEF lookup_symbol
  <2>3. arg_param_map.map[n] \in Terms
    BY <1>2, <1>3, MapFacts
  <2>4. ASSUME leaked = 0, VarsInv
        PROVE  Vars(arg_param_map.map[n]) \subseteq ArgsTo(stack, Len(stack))
    <3>1. PICK j \in 1 .. Len(arg_param_map.scopes) : n \in arg_param_map.scopes[j]
      BY <1>2, <1>3, MapFacts
    <3>2. Vars(arg_param_map.map[n]) \subseteq ArgsTo(stack, j - Shift(stack))
      BY <2>4, <3>1 DEF VarsInv, MapClosed
    <3>3. j - Shift(stack) \in Nat /\ Len(stack) \in Nat /\ j - Shift(stack) <= Len(stack)
      BY <1>1, <2>4, Depth
    <3>4. ArgsTo(stack, j - Shift(stack)) \subseteq ArgsTo(stack, Len(stack))
      BY <3>3, ArgsFacts
    <3> QED BY <3>2, <3>4
  <2>5. SymbolsInv => SymbolsOf(arg_param_map.map[n]) \subseteq Bound(global_symbols)
    BY <1>3 DEF SymbolsInv, MapIn
  <2> QED BY <2>2, <2>3, <2>4, <2>5
<1>4. CASE n \notin Bound(arg_param_map)
  <2>1. n \in Bound(global_symbols) /\ lookup_symbol(n) = global_symbols.map[n]
    BY <1>4 DEF Known, lookup_symbol
  <2>2. global_symbols.map[n] \in Terms
    BY <1>2, <2>1, MapFacts
  <2>3. VarsInv => Vars(global_symbols.map[n]) = {}
    BY <2>1 DEF VarsInv, GlobalsClosed
  <2>4. ASSUME SymbolsInv PROVE SymbolsOf(global_symbols.map[n]) \subseteq Bound(global_symbols)
    <3>1. PICK i \in 1 .. Len(global_symbols.scopes) : n \in global_symbols.scopes[i]
      BY <1>2, <2>1, MapFacts
    <3>2. SymbolsOf(global_symbols.map[n]) \subseteq UpTo(global_symbols, i)
      BY <2>4, <3>1 DEF SymbolsInv, GlobalsIn
    <3>3. \A j \in 1 .. i : j \in 1 .. Len(global_symbols.scopes)
      BY <1>2, MapFacts
    <3>4. UpTo(global_symbols, i) \subseteq Bound(global_symbols)
      BY <1>2, <3>3, MapFacts, UpToFacts
    <3> QED BY <3>2, <3>4
  <2> QED BY <2>1, <2>2, <2>3, <2>4
<1> QED BY <1>3, <1>4

(* A name alone keeps the invariant.                                       *)
LEMMA AtomStep ==
  ASSUME IInv, NEW n \in Names, Atom(n)
  PROVE  IInv'
<1>1. /\ InTerm /\ stack # <<>>
      /\ UNCHANGED <<global_symbols, all_symbols, defs, scopes, solver>>
  BY DEF Atom, InTerm
<1>2. CASE Failed
  BY <1>1, <1>2, FailedStep
<1>3. CASE n \in Known /\ Built(lookup_symbol(n))
  <2>1. lookup_symbol(n) \in SUBSET Leaves
    BY <1>1, <1>3, LookupFacts DEF Terms
  <2> QED BY <1>1, <1>3, <2>1, LookupFacts, BuiltStep
<1> QED BY <1>2, <1>3 DEF Atom

(* The body of a definition without its arguments.                         *)
LEMMA BodyFacts ==
  ASSUME IInv, NEW f \in DOMAIN defs
  PROVE  LET args == defs[f].args
             b == defs[f].body \ {args[i] : i \in DOMAIN args}
         IN  /\ b \in SUBSET Leaves
             /\ leaked = 0 /\ VarsInv => Vars(b) = {}
             /\ leaked = 0 /\ SymbolsInv => SymbolsOf(b) \subseteq Bound(global_symbols)
             /\ DOMAIN args = 1 .. Len(args)
<1> DEFINE args == defs[f].args
           b == defs[f].body \ {args[i] : i \in DOMAIN args}
<1>1. defs[f].body \in Terms /\ args \in Seq(Leaves)
  BY DEF IInv, BaseInv, DefsInv
<1>2. DOMAIN args = 1 .. Len(args)
  BY <1>1
<1>3. b \in SUBSET Leaves
  BY <1>1 DEF Terms
<1>4. VarsInv => Vars(b) = {}
  BY <1>2 DEF VarsInv, DefsClosed, Vars
<1>5. SymbolsInv => SymbolsOf(b) \subseteq Bound(global_symbols)
  <2>1. SymbolsOf(b) \subseteq SymbolsOf(defs[f].body)
    BY DEF SymbolsOf
  <2> QED BY <2>1 DEF SymbolsInv, DefsIn
<1> QED BY <1>2, <1>3, <1>4, <1>5

(* An application keeps the invariant.                                     *)
LEMMA ApplicationStep ==
  ASSUME IInv, NEW f \in Names, NEW k \in 1 .. MaxArgs, NEW ns \in [1 .. k -> Names],
         Application(f, ns)
  PROVE  IInv'
<1> DEFINE ts == [i \in DOMAIN ns |-> lookup_symbol(ns[i])]
           A  == ArgsTo(stack, Len(stack))
           B  == Bound(global_symbols)
           args == defs[f].args
           fits == f \in DOMAIN defs /\ Len(defs[f].args) = Len(ns)
<1>1. /\ InTerm /\ stack # <<>>
      /\ UNCHANGED <<global_symbols, all_symbols, defs, scopes, solver>>
  BY DEF Application, InTerm
<1>2. \/ Failed
      \/ /\ {ns[i] : i \in DOMAIN ns} \subseteq Known
         /\ \/ f \in Known /\ Built(lookup_symbol(f) \cup UNION {ts[i] : i \in DOMAIN ts})
            \/ fits /\ Built(apply_define_fun(f, ts))
  BY DEF Application
<1>3. CASE Failed
  BY <1>1, <1>3, FailedStep
<1>4. CASE {ns[i] : i \in DOMAIN ns} \subseteq Known
           /\ \/ f \in Known /\ Built(lookup_symbol(f) \cup UNION {ts[i] : i \in DOMAIN ts})
              \/ fits /\ Built(apply_define_fun(f, ts))
  <2>1. DOMAIN ts = DOMAIN ns /\ \A i \in DOMAIN ts : ts[i] = lookup_symbol(ns[i]) /\ ns[i] \in Known
    BY <1>4
  <2> HIDE DEF ts
  <2>2. \A i \in DOMAIN ts : ts[i] \in SUBSET Leaves
    BY <1>1, <2>1, LookupFacts DEF Terms
  <2>3. leaked = 0 /\ VarsInv => \A i \in DOMAIN ts : Vars(ts[i]) \subseteq A
    BY <1>1, <2>1, LookupFacts
  <2>4. leaked = 0 /\ SymbolsInv => \A i \in DOMAIN ts : SymbolsOf(ts[i]) \subseteq B
    BY <1>1, <2>1, LookupFacts
  <2>5. ASSUME NEW S \in SUBSET DOMAIN ts
        PROVE  LET u == UNION {ts[i] : i \in S}
               IN  /\ u \in SUBSET Leaves
                   /\ leaked = 0 /\ VarsInv => Vars(u) \subseteq A
                   /\ leaked = 0 /\ SymbolsInv => SymbolsOf(u) \subseteq B
    <3> DEFINE u == UNION {ts[i] : i \in S}
    <3>1. u \in SUBSET Leaves
      BY <2>2
    <3>2. leaked = 0 /\ VarsInv => Vars(u) \subseteq A
      BY <2>3 DEF Vars
    <3>3. ASSUME leaked = 0, SymbolsInv PROVE SymbolsOf(u) \subseteq B
      <4> SUFFICES ASSUME NEW x \in u, x.kind = "symbol" PROVE x.name \in B
        BY DEF SymbolsOf
      <4>1. PICK i \in S : x \in ts[i]
        OBVIOUS
      <4>2. x.name \in SymbolsOf(ts[i])
        BY <4>1 DEF SymbolsOf
      <4> QED BY <2>4, <3>3, <4>2
    <3> QED BY <3>1, <3>2, <3>3
  <2>6. CASE f \in Known /\ Built(lookup_symbol(f) \cup UNION {ts[i] : i \in DOMAIN ts})
    <3> DEFINE h == lookup_symbol(f)
               u == UNION {ts[i] : i \in DOMAIN ts}
    <3>1. /\ h \in SUBSET Leaves
          /\ leaked = 0 /\ VarsInv => Vars(h) \subseteq A
          /\ leaked = 0 /\ SymbolsInv => SymbolsOf(h) \subseteq B
      BY <1>1, <2>6, LookupFacts DEF Terms
    <3>2. /\ u \in SUBSET Leaves
          /\ leaked = 0 /\ VarsInv => Vars(u) \subseteq A
          /\ leaked = 0 /\ SymbolsInv => SymbolsOf(u) \subseteq B
      BY <2>5
    <3>3. Built(h \cup u)
      BY <2>6
    <3> HIDE DEF h, u
    <3>4. /\ h \cup u \in SUBSET Leaves
          /\ leaked = 0 /\ VarsInv => Vars(h \cup u) \subseteq A
          /\ leaked = 0 /\ SymbolsInv => SymbolsOf(h \cup u) \subseteq B
      BY <3>1, <3>2, PartsFacts
    <3> QED BY <1>1, <3>3, <3>4, BuiltStep
  <2>7. CASE fits /\ Built(apply_define_fun(f, ts))
    <3> DEFINE h == defs[f].body \ {args[i] : i \in DOMAIN args}
               S == {j \in DOMAIN args : args[j] \in defs[f].body}
               u == UNION {ts[i] : i \in S}
    <3>1. /\ h \in SUBSET Leaves
          /\ leaked = 0 /\ VarsInv => Vars(h) = {}
          /\ leaked = 0 /\ SymbolsInv => SymbolsOf(h) \subseteq B
          /\ DOMAIN args = 1 .. Len(args)
      BY <2>7, BodyFacts
    <3>2. S \in SUBSET DOMAIN ts
      <4>1. DOMAIN ns = 1 .. Len(ns)
        BY FunctionSeq, Bounds
      <4> QED BY <2>1, <2>7, <3>1, <4>1
    <3>3. /\ u \in SUBSET Leaves
          /\ leaked = 0 /\ VarsInv => Vars(u) \subseteq A
          /\ leaked = 0 /\ SymbolsInv => SymbolsOf(u) \subseteq B
      <4> HIDE DEF S
      <4> QED BY <2>5, <3>2
    <3>4. Built(h \cup u)
      BY <2>7 DEF apply_define_fun
    <3> HIDE DEF h, u
    <3>5. /\ h \cup u \in SUBSET Leaves
          /\ leaked = 0 /\ VarsInv => Vars(h \cup u) \subseteq A
          /\ leaked = 0 /\ SymbolsInv => SymbolsOf(h \cup u) \subseteq B
      BY <3>1, <3>3, PartsFacts
    <3> QED BY <1>1, <3>4, <3>5, BuiltStep
  <2> QED BY <1>4, <2>6, <2>7
<1> QED BY <1>2, <1>3, <1>4

-----------------------------------------------------------------------------
(* Scopes are opened and closed *)

(* What push_scope does.                                                   *)
LEMMA ScopePushed ==
  ASSUME BaseInv, push_scope
  PROVE  /\ ScopedMap(arg_param_map') /\ arg_param_map'.scopes[1] = {}
         /\ Len(arg_param_map'.scopes) = Len(arg_param_map.scopes) + 1
         /\ arg_param_map'.map = arg_param_map.map
         /\ Bound(arg_param_map') = Bound(arg_param_map)
         /\ Keeps(arg_param_map, arg_param_map')
         /\ arg_param_map'.scopes[Len(arg_param_map.scopes) + 1] = {}
         /\ sort_arg_ids' \in Seq([Sorts -> Nat])
         /\ Len(sort_arg_ids') = Len(sort_arg_ids) + 1
         /\ sort_arg_ids'[Len(sort_arg_ids')] = [s \in Sorts |-> 0]
<1> DEFINE m == arg_param_map
           L == Len(m.scopes)
           z == [s \in Sorts |-> 0]
<1>1. /\ ScopedMap(m) /\ m.scopes[1] = {} /\ sort_arg_ids \in Seq([Sorts -> Nat])
  BY DEF BaseInv, ScopesInv, IdsInv
<1>2. L \in Nat /\ L > 0
  BY <1>1, MapFacts
<1>3. PICK w : w = push_scopes(m, 1)
  OBVIOUS
<1>4. /\ ScopedMap(w) /\ Len(w.scopes) = L + 1 /\ w.map = m.map /\ Bound(w) = Bound(m)
      /\ Keeps(m, w) /\ \A i \in L + 1 .. L + 1 : w.scopes[i] = {}
  BY <1>1, <1>3, PushedMap
<1>5. w.scopes[1] = {}
  BY <1>1, <1>2, <1>4 DEF Keeps
<1>6. w.scopes[L + 1] = {}
  BY <1>2, <1>4
<1>7. arg_param_map' = w /\ sort_arg_ids' = Append(sort_arg_ids, z)
  BY <1>3 DEF push_scope
<1>8. z \in [Sorts -> Nat]
  OBVIOUS
<1> HIDE DEF z
<1>9. /\ sort_arg_ids' \in Seq([Sorts -> Nat])
      /\ Len(sort_arg_ids') = Len(sort_arg_ids) + 1
      /\ sort_arg_ids'[Len(sort_arg_ids')] = z
  BY <1>1, <1>7, <1>8
<1> QED BY <1>4, <1>5, <1>6, <1>7, <1>9 DEF z

(* What pop_scope does.                                                    *)
LEMMA ScopePopped ==
  ASSUME BaseInv, pop_scope, Len(arg_param_map.scopes) >= 2
  PROVE  /\ ScopedMap(arg_param_map') /\ arg_param_map'.scopes[1] = {}
         /\ Len(arg_param_map'.scopes) = Len(arg_param_map.scopes) - 1
         /\ \A i \in 1 .. Len(arg_param_map'.scopes) :
              arg_param_map'.scopes[i] = arg_param_map.scopes[i]
         /\ Bound(arg_param_map') \subseteq Bound(arg_param_map)
         /\ \A n \in Bound(arg_param_map') : arg_param_map'.map[n] = arg_param_map.map[n]
         /\ sort_arg_ids' \in Seq([Sorts -> Nat])
         /\ Len(sort_arg_ids') = Len(sort_arg_ids) - 1
<1> DEFINE m == arg_param_map
           L == Len(m.scopes)
           w == pop_scopes(m, 1)
           D == Len(sort_arg_ids)
<1>1. /\ ScopedMap(m) /\ m.scopes[1] = {} /\ sort_arg_ids \in Seq([Sorts -> Nat])
  BY DEF BaseInv, ScopesInv, IdsInv
<1>2. L \in Nat /\ L >= 2 /\ D \in Nat /\ D = L - 1
  BY <1>1, MapFacts, Depth
<1>3. /\ ScopedMap(w) /\ Len(w.scopes) = L - 1
      /\ \A i \in 1 .. Len(w.scopes) : w.scopes[i] = m.scopes[i]
      /\ Bound(w) = Bound(m) \ Erased(m, 1)
      /\ \A n \in Bound(w) : w.map[n] = m.map[n]
  BY <1>1, <1>2, PoppedMap
<1>4. arg_param_map' = w /\ sort_arg_ids' = SubSeq(sort_arg_ids, 1, D - 1)
  BY DEF pop_scope
<1> HIDE DEF w
<1>5. w.scopes[1] = {}
  BY <1>1, <1>2, <1>3
<1>6. /\ sort_arg_ids' \in Seq([Sorts -> Nat]) /\ Len(sort_arg_ids') = D - 1
  <2>1. /\ sort_arg_ids \in Seq([Sorts -> Nat]) /\ D - 1 \in Nat /\ D - 1 <= D
        /\ \A i \in 1 .. D - 1 : sort_arg_ids[i] \in [Sorts -> Nat]
    BY <1>1, <1>2
  <2> QED BY <1>2, <1>4, <2>1, SubSeqProperties
<1> QED BY <1>3, <1>4, <1>5, <1>6

(* A definition begins.                                                    *)
LEMMA BeginDefineStep ==
  ASSUME IInv, NEW n \in DefinedNames, BeginDefine(n)
  PROVE  IInv'
<1> DEFINE fr == Frame("define", "head", n)
<1>1. BaseInv
  BY DEF IInv
<1>2. /\ stack = <<>> /\ stack' = <<fr>> /\ push_scope
      /\ UNCHANGED <<global_symbols, all_symbols, defs, solver, history, down>>
  BY DEF BeginDefine, Ready
<1>3. /\ fr \in Frames /\ fr.kind = "define" /\ fr.args = <<>> /\ fr.term = {}
      /\ fr.name \in Names
  BY Bounds, SmallTerms DEF Frame, Frames, Kinds
<1> HIDE DEF fr
<1>4. StackOK(stack') /\ Len(stack') = 1 /\ stack' # <<>> /\ stack'[1] = fr
  BY <1>2, <1>3, OneFrame
<1>5. Inner' = fr /\ Shift(stack') = 1
  BY <1>3, <1>4 DEF Inner, Shift
<1>6. /\ ScopedMap(arg_param_map') /\ arg_param_map'.scopes[1] = {}
      /\ Len(arg_param_map'.scopes) = Len(arg_param_map.scopes) + 1
      /\ Bound(arg_param_map') = Bound(arg_param_map)
      /\ sort_arg_ids' \in Seq([Sorts -> Nat])
      /\ Len(sort_arg_ids') = Len(sort_arg_ids) + 1
      /\ sort_arg_ids'[Len(sort_arg_ids')] = [s \in Sorts |-> 0]
  BY <1>1, <1>2, ScopePushed
<1>7. IdsInv'
  <2>1. \A s \in Sorts : sort_arg_ids'[Len(sort_arg_ids')][s] <= Len(Inner'.args)
    BY <1>3, <1>5, <1>6
  <2> QED BY <1>6, <2>1 DEF IdsInv
<1>8. /\ Len(arg_param_map'.scopes) = leaked + Len(stack') + Shift(stack')
      /\ Len(sort_arg_ids') = Len(arg_param_map'.scopes) - 1
      /\ leaked = 0 => Len(arg_param_map.scopes) = 1
  <2>1. /\ Len(arg_param_map.scopes) = leaked + Len(stack) + Shift(stack)
        /\ Len(stack) = 0 /\ Shift(stack) = 1 /\ leaked \in Nat
        /\ Len(sort_arg_ids) = Len(arg_param_map.scopes) - 1
    BY <1>1, <1>2, Depth
  <2> QED BY <1>4, <1>5, <1>6, <2>1
<1>9. leaked = 0 => Bound(arg_param_map') = {}
  BY <1>1, <1>6, <1>8, NoLocals
<1>10. leaked = 0 => MapClosed(arg_param_map', stack')
  BY <1>6, <1>9, MapFacts DEF MapClosed
<1>11. FramesClosed(stack')
  BY <1>3, <1>4, PartsFacts DEF FramesClosed
<1>12. FramesIn(stack', Bound(global_symbols))
  BY <1>3, <1>4, PartsFacts DEF FramesIn
<1>13. leaked = 0 => MapIn(arg_param_map', Bound(global_symbols))
  BY <1>9 DEF MapIn
<1> QED BY <1>2, <1>4, <1>6, <1>7, <1>8, <1>10, <1>11, <1>12, <1>13, LocalStep

(* A let or a quantifier begins.                                           *)
LEMMA OpenStep ==
  ASSUME IInv, NEW kind \in {"let", "quantifier"}, Open(kind)
  PROVE  IInv'
<1> DEFINE fr == Frame(kind, "head", NoName)
           L  == Len(stack)
           m  == arg_param_map
<1>1. BaseInv
  BY DEF IInv
<1>2. /\ stack # <<>> /\ (Inner.part = "body" \/ Inner.kind = "let")
      /\ stack' = Append(stack, fr) /\ push_scope
      /\ UNCHANGED <<global_symbols, all_symbols, defs, solver, history, down>>
  BY DEF Open, InTerm
<1>3. fr \in Frames /\ fr.kind = kind /\ fr.args = <<>> /\ fr.term = {}
  BY SmallTerms DEF Frame, Frames, Kinds
<1> HIDE DEF fr
<1>4. /\ stack \in Seq(Frames) /\ L \in Nat /\ L > 0 /\ Inner = stack[L]
      /\ \A i \in 1 .. L :
           /\ stack[i].kind \in {"assert", "define"} <=> i = 1
           /\ stack[i].kind = "assert" => stack[i].part = "body"
           /\ stack[i].kind \in {"assert", "let"} => stack[i].args = <<>>
           /\ stack[i].kind = "define" => stack[i].name \in Names
           /\ i < L => stack[i].part = "body" \/ stack[i].kind = "let"
  <2>1. L \in Nat /\ L > 0 /\ Inner = stack[L]
    BY <1>1, <1>2, TopFacts
  <2>2. StackOK(stack)
    BY <1>1 DEF BaseInv
  <2> QED BY <2>1, <2>2 DEF StackOK
<1>5. /\ stack' \in Seq(Frames) /\ Len(stack') = L + 1 /\ stack'[L + 1] = fr
      /\ \A i \in 1 .. L : stack'[i] = stack[i]
  BY <1>2, <1>3, <1>4
<1>6. StackOK(stack')
  <2> SUFFICES ASSUME NEW i \in 1 .. L + 1
               PROVE  /\ stack'[i].kind \in {"assert", "define"} <=> i = 1
                      /\ stack'[i].kind = "assert" => stack'[i].part = "body"
                      /\ stack'[i].kind \in {"assert", "let"} => stack'[i].args = <<>>
                      /\ stack'[i].kind = "define" => stack'[i].name \in Names
                      /\ i < L + 1 => stack'[i].part = "body" \/ stack'[i].kind = "let"
    BY <1>5 DEF StackOK
  <2>1. CASE i = L + 1
    BY <1>3, <1>4, <1>5, <2>1
  <2>2. CASE i = L
    BY <1>2, <1>4, <1>5, <2>2
  <2>3. CASE i # L /\ i # L + 1
    <3>1. i \in 1 .. L /\ i < L
      BY <1>4, <2>3
    <3> QED BY <1>4, <1>5, <3>1
  <2> QED BY <2>1, <2>2, <2>3
<1>7. stack' # <<>> /\ stack'[1] = stack[1] /\ Shift(stack') = Shift(stack) /\ Inner' = fr
  <2>1. stack' # <<>> /\ stack'[1] = stack[1] /\ Inner' = fr
    BY <1>4, <1>5 DEF Inner
  <2> QED BY <1>2, <2>1 DEF Shift
<1>8. /\ ScopedMap(m') /\ m'.scopes[1] = {} /\ Len(m'.scopes) = Len(m.scopes) + 1
      /\ m'.map = m.map /\ Bound(m') = Bound(m) /\ Keeps(m, m')
      /\ m'.scopes[Len(m.scopes) + 1] = {}
      /\ sort_arg_ids' \in Seq([Sorts -> Nat])
      /\ Len(sort_arg_ids') = Len(sort_arg_ids) + 1
  BY <1>1, <1>2, ScopePushed
<1>9. IdsInv'
  BY <1>3, <1>7, <1>8 DEF IdsInv
<1>10. /\ Len(m.scopes) = leaked + L + Shift(stack) /\ leaked \in Nat
       /\ Shift(stack) \in {0, 1} /\ Len(sort_arg_ids) = Len(m.scopes) - 1
       /\ Len(m.scopes) \in Nat
  BY <1>1, Depth
<1>11. /\ Len(m'.scopes) = leaked + Len(stack') + Shift(stack')
       /\ Len(sort_arg_ids') = Len(m'.scopes) - 1
  <2>1. Len(m'.scopes) = leaked + Len(stack') + Shift(stack')
    <3>1. Shift(stack') \in Nat /\ Shift(stack') = Shift(stack)
      BY <1>7, <1>10
    <3>2. Len(m'.scopes) = leaked + L + Shift(stack') + 1
      BY <1>8, <1>10, <3>1
    <3> QED BY <1>4, <1>5, <1>10, <3>1, <3>2
  <2>2. Len(sort_arg_ids') = Len(m'.scopes) - 1
    BY <1>8, <1>10
  <2> QED BY <2>1, <2>2
<1>12. \A i \in 0 .. L : ArgsTo(stack', i) = ArgsTo(stack, i)
  <2> SUFFICES ASSUME NEW i \in 0 .. L PROVE ArgsTo(stack', i) = ArgsTo(stack, i)
    OBVIOUS
  <2>1. i \in Nat /\ \A j \in 1 .. i : stack'[j] = stack[j]
    BY <1>4, <1>5
  <2>2. /\ \A j \in 1 .. i : ArgSet(stack'[j]) \subseteq ArgSet(stack[j])
        /\ \A j \in 1 .. i : ArgSet(stack[j]) \subseteq ArgSet(stack'[j])
    BY <2>1
  <2>3. /\ ArgsTo(stack', i) \subseteq ArgsTo(stack, i)
        /\ ArgsTo(stack, i) \subseteq ArgsTo(stack', i)
    BY <2>1, <2>2, ArgsFacts
  <2> QED BY <2>3
<1>13. ASSUME VarsInv PROVE FramesClosed(stack')
  <2> SUFFICES ASSUME NEW i \in 1 .. L + 1
               PROVE  Vars(stack'[i].term) \subseteq ArgsTo(stack', i)
    BY <1>5 DEF FramesClosed
  <2>1. CASE i = L + 1
    BY <1>3, <1>5, <2>1, PartsFacts
  <2>2. CASE i # L + 1
    <3>1. i \in 1 .. L /\ i \in 0 .. L
      BY <1>4, <2>2
    <3> QED BY <1>5, <1>12, <1>13, <3>1 DEF VarsInv, FramesClosed
  <2> QED BY <2>1, <2>2
<1>14. ASSUME leaked = 0, VarsInv PROVE MapClosed(m', stack')
  <2> SUFFICES ASSUME NEW j \in 1 .. Len(m'.scopes), NEW x \in m'.scopes[j]
               PROVE  Vars(m'.map[x]) \subseteq ArgsTo(stack', j - Shift(stack'))
    BY DEF MapClosed
  <2>1. j \in 1 .. Len(m.scopes)
    BY <1>8, <1>10
  <2>2. j - Shift(stack) \in 0 .. L
    BY <1>4, <1>10, <1>14, <2>1
  <2>3. x \in m.scopes[j]
    BY <1>8, <2>1 DEF Keeps
  <2> QED BY <1>7, <1>8, <1>12, <1>14, <2>1, <2>2, <2>3 DEF VarsInv, MapClosed
<1>15. ASSUME SymbolsInv
       PROVE  FramesIn(stack', Bound(global_symbols)) /\ MapIn(m', Bound(global_symbols))
  <2>1. FramesIn(stack', Bound(global_symbols))
    <3> SUFFICES ASSUME NEW i \in 1 .. L + 1
                 PROVE  SymbolsOf(stack'[i].term) \subseteq Bound(global_symbols)
      BY <1>5 DEF FramesIn
    <3>1. CASE i = L + 1
      BY <1>3, <1>5, <3>1, PartsFacts
    <3>2. CASE i # L + 1
      <4>1. i \in 1 .. L
        BY <1>4, <3>2
      <4> QED BY <1>5, <1>15, <4>1 DEF SymbolsInv, FramesIn
    <3> QED BY <3>1, <3>2
  <2>2. MapIn(m', Bound(global_symbols))
    BY <1>8, <1>15 DEF SymbolsInv, MapIn
  <2> QED BY <2>1, <2>2
<1> QED BY <1>2, <1>6, <1>8, <1>9, <1>11, <1>13, <1>14, <1>15, LocalStep

(* A let or a quantifier ends.                                             *)
LEMMA CloseStep ==
  ASSUME IInv, Close
  PROVE  IInv'
<1> DEFINE L == Len(stack)
           m == arg_param_map
           t == Inner.term \ {Inner.args[i] : i \in DOMAIN Inner.args}
           outer == stack[L - 1].term \cup t
           S == SubSeq(stack, 1, L - 1)
           fr == [stack[L - 1] EXCEPT !.term = outer]
<1>1. BaseInv
  BY DEF IInv
<1>2. /\ stack # <<>> /\ Inner.part = "body" /\ Inner.kind \in {"let", "quantifier"}
      /\ pop_scope /\ Cardinality(outer) <= MaxLeaves
      /\ stack' = [S EXCEPT ![L - 1].term = outer]
      /\ UNCHANGED <<global_symbols, all_symbols, defs, solver, history, down>>
  BY DEF Close
<1>3. /\ stack \in Seq(Frames)
      /\ \A i \in 1 .. L :
           /\ stack[i].kind \in {"assert", "define"} <=> i = 1
           /\ stack[i].kind = "assert" => stack[i].part = "body"
           /\ stack[i].kind \in {"assert", "let"} => stack[i].args = <<>>
           /\ stack[i].kind = "define" => stack[i].name \in Names
           /\ i < L => stack[i].part = "body" \/ stack[i].kind = "let"
  BY <1>1 DEF BaseInv, StackOK
<1>4. L \in Nat /\ L >= 2 /\ L - 1 \in 1 .. L - 1 /\ L - 1 \in Nat /\ Inner = stack[L]
  <2>1. L \in Nat /\ L > 0 /\ L # 1 /\ Inner = stack[L]
    BY <1>1, <1>2, TopFacts
  <2> QED BY <2>1
<1>5. \A i \in 1 .. L - 1 : i \in 1 .. L /\ stack[i] \in Frames
  BY <1>3, <1>4
<1>6. stack[L - 1] \in Frames /\ Inner \in Frames
  BY <1>1, <1>2, <1>4, <1>5, TopFacts
<1>7. outer \in Terms
  <2>1. stack[L - 1].term \in SUBSET Leaves /\ Inner.term \in SUBSET Leaves
    BY <1>6 DEF Frames, Terms
  <2> QED BY <1>2, <2>1 DEF Terms
<1> HIDE DEF outer
<1>8. /\ fr \in Frames /\ fr.kind = stack[L - 1].kind /\ fr.part = stack[L - 1].part
      /\ fr.args = stack[L - 1].args /\ fr.name = stack[L - 1].name /\ fr.term = outer
  BY <1>6, <1>7 DEF Frames
<1>9. S \in Seq(Frames) /\ Len(S) = L - 1 /\ \A i \in 1 .. L - 1 : S[i] = stack[i]
  BY <1>3, <1>4, <1>5, SubSeqProperties
<1> HIDE DEF S
<1>10. stack' = [S EXCEPT ![L - 1] = fr]
  BY <1>2, <1>4, <1>9
<1> HIDE DEF fr
<1>11. /\ stack' \in [1 .. L - 1 -> Frames]
       /\ stack'[L - 1] = fr /\ \A i \in 1 .. L - 1 : i # L - 1 => stack'[i] = stack[i]
  <2>1. DOMAIN S = 1 .. L - 1 /\ S \in [1 .. L - 1 -> Frames]
    BY <1>4, <1>9
  <2> QED BY <1>4, <1>8, <1>9, <1>10, <2>1
<1>12. stack' \in Seq(Frames) /\ Len(stack') = L - 1
  BY <1>4, <1>11, FunctionSeq
<1>13. \A i \in 1 .. L - 1 :
         /\ stack'[i].kind = stack[i].kind /\ stack'[i].part = stack[i].part
         /\ stack'[i].args = stack[i].args /\ stack'[i].name = stack[i].name
         /\ stack'[i].term = IF i = L - 1 THEN outer ELSE stack[i].term
  BY <1>8, <1>11
<1>14. StackOK(stack')
  <2> SUFFICES ASSUME NEW i \in 1 .. L - 1
               PROVE  /\ stack'[i].kind \in {"assert", "define"} <=> i = 1
                      /\ stack'[i].kind = "assert" => stack'[i].part = "body"
                      /\ stack'[i].kind \in {"assert", "let"} => stack'[i].args = <<>>
                      /\ stack'[i].kind = "define" => stack'[i].name \in Names
                      /\ i < L - 1 => stack'[i].part = "body" \/ stack'[i].kind = "let"
    BY <1>12 DEF StackOK
  <2>1. i \in 1 .. L /\ i < L
    BY <1>4
  <2> QED BY <1>3, <1>13, <2>1
<1>15. stack' # <<>> /\ stack'[1].kind = stack[1].kind /\ Shift(stack') = Shift(stack)
  <2>1. 1 \in 1 .. L - 1
    BY <1>4
  <2>2. stack' # <<>> /\ stack'[1].kind = stack[1].kind
    BY <1>4, <1>12, <1>13, <2>1
  <2> QED BY <1>2, <2>2 DEF Shift
<1>16. /\ Len(m.scopes) = leaked + L + Shift(stack) /\ leaked \in Nat
       /\ Shift(stack) \in {0, 1} /\ Len(sort_arg_ids) = Len(m.scopes) - 1
       /\ Len(m.scopes) \in Nat /\ Len(m.scopes) >= 2
  <2>1. /\ Len(m.scopes) = leaked + L + Shift(stack) /\ leaked \in Nat
        /\ Shift(stack) \in {0, 1} /\ Len(sort_arg_ids) = Len(m.scopes) - 1
        /\ Len(m.scopes) \in Nat
    BY <1>1, Depth
  <2> QED BY <1>4, <2>1
<1>17. /\ ScopedMap(m') /\ m'.scopes[1] = {} /\ Len(m'.scopes) = Len(m.scopes) - 1
       /\ \A i \in 1 .. Len(m'.scopes) : m'.scopes[i] = m.scopes[i]
       /\ Bound(m') \subseteq Bound(m)
       /\ \A n \in Bound(m') : m'.map[n] = m.map[n]
       /\ sort_arg_ids' \in Seq([Sorts -> Nat])
       /\ Len(sort_arg_ids') = Len(sort_arg_ids) - 1
  BY <1>1, <1>2, <1>16, ScopePopped
<1>18. IdsInv'
  <2>1. Inner'.part = "body" \/ Inner'.kind = "let"
    <3>1. L - 1 \in 1 .. L /\ L - 1 < L
      BY <1>4
    <3> QED BY <1>3, <1>4, <1>12, <1>13, <3>1 DEF Inner
  <2> QED BY <1>17, <2>1 DEF IdsInv
<1>19. /\ Len(m'.scopes) = leaked + Len(stack') + Shift(stack')
       /\ Len(sort_arg_ids') = Len(m'.scopes) - 1
  <2>1. Len(m'.scopes) = leaked + (L - 1) + Shift(stack)
    BY <1>4, <1>16, <1>17
  <2> QED BY <1>12, <1>15, <1>16, <1>17, <2>1
<1>20. \A i \in 0 .. L - 1 : ArgsTo(stack', i) = ArgsTo(stack, i)
  <2> SUFFICES ASSUME NEW i \in 0 .. L - 1 PROVE ArgsTo(stack', i) = ArgsTo(stack, i)
    OBVIOUS
  <2>1. i \in Nat /\ \A j \in 1 .. i : j \in 1 .. L - 1
    BY <1>4
  <2>2. \A j \in 1 .. i : ArgSet(stack'[j]) = ArgSet(stack[j])
    <3>1. \A j \in 1 .. i : stack'[j].args = stack[j].args
      BY <1>13, <2>1
    <3> QED BY <3>1 DEF ArgSet
  <2>3. /\ ArgsTo(stack', i) \subseteq ArgsTo(stack, i)
        /\ ArgsTo(stack, i) \subseteq ArgsTo(stack', i)
    BY <2>1, <2>2, ArgsFacts
  <2> QED BY <2>3
<1>21. ASSUME VarsInv PROVE FramesClosed(stack')
  <2> SUFFICES ASSUME NEW i \in 1 .. L - 1
               PROVE  Vars(stack'[i].term) \subseteq ArgsTo(stack', i)
    BY <1>12 DEF FramesClosed
  <2>1. /\ i \in 1 .. L /\ i \in 0 .. L - 1 /\ L \in 1 .. L
    BY <1>4
  <2>2. Vars(stack[i].term) \subseteq ArgsTo(stack', i)
    BY <1>20, <1>21, <2>1 DEF VarsInv, FramesClosed
  <2>3. CASE i = L - 1
    <3>1. Vars(Inner.term) \subseteq ArgsTo(stack, L)
      BY <1>4, <1>21, <2>1 DEF VarsInv, FramesClosed
    <3>2. ASSUME NEW x \in Vars(t) PROVE x \in ArgsTo(stack, L - 1)
      <4>1. x \in Vars(Inner.term)
        BY <3>2 DEF Vars
      <4>2. x \notin ArgSet(stack[L])
        <5>1. DOMAIN Inner.args = 1 .. Len(Inner.args)
          BY <1>1, <1>2, TopFacts
        <5> QED BY <1>4, <3>2, <5>1 DEF Vars, ArgSet
      <4>3. PICK j \in 1 .. L : x \in ArgSet(stack[j])
        BY <3>1, <4>1, ArgsFacts
      <4>4. j \in 1 .. L - 1
        BY <1>4, <4>2, <4>3
      <4> QED BY <4>3, <4>4, ArgsFacts
    <3>3. Vars(outer) = Vars(stack[L - 1].term) \cup Vars(t)
      BY PartsFacts DEF outer
    <3>4. Vars(outer) \subseteq ArgsTo(stack', L - 1)
      BY <1>20, <2>1, <2>2, <2>3, <3>2, <3>3
    <3> QED BY <1>13, <2>3, <3>4
  <2>4. CASE i # L - 1
    BY <1>13, <2>2, <2>4
  <2> QED BY <2>3, <2>4
<1>22. ASSUME leaked = 0, VarsInv PROVE MapClosed(m', stack')
  <2> SUFFICES ASSUME NEW j \in 1 .. Len(m'.scopes), NEW x \in m'.scopes[j]
               PROVE  Vars(m'.map[x]) \subseteq ArgsTo(stack', j - Shift(stack'))
    BY DEF MapClosed
  <2>1. j \in 1 .. Len(m.scopes) /\ x \in m.scopes[j]
    <3>1. j \in 1 .. Len(m.scopes)
      BY <1>16, <1>17
    <3> QED BY <1>17, <3>1
  <2>2. m'.map[x] = m.map[x]
    BY <1>17, MapFacts
  <2>3. j - Shift(stack) \in 0 .. L - 1
    BY <1>4, <1>16, <1>17, <1>22
  <2> QED BY <1>15, <1>20, <1>22, <2>1, <2>2, <2>3 DEF VarsInv, MapClosed
<1>23. ASSUME SymbolsInv
       PROVE  FramesIn(stack', Bound(global_symbols)) /\ MapIn(m', Bound(global_symbols))
  <2>1. \A i \in 1 .. L : SymbolsOf(stack[i].term) \subseteq Bound(global_symbols)
    BY <1>23 DEF SymbolsInv, FramesIn
  <2>2. SymbolsOf(outer) \subseteq Bound(global_symbols)
    <3>1. SymbolsOf(t) \subseteq SymbolsOf(Inner.term)
      BY DEF SymbolsOf
    <3>2. SymbolsOf(outer) = SymbolsOf(stack[L - 1].term) \cup SymbolsOf(t)
      BY PartsFacts DEF outer
    <3>3. L - 1 \in 1 .. L /\ L \in 1 .. L
      BY <1>4
    <3> QED BY <1>4, <2>1, <3>1, <3>2, <3>3
  <2>3. FramesIn(stack', Bound(global_symbols))
    <3> SUFFICES ASSUME NEW i \in 1 .. L - 1
                 PROVE  SymbolsOf(stack'[i].term) \subseteq Bound(global_symbols)
      BY <1>12 DEF FramesIn
    <3>1. CASE i = L - 1
      BY <1>13, <2>2, <3>1
    <3>2. CASE i # L - 1
      BY <1>5, <1>13, <2>1, <3>2
    <3> QED BY <3>1, <3>2
  <2>4. MapIn(m', Bound(global_symbols))
    BY <1>17, <1>23 DEF SymbolsInv, MapIn
  <2> QED BY <2>3, <2>4
<1> QED BY <1>2, <1>14, <1>17, <1>18, <1>19, <1>21, <1>22, <1>23, LocalStep

(* A definition ends.                                                      *)
LEMMA EndDefineStep ==
  ASSUME IInv, EndDefine
  PROVE  IInv'
<1> DEFINE g == global_symbols
           d == [body |-> Inner.term, args |-> Inner.args]
           ds == [f \in DOMAIN defs \cup {Inner.name} |-> IF f = Inner.name THEN d ELSE defs[f]]
<1>1. /\ BaseInv
      /\ leaked = 0 => VarsInv
      /\ leaked = 0 /\ ~dangling => SymbolsInv
  BY DEF IInv
<1>2. /\ ~down /\ Len(stack) = 1 /\ Inner.kind = "define"
      /\ UNCHANGED <<all_symbols, level, declared>>
  BY DEF EndDefine, solver
<1>3. stack # <<>>
  BY <1>1, <1>2, Depth
<1>4. CASE Failed /\ UNCHANGED <<global_symbols, defs, scopes>>
  BY <1>2, <1>3, <1>4, FailedStep DEF solver
<1>5. CASE /\ pop_scope /\ stack' = <<>> /\ UNCHANGED history
           /\ down' = (~NDEBUG /\ current_scope > 1)
           /\ \/ defs' = ds /\ UNCHANGED global_symbols
              \/ /\ UNCHANGED defs /\ Inner.args = <<>>
                 /\ add_mapping(g, Inner.name, Inner.term, global_symbols')
  <2>1. /\ Inner.name \in Names /\ Inner.term \in Terms /\ Inner.args \in Seq(Leaves)
        /\ Inner = stack[1] /\ 1 \in 1 .. Len(stack)
    BY <1>1, <1>2, <1>3, TopFacts
  <2>2. /\ Len(arg_param_map.scopes) = leaked + 1 + 1 /\ leaked \in Nat
        /\ Len(sort_arg_ids) = Len(arg_param_map.scopes) - 1
    <3>1. Shift(stack) = 1
      BY <1>2, <2>1 DEF Shift
    <3> QED BY <1>1, <1>2, <3>1, Depth
  <2>3. /\ ScopedMap(arg_param_map') /\ arg_param_map'.scopes[1] = {}
        /\ Len(arg_param_map'.scopes) = Len(arg_param_map.scopes) - 1
        /\ sort_arg_ids' \in Seq([Sorts -> Nat])
        /\ Len(sort_arg_ids') = Len(sort_arg_ids) - 1
    BY <1>1, <1>5, <2>2, ScopePopped
  <2>4. ScopedMap(g) /\ Len(g.scopes) = level + 1
    BY <1>1, <1>2 DEF BaseInv, ScopesInv, InStep
  <2>5. /\ ScopedMap(global_symbols') /\ Len(global_symbols'.scopes) = Len(g.scopes)
        /\ Bound(g) \subseteq Bound(global_symbols')
        /\ GlobalsClosed(g) /\ Vars(Inner.term) = {} => GlobalsClosed(global_symbols')
        /\ GlobalsIn(g) /\ SymbolsOf(Inner.term) \subseteq Bound(g) => GlobalsIn(global_symbols')
        /\ UNCHANGED defs => Inner.args = <<>> \/ UNCHANGED global_symbols
        /\ UNCHANGED global_symbols \/ Inner.args = <<>>
    <3>1. CASE UNCHANGED global_symbols
      BY <2>4, <3>1
    <3>2. CASE /\ UNCHANGED defs /\ Inner.args = <<>>
               /\ add_mapping(g, Inner.name, Inner.term, global_symbols')
      BY <2>1, <2>4, <3>2, AddedMap, GlobalAdded DEF add_mapping
    <3> QED BY <1>5, <3>1, <3>2
  <2>6. /\ DOMAIN ds = DOMAIN defs \cup {Inner.name}
        /\ \A f \in DOMAIN ds : ds[f] = IF f = Inner.name THEN d ELSE defs[f]
        /\ d.body = Inner.term /\ d.args = Inner.args
    OBVIOUS
  <2> HIDE DEF ds, d
  <2>7. StackOK(stack') /\ Len(stack') = 0 /\ Shift(stack') = 1
    BY <1>5 DEF StackOK, Shift
  <2>8. IdsInv'
    BY <1>5, <2>3 DEF IdsInv
  <2>9. DefsInv'
    <3>1. DefsInv
      BY <1>1 DEF BaseInv
    <3>2. CASE defs' = ds
      BY <2>1, <2>6, <3>1, <3>2 DEF DefsInv
    <3>3. CASE UNCHANGED defs
      BY <3>1, <3>3 DEF DefsInv
    <3> QED BY <1>5, <3>2, <3>3
  <2>10. SolverInv'
    <3>1. down' \in BOOLEAN
      BY <1>5
    <3> QED BY <1>1, <1>2, <1>5, <3>1 DEF BaseInv, SolverInv, history
  <2>11. ScopesInv'
    <3>1. leaked' = leaked
      BY <1>5 DEF history
    <3>2. Len(arg_param_map'.scopes) = leaked' + Len(stack') + Shift(stack')
      BY <2>2, <2>3, <2>7, <3>1
    <3>3. Len(sort_arg_ids') = Len(arg_param_map'.scopes) - 1
      BY <2>2, <2>3
    <3>4. InStep'
      BY <1>2, <2>2, <2>4, <2>5, <2>7, <3>1, <3>2, <3>3, InStepMade
    <3> QED BY <1>1, <2>3, <2>5, <3>1, <3>4 DEF BaseInv, ScopesInv
  <2>12. leaked' = 0 => leaked = 0 /\ Len(arg_param_map'.scopes) = 1
    BY <1>5, <2>2, <2>3 DEF history
  <2>13. ASSUME leaked' = 0 PROVE VarsInv'
    <3>1. VarsInv /\ MapClosed(arg_param_map', stack')
      BY <1>1, <2>3, <2>12, <2>13, OnlyScope
    <3>2. FramesClosed(stack')
      BY <2>7 DEF FramesClosed
    <3>3. Vars(Inner.term) \subseteq ArgSet(Inner)
      <4>1. Vars(Inner.term) \subseteq ArgsTo(stack, 1)
        BY <2>1, <3>1 DEF VarsInv, FramesClosed
      <4>2. \A j \in 1 .. 1 : j = 1
        OBVIOUS
      <4> QED BY <2>1, <4>1, <4>2, ArgsFacts
    <3>4. GlobalsClosed(global_symbols')
      <4>1. CASE UNCHANGED global_symbols
        BY <3>1, <4>1 DEF VarsInv
      <4>2. CASE Inner.args = <<>>
        BY <2>5, <3>1, <3>3, <4>2, ArgsFacts DEF VarsInv
      <4> QED BY <2>5, <4>1, <4>2
    <3>5. DefsClosed(defs')
      <4>1. CASE defs' = ds
        <5> SUFFICES ASSUME NEW f \in DOMAIN ds
                     PROVE  Vars(ds[f].body) \subseteq {ds[f].args[k] : k \in 1 .. Len(ds[f].args)}
          BY <4>1 DEF DefsClosed
        <5>1. CASE f = Inner.name
          BY <2>6, <3>3, <5>1 DEF ArgSet
        <5>2. CASE f # Inner.name
          <6>1. f \in DOMAIN defs /\ ds[f] = defs[f]
            BY <2>6, <5>2
          <6> QED BY <3>1, <6>1 DEF VarsInv, DefsClosed
        <5> QED BY <5>1, <5>2
      <4>2. CASE UNCHANGED defs
        BY <3>1, <4>2 DEF VarsInv
      <4> QED BY <1>5, <4>1, <4>2
    <3> QED BY <3>1, <3>2, <3>4, <3>5 DEF VarsInv
  <2>14. ASSUME leaked' = 0, ~dangling' PROVE SymbolsInv'
    <3>1. /\ SymbolsInv /\ MapIn(arg_param_map', Bound(global_symbols'))
      BY <1>1, <1>5, <2>3, <2>12, <2>14, OnlyScope DEF history
    <3>2. FramesIn(stack', Bound(global_symbols'))
      BY <2>7 DEF FramesIn
    <3>3. SymbolsOf(Inner.term) \subseteq Bound(g)
      BY <2>1, <3>1 DEF SymbolsInv, FramesIn
    <3>4. GlobalsIn(global_symbols')
      BY <2>5, <3>1, <3>3 DEF SymbolsInv
    <3>5. DefsIn(defs', Bound(global_symbols'))
      <4>1. CASE defs' = ds
        BY <2>5, <2>6, <3>1, <3>3, <4>1 DEF SymbolsInv, DefsIn
      <4>2. CASE UNCHANGED defs
        BY <2>5, <3>1, <4>2 DEF SymbolsInv, DefsIn
      <4> QED BY <1>5, <4>1, <4>2
    <3> QED BY <3>1, <3>2, <3>4, <3>5 DEF SymbolsInv
  <2> QED BY <2>7, <2>8, <2>9, <2>10, <2>11, <2>13, <2>14 DEF IInv, BaseInv
<1>6. \/ Failed /\ UNCHANGED <<global_symbols, defs, scopes>>
      \/ /\ pop_scope /\ stack' = <<>> /\ UNCHANGED history
         /\ down' = (~NDEBUG /\ current_scope > 1)
         /\ \/ defs' = ds /\ UNCHANGED global_symbols
            \/ /\ UNCHANGED defs /\ Inner.args = <<>>
               /\ add_mapping(g, Inner.name, Inner.term, global_symbols')
  BY DEF EndDefine, alias
<1> QED BY <1>4, <1>5, <1>6

-----------------------------------------------------------------------------
(* The theorems *)

(* Every step keeps the invariant.                                         *)
LEMMA StepInv == IInv /\ [Next]_vars => IInv'
<1> SUFFICES ASSUME IInv, [Next]_vars PROVE IInv'
  OBVIOUS
<1>1. CASE UNCHANGED vars
  BY <1>1, Stutter
<1>2. CASE \E n \in Names, s \in Sorts : new_symbol(n, s)
  BY <1>2, NewSymbolStep
<1>3. CASE \E k \in 1 .. MaxLevel : push(k) \/ pop(k)
  BY <1>3, PushStep, PopStep
<1>4. CASE BeginAssert \/ EndAssert
  BY <1>4, AssertStep
<1>5. CASE \E n \in DefinedNames : BeginDefine(n)
  BY <1>5, BeginDefineStep
<1>6. CASE \E n \in Names, s \in Sorts : register_arg(n, s)
  BY <1>6, RegisterStep
<1>7. CASE EndDefine
  BY <1>7, EndDefineStep
<1>8. CASE \E n \in Names : Atom(n)
  BY <1>8, AtomStep
<1>9. CASE \E f \in Names, k \in 1 .. MaxArgs : \E ns \in [1 .. k -> Names] : Application(f, ns)
  BY <1>9, ApplicationStep
<1>10. CASE Open("let") \/ Open("quantifier")
  BY <1>10, OpenStep
<1>11. CASE EndHead
  BY <1>11, EndHeadStep
<1>12. CASE \E n \in Names : let_binding(n)
  BY <1>12, LetStep
<1>13. CASE \E n \in Names, s \in Sorts : create_param(n, s)
  BY <1>13, ParamStep
<1>14. CASE Close
  BY <1>14, CloseStep
<1>15. CASE Fail
  BY <1>15, FailedStep DEF Fail
<1> QED
  BY <1>1, <1>2, <1>3, <1>4, <1>5, <1>6, <1>7, <1>8, <1>9, <1>10, <1>11, <1>12, <1>13,
     <1>14, <1>15 DEF Next

(* The inductive invariant holds at every time.                            *)
THEOREM Invariance == Spec => []IInv
<1>1. Init => IInv
  BY InitInv
<1>2. IInv /\ [Next]_vars => IInv'
  BY StepInv
<1> QED BY <1>1, <1>2, PTL DEF Spec

(* The types, and the names of a map are those of its scopes.              *)
THEOREM TypeCorrect == Spec => []TypeOK
<1>1. ASSUME NEW m, ScopedMap(m) PROVE MapOK(m)
  <2>1. \A n \in Bound(m) : m.map[n] \subseteq Leaves
    BY <1>1, MapFacts DEF Terms
  <2>2. m.scopes \in Seq(SUBSET Names) /\ DOMAIN m.scopes = 1 .. Len(m.scopes)
    BY <1>1, MapFacts
  <2>3. /\ Len(m.scopes) > 0
        /\ Bound(m) = UNION {m.scopes[i] : i \in 1 .. Len(m.scopes)}
        /\ \A i, j \in 1 .. Len(m.scopes) : i # j => m.scopes[i] \cap m.scopes[j] = {}
    BY <1>1 DEF ScopedMap
  <2> QED BY <2>1, <2>2, <2>3 DEF MapOK
<1>2. ASSUME IInv PROVE TypeOK
  <2>1. /\ MapOK(global_symbols) /\ MapOK(arg_param_map) /\ leaked \in 0 .. MaxLeaked
    BY <1>1, <1>2 DEF IInv, BaseInv, ScopesInv
  <2>2. DefsInv /\ SolverInv /\ sort_arg_ids \in Seq([Sorts -> Nat])
    BY <1>2 DEF IInv, BaseInv, IdsInv
  <2>3. \A f \in DOMAIN defs : defs[f].body \subseteq Leaves /\ defs[f].args \in Seq(Leaves)
    BY <2>2 DEF DefsInv, Terms
  <2>4. \A i \in DOMAIN stack : stack[i] \in Frames
    BY <1>2 DEF IInv, BaseInv, StackOK
  <2>5. \A i \in DOMAIN stack :
          /\ stack[i].kind \in {"assert", "define", "let", "quantifier"}
          /\ stack[i].part \in {"head", "body"} /\ stack[i].name \in Names \cup {NoName}
          /\ stack[i].args \in Seq(Leaves) /\ stack[i].term \subseteq Leaves
    BY <2>4 DEF Frames, Kinds, Terms
  <2>6. /\ DOMAIN all_symbols \subseteq Names
        /\ \A n \in DOMAIN all_symbols : all_symbols[n] \in Sorts
        /\ DOMAIN defs \subseteq Names /\ level \in Nat /\ declared \subseteq Names
    BY <2>2 DEF DefsInv, SolverInv
  <2>7. {dangling, refused, down} \subseteq BOOLEAN
    BY <2>2 DEF SolverInv
  <2> QED BY <2>1, <2>2, <2>3, <2>5, <2>6, <2>7, Zenon DEF TypeOK
<1> QED BY <1>2, Invariance, PTL

(* One scope for every level of the solver, one for every let, quantifier  *)
(* and definition that is open or that a failed parse left open.           *)
THEOREM ScopesInStep == Spec => []InStep
<1>1. IInv => InStep
  BY DEF IInv, BaseInv, ScopesInv
<1> QED BY <1>1, Invariance, PTL

(* No formula has an argument or a parameter free in it, unless a parse    *)
(* failed inside of a term.                                                *)
THEOREM FormulasClosed == Spec => []ClosedFormulas
<1>1. ASSUME IInv, leaked = 0, NEW x \in Given PROVE x.kind = "symbol"
  <2>1. Len(stack) = 1 /\ Inner.kind = "assert" /\ x \in Inner.term
    BY <1>1 DEF Given
  <2>2. BaseInv /\ VarsInv /\ stack # <<>>
    BY <1>1, <2>1, Depth DEF IInv
  <2>3. Inner = stack[1] /\ Inner.args = <<>>
    BY <2>1, <2>2, TopFacts
  <2>4. Vars(Inner.term) \subseteq ArgsTo(stack, 1)
    BY <2>1, <2>2, <2>3 DEF VarsInv, FramesClosed
  <2>5. ArgsTo(stack, 1) = {}
    <3>1. \A j \in 1 .. 1 : ArgSet(stack[j]) = {}
      BY <2>3, ArgsFacts
    <3> QED BY <3>1, ArgsFacts
  <2> QED BY <2>1, <2>4, <2>5 DEF Vars
<1>2. IInv => ClosedFormulas
  BY <1>1 DEF ClosedFormulas
<1> QED BY <1>2, Invariance, PTL

(* Nor a symbol that is not visible, unless a definition outlived one.     *)
THEOREM FormulasVisible == Spec => []FormulasInScope
<1>1. ASSUME IInv, leaked = 0, ~dangling PROVE SymbolsOf(Given) \subseteq Bound(global_symbols)
  <2>1. SymbolsInv /\ BaseInv
    BY <1>1 DEF IInv
  <2>2. CASE Len(stack) = 1 /\ Inner.kind = "assert"
    BY <2>1, <2>2 DEF Given, Inner, SymbolsInv, FramesIn
  <2>3. CASE ~(Len(stack) = 1 /\ Inner.kind = "assert")
    BY <2>3, PartsFacts DEF Given
  <2> QED BY <2>2, <2>3
<1>2. IInv => FormulasInScope
  BY <1>1 DEF FormulasInScope
<1> QED BY <1>2, Invariance, PTL

(* The solver is never asked for a symbol that it has.                     *)
THEOREM SolverAccepts == Spec => []NeverRefused
<1>1. IInv => NeverRefused
  BY DEF IInv, BaseInv, SolverInv, NeverRefused
<1> QED BY <1>1, Invariance, PTL

-----------------------------------------------------------------------------
(* Both maps are environments                                              *)

EmptyLevel == [n \in {} |-> {}]
LevelOf(m, i) == [n \in m.scopes[i] |-> m.map[n]]
LevelSet(m) == {LevelOf(m, i) : i \in 1 .. Len(m.scopes)}

(* The levels of a map, one by one.                                        *)
LEMMA LevelsFacts ==
  ASSUME NEW m, ScopedMap(m)
  PROVE  /\ Levels(m) \in Seq(LevelSet(m)) /\ Len(Levels(m)) = Len(m.scopes)
         /\ \A i \in 1 .. Len(m.scopes) : Levels(m)[i] = LevelOf(m, i)
         /\ \A i \in 1 .. Len(m.scopes) : DOMAIN LevelOf(m, i) = m.scopes[i]
<1>1. Len(m.scopes) \in Nat
  BY MapFacts
<1>2. Levels(m) = [i \in 1 .. Len(m.scopes) |-> LevelOf(m, i)]
  BY DEF Levels, LevelOf
<1>3. \A i \in 1 .. Len(m.scopes) : DOMAIN LevelOf(m, i) = m.scopes[i]
  BY DEF LevelOf
<1>4. \A i \in 1 .. Len(m.scopes) : LevelOf(m, i) \in LevelSet(m)
  BY DEF LevelSet
<1>5. PICK f : f = [i \in 1 .. Len(m.scopes) |-> LevelOf(m, i)]
  OBVIOUS
<1>6. f \in [1 .. Len(m.scopes) -> LevelSet(m)]
  BY <1>4, <1>5
<1>7. \A i \in 1 .. Len(m.scopes) : f[i] = LevelOf(m, i)
  BY <1>5
<1>8. f \in Seq(LevelSet(m)) /\ Len(f) = Len(m.scopes)
  BY <1>1, <1>6, FunctionSeq
<1> QED BY <1>2, <1>3, <1>5, <1>7, <1>8

(* Sequences of the same elements are equal.                               *)
LEMMA SameSequence ==
  ASSUME NEW S, NEW s \in Seq(S), NEW T, NEW t \in Seq(T), Len(s) = Len(t),
         \A i \in 1 .. Len(s) : s[i] = t[i]
  PROVE  s = t
<1>1. DOMAIN s = 1 .. Len(s) /\ DOMAIN t = 1 .. Len(s)
  OBVIOUS
<1>2. s = [i \in 1 .. Len(s) |-> s[i]] /\ t = [i \in 1 .. Len(s) |-> t[i]]
  BY <1>1
<1> QED BY <1>2

(* A level stays if its names and their terms do; one without names is     *)
(* empty.                                                                  *)
LEMMA SameLevel ==
  /\ \A m, w, i : w.scopes[i] = m.scopes[i] /\ (\A n \in m.scopes[i] : w.map[n] = m.map[n])
                    => LevelOf(w, i) = LevelOf(m, i)
  /\ \A w, i : w.scopes[i] = {} => LevelOf(w, i) = EmptyLevel
<1>1. ASSUME NEW m, NEW w, NEW i, w.scopes[i] = m.scopes[i],
             \A n \in m.scopes[i] : w.map[n] = m.map[n]
      PROVE  LevelOf(w, i) = LevelOf(m, i)
  BY <1>1 DEF LevelOf
<1>2. ASSUME NEW w, NEW i, w.scopes[i] = {}
      PROVE  LevelOf(w, i) = EmptyLevel
  BY <1>2 DEF LevelOf, EmptyLevel
<1> QED BY <1>1, <1>2

(* A new map has one empty level.                                          *)
LEMMA EmptyLevels == Levels(EmptyMap) = <<EmptyLevel>>
<1>1. ScopedMap(EmptyMap) /\ Len(EmptyMap.scopes) = 1 /\ EmptyMap.scopes[1] = {}
  BY EmptyOK
<1>2. /\ Levels(EmptyMap) \in Seq(LevelSet(EmptyMap)) /\ Len(Levels(EmptyMap)) = 1
      /\ Levels(EmptyMap)[1] = LevelOf(EmptyMap, 1)
  BY <1>1, LevelsFacts
<1>3. LevelOf(EmptyMap, 1) = EmptyLevel
  BY <1>1, SameLevel
<1>4. <<EmptyLevel>> \in Seq({EmptyLevel}) /\ Len(<<EmptyLevel>>) = 1 /\ <<EmptyLevel>>[1] = EmptyLevel
  OBVIOUS
<1>5. PICK t : t = <<EmptyLevel>>
  OBVIOUS
<1>6. PICK s : s = Levels(EmptyMap)
  OBVIOUS
<1>7. /\ s \in Seq(LevelSet(EmptyMap)) /\ t \in Seq({EmptyLevel}) /\ Len(s) = Len(t)
      /\ \A i \in 1 .. Len(s) : s[i] = t[i]
  BY <1>2, <1>3, <1>4, <1>5, <1>6
<1>8. s = t
  BY <1>7, SameSequence
<1> QED BY <1>5, <1>6, <1>8

(* Scopes opened are levels opened.                                        *)
LEMMA PushedLevels ==
  ASSUME NEW m, ScopedMap(m), NEW k \in Nat
  PROVE  Levels(push_scopes(m, k)) = Levels(m) \o [i \in 1 .. k |-> EmptyLevel]
<1> DEFINE L == Len(m.scopes)
<1>1. PICK w : w = push_scopes(m, k)
  OBVIOUS
<1>2. PICK e : e = [i \in 1 .. k |-> EmptyLevel]
  OBVIOUS
<1>3. PICK s : s = Levels(m)
  OBVIOUS
<1>4. PICK r : r = Levels(w)
  OBVIOUS
<1>5. L \in Nat
  BY MapFacts
<1>6. /\ ScopedMap(w) /\ Len(w.scopes) = L + k /\ w.map = m.map
      /\ Keeps(m, w) /\ \A i \in L + 1 .. L + k : w.scopes[i] = {}
  BY <1>1, PushedMap
<1>7. /\ s \in Seq(LevelSet(m)) /\ Len(s) = L
      /\ \A i \in 1 .. L : s[i] = LevelOf(m, i)
  BY <1>3, LevelsFacts
<1>8. /\ r \in Seq(LevelSet(w)) /\ Len(r) = L + k
      /\ \A i \in 1 .. L + k : r[i] = LevelOf(w, i)
  <2>1. /\ r \in Seq(LevelSet(w)) /\ Len(r) = Len(w.scopes)
        /\ \A i \in 1 .. Len(w.scopes) : r[i] = LevelOf(w, i)
    BY <1>4, <1>6, LevelsFacts
  <2> QED BY <1>6, <2>1
<1>9. e \in Seq({EmptyLevel}) /\ Len(e) = k /\ \A i \in 1 .. k : e[i] = EmptyLevel
  BY <1>2
<1> DEFINE U == LevelSet(m) \cup {EmptyLevel}
<1>10. s \in Seq(U) /\ e \in Seq(U)
  <2>1. /\ \A i \in 1 .. L : s[i] \in U
        /\ \A i \in 1 .. k : e[i] \in U
    BY <1>7, <1>9 DEF LevelSet
  <2>2. s \in [1 .. L -> U] /\ e \in [1 .. k -> U]
    BY <1>7, <1>9, <2>1
  <2> QED BY <1>5, <2>2, FunctionSeq
<1> HIDE DEF U
<1>11. /\ s \o e \in Seq(U) /\ Len(s \o e) = Len(s) + Len(e)
       /\ \A i \in 1 .. Len(s) + Len(e) :
            (s \o e)[i] = IF i <= Len(s) THEN s[i] ELSE e[i - Len(s)]
  BY <1>10, ConcatProperties, Zenon
<1>12. PICK c : c = s \o e
  OBVIOUS
<1>13. /\ c \in Seq(U) /\ Len(c) = L + k
       /\ \A i \in 1 .. L + k : c[i] = IF i <= L THEN s[i] ELSE e[i - L]
  BY <1>7, <1>9, <1>11, <1>12
<1>14. ASSUME NEW i \in 1 .. L + k PROVE r[i] = c[i]
  <2>1. CASE i <= L
    <3>1. i \in 1 .. L
      BY <1>5, <2>1
    <3>2. w.scopes[i] = m.scopes[i]
      BY <1>6, <3>1 DEF Keeps
    <3>3. LevelOf(w, i) = LevelOf(m, i)
      BY <1>6, <3>2, SameLevel
    <3> QED BY <1>7, <1>8, <1>13, <2>1, <3>1, <3>3
  <2>2. CASE ~(i <= L)
    <3>1. i \in L + 1 .. L + k /\ i - L \in 1 .. k
      BY <1>5, <2>2
    <3>2. LevelOf(w, i) = EmptyLevel
      BY <1>6, <3>1, SameLevel
    <3> QED BY <1>8, <1>9, <1>13, <2>2, <3>1, <3>2
  <2> QED BY <2>1, <2>2
<1>15. r = c
  BY <1>8, <1>13, <1>14, SameSequence
<1> QED BY <1>1, <1>2, <1>3, <1>4, <1>12, <1>15

(* Scopes closed are levels closed.                                        *)
LEMMA PoppedLevels ==
  ASSUME NEW m, ScopedMap(m), NEW k \in Nat, k < Len(m.scopes)
  PROVE  /\ k < Len(Levels(m))
         /\ Levels(pop_scopes(m, k)) = SubSeq(Levels(m), 1, Len(Levels(m)) - k)
<1> DEFINE L == Len(m.scopes)
<1>1. PICK w : w = pop_scopes(m, k)
  OBVIOUS
<1>2. PICK s : s = Levels(m)
  OBVIOUS
<1>3. PICK r : r = Levels(w)
  OBVIOUS
<1>4. L \in Nat /\ L - k \in Nat /\ L - k <= L
  BY MapFacts
<1>5. /\ ScopedMap(w) /\ Len(w.scopes) = L - k
      /\ \A i \in 1 .. Len(w.scopes) : w.scopes[i] = m.scopes[i]
      /\ \A n \in Bound(w) : w.map[n] = m.map[n]
  BY <1>1, PoppedMap
<1>6. /\ s \in Seq(LevelSet(m)) /\ Len(s) = L
      /\ \A i \in 1 .. L : s[i] = LevelOf(m, i)
  BY <1>2, LevelsFacts
<1>7. /\ r \in Seq(LevelSet(w)) /\ Len(r) = L - k
      /\ \A i \in 1 .. L - k : r[i] = LevelOf(w, i)
  <2>1. /\ r \in Seq(LevelSet(w)) /\ Len(r) = Len(w.scopes)
        /\ \A i \in 1 .. Len(w.scopes) : r[i] = LevelOf(w, i)
    BY <1>3, <1>5, LevelsFacts
  <2> QED BY <1>5, <2>1
<1>8. /\ SubSeq(s, 1, L - k) \in Seq(LevelSet(m)) /\ Len(SubSeq(s, 1, L - k)) = L - k
      /\ \A i \in 1 .. L - k : SubSeq(s, 1, L - k)[i] = s[i]
  <2>1. \A i \in 1 .. L - k : i \in 1 .. L /\ s[i] \in LevelSet(m)
    BY <1>4, <1>6 DEF LevelSet
  <2> QED BY <1>4, <1>6, <2>1, SubSeqProperties
<1>9. PICK c : c = SubSeq(s, 1, L - k)
  OBVIOUS
<1>10. ASSUME NEW i \in 1 .. L - k PROVE r[i] = c[i]
  <2>1. i \in 1 .. L
    BY <1>4
  <2>2. w.scopes[i] = m.scopes[i]
    BY <1>5
  <2>3. \A n \in m.scopes[i] : w.map[n] = m.map[n]
    BY <1>5, <2>2, MapFacts
  <2>4. LevelOf(w, i) = LevelOf(m, i)
    BY <2>2, <2>3, SameLevel
  <2>5. c[i] = s[i]
    BY <1>8, <1>9
  <2> QED BY <1>6, <1>7, <2>1, <2>4, <2>5
<1>11. r = c
  BY <1>7, <1>8, <1>9, <1>10, SameSequence
<1> QED BY <1>1, <1>2, <1>3, <1>6, <1>9, <1>11

(* A name added to the last scope is bound in the last level, and in no    *)
(* other.                                                                  *)
LEMMA AddedLevels ==
  ASSUME NEW m, ScopedMap(m), NEW n \in Names, n \notin Bound(m), NEW t \in Terms
  PROVE  LET e == Levels(m)
         IN  /\ n \notin UNION {DOMAIN e[i] : i \in 1 .. Len(e)}
             /\ Levels(Added(m, Len(m.scopes), n, t)) =
                  [e EXCEPT ![Len(e)] =
                     [x \in DOMAIN @ \cup {n} |-> IF x = n THEN t ELSE @[x]]]
<1> DEFINE L == Len(m.scopes)
<1>1. PICK w : w = Added(m, Len(m.scopes), n, t)
  OBVIOUS
<1>2. PICK s : s = Levels(m)
  OBVIOUS
<1>3. PICK r : r = Levels(w)
  OBVIOUS
<1>4. /\ L \in Nat /\ L > 0 /\ L \in 1 .. L
      /\ \A x : x \in Bound(m) <=> \E i \in 1 .. L : x \in m.scopes[i]
  BY MapFacts
<1>5. /\ ScopedMap(w) /\ Len(w.scopes) = L /\ KeepsWith(m, n, w) /\ w.map[n] = t
      /\ \A x \in Bound(m) : w.map[x] = m.map[x]
  BY <1>1, AddedMap
<1>6. /\ s \in Seq(LevelSet(m)) /\ Len(s) = L
      /\ \A i \in 1 .. L : s[i] = LevelOf(m, i)
      /\ \A i \in 1 .. L : DOMAIN LevelOf(m, i) = m.scopes[i]
  BY <1>2, LevelsFacts
<1>7. /\ r \in Seq(LevelSet(w)) /\ Len(r) = L
      /\ \A i \in 1 .. L : r[i] = LevelOf(w, i)
  <2>1. /\ r \in Seq(LevelSet(w)) /\ Len(r) = Len(w.scopes)
        /\ \A i \in 1 .. Len(w.scopes) : r[i] = LevelOf(w, i)
    BY <1>3, <1>5, LevelsFacts
  <2> QED BY <1>5, <2>1
<1>8. \A i \in 1 .. L : w.scopes[i] = IF i = L THEN m.scopes[i] \cup {n} ELSE m.scopes[i]
  BY <1>5 DEF KeepsWith
<1>9. n \notin UNION {DOMAIN s[i] : i \in 1 .. Len(s)}
  BY <1>4, <1>6
<1> DEFINE g == [x \in DOMAIN s[L] \cup {n} |-> IF x = n THEN t ELSE s[L][x]]
<1>10. LevelOf(w, L) = g
  <2>1. s[L] = LevelOf(m, L) /\ DOMAIN s[L] = m.scopes[L] /\ w.scopes[L] = m.scopes[L] \cup {n}
    BY <1>4, <1>6, <1>8
  <2>2. \A x \in m.scopes[L] : w.map[x] = m.map[x] /\ LevelOf(m, L)[x] = m.map[x]
    BY <1>4, <1>5 DEF LevelOf
  <2>3. LevelOf(w, L) = [x \in m.scopes[L] \cup {n} |-> w.map[x]]
    BY <2>1 DEF LevelOf
  <2> QED BY <1>5, <2>1, <2>2, <2>3
<1> HIDE DEF g
<1>11. PICK c : c = [s EXCEPT ![L] = g]
  OBVIOUS
<1> DEFINE U == LevelSet(m) \cup {g}
<1>12. c \in [1 .. L -> U] /\ \A i \in 1 .. L : c[i] = IF i = L THEN g ELSE s[i]
  <2>1. s \in [1 .. L -> U]
    BY <1>6 DEF LevelSet
  <2> QED BY <1>4, <1>11, <2>1
<1>13. c \in Seq(U) /\ Len(c) = L
  BY <1>4, <1>12, FunctionSeq
<1>14. ASSUME NEW i \in 1 .. L PROVE r[i] = c[i]
  <2>1. CASE i = L
    BY <1>4, <1>7, <1>10, <1>12, <2>1
  <2>2. CASE i # L
    <3>1. w.scopes[i] = m.scopes[i] /\ \A x \in m.scopes[i] : w.map[x] = m.map[x]
      BY <1>4, <1>5, <1>8, <2>2
    <3> QED BY <1>6, <1>7, <1>12, <2>2, <3>1, SameLevel
  <2> QED BY <2>1, <2>2
<1>15. r = c
  BY <1>7, <1>13, <1>14, SameSequence
<1>16. c = [s EXCEPT ![Len(s)] = [x \in DOMAIN @ \cup {n} |-> IF x = n THEN t ELSE @[x]]]
  BY <1>6, <1>11 DEF g
<1> QED BY <1>1, <1>2, <1>3, <1>9, <1>15, <1>16

(* What a step does to a map: scopes of one size, or one more name.        *)
MapStep(m, w, K) ==
  \/ w = m
  \/ \E k \in K : w = push_scopes(m, k)
  \/ \E k \in K : k < Len(m.scopes) /\ w = pop_scopes(m, k)
  \/ \E n \in Names, t \in Terms : add_mapping(m, n, t, w)

(* Such a step of the global symbols is one of an environment.             *)
LEMMA GlobalsRefine ==
  ASSUME ScopedMap(global_symbols),
         MapStep(global_symbols, global_symbols', 1 .. MaxLevel)
  PROVE  [Globals!Next]_(Levels(global_symbols))
<1>1. CASE global_symbols' = global_symbols
  BY <1>1
<1>2. ASSUME NEW k \in 1 .. MaxLevel, global_symbols' = push_scopes(global_symbols, k)
      PROVE  Globals!Next
  <2>1. k \in Nat
    BY Bounds
  <2>2. Levels(global_symbols)' =
          Levels(global_symbols) \o [i \in 1 .. k |-> [n \in {} |-> {}]]
    BY <1>2, <2>1, PushedLevels DEF EmptyLevel
  <2>3. Globals!Open(k)
    BY <2>2 DEF Globals!Open
  <2> QED BY <2>3 DEF Globals!Next
<1>3. ASSUME NEW k \in 1 .. MaxLevel, k < Len(global_symbols.scopes),
             global_symbols' = pop_scopes(global_symbols, k)
      PROVE  Globals!Next
  <2>1. k \in Nat
    BY Bounds
  <2>2. Globals!Close(k)
    BY <1>3, <2>1, PoppedLevels DEF Globals!Close
  <2> QED BY <2>2 DEF Globals!Next
<1>4. ASSUME NEW n \in Names, NEW t \in Terms,
             add_mapping(global_symbols, n, t, global_symbols')
      PROVE  Globals!Next
  <2>1. n \notin Bound(global_symbols) /\ global_symbols' = Added(global_symbols, Len(global_symbols.scopes), n, t)
    BY <1>4 DEF add_mapping
  <2>2. LET e == Levels(global_symbols)
        IN  /\ n \notin UNION {DOMAIN e[i] : i \in 1 .. Len(e)}
            /\ Levels(Added(global_symbols, Len(global_symbols.scopes), n, t)) =
                 [e EXCEPT ![Len(e)] =
                    [x \in DOMAIN @ \cup {n} |-> IF x = n THEN t ELSE @[x]]]
    BY <2>1, AddedLevels
  <2>3. Levels(global_symbols)' = Levels(Added(global_symbols, Len(global_symbols.scopes), n, t))
    BY <2>1
  <2>4. Globals!Bind(n, t)
    BY <2>2, <2>3 DEF Globals!Bind, Globals!Bound
  <2> QED BY <2>4 DEF Globals!Next
<1> QED BY <1>1, <1>2, <1>3, <1>4 DEF MapStep

(* And of the arguments, parameters and bindings.                          *)
LEMMA LocalsRefine ==
  ASSUME ScopedMap(arg_param_map), MapStep(arg_param_map, arg_param_map', {1})
  PROVE  [Locals!Next]_(Levels(arg_param_map))
<1>1. CASE arg_param_map' = arg_param_map
  BY <1>1
<1>2. CASE arg_param_map' = push_scopes(arg_param_map, 1)
  <2>1. Levels(arg_param_map)' =
          Levels(arg_param_map) \o [i \in 1 .. 1 |-> [n \in {} |-> {}]]
    BY <1>2, PushedLevels DEF EmptyLevel
  <2>2. Locals!Open(1)
    BY <2>1 DEF Locals!Open
  <2> QED BY <2>2 DEF Locals!Next
<1>3. CASE /\ 1 < Len(arg_param_map.scopes)
           /\ arg_param_map' = pop_scopes(arg_param_map, 1)
  <2>1. Locals!Close(1)
    BY <1>3, PoppedLevels DEF Locals!Close
  <2> QED BY <2>1 DEF Locals!Next
<1>4. ASSUME NEW n \in Names, NEW t \in Terms,
             add_mapping(arg_param_map, n, t, arg_param_map')
      PROVE  Locals!Next
  <2>1. n \notin Bound(arg_param_map) /\ arg_param_map' = Added(arg_param_map, Len(arg_param_map.scopes), n, t)
    BY <1>4 DEF add_mapping
  <2>2. LET e == Levels(arg_param_map)
        IN  /\ n \notin UNION {DOMAIN e[i] : i \in 1 .. Len(e)}
            /\ Levels(Added(arg_param_map, Len(arg_param_map.scopes), n, t)) =
                 [e EXCEPT ![Len(e)] =
                    [x \in DOMAIN @ \cup {n} |-> IF x = n THEN t ELSE @[x]]]
    BY <2>1, AddedLevels
  <2>3. Levels(arg_param_map)' = Levels(Added(arg_param_map, Len(arg_param_map.scopes), n, t))
    BY <2>1
  <2>4. Locals!Bind(n, t)
    BY <2>2, <2>3 DEF Locals!Bind, Locals!Bound
  <2> QED BY <2>4 DEF Locals!Next
<1> QED BY <1>1, <1>2, <1>3, <1>4 DEF MapStep

(* What the steps do to the global symbols.                                *)
LEMMA GlobalsStep ==
  ASSUME IInv, [Next]_vars
  PROVE  MapStep(global_symbols, global_symbols', 1 .. MaxLevel)
<1>1. ASSUME NEW n \in Names, NEW s \in Sorts, new_symbol(n, s)
      PROVE  MapStep(global_symbols, global_symbols', 1 .. MaxLevel)
  <2>1. {Symbol(n, s)} \in Terms
    BY SymbolTerm
  <2>2. \/ UNCHANGED global_symbols
        \/ add_mapping(global_symbols, n, {Symbol(n, s)}, global_symbols')
    BY <1>1 DEF new_symbol
  <2> QED BY <2>1, <2>2 DEF MapStep
<1>2. ASSUME NEW k \in 1 .. MaxLevel, push(k) \/ pop(k)
      PROVE  MapStep(global_symbols, global_symbols', 1 .. MaxLevel)
  BY <1>2 DEF push, pop, MapStep
<1>3. CASE EndDefine
  <2>1. CASE UNCHANGED global_symbols
    BY <2>1 DEF MapStep
  <2>2. CASE add_mapping(global_symbols, Inner.name, Inner.term, global_symbols')
    <3>1. BaseInv /\ Len(stack) = 1 /\ Inner.kind = "define"
      BY <1>3 DEF IInv, EndDefine
    <3>2. stack # <<>>
      BY <3>1, Depth
    <3>3. Inner.name \in Names /\ Inner.term \in Terms
      BY <3>1, <3>2, TopFacts
    <3> QED BY <2>2, <3>3 DEF MapStep
  <2> QED BY <1>3, <2>1, <2>2 DEF EndDefine, alias
<1>4. CASE UNCHANGED global_symbols
  BY <1>4 DEF MapStep
<1>5. CASE UNCHANGED vars
  BY <1>4, <1>5 DEF vars
<1>6. CASE BeginAssert \/ EndAssert \/ Open("let") \/ Open("quantifier") \/ EndHead \/ Close \/ Fail
  BY <1>4, <1>6 DEF BeginAssert, EndAssert, Open, EndHead, Close, Fail
<1>7. ASSUME NEW n \in Names, let_binding(n) \/ Atom(n) \/ BeginDefine(n)
      PROVE  UNCHANGED global_symbols
  BY <1>7 DEF let_binding, Atom, BeginDefine
<1>8. ASSUME NEW n \in Names, NEW s \in Sorts, register_arg(n, s) \/ create_param(n, s)
      PROVE  UNCHANGED global_symbols
  BY <1>8 DEF register_arg, create_param
<1>9. ASSUME NEW f \in Names, NEW k \in 1 .. MaxArgs, NEW ns \in [1 .. k -> Names],
             Application(f, ns)
      PROVE  UNCHANGED global_symbols
  BY <1>9 DEF Application
<1> QED
  BY <1>1, <1>2, <1>3, <1>4, <1>5, <1>6, <1>7, <1>8, <1>9, Bounds DEF Next

(* What they do to the other map.                                          *)
LEMMA LocalsStep ==
  ASSUME IInv, [Next]_vars
  PROVE  MapStep(arg_param_map, arg_param_map', {1})
<1>1. BaseInv
  BY DEF IInv
<1>2. ASSUME push_scope PROVE MapStep(arg_param_map, arg_param_map', {1})
  BY <1>2 DEF push_scope, MapStep
<1>3. ASSUME pop_scope, stack # <<>>, Inner.kind # "assert"
      PROVE  MapStep(arg_param_map, arg_param_map', {1})
  <2>1. 1 < Len(arg_param_map.scopes)
    BY <1>1, <1>3, DeepScopes
  <2> QED BY <1>3, <2>1 DEF pop_scope, MapStep
<1>4. CASE UNCHANGED arg_param_map
  BY <1>4 DEF MapStep
<1>5. CASE UNCHANGED vars
  BY <1>4, <1>5 DEF vars, scopes
<1>6. ASSUME NEW n \in Names, NEW s \in Sorts,
             new_symbol(n, s) \/ register_arg(n, s) \/ create_param(n, s)
      PROVE  MapStep(arg_param_map, arg_param_map', {1})
  <2>1. CASE UNCHANGED arg_param_map
    BY <1>4, <2>1
  <2>2. CASE register_arg(n, s)
    <3>1. CASE /\ Len(Inner.args) < MaxArgs
               /\ add_mapping(arg_param_map, n, {Arg(s, sort_arg_ids[Len(sort_arg_ids)][s])},
                              arg_param_map')
      <4>1. stack # <<>> /\ Inner.kind = "define" /\ Inner.part = "head"
        BY <2>2 DEF register_arg
      <4>2. {Arg(s, sort_arg_ids[Len(sort_arg_ids)][s])} \in Terms
        BY <1>1, <3>1, <4>1, NextArg, SmallTerms
      <4> QED BY <3>1, <4>2 DEF MapStep
    <3> QED BY <2>1, <2>2, <3>1 DEF register_arg, scopes
  <2>3. CASE create_param(n, s)
    <3>1. ASSUME NEW id \in 0 .. MaxParams - 1,
                 add_mapping(arg_param_map, n, {Param(n, s, id)}, arg_param_map')
          PROVE  MapStep(arg_param_map, arg_param_map', {1})
      <4>1. Param(n, s, id) \in Leaves
        BY DEF Leaves
      <4>2. {Param(n, s, id)} \in Terms
        BY <4>1, SmallTerms
      <4> QED BY <3>1, <4>2 DEF MapStep
    <3> QED BY <2>1, <2>3, <3>1 DEF create_param
  <2> QED BY <1>6, <2>1, <2>2, <2>3 DEF new_symbol, scopes
<1>7. ASSUME NEW k \in 1 .. MaxLevel, push(k) \/ pop(k)
      PROVE  UNCHANGED arg_param_map
  BY <1>7 DEF push, pop, scopes
<1>8. CASE BeginAssert \/ EndAssert \/ EndHead \/ Fail
  BY <1>4, <1>8 DEF BeginAssert, EndAssert, EndHead, Fail, scopes
<1>9. CASE Open("let") \/ Open("quantifier")
  BY <1>2, <1>9 DEF Open
<1>10. CASE Close
  BY <1>3, <1>10 DEF Close
<1>11. CASE EndDefine
  <2>1. stack # <<>> /\ Inner.kind # "assert"
    BY <1>1, <1>11, Depth DEF EndDefine
  <2> QED BY <1>3, <1>4, <1>11, <2>1 DEF EndDefine, scopes
<1>12. ASSUME NEW n \in Names, let_binding(n) \/ Atom(n) \/ BeginDefine(n)
       PROVE  MapStep(arg_param_map, arg_param_map', {1})
  <2>1. CASE let_binding(n)
    <3>1. Inner.term \in Terms
      BY <1>1, <2>1, TopFacts DEF let_binding
    <3> QED BY <1>4, <2>1, <3>1 DEF let_binding, MapStep
  <2>2. CASE Atom(n)
    BY <1>4, <2>2 DEF Atom, scopes
  <2>3. CASE BeginDefine(n)
    BY <1>2, <2>3 DEF BeginDefine
  <2> QED BY <1>12, <2>1, <2>2, <2>3
<1>13. ASSUME NEW f \in Names, NEW k \in 1 .. MaxArgs, NEW ns \in [1 .. k -> Names],
              Application(f, ns)
       PROVE  UNCHANGED arg_param_map
  BY <1>13 DEF Application, scopes
<1> QED
  BY <1>4, <1>5, <1>6, <1>7, <1>8, <1>9, <1>10, <1>11, <1>12, <1>13, Bounds DEF Next

(* The symbols, and the arguments, parameters and bindings, are            *)
(* environments with one level per scope, although the terms of all scopes *)
(* are in one map and a scope is closed by erasing its names from it.      *)
THEOREM Refinement == Spec => Implements
<1>1. Init => Globals!Init /\ Locals!Init
  BY EmptyLevels DEF Init, Globals!Init, Locals!Init, EmptyLevel
<1>2. ASSUME IInv, [Next]_vars
      PROVE  [Globals!Next]_(Levels(global_symbols)) /\ [Locals!Next]_(Levels(arg_param_map))
  <2>1. ScopedMap(global_symbols) /\ ScopedMap(arg_param_map)
    BY <1>2 DEF IInv, BaseInv, ScopesInv
  <2> QED BY <1>2, <2>1, GlobalsStep, LocalsStep, GlobalsRefine, LocalsRefine
<1> QED BY <1>1, <1>2, Invariance, PTL DEF Spec, Implements, Globals!Spec, Locals!Spec

===============================================================================
