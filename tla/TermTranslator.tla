--------------------------- MODULE TermTranslator ---------------------------
(***************************************************************************)
(* TermTranslator: terms of one solver are rebuilt in another.  Either     *)
(* solver may be one that has no Booleans of its own and makes them        *)
(* one-bit vectors (Boolector); the operators must then be exchanged or    *)
(* their arguments cast.                                                   *)
(*                                                                         *)
(* A term is an operator, its arguments and its sort; a symbol, a          *)
(* parameter or a value has data instead of arguments; the data of a Real  *)
(* value counts halves.                                                    *)
(***************************************************************************)
EXTENDS Integers, Sequences, FiniteSets, SequencesExt, SortInference, SmtLibMeaning

CONSTANTS
  Sources,    \* solvers terms come from: the terms of each a caller transfers
  Targets,    \* the solvers terms go to: does it alias Bool to BV1?
  Declarable, \* <<name, sort>>: the symbols the caller may have declared there
  Kinds,      \* the sort kinds a caller asks for
  Debug,      \* whether assertions are compiled
  MaxTransfers

VARIABLES
  source,     \* the solver that terms come from
  aliases,    \* the target's kind
  symbols,    \* its symbols: a sort for every name
  cache,      \* the translator's cache
  request,    \* the last transfer: its term and the kind asked for
  answer      \* and what it returned

vars == <<source, aliases, symbols, cache, request, answer>>

App(op, args, sort) == [op |-> op, a |-> args, sort |-> sort, data |-> 0]
Leaf(what, data, sort) == [op |-> Operator(what, <<>>), a |-> <<>>, sort |-> sort, data |-> data]
Symbol(n, sort) == Leaf("symbol", n, sort)
Value(v, sort) == Leaf("value", v, sort)
Throws == Leaf("exception", 0, BOOL)
Threw(args) == \E i \in DOMAIN args : args[i] = Throws
Sorts(args) == [i \in DOMAIN args |-> args[i].sort]

IsValue(t) == t.op.p = "value" \/ t.op.p = "constant array"

----------------------------------------------------------------------------
(* The target: what its make_sort and make_term do.                        *)

make_sort(s) == IF aliases /\ s = BOOL THEN BV(1) ELSE s

\* A solver that aliases takes a one-bit vector wherever a Boolean belongs.
Readings(s) ==
  IF ~aliases THEN {s}
  ELSE {r \in [DOMAIN s -> {s[i] : i \in DOMAIN s} \cup {BOOL}] :
          \A i \in DOMAIN s : r[i] = s[i] \/ (r[i] = BOOL /\ s[i] = BV(1))}
Ranks(op, s) == {make_sort(t) : t \in UNION {Rank(op, r) : r \in Readings(s)}}

make_term(op, args) ==
  LET ranks == IF Threw(args) THEN {} ELSE Ranks(op, Sorts(args)) IN
  IF ranks = {} THEN Throws ELSE App(op, args, CHOOSE t \in ranks : TRUE)

make_op(po, args) == make_term(Operator(po, <<>>), args)

----------------------------------------------------------------------------
RECURSIVE transfer_sort(_)
transfer_sort(s) ==
  CASE s.sk = "ARRAY" -> ARRAY(transfer_sort(s.index), transfer_sort(s.elem))
    [] s.sk = "FUNCTION" -> FUNCTION([i \in DOMAIN s.domain |-> transfer_sort(s.domain[i])],
                                     transfer_sort(s.codomain))
    [] OTHER -> make_sort(s)

\* value_from_smt2: a negative number is the negation of a positive one.
value_from_smt2(t) ==
  LET s == transfer_sort(t.sort) IN
  IF t.sort.sk \in {"INT", "REAL"} /\ t.data < 0
  THEN make_op("Negate", <<Value(-t.data, s)>>)
  ELSE Value(t.data, s)

\* cast_value: truth values and bits; constant arrays by their element.  A
\* number that is a value is not cast.
RECURSIVE cast_value(_, _)
cast_value(t, s) ==
  CASE s.sk = "BOOL" /\ t.sort.sk = "BV" ->
         IF t.sort = BV(1) THEN Value(t.data, s) ELSE Throws
    [] s.sk = "BV" /\ t.sort.sk = "BOOL" -> IF s = BV(1) THEN Value(t.data, s) ELSE Throws
    [] s.sk = "ARRAY" /\ t.op.p = "constant array" ->
         LET v == cast_value(t.a[1], s.elem) IN
         IF v = Throws THEN Throws
         ELSE App(Operator("constant array", <<>>), <<v>>, s)
    [] OTHER -> Throws


\* cast_term: how a term that is no value becomes one of sort s.
cast_by(t, s) ==
  CASE s.sk = "BV" /\ t.sort.sk = "BOOL" -> <<"Ite", <<t, Value(1, s), Value(0, s)>>>>
    [] s.sk = "BOOL" /\ t.sort.sk = "BV" -> <<"Equal", <<t, Value(1, t.sort)>>>>
    [] s.sk = "INT" /\ t.sort.sk = "REAL" -> <<"To_Int", <<t>>>>
    [] s.sk = "REAL" /\ t.sort.sk = "INT" -> <<"To_Real", <<t>>>>
    [] OTHER -> <<"none", <<Throws>>>>

cast_term(t, s) ==
  IF t = Throws \/ t.sort = s THEN t
  ELSE IF IsValue(t) THEN cast_value(t, s)
  ELSE make_op(cast_by(t, s)[1], cast_by(t, s)[2])

----------------------------------------------------------------------------
(* cast_op, in the order of its cases.                                     *)

bv_to_bool_ops == [BVAnd |-> "And", BVOr |-> "Or", BVXor |-> "Xor",
                   BVNot |-> "Not", BVComp |-> "Equal"]
bool_to_bv_ops == [And |-> "BVAnd", Or |-> "BVOr", Xor |-> "BVXor",
                   Not |-> "BVNot", Equal |-> "BVComp"]
bv_ops == BvOps \cup BvSame \cup BvComparisons
            \cup {"Concat", "Extract", "BVComp", "Zero_Extend", "Sign_Extend",
                  "Repeat", "BV_To_Nat"}

\* The operator that takes the place of op.
exchanged(op) ==
  CASE op.p \in DOMAIN bv_to_bool_ops -> Operator(bv_to_bool_ops[op.p], <<>>)
    [] op.p \in DOMAIN bool_to_bv_ops -> Operator(bool_to_bv_ops[op.p], <<>>)
    [] OTHER -> op

\* The sorts that arguments of sorts s are cast to.
cast_sorts(po, s) ==
  LET boolean == make_sort(BOOL) IN
  CASE po \in DOMAIN bv_to_bool_ops \cup {"Implies"} -> [i \in DOMAIN s |-> boolean]
    [] po \in DOMAIN bool_to_bv_ops -> [i \in DOMAIN s |-> BV(1)]
    [] po \in bv_ops \ DOMAIN bv_to_bool_ops ->
         [i \in DOMAIN s |-> IF s[i].sk = "BOOL" THEN make_sort(BV(1)) ELSE s[i]]
    [] po = "Ite" -> <<boolean, s[2], s[2]>>
    [] po = "Select" -> <<s[1], s[1].index>>
    [] po = "Store" -> <<s[1], s[1].index, s[1].elem>>
    [] po = "Apply" -> <<s[1]>> \o s[1].domain
    [] OTHER -> <<>>

cast_op(op, args) ==
  LET sorts == cast_sorts(op.p, Sorts(args)) IN
  IF sorts = <<>> THEN Throws
  ELSE make_term(exchanged(op), [i \in DOMAIN args |-> cast_term(args[i], sorts[i])])

----------------------------------------------------------------------------
(* transfer_term: a term after its arguments, each once.                   *)

RECURSIVE PostOrder(_, _)
PostOrder(t, done) ==
  IF t \in ToSet(done) THEN done
  ELSE Append(FoldLeft(LAMBDA d, c : PostOrder(c, d), done, t.a), t)

\* get_symbol, or make_symbol when the target does not know the name.
transferred_symbol(st, t) ==
  IF t.data \in DOMAIN st.symbols THEN Symbol(t.data, st.symbols[t.data])
  ELSE Symbol(t.data, transfer_sort(t.sort))

\* "the sort should already match the expected sort or be castable to the
\* same sort": the assertion about a symbol that is found.
Unexpected(st, t) ==
  LET s == transfer_sort(t.sort)
      c == cast_term(transferred_symbol(st, t), s)
  IN t.op.p = "symbol" /\ t.data \in DOMAIN st.symbols /\ (c = Throws \/ c.sort # s)

\* A constant array wants an element of its own sort, and no array in it.
transferred_array(st, t) ==
  LET s == transfer_sort(t.sort)
      val == st.cache[t.a[1]]
  IN IF s.elem # val.sort \/ val.sort.sk = "ARRAY" THEN Throws
     ELSE App(t.op, <<val>>, s)

rebuilt(st, t) ==
  LET args == [i \in DOMAIN t.a |-> st.cache[t.a[i]]] IN
  IF check_sortedness(t.op, Sorts(args)) THEN make_term(t.op, args)
  ELSE cast_op(t.op, args)

transferred(st, t) ==
  CASE t.op.p = "symbol" -> transferred_symbol(st, t)
    [] t.op.p = "param" -> Leaf("param", t.data, transfer_sort(t.sort))
    [] t.op.p = "value" -> value_from_smt2(t)
    [] t.op.p = "constant array" -> transferred_array(st, t)
    [] OTHER -> rebuilt(st, t)

\* One iteration that visits t for the second time; an exception ends all.
\* A symbol is in the cache before the assertion is evaluated, and stays there.
transfer_step(st, t) ==
  IF t \in DOMAIN st.cache \/ st.failed THEN st
  ELSE LET r == transferred(st, t) IN
       IF r = Throws THEN [st EXCEPT !.failed = TRUE]
       ELSE [st EXCEPT
               !.cache = [u \in DOMAIN @ \cup {t} |-> IF u = t THEN r ELSE @[u]],
               !.symbols = IF t.op.p # "symbol" THEN @
                           ELSE [n \in DOMAIN @ \cup {t.data} |->
                                   IF n = t.data THEN r.sort ELSE @[n]],
               !.failed = Debug /\ Unexpected(st, t)]

TransferAll(t) ==
  FoldLeft(transfer_step, [cache |-> cache, symbols |-> symbols, failed |-> FALSE],
           PostOrder(t, <<>>))

\* transfer_term(term, sk): only Booleans and bits, and numbers, are cast; a
\* string is returned as it is, whatever was asked for.
cast_to_kind(r, sk) ==
  CASE r = Throws -> Throws
    [] r # Throws /\ r.sort.sk = sk -> r
    [] r # Throws /\ r.sort = BV(1) /\ sk = "BOOL" -> cast_term(r, make_sort(BOOL))
    [] r # Throws /\ r.sort.sk = "BOOL" /\ sk = "BV" -> cast_term(r, BV(1))
    [] r # Throws /\ r.sort.sk = "INT" /\ sk = "REAL" -> cast_term(r, REAL)
    [] r # Throws /\ r.sort.sk = "REAL" /\ sk = "INT" -> cast_term(r, INT)
    [] r # Throws /\ r.sort.sk = "STRING" -> r
    [] OTHER -> Throws

----------------------------------------------------------------------------
NoRequest == [term |-> Throws, kind |-> "none", number |-> 0]

Init == /\ source \in Sources /\ aliases \in Targets
        /\ symbols = [n \in {} |-> BOOL] /\ cache = [t \in {} |-> t]
        /\ request = NoRequest /\ answer = Throws

\* The caller declares a symbol in the target before terms arrive.
make_symbol ==
  \E d \in Declarable :
    /\ d[1] \notin DOMAIN symbols
    /\ symbols' = [n \in DOMAIN symbols \cup {d[1]} |->
                     IF n = d[1] THEN make_sort(d[2]) ELSE symbols[n]]
    /\ UNCHANGED <<source, aliases, cache, request, answer>>

transfer_term ==
  \E t \in source :
    LET st == TransferAll(t)
        r == IF st.failed THEN Throws ELSE st.cache[t]
    IN /\ request.number < MaxTransfers
       /\ cache' = st.cache /\ symbols' = st.symbols
       /\ \E sk \in Kinds \cup {"any"} :
            /\ request' = [term |-> t, kind |-> sk, number |-> request.number + 1]
            /\ answer' = IF sk = "any" THEN r ELSE cast_to_kind(r, sk)
       /\ UNCHANGED <<source, aliases>>

Next == make_symbol \/ transfer_term
Spec == Init /\ [][Next]_vars

----------------------------------------------------------------------------
Names(t) == {u.data : u \in {v \in ToSet(PostOrder(t, <<>>)) : v.op.p \in {"symbol", "param"}}}

Constant(v, s) ==
  CASE s.sk = "BOOL" -> Bool(v = 1)
    [] s.sk = "BV" -> Vector(s.width, v)
    [] s.sk = "INT" -> Integer(v)
    [] s.sk = "REAL" -> Rational(v, 2)

\* The k-th value of a sort; a Boolean counts as a bit.
ValueAt(s, k) ==
  CASE s.sk = "BV" -> Vector(s.width, k)
    [] s.sk = "ARRAY" -> [w |-> -2, v |-> [i \in 0..1 |-> (k \div 2^i) % 2]]
    [] s.sk \in {"BOOL", "FUNCTION"} -> Vector(1, k)
    [] s.sk \in {"INT", "REAL"} -> Constant(k - 2, s)

SortsOf(t) ==
  LET leaves == {u \in ToSet(PostOrder(t, <<>>)) : u.op.p \in {"symbol", "param"}}
  IN [n \in Names(t) |-> (CHOOSE u \in leaves : u.data = n).sort]

RECURSIVE Evaluate(_, _, _)
\* t where the symbol n, of the sort the source gives it, has its env[n]-th value.
Evaluate(t, sorts, env) ==
  CASE t.op.p \in {"symbol", "param"} -> ValueAt(sorts[t.data], env[t.data])
    [] t.op.p = "value" -> Constant(t.data, t.sort)
    [] t.op.p = "constant array" ->
         [w |-> -2, v |-> [i \in 0..1 |-> Evaluate(t.a[1], sorts, env).v]]
    [] OTHER -> Meaning(t.op.p, t.op.i,
                        [i \in DOMAIN t.a |-> Evaluate(t.a[i], sorts, env)])

\* A Real asked for as an Int is rounded down.
AsKind(x, s, sk) == IF s = REAL /\ sk = "INT" THEN Integer(Floor(x)) ELSE x

SameMeaning(t, u, sk) ==
  LET sorts == SortsOf(t)
      two == {n \in Names(t) : sorts[n] \in {BOOL, BV(1)}}
  IN \A bits \in [two -> 0..1], others \in [Names(t) \ two -> 0..3] :
    LET env == bits @@ others IN
    SameValue(AsKind(Evaluate(t, sorts, env), t.sort, sk), Evaluate(u, sorts, env))

\* The header of transfer_term: "Bool <-> BV1 and Int <-> Real".
Castable(s, sk) ==
  s.sk = sk \/ (s.sk = "BOOL" /\ sk = "BV") \/ (s = BV(1) /\ sk = "BOOL")
    \/ {s.sk, sk} = {"INT", "REAL"}

\* What the caller declared under the names in t has the sort t gives them, or
\* is a bit for a Boolean or a Boolean for a bit.
SymbolsAgree(t) ==
  \A u \in ToSet(PostOrder(t, <<>>)) :
    u.op.p = "symbol" /\ u.data \in DOMAIN symbols =>
      LET sorts == {symbols[u.data], transfer_sort(u.sort)} IN
      Cardinality(sorts) = 1 \/ sorts = {BOOL, BV(1)}

\* A number that came out as a value, asked for as the other kind of number.
NumberRefused ==
  {request.term.sort.sk, request.kind} = {"INT", "REAL"} /\ IsValue(cache[request.term])


\* "for now, only supports Bool <-> BV1 and Int <-> Real, will throw an
\* exception if something else is requested" (term_translator.h): what can be
\* cast is cast.
CastsSupported ==
  request.number > 0 /\ SymbolsAgree(request.term) /\ answer = Throws
    => ~Castable(request.term.sort, request.kind)

\* "make sure the sort is as-expected and cast if not" (term_translator.cpp).
SortAsExpected ==
  (request.number > 0 /\ answer # Throws /\ request.kind = "any")
    => answer.sort = transfer_sort(request.term.sort)
=============================================================================
