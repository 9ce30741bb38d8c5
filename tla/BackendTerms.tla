---------------------------- MODULE BackendTerms ----------------------------
(***************************************************************************)
(* make_term(Op, ...) of the six back ends, and the traversal that takes a *)
(* term apart again: Term::get_op, iteration, and the make_term overload   *)
(* for vectors, which is how walkers, substitution and TermTranslator      *)
(* rebuild terms (btor/, bitwuzla/, cvc5/, msat/, yices2/, z3/).           *)
(*                                                                         *)
(* A client calls the overload for one, two or three terms ("each") or the *)
(* one for a vector.  Every back end dispatches by its own tables, folds   *)
(* what its solver only has for two arguments, and composes what it lacks. *)
(* A term of a wrapped solver is a tree whose nodes n are named by the     *)
(* operator the solver's function computes (boolector_and is "BVAnd"); a   *)
(* throw of the back end, and a refusal of the wrapped solver, is Throws.  *)
(***************************************************************************)
EXTENDS SmtLibMeaning, FiniteSets, TLC
LOCAL INSTANCE SequencesExt

CONSTANTS
  Backends,       \* a subset of the names below
  Signatures,     \* the calls: [op, idx, sorts], sorts those of the arguments
  Leaf(_)         \* the symbols, constants and parameters of a sort

ASSUME BackendsAssumption ==
  Backends \subseteq {"btor", "bitwuzla", "cvc5", "msat", "yices2", "z3"}

VARIABLES
  call,           \* [backend, shape, op, idx, terms]: the call of the client
  made,           \* what make_term returned
  rebuilt         \* what the traversal of made returned

vars == <<call, made, rebuilt>>

Throws == [n |-> "throws", i |-> <<>>, a |-> <<>>]
None == [n |-> "none", i |-> <<>>, a |-> <<>>]
IsNode(t) == t.n \notin {"throws", "none"}
Leaves == {"symbol", "value", "param", "function"}

(* the functions of the wrapped solvers that refuse the sort Int or Bool   *)
IllSorted == {"fpa_abs", "fpa_to_real", "fpa_round_to_integral", "str_to_int"}

Node(n, i, a) ==
  IF n \in IllSorted \/ \E j \in DOMAIN a : a[j].n = "throws" THEN Throws
  ELSE [n |-> n, i |-> i, a |-> a]
Fun(n, a) == Node(n, <<>>, a)
Fun2(n, x, y) == Fun(n, <<x, y>>)
Value(x) == [n |-> "value", i |-> x, a |-> <<>>]

RECURSIVE Eval(_, _)
Eval(t, params) ==
  LET a == [j \in DOMAIN t.a |-> Eval(t.a[j], params)]
      last == Len(t.a) IN
  CASE t.n \in {"symbol", "value", "function"} -> t.i
    [] t.n = "param"  -> IF t.i \in DOMAIN params THEN params[t.i] ELSE Vector(1, 0)
    [] t.n \in {"Forall", "Exists"} ->
         LET Bound == {t.a[j].i : j \in 1 .. last - 1}
             Holds(p) == Eval(t.a[last], p @@ params).v = 1
             Bindings == [Bound -> {Vector(1, 0), Vector(1, 1)}]
         IN  IF t.n = "Forall" THEN Bool(\A p \in Bindings : Holds(p))
                               ELSE Bool(\E p \in Bindings : Holds(p))
    [] OTHER -> Meaning(t.n, t.i, a)
ValueOf(t) == Eval(t, <<>>)
WidthOf(t) == Bits(ValueOf(t))
-----------------------------------------------------------------------------
(* ops.h, ops.cpp: the operators *)

variadic_ops == {"And", "Or", "Xor", "Plus", "Mult", "BVAnd", "BVOr", "BVAdd"}
is_variadic(op) == op \in variadic_ops
BVArithmetic == {"BVAdd", "BVSub", "BVMul", "BVUdiv", "BVSdiv", "BVUrem",
                 "BVSrem", "BVSmod", "BVShl", "BVAshr", "BVLshr"}
BVBitwise == {"BVAnd", "BVOr", "BVXor", "BVNand", "BVNor", "BVXnor"}
BVRelations == {"BVUlt", "BVUle", "BVUgt", "BVUge", "BVSlt", "BVSle", "BVSgt", "BVSge"}
BVBinary == BVArithmetic \cup BVBitwise \cup BVRelations \cup {"Concat", "BVComp"}
BVIndexed == {"Extract", "Zero_Extend", "Sign_Extend", "Repeat", "Rotate_Left", "Rotate_Right"}
Order == {"Lt", "Le", "Gt", "Ge"}
IntBinary == Order \cup {"Plus", "Minus", "Mult", "Div", "IntDiv", "Mod", "Pow"}
Quantifiers == {"Forall", "Exists"}
Same(S) == [op \in S |-> op]

(* a function of two arguments applied to a vector from the left *)
Folded(Two(_, _), a) == FoldLeft(Two, a[1], Tail(a))
(* quantifiers bound one at a time, from the back *)
Nested(q, a) == FoldRight(LAMBDA p, body : Fun(q, <<p, body>>), Front(a), Last(a))

(* solver_utils.cpp: And over the ordered pairs of the terms *)
OrderedPairs(a) ==
  LET n == Len(a)
      Pair(k) == <<a[1 + ((k - 1) \div (n - 1))],
                   LET i == 1 + ((k - 1) \div (n - 1))
                       j == 1 + ((k - 1) % (n - 1)) IN a[IF j < i THEN j ELSE j + 1]>>
  IN  [k \in 1 .. n * (n - 1) |-> Pair(k)]
make_distinct(Two(_, _), Vec(_), a) ==
  Vec([k \in DOMAIN OrderedPairs(a) |-> Two(OrderedPairs(a)[k][1], OrderedPairs(a)[k][2])])
-----------------------------------------------------------------------------
(* Boolector: booleans are one-bit vectors *)

boolector_unary == [Not |-> "BVNot", BVNot |-> "BVNot", BVNeg |-> "BVNeg"]
boolector_binary ==
  [And |-> "BVAnd", Or |-> "BVOr", Xor |-> "BVXor", BVComp |-> "Equal"]
    @@ Same(BVBinary \cup {"Implies", "Equal", "Distinct", "Select"})
boolector_ternary == Same({"Ite", "Store"})

(* a slice from high to low; Boolector aborts on one that is empty *)
boolector_slice(t, high, low) ==
  IF low <= high /\ high < WidthOf(t) THEN Node("Extract", <<high, low>>, <<t>>) ELSE Throws

custom_boolector_rotate_left(t, n) ==
  IF n = 0 \/ WidthOf(t) = 1 THEN Node("Zero_Extend", <<0>>, <<t>>)
  ELSE Fun("Concat", <<boolector_slice(t, WidthOf(t) - n - 1, 0),
                       boolector_slice(t, WidthOf(t) - 1, WidthOf(t) - n)>>)
(* mutant: the slices in the order of a rotation to the left *)
rotate_right_swapped(t, n) ==
  IF n = 0 \/ WidthOf(t) = 1 THEN Node("Zero_Extend", <<0>>, <<t>>)
  ELSE Fun("Concat", <<boolector_slice(t, WidthOf(t) - 1, n), boolector_slice(t, n - 1, 0)>>)

custom_boolector_rotate_right(t, n) ==
  IF n = 0 \/ WidthOf(t) = 1 THEN Node("Zero_Extend", <<0>>, <<t>>)
  ELSE Fun("Concat", <<boolector_slice(t, n - 1, 0),
                       boolector_slice(t, WidthOf(t) - 1, n)>>)

boolector_one(op, i, t) ==
  CASE op \in Quantifiers -> Throws
    [] i = <<>> /\ op \in DOMAIN boolector_unary -> Fun(boolector_unary[op], <<t>>)
    [] i # <<>> /\ op = "Extract" -> boolector_slice(t, i[1], i[2])
    [] i # <<>> /\ op \in {"Zero_Extend", "Sign_Extend", "Repeat"} -> Node(op, i, <<t>>)
    [] i # <<>> /\ op = "Rotate_Left" -> custom_boolector_rotate_left(t, i[1])
    [] i # <<>> /\ op = "Rotate_Right" -> custom_boolector_rotate_right(t, i[1])
    [] OTHER -> Throws

boolector_two(op, x, y) ==
  CASE op \in Quantifiers \cup {"Apply"} -> Fun(op, <<x, y>>)
    [] op \in DOMAIN boolector_binary -> Fun(boolector_binary[op], <<x, y>>)
    [] OTHER -> Throws

boolector_three(op, a) ==
  IF op \in Quantifiers \cup {"Apply"} \cup DOMAIN boolector_ternary THEN Fun(op, a)
  ELSE Throws

RECURSIVE boolector_vector(_, _)
boolector_vector(op, a) ==
  CASE Len(a) = 2 -> boolector_two(op, a[1], a[2])
    [] Len(a) = 3 /\ op \in DOMAIN boolector_ternary -> boolector_three(op, a)
    [] Len(a) > 2 /\ is_variadic(op) ->
         IF op \in DOMAIN boolector_binary
         THEN Folded(LAMBDA x, y : Fun(boolector_binary[op], <<x, y>>), a) ELSE Throws
    [] Len(a) > 2 /\ op \in Quantifiers \cup {"Apply"} -> Fun(op, a)
    [] Len(a) > 2 /\ op = "Distinct" ->
         make_distinct(LAMBDA x, y : boolector_two("Distinct", x, y),
                       LAMBDA v : boolector_vector("And", v), a)
    [] OTHER -> Throws

(* apply_prim_op of every overload; an indexed operator takes one term *)
boolector_make_term(shape, op, i, a) ==
  CASE Len(a) = 1 -> boolector_one(op, i, a[1])
    [] Len(a) > 1 /\ i # <<>> -> Throws
    [] Len(a) = 2 /\ i = <<>> -> boolector_two(op, a[1], a[2])
    [] Len(a) = 3 /\ i = <<>> /\ shape = "each" -> boolector_three(op, a)
    [] OTHER -> boolector_vector(op, a)
-----------------------------------------------------------------------------
(* cvc5 and Bitwuzla: every overload hands all terms to the solver, which  *)
(* checks their number                                                     *)

NativelyMany == {"And", "Or", "Xor", "Implies", "Plus", "Mult", "Minus", "Equal",
                 "Distinct", "Concat", "BVAnd", "BVOr", "BVXor", "BVAdd", "BVMul", "Apply"}
NativelyOne == BVIndexed \cup {"Not", "Negate", "Abs", "To_Real", "To_Int", "Is_Int",
                               "BVNot", "BVNeg", "BV_To_Nat", "Int_To_BV"}
TakesMany(op, n) ==
  CASE op \in NativelyOne -> n = 1
    [] op \in {"Ite", "Store"} -> n = 3
    [] op \in NativelyMany -> n >= 2
    [] OTHER -> n = 2
Checked(op, i, a) == IF TakesMany(op, Len(a)) THEN Node(op, i, a) ELSE Throws

primop2kind ==
  BVBinary \cup BVIndexed \cup IntBinary \cup NativelyOne \cup NativelyMany
    \cup Quantifiers \cup {"Ite", "Select", "Store"}
cvc5_make_term(shape, op, i, a) ==
  IF op \in Quantifiers THEN Nested(op, a)
  ELSE IF op \in primop2kind THEN Checked(op, i, a) ELSE Throws

op2bkind ==
  BVBinary \cup BVIndexed \cup Quantifiers
    \cup {"And", "Or", "Xor", "Not", "Implies", "Ite", "Equal", "Distinct", "Apply",
          "BVNot", "BVNeg", "Select", "Store"}
bitwuzla_make_term(shape, op, i, a) ==
  CASE op \notin op2bkind -> Throws
    [] op \in op2bkind /\ op \in Quantifiers -> Fun(op, a)
    [] OTHER -> Checked(op, i, a)
-----------------------------------------------------------------------------
(* MathSAT (msat_extensions.cpp): what it lacks is composed *)

Number(n) == Value(Integer(n))
Negated(t) == Fun("Not", <<t>>)
ext_msat_make_negate(t) == Fun("Mult", <<Number(-1), t>>)
ext_msat_make_abs(t) ==
  Fun("Ite", <<Fun2("Le", t, Number(-1)), ext_msat_make_negate(t), t>>)

ext_msat_make_intdiv(x, y) ==
  LET floor == Fun("To_Int", <<Fun2("Div", x, y)>>)
      ceil == Fun2("Plus", floor, Number(1))
  IN  IF y.n = "value" THEN (IF Floor(y.i) >= 0 THEN floor ELSE ceil)
      ELSE Fun("Ite", <<Fun2("Le", y, Number(0)), floor, ceil>>)

ext_msat_make_ite(c, x, y) ==
  CASE ValueOf(c).w # -1 \/ ValueOf(x).w # ValueOf(y).w -> Throws
    [] ValueOf(c).w = -1 /\ ValueOf(x).w = -1 ->
         Fun2("Or", Fun2("And", c, x), Fun2("And", Negated(c), y))
    [] OTHER -> Fun("Ite", <<c, x, y>>)

ext_msat_make_bv_smod(s, t) ==
  LET w == WidthOf(s)
      Top(x, bit) == Fun2("Equal", Node("Extract", <<w - 1, w - 1>>, <<x>>),
                                    Value(Vector(1, bit)))
      Abs(x) == Fun("Ite", <<Top(x, 0), x, Fun("BVNeg", <<x>>)>>)
      u == Fun2("BVUrem", Abs(s), Abs(t))
      Signs(x, y) == Fun2("And", Top(s, x), Top(t, y))
  IN  Fun("Ite", <<Fun2("Equal", u, Value(Vector(w, 0))), u,
      Fun("Ite", <<Signs(0, 0), u,
      Fun("Ite", <<Signs(1, 0), Fun2("BVAdd", Fun("BVNeg", <<u>>), t),
      Fun("Ite", <<Signs(0, 1), Fun2("BVAdd", u, t), Fun("BVNeg", <<u>>)>>)>>)>>)>>)

(* the argument is repeated by concatenation; a repetition 0 times is once *)
Repeated(n, t) == FoldLeft(LAMBDA r, k : Fun2("Concat", t, r), t, [k \in 1 .. n - 1 |-> k])

(* Bool arguments of an uninterpreted function become one-bit vectors *)
ext_msat_make_uf(a) ==
  LET Bit(t) == IF ValueOf(t).w = -1
                THEN Fun("Ite", <<t, Value(Vector(1, 1)), Value(Vector(1, 0))>>) ELSE t
  IN  Fun("Apply", <<a[1]>> \o [j \in 1 .. Len(a) - 1 |-> Bit(a[j + 1])])

msat_one(op, i, t) ==
  CASE i = <<>> /\ op \in {"Not", "To_Int", "BVNot", "BVNeg", "BV_To_Nat"} -> Fun(op, <<t>>)
    [] i = <<>> /\ op = "Negate"  -> ext_msat_make_negate(t)
    [] i = <<>> /\ op = "Abs"     -> ext_msat_make_abs(t)
    [] i = <<>> /\ op = "To_Real" -> t
    [] i = <<>> /\ op = "Is_Int"  -> Fun2("Equal", t, Fun("To_Int", <<t>>))
    [] i # <<>> /\ op = "Repeat"  -> Repeated(i[1], t)
    [] i # <<>> /\ op \in (BVIndexed \ {"Repeat"}) \cup {"Int_To_BV"} -> Node(op, i, <<t>>)
    [] OTHER -> Throws

msat_native_binary ==
  (BVArithmetic \ {"BVSmod"}) \cup {"BVAnd", "BVOr", "BVXor", "BVComp", "Concat",
   "BVUlt", "BVUle", "BVSlt", "BVSle", "And", "Or", "Equal", "Plus", "Mult", "Div",
   "Le", "Pow", "Select", "Forall", "Exists"}
msat_complements ==   \* an operator made as the negation of another
  [Distinct |-> "Equal", Gt |-> "Le", BVUgt |-> "BVUle", BVUge |-> "BVUlt",
   BVSgt |-> "BVSle", BVSge |-> "BVSlt"]
msat_bv_complements == [BVNand |-> "BVAnd", BVNor |-> "BVOr", BVXnor |-> "BVXor"]

ext_msat_make_minus(x, y) == Fun2("Plus", x, ext_msat_make_negate(y))
msat_binary(op, x, y) ==
  CASE op \in msat_native_binary -> Fun2(op, x, y)
    [] op \in DOMAIN msat_complements -> Negated(Fun2(msat_complements[op], x, y))
    [] op \in DOMAIN msat_bv_complements ->
         Fun("BVNot", <<Fun2(msat_bv_complements[op], x, y)>>)
    [] op = "Xor"     -> Fun2("And", Fun2("Or", x, y), Negated(Fun2("And", x, y)))
    [] op = "Implies" -> Fun2("Or", Negated(x), y)
    [] op = "Minus"   -> ext_msat_make_minus(x, y)
    [] op = "Lt"      -> Negated(Fun2("Le", y, x))
    [] op = "Ge"      -> Fun2("Le", y, x)
    [] op = "IntDiv"  -> ext_msat_make_intdiv(x, y)
    [] op = "Mod"     -> ext_msat_make_minus(x, Fun2("Mult", y, ext_msat_make_intdiv(x, y)))
    [] op = "BVSmod"  -> ext_msat_make_bv_smod(x, y)
    [] OTHER -> Throws

msat_two(op, x, y) ==
  IF op = "Apply" THEN (IF x.n = "function" THEN ext_msat_make_uf(<<x, y>>) ELSE Throws)
  ELSE msat_binary(op, x, y)

msat_three(op, a) ==
  CASE op = "Ite" -> ext_msat_make_ite(a[1], a[2], a[3])
    [] op = "Store" -> Fun("Store", a)
    [] op = "Apply" /\ a[1].n = "function" -> ext_msat_make_uf(a)
    [] op \in Quantifiers -> Fun2(op, a[1], Fun2(op, a[2], a[3]))
    [] OTHER -> Throws

RECURSIVE msat_vector(_, _)
msat_vector(op, a) ==
  CASE Len(a) = 2 -> msat_two(op, a[1], a[2])
    [] Len(a) = 3 /\ op \in {"Ite", "Store"} -> msat_three(op, a)
    [] Len(a) > 2 /\ op = "Apply" ->
         IF a[1].n = "function" THEN ext_msat_make_uf(a) ELSE Throws
    [] Len(a) > 2 /\ is_variadic(op) -> Folded(LAMBDA x, y : msat_binary(op, x, y), a)
    [] Len(a) > 2 /\ op \in Quantifiers -> Nested(op, a)
    [] Len(a) > 2 /\ op = "Distinct" ->
         make_distinct(LAMBDA x, y : msat_two("Distinct", x, y),
                       LAMBDA v : msat_vector("And", v), a)
    [] OTHER -> Throws

(* the vector overload folds, nests and pairs whatever the indices are *)
msat_make_term(shape, op, i, a) ==
  CASE Len(a) = 1 -> msat_one(op, i, a[1])
    [] i # <<>> /\ (Len(a) = 2 \/ (Len(a) = 3 /\ shape = "each")) -> Throws
    [] Len(a) = 3 /\ shape = "each" /\ i = <<>> -> msat_three(op, a)
    [] OTHER -> msat_vector(op, a)
-----------------------------------------------------------------------------
(* Z3 *)

z3_unary ==
  [Abs |-> "fpa_abs", To_Real |-> "fpa_to_real", To_Int |-> "str_to_int"]
    @@ Same({"Not", "Negate", "Is_Int", "BVNot", "BVNeg"})
z3_binary ==
  [To_Int |-> "fpa_round_to_integral",
   Rotate_Left |-> "ext_rotate_left", Rotate_Right |-> "ext_rotate_right"]
    @@ Same(BVBinary \cup Order \cup {"Xor", "Implies", "Pow", "IntDiv", "Div", "Mod",
                                      "Equal", "Select"})
z3_variadic_ops == {"And", "Or", "Plus", "Minus", "Mult", "Distinct"}

(* Z3_mk_div is IntDiv or Div by the sort; ext_Z3_mk_bvcomp is an Ite *)
Z3Fun(n, a) ==
  IF n = "BVComp"
  THEN Fun("Ite", <<Fun("Equal", a), Value(Vector(1, 1)), Value(Vector(1, 0))>>)
  ELSE Fun(n, a)

(* the index is read whether the operator has one or not: garbage without  *)
z3_one(op, i, t, garbage) ==
  CASE t.n = "function" -> Throws
    [] op \in BVIndexed \cup {"Int_To_BV"} -> Node(op, IF i = <<>> THEN <<garbage>> ELSE i, <<t>>)
    [] op = "BV_To_Nat" -> Fun(op, <<t>>)
    [] i = <<>> /\ op \in DOMAIN z3_unary -> Fun(z3_unary[op], <<t>>)
    [] OTHER -> Throws

z3_apply(a) ==
  IF a[1].n = "function" /\ \A j \in 2 .. Len(a) : a[j].n # "function" THEN Fun("Apply", a)
  ELSE Throws

z3_two(op, x, y) ==
  CASE "function" \in {x.n, y.n} -> IF op = "Apply" THEN z3_apply(<<x, y>>) ELSE Throws
    [] "function" \notin {x.n, y.n} /\ op \in DOMAIN z3_binary -> Z3Fun(z3_binary[op], <<x, y>>)
    [] "function" \notin {x.n, y.n} /\ op \in z3_variadic_ops \cup Quantifiers -> Fun(op, <<x, y>>)
    [] OTHER -> Throws

z3_three(op, a) ==
  CASE \E j \in 1 .. 3 : a[j].n = "function" -> IF op = "Apply" THEN z3_apply(a) ELSE Throws
    [] \A j \in 1 .. 3 : a[j].n # "function" ->
         IF op \in {"Ite", "Store"} \cup z3_variadic_ops \cup Quantifiers THEN Fun(op, a)
         ELSE Throws

RECURSIVE z3_vector(_, _)
z3_vector(op, a) ==
  CASE op = "Apply" -> z3_apply(a)
    [] op \in Quantifiers -> Fun(op, a)
    [] op \notin Quantifiers \cup {"Apply"} /\ Len(a) = 2 -> z3_two(op, a[1], a[2])
    [] Len(a) = 3 /\ op \in {"Ite", "Store"} -> z3_three(op, a)
    [] Len(a) > 2 /\ is_variadic(op) ->
         IF op \in z3_variadic_ops THEN Fun(op, a)
         ELSE Folded(LAMBDA x, y : Z3Fun(z3_binary[op], <<x, y>>), a)
    [] Len(a) > 2 /\ op = "Distinct" ->
         make_distinct(LAMBDA x, y : z3_two("Distinct", x, y),
                       LAMBDA v : z3_vector("And", v), a)
    [] OTHER -> Throws

z3_make_term(shape, op, i, a, garbage) ==
  CASE Len(a) = 1 -> z3_one(op, i, a[1], garbage)
    [] i # <<>> /\ (Len(a) = 2 \/ (Len(a) = 3 /\ shape = "each")) -> Throws
    [] Len(a) = 3 /\ shape = "each" /\ i = <<>> -> z3_three(op, a)
    [] OTHER -> z3_vector(op, a)
-----------------------------------------------------------------------------
(* Yices2: no parameters, hence no quantifiers *)

yices_unary_ops == Same({"Not", "Negate", "Abs", "To_Int", "Is_Int", "BVNot", "BVNeg"})
yices_binary_ops ==
  Same(BVBinary \cup (IntBinary \ {"Pow"})
         \cup {"And", "Or", "Xor", "Implies", "Equal", "Select", "Apply"})
yices_ternary_ops ==
  Same({"And", "Or", "Xor", "Ite", "BVAnd", "BVOr", "BVXor", "Apply", "Store"})
yices_variadic_ops == {"And", "Or", "Xor", "Distinct"}

(* Int_To_BV makes a constant as wide as the number of the term, which is  *)
(* never 0, and whose value is the index                                   *)
yices2_one(op, i, t, handle) ==
  CASE i # <<>> /\ op \in BVIndexed -> Node(op, i, <<t>>)
    [] i # <<>> /\ op = "Int_To_BV" -> Value(Vector(handle + 1, i[1]))
    [] i = <<>> /\ op \in DOMAIN yices_unary_ops -> Fun(yices_unary_ops[op], <<t>>)
    [] OTHER -> Throws

(* yices_power takes a machine integer: the exponent has to be a value     *)
yices2_two(op, x, y) ==
  CASE op \in DOMAIN yices_binary_ops -> Fun(yices_binary_ops[op], <<x, y>>)
    [] op = "Distinct" -> Fun(op, <<x, y>>)
    [] op = "Pow" /\ y.n = "value" -> Fun(op, <<x, y>>)
    [] OTHER -> Throws

yices2_three(op, a) ==
  CASE op \in DOMAIN yices_ternary_ops -> Fun(yices_ternary_ops[op], a)
    [] op = "Distinct" -> Fun(op, a)
    [] op = "Plus" -> Fun2(op, a[1], Fun2(op, a[2], a[3]))
    [] OTHER -> Throws

(* mutant: a vector goes to the functions for three and for n terms only *)
yices2_vector_unfolded(op, a) ==
  CASE Len(a) = 2 -> yices2_two(op, a[1], a[2])
    [] Len(a) = 3 -> yices2_three(op, a)
    [] OTHER -> IF op \in yices_variadic_ops \cup {"Apply"} THEN Fun(op, a) ELSE Throws

yices2_vector(op, a) ==
  CASE Len(a) = 2 -> yices2_two(op, a[1], a[2])
    [] Len(a) = 3 /\ op \in DOMAIN yices_ternary_ops -> yices2_three(op, a)
    [] Len(a) > 3 /\ op = "Apply" -> IF a[1].n = "function" THEN Fun(op, a) ELSE Throws
    [] Len(a) > 2 /\ op \notin DOMAIN yices_ternary_ops /\ is_variadic(op) ->
         Folded(LAMBDA x, y : Fun(yices_binary_ops[op], <<x, y>>), a)
    [] Len(a) > 3 /\ op \in DOMAIN yices_ternary_ops /\ is_variadic(op) ->
         IF op \in yices_variadic_ops THEN Fun(op, a)
         ELSE Folded(LAMBDA x, y : Fun(yices_binary_ops[op], <<x, y>>), a)
    [] Len(a) > 2 /\ op = "Distinct" -> Fun(op, a)
    [] OTHER -> Throws

yices2_make_term(shape, op, i, a, handle) ==
  CASE Len(a) = 1 -> yices2_one(op, i, a[1], handle)
    [] i # <<>> /\ (Len(a) = 2 \/ (Len(a) = 3 /\ shape = "each")) -> Throws
    [] Len(a) = 3 /\ shape = "each" /\ i = <<>> -> yices2_three(op, a)
    [] OTHER -> yices2_vector(op, a)
-----------------------------------------------------------------------------
Unread == {0, 1}       \* what an index nobody set, a term's number, may be

make_term(b, shape, op, i, a, unread) ==
  CASE b = "btor"     -> boolector_make_term(shape, op, i, a)
    [] b = "bitwuzla" -> bitwuzla_make_term(shape, op, i, a)
    [] b = "cvc5"     -> cvc5_make_term(shape, op, i, a)
    [] b = "msat"     -> msat_make_term(shape, op, i, a)
    [] b = "yices2"   -> yices2_make_term(shape, op, i, a, unread)
    [] b = "z3"       -> z3_make_term(shape, op, i, a, unread)

(* *_term.cpp: the kinds get_op knows; the others throw.  Boolector only   *)
(* has these: what other functions return it has rewritten into them.      *)
boolector_kinds ==
  {"BVAnd", "Equal", "BVAdd", "BVMul", "BVUlt", "BVShl", "BVLshr", "BVUdiv", "BVUrem",
   "Concat", "Extract", "Apply", "Ite", "Store", "Select", "Forall", "Exists", "BVNot"}
msat_kinds ==
  (BVArithmetic \ {"BVSmod"}) \cup (BVIndexed \ {"Repeat"}) \cup Quantifiers
    \cup {"BVAnd", "BVOr", "BVXor", "BVComp", "Concat", "BVUlt", "BVUle", "BVSlt", "BVSle",
          "BVNot", "BVNeg", "And", "Or", "Not", "Equal", "Ite", "Apply", "Le", "Plus",
          "Mult", "Div", "Select", "Store", "To_Int", "BV_To_Nat", "Int_To_BV"}
kind2primop == primop2kind \ {"IntDiv"}
z3_kinds ==
  DOMAIN z3_binary \cup z3_variadic_ops \cup BVIndexed \cup Quantifiers
    \cup {"Not", "Negate", "Is_Int", "BVNot", "BVNeg", "Ite", "Store", "BV_To_Nat",
          "Int_To_BV", "Apply"}
Kinds(b) ==
  CASE b = "btor" -> boolector_kinds
    [] b = "bitwuzla" -> op2bkind
    [] b = "cvc5" -> kind2primop
    [] b = "msat" -> msat_kinds
    [] b = "z3" -> z3_kinds
    [] b = "yices2" -> {}

(* mutant: the index of an extension is forgotten too *)
get_op_index_dropped(b, t) ==
  IF b = "z3" /\ t.n \in {"Rotate_Left", "Rotate_Right", "Zero_Extend"} THEN <<>> ELSE t.i

(* get_op: Z3 forgets the index of a rotation *)
get_op_index(b, t) ==
  IF b = "z3" /\ t.n \in {"Rotate_Left", "Rotate_Right"} THEN <<>> ELSE t.i

(* Z3 cannot iterate over a quantifier *)
children(b, t) == IF b = "z3" /\ t.n \in Quantifiers THEN <<Throws>> ELSE t.a

rebuild(b, t, unread) ==
  CASE t.n \in Leaves -> t
    [] t.n \in Kinds(b) /\ children(b, t) # <<Throws>> ->
         make_term(b, "vector", t.n, get_op_index(b, t), children(b, t), unread)
    [] OTHER -> Throws
-----------------------------------------------------------------------------
Shapes == {"each", "vector"}

Arguments(sorts) ==
  FoldRight(LAMBDA s, rest : {<<x>> \o r : x \in Leaf(s), r \in rest}, sorts, {<<>>})

Init ==
  /\ \E b \in Backends, shape \in Shapes, use \in Signatures :
       /\ shape = "each" => Len(use.sorts) <= 3
       /\ \E terms \in Arguments(use.sorts) :
            call = [backend |-> b, shape |-> shape, op |-> use.op, idx |-> use.idx,
                    terms |-> terms]
  /\ made = None /\ rebuilt = None

MakeTerm ==
  /\ made = None
  /\ \E unread \in Unread :
       made' = make_term(call.backend, call.shape, call.op, call.idx, call.terms, unread)
  /\ UNCHANGED <<call, rebuilt>>

(* a walker: get_op, the children, make_term; not with Yices2 *)
Traverse ==
  /\ IsNode(made) /\ rebuilt = None
  /\ call.backend # "yices2"
  /\ call.backend = "btor" => made.n \in boolector_kinds \cup Leaves
  /\ \E unread \in Unread : rebuilt' = rebuild(call.backend, made, unread)
  /\ UNCHANGED <<call, made>>

Next == MakeTerm \/ Traverse

Spec == Init /\ [][Next]_vars
-----------------------------------------------------------------------------
Asked == Eval([n |-> call.op, i |-> call.idx, a |-> call.terms], <<>>)

(* MathSAT's quotient: right for a constant divisor that is positive, or   *)
(* negative and no divisor of the dividend                                 *)
QuotientRight ==
  call.terms[2].n = "value" /\ LET d == Floor(call.terms[2].i) IN
    d > 0 \/ Floor(call.terms[1].i) % (-d) # 0
KnownWrong ==
  \/ call.backend = "msat" /\ call.op \in {"IntDiv", "Mod"} /\ ~QuotientRight
  \/ call.backend = "yices2" /\ call.op = "Int_To_BV"

(* A term make_term returns has the value SMT-LIB gives the operator on    *)
(* the values of the arguments, whichever overload made it and however the *)
(* back end folded, nested, paired or composed it (MathSAT's IntDiv and    *)
(* Mod and Yices2's Int_To_BV apart).                                      *)
Means == IsNode(made) /\ ~KnownWrong => SameValue(ValueOf(made), Asked)

(* Integer division in every back end, as the name of the operator says    *)
(* (README.md: operator names are SMT-LIB's).                              *)
IntDivMeans ==
  IsNode(made) /\ call.op \in {"IntDiv", "Mod"} => SameValue(ValueOf(made), Asked)

(* ops.h: an operator of variadic_ops can be applied to n arguments: a     *)
(* back end that has it for two takes a vector of more.                    *)
VariadicAccepted ==
  /\ made # None /\ call.shape = "vector" /\ Len(call.terms) > 2 /\ is_variadic(call.op)
  /\ make_term(call.backend, "each", call.op, <<>>, SubSeq(call.terms, 1, 2), 0) # Throws
  => made # Throws

(* What a walker rebuilds from get_op, the children and the vector         *)
(* overload has the value of the term it took apart (Z3's rotations, whose *)
(* index get_op drops, apart), and what cannot be rebuilt is known: a      *)
(* quantifier of Z3 (no iteration), a difference of three terms in Z3 (the *)
(* vector overload refuses what the one for three terms makes), an IntDiv  *)
(* of cvc5 and a Pow of MathSAT (get_op does not know them).               *)
NotRebuilt ==
  LET At(b, S) == call.backend = b /\ made.n \in S IN
  \/ At("z3", Quantifiers) \/ (At("z3", {"Minus"}) /\ Len(made.a) = 3)
  \/ At("cvc5", {"IntDiv"}) \/ At("msat", {"Pow"})
RotationLost == call.backend = "z3" /\ made.n \in {"Rotate_Left", "Rotate_Right"}
RoundTrip ==
  rebuilt # None =>
    /\ rebuilt = Throws <=> NotRebuilt
    /\ IsNode(rebuilt) /\ ~RotationLost => SameValue(ValueOf(rebuilt), ValueOf(made))

(* README.md: without term logging a solver "relies on the underlying      *)
(* solver for term traversal and querying a term for the Sort or Op": the  *)
(* Op read from a term makes the same term of its children again.          *)
RotationRebuilt ==
  IsNode(made) /\ IsNode(rebuilt) => SameValue(ValueOf(rebuilt), ValueOf(made))
=============================================================================
