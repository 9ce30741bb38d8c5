---------------------------- MODULE SortInference ----------------------------
(***************************************************************************)
(* sort_inference.cpp, with the arities of ops.cpp: whether an operator    *)
(* takes terms of given sorts, and the sort it gives.  LoggingSolver and   *)
(* GenericSolver give their terms the sort computed here, and              *)
(* TermTranslator casts what the check refuses.                            *)
(***************************************************************************)
EXTENDS Naturals, Sequences, FiniteSets, SmtLibSorts

INT_MAX == 2147483647

Unary == {"Not", "Negate", "To_Real", "To_Int", "Is_Int", "Extract", "BVNot", "BVNeg",
          "Zero_Extend", "Sign_Extend", "Repeat", "Rotate_Left", "Rotate_Right",
          "BV_To_Nat", "Int_To_BV", "StrLen", "StrIsDigit"}
Ternary == {"Ite", "StrSubstr", "StrIndexof", "StrReplace", "StrReplaceAll", "Store"}
Nary == {"Apply", "StrConcat", "Apply_Constructor"}

\* primop2arity: the least and the greatest number of arguments.
get_arity(po) == CASE po \in Unary -> <<1, 1>> [] po \in Ternary -> <<3, 3>>
                   [] po \in Nary -> <<2, INT_MAX>> [] OTHER -> <<2, 2>>

----------------------------------------------------------------------------
\* No call has more arguments than an int can count.
AreSorts(s) == IsSequence(s) /\ Len(s) <= INT_MAX /\ \A k \in DOMAIN s : IsSort(s[k])

check_sortkind_matches(sk, s) == \A k \in DOMAIN s : s[k].sk = sk
check_one_of_sortkinds(sks, s) == \A k \in DOMAIN s : s[k].sk \in sks
equal_sorts(s) == \A k \in DOMAIN s : s[k] = s[1]

bool_sorts(s) == check_sortkind_matches("BOOL", s)
bv_sorts(s) == check_sortkind_matches("BV", s)
eq_bv_sorts(s) == s[1].sk = "BV" /\ equal_sorts(s)
int_sorts(s) == check_sortkind_matches("INT", s)
real_sorts(s) == check_sortkind_matches("REAL", s)
string_sorts(s) == check_sortkind_matches("STRING", s)
arithmetic_sorts(s) == check_one_of_sortkinds({"INT", "REAL"}, s)
arith_equal_sorts(s) == equal_sorts(s) \/ arithmetic_sorts(s)

check_ite_sorts(s) == s[1].sk = "BOOL" /\ s[2] = s[3]
check_apply_sorts(s) ==
  /\ s[1].sk = "FUNCTION"
  /\ Len(s[1].domain) + 1 = Len(s)
  /\ \A k \in DOMAIN s[1].domain : s[1].domain[k] = s[k + 1]
check_select_sorts(s) == Len(s) = 2 /\ s[1].sk = "ARRAY" /\ s[2] = s[1].index

\* A fault to look for: the sort of the element is not looked at.
check_store_index(s) ==
  Len(s) = 3 /\ s[1].sk = "ARRAY" /\ s[2] = s[1].index

check_store_sorts(s) ==
  Len(s) = 3 /\ s[1].sk = "ARRAY" /\ s[2] = s[1].index /\ s[3] = s[1].elem
check_substr_sorts(s) == Len(s) = 3 /\ s[1].sk = "STRING" /\ s[2] = INT /\ s[3] = INT
check_charat_sorts(s) == Len(s) = 2 /\ s[1].sk = "STRING" /\ s[2] = INT
check_indexof_sorts(s) ==
  Len(s) = 3 /\ s[1].sk = "STRING" /\ s[2].sk = "STRING" /\ s[3] = INT

\* sort_check_dispatch, by the helper the table names.
sort_check(po, s) ==
  CASE po \in Connectives \cup {"Not"} -> bool_sorts(s)
    [] po = "Ite" -> check_ite_sorts(s)
    [] po \in {"Equal", "Distinct"} -> arith_equal_sorts(s)
    [] po = "Apply" -> check_apply_sorts(s)
    [] po \in {"Plus", "Minus", "Negate", "Mult", "Div"} \cup Comparisons ->
         arithmetic_sorts(s)
    [] po \in {"Mod", "Abs", "Pow", "IntDiv", "To_Real", "Is_Int", "Int_To_BV"} ->
         int_sorts(s)
    [] po = "To_Int" -> real_sorts(s)
    [] po \in {"Concat", "Extract", "Zero_Extend", "Sign_Extend", "Repeat", "BV_To_Nat"}
              \cup BvSame -> bv_sorts(s)
    [] po \in BvOps \cup BvComparisons \cup {"BVComp"} -> eq_bv_sorts(s)
    [] po \in StrTests \cup {"StrConcat", "StrLen", "StrReplace", "StrReplaceAll",
                             "StrIsDigit"} -> string_sorts(s)
    [] po = "StrSubstr" -> check_substr_sorts(s)
    [] po = "StrAt" -> check_charat_sorts(s)
    [] po = "StrIndexof" -> check_indexof_sorts(s)
    [] po = "Select" -> check_select_sorts(s)
    [] po = "Store" -> check_store_sorts(s)

check_sortedness(op, s) ==
  /\ Len(s) >= get_arity(op.p)[1] /\ Len(s) <= get_arity(op.p)[2]
  /\ sort_check(op.p, s)

----------------------------------------------------------------------------
extract_sort(op) == BV(op.i[1] - op.i[2] + 1)
concat_sort(s) == BV(s[1].width + s[2].width)
extend_sort(op, s) == BV(op.i[1] + s[1].width)
repeat_sort(op, s) == BV(op.i[1] * s[1].width)

\* sort_comp_dispatch.
compute_sort(op, s) ==
  CASE op.p \in Connectives \cup Comparisons \cup BvComparisons \cup StrTests
                \cup {"Not", "Equal", "Distinct", "Is_Int", "StrIsDigit"} -> BOOL
    [] op.p = "Ite" -> s[2]
    [] op.p = "Apply" -> s[1].codomain
    [] op.p \in {"Plus", "Minus", "Negate", "Mult", "Div", "Abs", "Pow"}
                \cup BvSame \cup BvOps -> s[1]
    [] op.p \in {"Mod", "IntDiv", "To_Int", "BV_To_Nat", "StrLen", "StrIndexof"} -> INT
    [] op.p = "To_Real" -> REAL
    [] op.p = "Concat" -> concat_sort(s)
    [] op.p = "Extract" -> extract_sort(op)
    [] op.p \in {"Zero_Extend", "Sign_Extend"} -> extend_sort(op, s)
    [] op.p = "Repeat" -> repeat_sort(op, s)
    [] op.p = "Int_To_BV" -> BV(op.i[1])
    [] op.p = "BVComp" -> BV(1)
    [] op.p \in {"StrConcat", "StrSubstr", "StrAt", "StrReplace", "StrReplaceAll"} -> StringSort
    [] op.p = "Select" -> s[1].elem
    [] op.p = "Store" -> s[1]

----------------------------------------------------------------------------
(* Where the tables differ from SMT-LIB, by their own choice or not: terms *)
(* of Int and Real may be mixed, the sort of the first is then the sum's;  *)
(* Ints are divided and asked whether they are integers; Abs has two       *)
(* arguments, and more than two arguments are refused to all but three.    *)
Mixed(op, s) == arithmetic_sorts(s) /\ ~equal_sorts(s)
Lenient(op, s) == Mixed(op, s) \/ (op.p \in {"Div", "Is_Int"} /\ int_sorts(s))
Strict(op, s) ==
  op.p \in {"Is_Int", "Abs"} \/ (Len(s) > 2 /\ op.p \notin Nary \cup Ternary)

InferenceRight(op, s) ==
  /\ check_sortedness(op, s) /\ ~Lenient(op, s) /\ op.p # "Abs"
       => Rank(op, s) = {compute_sort(op, s)}
  /\ Rank(op, s) # {} /\ ~Strict(op, s) => check_sortedness(op, s)
  /\ Rank(op, s) # {} => compute_sort(op, s) \in Rank(op, s)
=============================================================================
