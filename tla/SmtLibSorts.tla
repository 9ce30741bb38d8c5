----------------------------- MODULE SmtLibSorts -----------------------------
(***************************************************************************)
(* Which sorts the operators of SMT-LIB take and give: the reference for   *)
(* SortInference, and what a solver that does not alias sorts accepts.     *)
(* A sort is a record; an operator is a name and its indices.              *)
(***************************************************************************)
EXTENDS Naturals, Sequences

BOOL == [sk |-> "BOOL"]
INT == [sk |-> "INT"]
REAL == [sk |-> "REAL"]
StringSort == [sk |-> "STRING"]
BV(w) == [sk |-> "BV", width |-> w]
ARRAY(i, e) == [sk |-> "ARRAY", index |-> i, elem |-> e]
FUNCTION(d, c) == [sk |-> "FUNCTION", domain |-> d, codomain |-> c]

Operator(po, idx) == [p |-> po, i |-> idx]

Connectives == {"And", "Or", "Xor", "Implies"}
Comparisons == {"Lt", "Le", "Gt", "Ge"}
BvOps == {"BVAnd", "BVOr", "BVXor", "BVNand", "BVNor", "BVXnor", "BVAdd", "BVSub",
          "BVMul", "BVUdiv", "BVSdiv", "BVUrem", "BVSrem", "BVSmod", "BVShl",
          "BVAshr", "BVLshr"}
BvComparisons == {"BVUlt", "BVUle", "BVUgt", "BVUge", "BVSlt", "BVSle", "BVSgt",
                  "BVSge"}
BvSame == {"BVNot", "BVNeg", "Rotate_Left", "Rotate_Right"}
StrTests == {"StrLt", "StrLeq", "StrContains", "StrPrefixof", "StrSuffixof"}

OtherOps ==
  {"Not", "Ite", "Equal", "Distinct", "Apply", "Plus", "Minus", "Negate", "Mult", "Div",
   "IntDiv", "Mod", "Abs", "Pow", "To_Real", "To_Int", "Is_Int", "Int_To_BV", "BV_To_Nat",
   "Concat", "Extract", "BVComp", "Zero_Extend", "Sign_Extend", "Repeat", "StrIsDigit",
   "StrLen", "StrConcat", "StrReplace", "StrReplaceAll", "StrSubstr", "StrAt",
   "StrIndexof", "Select", "Store"}
PrimOps == Connectives \cup Comparisons \cup BvOps \cup BvComparisons \cup BvSame
  \cup StrTests \cup OtherOps

\* An operator has the indices it needs, which are numbers like the width of
\* a bit-vector, and the kind of a sort says which fields it has.
IsSequence(s) == s \in Seq({s[k] : k \in DOMAIN s})
Indices(po) ==
  IF po = "Extract" THEN 2
  ELSE IF po \in {"Zero_Extend", "Sign_Extend", "Repeat", "Rotate_Left", "Rotate_Right",
                  "Int_To_BV"} THEN 1
  ELSE 0
IsOperator(op) == op.p \in PrimOps /\ op.i \in [1..Indices(op.p) -> Nat]
IsSort(t) ==
  \/ t \in {BOOL, INT, REAL, StringSort}
  \/ t.sk = "BV" /\ t.width \in Nat /\ t = BV(t.width)
  \/ t.sk = "ARRAY" /\ t = ARRAY(t.index, t.elem)
  \/ /\ t.sk = "FUNCTION" /\ t = FUNCTION(t.domain, t.codomain)
     /\ IsSequence(t.domain)

All(s, t) == \A k \in DOMAIN s : s[k] = t
Same(s) == All(s, s[1])
IsBv(t) == t.sk = "BV"
If(c, t) == IF c THEN {t} ELSE {}

(* The sort of op applied to terms of sorts s, in a set that is empty when *)
(* SMT-LIB gives it none.                                                  *)
Rank(op, s) ==
  LET po == op.p
      n == Len(s)
      one == s[1] IN
  CASE po \in Connectives -> If(n >= 2 /\ All(s, BOOL), BOOL)
    [] po = "Not" -> If(n = 1 /\ one = BOOL, BOOL)
    [] po = "Ite" -> If(n = 3 /\ one = BOOL /\ s[2] = s[3], s[2])
    [] po \in {"Equal", "Distinct"} -> If(n >= 2 /\ Same(s), BOOL)
    [] po \in {"Plus", "Minus", "Mult"} -> If(n >= 2 /\ Same(s) /\ one \in {INT, REAL}, one)
    [] po = "Negate" -> If(n = 1 /\ one \in {INT, REAL}, one)
    [] po = "Div" -> If(n >= 2 /\ All(s, REAL), REAL)
    [] po \in {"IntDiv", "Mod"} -> If(n = 2 /\ All(s, INT), INT)
    [] po = "Abs" -> If(n = 1 /\ one = INT, INT)
    [] po = "Pow" -> If(n = 2 /\ All(s, INT), INT)
    [] po \in Comparisons -> If(n >= 2 /\ Same(s) /\ one \in {INT, REAL}, BOOL)
    [] po = "To_Real" -> If(n = 1 /\ one = INT, REAL)
    [] po = "To_Int" -> If(n = 1 /\ one = REAL, INT)
    [] po = "Is_Int" -> If(n = 1 /\ one = REAL, BOOL)
    [] po = "Concat" -> IF n = 2 /\ IsBv(one) /\ IsBv(s[2])
                        THEN {BV(one.width + s[2].width)} ELSE {}
    [] po = "Extract" -> If(n = 1 /\ IsBv(one), BV(op.i[1] - op.i[2] + 1))
    [] po \in BvSame -> If(n = 1 /\ IsBv(one), one)
    [] po \in BvOps -> If(n >= 2 /\ IsBv(one) /\ Same(s), one)
    [] po = "BVComp" -> If(n = 2 /\ IsBv(one) /\ Same(s), BV(1))
    [] po \in BvComparisons -> If(n = 2 /\ IsBv(one) /\ Same(s), BOOL)
    [] po \in {"Zero_Extend", "Sign_Extend"} ->
         IF n = 1 /\ IsBv(one) THEN {BV(one.width + op.i[1])} ELSE {}
    [] po = "Repeat" -> IF n = 1 /\ IsBv(one) THEN {BV(one.width * op.i[1])} ELSE {}
    [] po = "BV_To_Nat" -> If(n = 1 /\ IsBv(one), INT)
    [] po = "Int_To_BV" -> If(n = 1 /\ one = INT, BV(op.i[1]))
    [] po \in StrTests -> If(n = 2 /\ All(s, StringSort), BOOL)
    [] po = "StrIsDigit" -> If(n = 1 /\ one = StringSort, BOOL)
    [] po = "StrLen" -> If(n = 1 /\ one = StringSort, INT)
    [] po = "StrConcat" -> If(n >= 2 /\ All(s, StringSort), StringSort)
    [] po \in {"StrReplace", "StrReplaceAll"} -> If(n = 3 /\ All(s, StringSort), StringSort)
    [] po = "StrSubstr" -> If(n = 3 /\ s = <<StringSort, INT, INT>>, StringSort)
    [] po = "StrAt" -> If(n = 2 /\ s = <<StringSort, INT>>, StringSort)
    [] po = "StrIndexof" -> If(n = 3 /\ s = <<StringSort, StringSort, INT>>, INT)
    [] po = "Select" -> IF n = 2 /\ one.sk = "ARRAY"
                        THEN If(s[2] = one.index, one.elem) ELSE {}
    [] po = "Store" -> IF n = 3 /\ one.sk = "ARRAY"
                       THEN If(s[2] = one.index /\ s[3] = one.elem, one) ELSE {}
    [] po = "Apply" -> IF n >= 2 /\ one.sk = "FUNCTION"
                       THEN If(Tail(s) = one.domain, one.codomain) ELSE {}
=============================================================================
