---------------------------- MODULE SmtLibMeaning ----------------------------
(***************************************************************************)
(* What the operators of SMT-LIB mean on values: the reference the back    *)
(* ends' translations are compared with (BackendTerms), the meaning of the *)
(* wrapped solvers' own functions, each named by the operator it computes. *)
(*                                                                         *)
(* A value is [w |-> width, v |-> value]: width -1 is Bool (0 or 1), 0 is  *)
(* Int and Real (<<numerator, denominator>>), -2 an array over one-bit     *)
(* vectors, and every other width a bit-vector below 2^w.                  *)
(***************************************************************************)
EXTENDS Integers, Sequences
LOCAL INSTANCE Bitwise
LOCAL INSTANCE SequencesExt

Bool(x) == [w |-> -1, v |-> IF x THEN 1 ELSE 0]
Rational(n, d) == [w |-> 0, v |-> IF d < 0 THEN <<-n, -d>> ELSE <<n, d>>]
Integer(n) == Rational(n, 1)
Vector(w, n) == [w |-> w, v |-> n % 2^w]

Bits(x) == IF x.w = -1 THEN 1 ELSE x.w
Signed(x) == IF x.v >= 2^(Bits(x) - 1) THEN x.v - 2^Bits(x) ELSE x.v
Floor(x) == x.v[1] \div x.v[2]
Magnitude(n) == IF n < 0 THEN -n ELSE n
Towards0(n, d) == (Magnitude(n) \div Magnitude(d)) * (IF (n < 0) = (d < 0) THEN 1 ELSE -1)
SameValue(x, y) ==
  /\ Bits(x) = Bits(y)
  /\ IF x.w = 0 THEN x.v[1] * y.v[2] = y.v[1] * x.v[2] ELSE x.v = y.v

(* SMT-LIB: the remainder of an integer division is never negative *)
IntegerDivision(n, d) == IF d > 0 THEN n \div d ELSE -(n \div (-d))

RotatedLeft(x, k) ==
  Vector(Bits(x), x.v * 2^k + x.v \div 2^(Bits(x) - k))

(* two arguments; an operator SMT-LIB calls left associative is folded *)
Both(op, x, y) ==
  LET w == Bits(x)
      d == y.v IN
  CASE op = "Xor"     -> Bool(x.v # y.v)
    [] op = "Concat"  -> Vector(w + Bits(y), x.v * 2^Bits(y) + d)
    [] op = "BVAnd"   -> Vector(w, x.v & d)
    [] op = "BVOr"    -> Vector(w, x.v | d)
    [] op = "BVXor"   -> Vector(w, x.v ^^ d)
    [] op = "BVNand"  -> Vector(w, -1 - (x.v & d))
    [] op = "BVNor"   -> Vector(w, -1 - (x.v | d))
    [] op = "BVXnor"  -> Vector(w, -1 - (x.v ^^ d))
    [] op = "BVComp"  -> Vector(1, IF x.v = d THEN 1 ELSE 0)
    [] op = "BVAdd"   -> Vector(w, x.v + d)
    [] op = "BVSub"   -> Vector(w, x.v - d)
    [] op = "BVMul"   -> Vector(w, x.v * d)
    [] op = "BVUdiv"  -> Vector(w, IF d = 0 THEN -1 ELSE x.v \div d)
    [] op = "BVUrem"  -> Vector(w, IF d = 0 THEN x.v ELSE x.v % d)
    [] op = "BVSdiv"  -> Vector(w, IF d # 0 THEN Towards0(Signed(x), Signed(y))
                                   ELSE IF Signed(x) < 0 THEN 1 ELSE -1)
    [] op = "BVSrem"  -> Vector(w, IF d = 0 THEN x.v ELSE
                 Signed(x) - Signed(y) * Towards0(Signed(x), Signed(y)))
    [] op = "BVSmod"  -> Vector(w, IF d = 0 THEN x.v
                 ELSE IF Signed(y) > 0 THEN Signed(x) % Signed(y)
                 ELSE -((-Signed(x)) % (-Signed(y))))
    [] op = "BVShl"   -> Vector(w, x.v * 2^d)
    [] op = "BVLshr"  -> Vector(w, x.v \div 2^d)
    [] op = "BVAshr"  -> Vector(w, Signed(x) \div 2^d)
    [] op = "BVUlt"   -> Bool(x.v < d)
    [] op = "BVUle"   -> Bool(x.v <= d)
    [] op = "BVUgt"   -> Bool(x.v > d)
    [] op = "BVUge"   -> Bool(x.v >= d)
    [] op = "BVSlt"   -> Bool(Signed(x) < Signed(y))
    [] op = "BVSle"   -> Bool(Signed(x) <= Signed(y))
    [] op = "BVSgt"   -> Bool(Signed(x) > Signed(y))
    [] op = "BVSge"   -> Bool(Signed(x) >= Signed(y))
    [] op = "Plus"    -> Rational(x.v[1] * d[2] + d[1] * x.v[2], x.v[2] * d[2])
    [] op = "Minus"   -> Rational(x.v[1] * d[2] - d[1] * x.v[2], x.v[2] * d[2])
    [] op = "Mult"    -> Rational(x.v[1] * d[1], x.v[2] * d[2])
    [] op = "Div"     -> Rational(x.v[1] * d[2], x.v[2] * d[1])
    [] op = "IntDiv"  -> Integer(IntegerDivision(Floor(x), Floor(y)))
    [] op = "Mod"     -> Integer(Floor(x) - Floor(y) * IntegerDivision(Floor(x), Floor(y)))
    [] op = "Pow"     -> Integer(Floor(x)^Floor(y))
    [] op = "Lt"      -> Bool(x.v[1] * d[2] < d[1] * x.v[2])
    [] op = "Le"      -> Bool(x.v[1] * d[2] <= d[1] * x.v[2])
    [] op = "Gt"      -> Bool(x.v[1] * d[2] > d[1] * x.v[2])
    [] op = "Ge"      -> Bool(x.v[1] * d[2] >= d[1] * x.v[2])
    [] op = "Select"  -> Vector(1, x.v[d])

(* the function symbol of every Apply: some function of its arguments *)
Applied(a) == Vector(2, FoldLeft(LAMBDA n, x : 2 * n + x.v, 1, a))

Meaning(op, i, a) ==
  LET x == a[1]
      w == Bits(x) IN
  CASE op = "Not"      -> Bool(x.v = 0)
    [] op = "And"      -> Bool(\A j \in DOMAIN a : a[j].v = 1)
    [] op = "Or"       -> Bool(\E j \in DOMAIN a : a[j].v = 1)
    [] op = "Implies"  -> Bool(x.v = 0 \/ a[2].v = 1)
    [] op = "Ite"      -> IF x.v = 1 THEN a[2] ELSE a[3]
    [] op = "Equal"    -> Bool(\A j \in DOMAIN a : SameValue(x, a[j]))
    [] op = "Distinct" -> Bool(\A j, k \in DOMAIN a : j # k => ~SameValue(a[j], a[k]))
    [] op = "Apply"    -> Applied(Tail(a))
    [] op = "Extract"  -> Vector(i[1] - i[2] + 1, x.v \div 2^i[2])
    [] op = "Zero_Extend" -> Vector(w + i[1], x.v)
    [] op = "Sign_Extend" -> Vector(w + i[1], Signed(x))
    [] op = "Repeat"   -> FoldLeft(LAMBDA y, k : Both("Concat", y, x), x, [k \in 1 .. i[1] - 1 |-> k])
    [] op = "Rotate_Left"  -> RotatedLeft(x, i[1] % w)
    [] op = "Rotate_Right" -> RotatedLeft(x, w - (i[1] % w))
    [] op = "BVNot"    -> Vector(w, -1 - x.v)
    [] op = "BVNeg"    -> Vector(w, -x.v)
    [] op = "BV_To_Nat" -> Integer(x.v)
    [] op = "Int_To_BV" -> Vector(i[1], Floor(x))
    [] op = "Negate"   -> Rational(-x.v[1], x.v[2])
    [] op = "Abs"      -> Rational(Magnitude(x.v[1]), x.v[2])
    [] op = "To_Real"  -> x
    [] op = "To_Int"   -> Integer(Floor(x))
    [] op = "Is_Int"   -> Bool(x.v[1] % x.v[2] = 0)
    [] op = "Store"    -> [x EXCEPT !.v[a[2].v] = a[3].v]
    [] OTHER           -> FoldLeft(LAMBDA y, z : Both(op, y, z), x, Tail(a))
=============================================================================
