--------------------------- MODULE MCBackendTerms ---------------------------
(* Every operator on every value of small sorts: two-bit vectors, Booleans, *)
(* integers from -3 to 3 as symbols and as constants, rationals with        *)
(* denominators 1 and 2, arrays of two bits; up to four arguments for the   *)
(* operators that take many.                                                *)
EXTENDS BackendTerms

Symbol(x) == [n |-> "symbol", i |-> x, a |-> <<>>]
Ints == {Integer(n) : n \in -3 .. 3}
MCLeaf(sort) ==
  CASE sort = "bool" -> {Symbol(Bool(x)) : x \in BOOLEAN}
    [] sort = "bv"   -> {Symbol(Vector(2, n)) : n \in 0 .. 3}
    [] sort = "bit"  -> {Symbol(Vector(1, n)) : n \in 0 .. 1}
    [] sort = "int"  -> {Symbol(x) : x \in Ints}
    [] sort = "divisor" -> {Symbol(x) : x \in Ints \ {Integer(0)}}
                             \cup {Value(x) : x \in Ints \ {Integer(0)}}
    [] sort = "exponent" -> {Value(Integer(n)) : n \in 1 .. 3}
    [] sort = "real" -> {Symbol(Rational(n, d)) : n \in -2 .. 2, d \in 1 .. 2}
    [] sort = "realdivisor" -> {Symbol(Rational(n, d)) : n \in {-2, -1, 1, 2}, d \in 1 .. 2}
    [] sort = "array" -> {Symbol([w |-> -2, v |-> f]) : f \in [0 .. 1 -> 0 .. 1]}
    [] sort = "function" -> {[n |-> "function", i |-> Integer(0), a |-> <<>>]}
    [] sort = "param1" -> {[n |-> "param", i |-> 1, a |-> <<>>]}
    [] sort = "param2" -> {[n |-> "param", i |-> 2, a |-> <<>>]}
    [] sort = "body" ->
         LET p == [n |-> "param", i |-> 1, a |-> <<>>]
             q == [n |-> "param", i |-> 2, a |-> <<>>]
         IN  {Fun2(r, p, q) : r \in {"Equal", "BVUlt"}}
               \cup {Fun2("Equal", p, x) : x \in {Symbol(Vector(1, n)) : n \in 0 .. 1}}

Takes(ops, idx, sorts) == [op : ops, idx : idx, sorts : sorts]
Plain == {<<>>}
MCSignatures ==
  Takes({"Not"}, Plain, {<<"bool">>})
    \cup Takes({"And", "Or", "Xor"}, Plain,
           {<<"bool", "bool">>, <<"bool", "bool", "bool">>, <<"bool", "bool", "bool", "bool">>})
    \cup Takes({"Implies", "Equal", "Distinct"}, Plain, {<<"bool", "bool">>})
    \cup Takes({"Equal"}, Plain, {<<"bv", "bv">>, <<"int", "int">>, <<"bv", "bv", "bv">>})
    \cup Takes({"Distinct"}, Plain, {<<"bv", "bv">>, <<"bv", "bv", "bv">>, <<"bv", "bv", "bv", "bv">>})
    \cup Takes({"Ite"}, Plain, {<<"bool", "bv", "bv">>, <<"bool", "bool", "bool">>})
    \cup Takes({"Apply"}, Plain, {<<"function", "bv">>, <<"function", "bool", "bit">>,
                                  <<"function", "bit", "bv", "bool">>})
    \cup Takes(BVBinary, Plain, {<<"bv", "bv">>})
    \cup Takes({"BVAnd", "BVOr", "BVAdd"}, Plain, {<<"bv", "bv", "bv">>, <<"bv", "bv", "bv", "bv">>})
    \cup Takes({"BVNot", "BVNeg", "BV_To_Nat"}, Plain, {<<"bv">>})
    \cup Takes({"Extract"}, {<<1, 0>>, <<0, 0>>, <<1, 1>>}, {<<"bv">>})
    \cup Takes({"Zero_Extend", "Sign_Extend", "Rotate_Left", "Rotate_Right"},
               {<<0>>, <<1>>, <<2>>}, {<<"bv">>})
    \cup Takes({"Rotate_Left", "Rotate_Right"}, {<<1>>}, {<<"bit">>})
    \cup Takes({"Repeat"}, {<<1>>, <<2>>, <<3>>}, {<<"bv">>})
    \cup Takes({"Int_To_BV"}, {<<1>>, <<2>>}, {<<"int">>})
    \cup Takes({"Plus", "Mult", "Minus"}, Plain, {<<"int", "int">>, <<"int", "int", "int">>})
    \cup Takes(Order, Plain, {<<"int", "int">>, <<"real", "real">>})
    \cup Takes({"IntDiv", "Mod"}, Plain, {<<"int", "divisor">>})
    \cup Takes({"Div"}, Plain, {<<"real", "realdivisor">>})
    \cup Takes({"Pow"}, Plain, {<<"int", "exponent">>})
    \cup Takes({"Negate", "Abs", "To_Real"}, Plain, {<<"int">>})
    \cup Takes({"Negate", "To_Int", "Is_Int"}, Plain, {<<"real">>})
    \cup Takes({"Select"}, Plain, {<<"array", "bit">>})
    \cup Takes({"Store"}, Plain, {<<"array", "bit", "bit">>})
    \cup Takes(Quantifiers, Plain, {<<"param1", "body">>, <<"param1", "param2", "body">>})
=============================================================================
