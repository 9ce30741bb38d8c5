---------------------------- MODULE MCUtilities ----------------------------
(***************************************************************************)
(* Small inputs for every routine.                                         *)
(***************************************************************************)
EXTENDS Routines, FiniteSets, SmtLibSorts

\* TermWalkers: terms with shared subterms, an array of one value, and the
\* operators that the partitions split by, nested in one another.
t(o, args) == [op |-> o, a |-> args]
x == t("x", <<>>)
y == t("y", <<>>)
v == t("0", <<>>)
k == t("K", <<v>>)
gx == t("g", <<x>>)
p1 == t("p", <<>>)
q1 == t("q", <<>>)
a1 == t("a", <<>>)
b1 == t("b", <<>>)
MCFormulas ==
  {x, k, gx, t("h", <<gx, t("h", <<y, gx>>)>>),
   t("h", <<t("g", <<x>>), t("Select", <<k, x>>)>>),
   t("And", <<a1, t("And", <<t("Or", <<a1, b1>>), t("And", <<b1, a1>>)>>)>>),
   t("BVAnd", <<t("BVAnd", <<p1, q1>>), t("BVOr", <<t("BVAnd", <<p1, q1>>), p1>>)>>),
   t("Or", <<b1, t("Or", <<a1, t("And", <<a1, b1>>)>>)>>),
   t("BVOr", <<p1, t("BVOr", <<q1, p1>>)>>)}

\* A swap, a term that reappears in its image, a larger term, an ill-sorted
\* one, a value.
Map(s) == [u \in {e[1] : e \in s} |-> (CHOOSE e \in s : e[1] = u)[2]]
MCSubstitutions ==
  {Map({<<x, y>>, <<y, x>>}), Map({<<x, gx>>}), Map({<<gx, y>>}), Map({}),
   Map({<<y, t("h", <<gx, v>>)>>, <<p1, q1>>}), Map({<<x, p1>>}), Map({<<v, x>>})}
MCDerivations == {{}, {gx}, {t("h", <<y, gx>>), a1}}
MCAborts == {{}, {y}}
MCValueOps == {"0", "K"}
MCSortOf(u) == CASE u.op \in {"p", "q", "BVAnd", "BVOr"} -> "bv1"
                 [] u.op \in {"a", "b", "And", "Or"} -> "bool"
                 [] u.op = "K" -> "array"
                 [] OTHER -> "int"

\* CnfConversion: every operator over symbols and constants, one operator
\* below another, shared subformulas, an exclusive or of three.
n(i) == [op |-> "sym", a |-> <<>>, id |-> i]
tt == t("true", <<>>)
ff == t("false", <<>>)
p2 == n(0)
q2 == n(-1)
r2 == n(-2)
Binary == {"And", "Or", "Xor", "Implies", "Equal"}
Flat == {t(o, <<l, r>>) : o \in Binary, l \in {p2, tt, ff}, r \in {q2, tt}}
  \cup {t("Not", <<l>>) : l \in {p2, tt, ff}}
Deep ==
  {t("Xor", <<p2, q2, r2>>), t("Xor", <<p2, t("And", <<p2, q2>>), tt, r2>>),
   t("And", <<p2, t("Or", <<t("Not", <<q2>>), r2>>), tt>>),
   t("Or", <<t("And", <<p2, q2>>), t("And", <<q2, r2>>)>>),
   t("Implies", <<t("Xor", <<p2, q2>>), t("Xor", <<p2, q2>>)>>),
   t("Equal", <<t("Not", <<t("Or", <<p2, q2, r2>>)>>), t("And", <<p2, q2, r2>>)>>)}
OneBelow == {t(o, <<l, r2>>) : o \in Binary, l \in {t(i, <<p2, q2>>) : i \in {"And", "Xor", "Equal"}}}
  \cup {t("Not", <<l>>) : l \in {t(i, <<p2, q2>>) : i \in Binary}}
MCBooleanFormulas == Deep \cup Flat \cup OneBelow
\* A solver may also hold an exclusive or of three below another operator.
Nested == {t(o, <<p2, t("Xor", <<p2, q2, r2>>)>>) : o \in {"And", "Implies"}}
NestedFormulas == Deep \cup Nested
\* tseitin_to_cnf_1 and _3 may be names of the caller's.
MCDeclared == {1, 3}

\* CoreReducer: "a2" becomes the same term as "a", "d" shares a hash with none.
MCAssumptions == {<<"a", "b", "c">>, <<"b", "a2", "a">>, <<"c", "d", "b", "a">>}
MCConflicts == {{{"a", "b"}}, {{"a"}, {"b", "c"}}, {{"a", "b", "c"}, {"a", "d"}}, {}, {{}}}
MCTransfer(u) == IF u = "a2" THEN "a" ELSE u
MCHash(u) == IF u = "d" THEN 1 ELSE 0
MCIterations == {0, 1}

MCMembers == 1..4
MCcomp(l, r) == l < r

\* TermTranslator: terms of a solver whose Booleans are one-bit vectors, and
\* terms of one that tells them apart.
Data(what, data, sort) ==
  [op |-> Operator(what, <<>>), a |-> <<>>, sort |-> sort, data |-> data]
App(po, args, sort) ==
  [op |-> Operator(po, <<>>), a |-> args, sort |-> sort, data |-> 0]
Bit == BV(1)
Two == BV(2)
b == Data("symbol", "b", Bit)
c == Data("symbol", "c", Bit)
w == Data("symbol", "v", Two)
u1 == Data("symbol", "u", Two)
m == Data("symbol", "m", ARRAY(Bit, Bit))
g == Data("symbol", "g", FUNCTION(<<Bit>>, Two))
less == App("BVUlt", <<w, u1>>, Bit)
zero == Data("value", 0, Bit)
ones == App("constant array", <<Data("value", 1, Bit)>>, ARRAY(Bit, Bit))
AliasingTerms ==
  {App(po, <<less, zero>>, Bit) : po \in {"BVAnd", "BVXor", "BVComp"}}
  \cup {App(po, <<b, less>>, Bit) : po \in {"BVOr", "BVXor", "Equal", "BVXnor"}}
  \cup {zero, App("BVNot", <<less>>, Bit), App("BVAnd", <<b, c>>, Bit),
        App("Concat", <<less, b>>, Two),
        App("BVUlt", <<less, App("BVNot", <<b>>, Bit)>>, Bit),
        App("Ite", <<b, u1, w>>, Two), App("Ite", <<c, b, less>>, Bit),
        App("Select", <<App("Store", <<ones, less, b>>, ARRAY(Bit, Bit)), less>>, Bit),
        App("Store", <<m, b, App("BVComp", <<u1, w>>, Bit)>>, ARRAY(Bit, Bit)),
        App("Apply", <<g, less>>, Two)}
pb == Data("symbol", "b", BOOL)
qb == Data("symbol", "c", BOOL)
rb == Data("param", "r", BOOL)
i1 == Data("symbol", "i", INT)
real == Data("symbol", "y", REAL)
true == Data("value", 1, BOOL)
below == App("BVUlt", <<u1, w>>, BOOL)
Numbers ==
  {Data("value", 2, INT), Data("value", -1, INT), Data("value", 3, REAL),
   Data("value", -3, REAL), real, App("Plus", <<i1, Data("value", -1, INT)>>, INT),
   App("Plus", <<real, Data("value", 3, REAL)>>, REAL),
   App("Lt", <<App("BV_To_Nat", <<u1>>, INT), i1>>, BOOL)}
StrictTerms ==
  {App(po, <<pb, below>>, BOOL) : po \in {"And", "Or", "Xor", "Implies", "Equal"}}
  \cup {App(po, <<below, true>>, BOOL) : po \in {"And", "Xor", "Implies", "Equal"}}
  \cup {true, App("Not", <<pb>>, BOOL), App("Or", <<rb, qb>>, BOOL),
        App("And", <<pb, qb, below>>, BOOL), App("Ite", <<pb, qb, true>>, BOOL)}
  \cup Numbers
MCSources == {AliasingTerms, StrictTerms}
MCTargets == BOOLEAN
\* What the caller declared under the name b may be alike, or too wide.
MCDeclarable == {<<"b", BOOL>>, <<"b", Bit>>, <<"b", Two>>}
MCKinds == {"BOOL", "BV", "INT", "REAL"}

\* SortInference: every operator, for up to three arguments of these sorts.
Indexed == {Operator("Extract", <<0, 0>>), Operator("Zero_Extend", <<1>>),
            Operator("Sign_Extend", <<1>>), Operator("Repeat", <<2>>),
            Operator("Rotate_Left", <<1>>), Operator("Rotate_Right", <<1>>),
            Operator("Int_To_BV", <<2>>)}
Plain == Connectives \cup Comparisons \cup BvOps \cup BvComparisons \cup StrTests
  \cup {"Not", "Ite", "Equal", "Distinct", "Apply", "Plus", "Minus", "Negate", "Mult",
        "Div", "Abs", "Pow", "IntDiv", "Mod", "To_Real", "To_Int", "Is_Int", "Concat",
        "BVNot", "BVNeg", "BVComp", "BV_To_Nat", "StrLen", "StrConcat", "StrSubstr",
        "StrAt", "StrIndexof", "StrReplace", "StrReplaceAll", "StrIsDigit", "Select",
        "Store"}
MCOperators == Indexed \cup {Operator(po, <<>>) : po \in Plain}
Basic == {BOOL, INT, REAL, StringSort, Bit, Two}
Compound == {ARRAY(INT, Bit), FUNCTION(<<INT>>, BOOL), FUNCTION(<<INT, Bit>>, Two)}
MCArgumentSorts ==
  {<<s>> : s \in Basic \cup Compound}
  \cup {<<s, r>> : s \in Basic \cup Compound, r \in Basic}
  \cup {<<s, r, e>> : s \in Compound \cup {BOOL, StringSort, Bit, INT},
                      r \in {INT, StringSort, Bit, BOOL}, e \in {INT, StringSort, Bit}}
=============================================================================
