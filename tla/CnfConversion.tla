--------------------------- MODULE CnfConversion ---------------------------
(***************************************************************************)
(* to_cnf, is_cnf and cnf_to_dimacs of utils.cpp.  A caller converts       *)
(* formulas one after the other with one solver, whose symbol table it     *)
(* shares: every name to_cnf invents must be new there.                    *)
(*                                                                         *)
(* The three classes that walk the formula are IdentityWalkers and visit   *)
(* every subterm once, children first; what each leaves in its cache for a *)
(* term is a function of the term.  A symbol is told from another by its   *)
(* number: a positive n is tseitin_to_cnf_n, the others are the caller's.  *)
(***************************************************************************)
EXTENDS Integers, Sequences, FiniteSets, TLC, SequencesExt

CONSTANTS
  Formulas,      \* the formulas a caller converts, over its own symbols
  Declared,      \* the symbols the caller may declare at any time
  MaxConverted   \* bound: formulas converted

VARIABLES
  symbols,    \* the symbols the solver knows
  converted,  \* the formulas converted so far, with what to_cnf returned
  dimacs      \* what cnf_to_dimacs printed for the last of them

vars == <<symbols, converted, dimacs>>

Node(o, args) == [op |-> o, a |-> args]
Sym(n) == [op |-> "sym", a |-> <<>>, id |-> n]
Tru == Node("true", <<>>)
Fal == Node("false", <<>>)
Not(t) == Node("Not", <<t>>)
Or2(s, t) == Node("Or", <<s, t>>)

is_symbolic_const(t) == t.op = "sym"
IsConstant(t) == t \in {Tru, Fal}

----------------------------------------------------------------------------
(* EliminateBooleanConstants: c holds the children without constants.      *)

\* And and Or: the unit goes, the zero decides, one that is left stands alone.
EliminateJunction(o, c, unit, zero) ==
  LET vec == SelectSeq(c, LAMBDA t : ~IsConstant(t)) IN
  IF zero \in ToSet(c) THEN zero
  ELSE IF vec = <<>> THEN unit
  ELSE IF Len(vec) = 1 THEN vec[1]
  ELSE Node(o, vec)

EliminateXor(c) ==
  LET vec == SelectSeq(c, LAMBDA t : ~IsConstant(t))
      odd == Cardinality({i \in DOMAIN c : c[i] = Tru}) % 2 = 1
      first == IF odd THEN Not(vec[1]) ELSE vec[1]
  IN IF vec = <<>> THEN (IF odd THEN Tru ELSE Fal)
     ELSE IF Len(vec) = 1 THEN first
     ELSE Node("Xor", <<first>> \o Tail(vec))

EliminateNot(t) == IF t = Tru THEN Fal ELSE IF t = Fal THEN Tru ELSE Not(t)

EliminateEqual(le, ri) ==
  IF IsConstant(le) /\ IsConstant(ri) THEN (IF le = ri THEN Tru ELSE Fal)
  ELSE IF le = Tru THEN ri ELSE IF ri = Tru THEN le
  ELSE IF le = Fal THEN Not(ri) ELSE IF ri = Fal THEN Not(le)
  ELSE Node("Equal", <<le, ri>>)

EliminateImplies(le, ri) ==
  IF le = Fal \/ ri = Tru THEN Tru
  ELSE IF le = Tru THEN ri
  ELSE IF ri = Fal THEN Not(le)
  ELSE Node("Implies", <<le, ri>>)

RECURSIVE Eliminate(_)
Eliminate(t) ==
  LET c == [i \in DOMAIN t.a |-> Eliminate(t.a[i])] IN
  CASE t.a = <<>>       -> t
    [] t.op = "Not"     -> EliminateNot(c[1])
    [] t.op = "Equal"   -> EliminateEqual(c[1], c[2])
    [] t.op = "Implies" -> EliminateImplies(c[1], c[2])
    [] t.op = "And"     -> EliminateJunction("And", c, Tru, Fal)
    [] t.op = "Or"      -> EliminateJunction("Or", c, Fal, Tru)
    [] t.op = "Xor"     -> EliminateXor(c)

----------------------------------------------------------------------------
(* XorBinarize: only an exclusive or is rebuilt; every other term is saved *)
(* as it is, with the children it has.                                     *)

RECURSIVE XorBinarize(_)
XorBinarize(t) ==
  IF t.op # "Xor" THEN t
  ELSE FoldLeft(LAMBDA ne, u : Node("Xor", <<ne, XorBinarize(u)>>),
                XorBinarize(t.a[1]), Tail(t.a))

----------------------------------------------------------------------------
(* TseitinTraversal: every subterm with arguments gets a new symbol; the   *)
(* pairs of a name and what it stands for are kept in the order of the     *)
(* visits, in which a walker takes the last child first.                   *)

RECURSIVE PostOrder(_, _)
PostOrder(t, done) ==
  IF t \in ToSet(done) THEN done
  ELSE Append(FoldLeft(LAMBDA d, c : PostOrder(c, d), done, Reverse(t.a)), t)

\* A fault to look for: the names begin anew with every conversion.
give_first_name(known) ==
  CHOOSE n \in 1..Cardinality(known) + 1 : n \notin known \ Declared
    /\ \A m \in 1..n - 1 : m \in known \ Declared

\* The first name make_symbol does not refuse.
give_symbolic_name(known) ==
  LET new == CHOOSE n \in 1..Cardinality(known) + 1 :
               /\ n \notin known
               /\ \A m \in 1..n - 1 : m \in known
  IN new

visit_term(st, t) ==
  IF t.a = <<>> THEN [st EXCEPT !.name = @ @@ (t :> t)]
  ELSE LET n == give_symbolic_name(st.known) IN
       [known |-> st.known \cup {n},
        name |-> st.name @@ (t :> Sym(n)),
        reduced |-> Append(st.reduced,
          [lhs |-> Sym(n),
           rhs |-> Node(t.op, [i \in DOMAIN t.a |-> st.name[t.a[i]]])])]

TseitinTraversal(t, known) ==
  FoldLeft(visit_term,
           [known |-> known, name |-> [s \in {} |-> s], reduced |-> <<>>],
           PostOrder(t, <<>>))

----------------------------------------------------------------------------
(* The clauses that say that fi stands for se.                             *)

NotEach(s) == [i \in DOMAIN s |-> Not(s[i])]

OrClauses(fi, se) ==
  <<Node("Or", <<Not(fi)>> \o se.a),
    Node("And", [i \in DOMAIN se.a |-> Or2(fi, Not(se.a[i]))])>>

AndClauses(fi, se) ==
  <<Node("Or", <<fi>> \o NotEach(se.a)),
    Node("And", [i \in DOMAIN se.a |-> Or2(se.a[i], Not(fi))])>>

XorClauses(fi, le, ri) ==
  <<Or2(Or2(Not(le), Not(ri)), Not(fi)), Or2(Or2(le, ri), Not(fi)),
    Or2(Or2(fi, ri), Not(le)), Or2(Or2(fi, le), Not(ri))>>

ImpliesClauses(fi, le, ri) ==
  <<Or2(Or2(Not(le), ri), Not(fi)), Or2(le, fi), Or2(Not(ri), fi)>>

EqualClauses(fi, le, ri) ==
  <<Or2(Or2(Not(le), Not(ri)), fi), Or2(Or2(le, ri), fi),
    Or2(Or2(le, Not(ri)), Not(fi)), Or2(Or2(Not(le), ri), Not(fi))>>

Clauses(u) ==
  LET fi == u.lhs  se == u.rhs IN
  CASE se.op = "Or"      -> OrClauses(fi, se)
    [] se.op = "And"     -> AndClauses(fi, se)
    [] se.op = "Xor"     -> XorClauses(fi, se.a[1], se.a[2])
    [] se.op = "Implies" -> ImpliesClauses(fi, se.a[1], se.a[2])
    [] se.op = "Equal"   -> EqualClauses(fi, se.a[1], se.a[2])
    [] OTHER             -> <<Or2(Not(se.a[1]), Not(fi)), Or2(se.a[1], fi)>>

----------------------------------------------------------------------------
(* is_cnf and cnf_to_dimacs: first the outer operator is taken apart, then *)
(* the inner one; both keep a stack, which turns the order around.         *)

RECURSIVE Separate(_, _)
Separate(t, o) ==
  IF t.op # o THEN <<t>>
  ELSE FlattenSeq([i \in DOMAIN t.a |-> Separate(Reverse(t.a)[i], o)])

Separated(t) ==
  LET c == Separate(t, "And") IN [i \in DOMAIN c |-> Separate(c[i], "Or")]

is_literal(t) ==
  is_symbolic_const(t) \/ (t.op = "Not" /\ is_symbolic_const(t.a[1]))

is_cnf(t) ==
  \A c \in ToSet(Separated(t)) : \A l \in ToSet(c) : is_literal(l)

Variable(l) == IF l.op = "Not" THEN l.a[1] ELSE l

\* The variables in the order of their first literal: their numbers.
Numbering(clauses) ==
  FoldLeft(LAMBDA vs, l : IF l = Fal \/ Variable(l) \in ToSet(vs) THEN vs
                          ELSE Append(vs, Variable(l)),
           <<>>, FlattenSeq(clauses))

cnf_to_dimacs(cnf) ==
  IF cnf = Tru THEN [vs |-> <<>>, clauses |-> <<>>]
  ELSE LET clauses == Separated(cnf)
           vs == Numbering(clauses)
           number(l) == LET n == CHOOSE i \in DOMAIN vs : vs[i] = Variable(l)
                        IN IF l.op = "Not" THEN -n ELSE n
           line(c) == LET ls == SelectSeq(c, LAMBDA l : l # Fal)
                      IN [i \in DOMAIN ls |-> number(ls[i])]
       IN [vs |-> vs, clauses |-> [i \in DOMAIN clauses |-> line(clauses[i])]]

to_cnf(formula, known) ==
  LET f == Eliminate(formula) IN
  IF IsConstant(f) \/ is_cnf(f) THEN [cnf |-> f, known |-> known]
  ELSE LET obj == TseitinTraversal(XorBinarize(f), known)
           parent == Last(obj.reduced).lhs
           clauses == FlattenSeq([i \in DOMAIN obj.reduced |->
                                    Clauses(obj.reduced[i])])
       IN [cnf |-> Node("And", <<parent, Node("And", clauses)>>),
           known |-> obj.known]

----------------------------------------------------------------------------
RECURSIVE SymbolsOf(_)
SymbolsOf(t) == IF is_symbolic_const(t) THEN {t.id}
                ELSE UNION {SymbolsOf(t.a[i]) : i \in DOMAIN t.a}

Own == UNION {SymbolsOf(f) : f \in Formulas}

Init == symbols = Own /\ converted = <<>> /\ dimacs = cnf_to_dimacs(Tru)

\* The caller declares a symbol of its own, whatever it is called.
make_symbol ==
  \E n \in Declared \ symbols :
    /\ symbols' = symbols \cup {n}
    /\ UNCHANGED <<converted, dimacs>>

Convert ==
  \E f \in Formulas :
    /\ Len(converted) < MaxConverted
    /\ LET r == to_cnf(f, symbols) IN
       /\ symbols' = r.known
       /\ converted' = Append(converted,
                              [formula |-> f, cnf |-> r.cnf, before |-> symbols])
       /\ dimacs' = cnf_to_dimacs(r.cnf)

Next == make_symbol \/ Convert
Spec == Init /\ [][Next]_vars

----------------------------------------------------------------------------
RECURSIVE Holds(_, _)
\* Is t true when the symbols in env are, and no others?
Holds(t, env) ==
  CASE t.op = "sym"     -> t.id \in env
    [] t.op = "true"    -> TRUE
    [] t.op = "false"   -> FALSE
    [] t.op = "Not"     -> ~Holds(t.a[1], env)
    [] t.op = "And"     -> \A i \in DOMAIN t.a : Holds(t.a[i], env)
    [] t.op = "Or"      -> \E i \in DOMAIN t.a : Holds(t.a[i], env)
    [] t.op = "Xor"     -> Cardinality({i \in DOMAIN t.a : Holds(t.a[i], env)}) % 2 = 1
    [] t.op = "Implies" -> Holds(t.a[1], env) => Holds(t.a[2], env)
    [] t.op = "Equal"   -> Holds(t.a[1], env) <=> Holds(t.a[2], env)

\* An assignment of the symbols known before the last conversion makes the
\* formula true exactly when the names the conversion invented can be chosen
\* so that its result is.  (utils.h: "Converts any boolean formula to cnf".)
Equisatisfiable ==
  converted # <<>> =>
    LET c == Last(converted)
        new == symbols \ c.before
    IN \A env \in SUBSET Own :
         Holds(c.formula, env) <=> \E e \in SUBSET new : Holds(c.cnf, env \cup e)

\* No two conversions share an invented name, and none is the caller's.
NamesNew ==
  \A i \in DOMAIN converted :
    LET names == {v.id : v \in ToSet(cnf_to_dimacs(converted[i].cnf).vs)} IN
    \A n \in names \ Own :
      /\ n \notin converted[i].before
      /\ \A j \in DOMAIN converted \ {i} :
           n \notin {v.id : v \in ToSet(cnf_to_dimacs(converted[j].cnf).vs)}

\* The result is a constant or in conjunctive normal form, and the clauses
\* printed are satisfied by the assignments that satisfy it.
DimacsAgrees ==
  converted # <<>> =>
    LET cnf == Last(converted).cnf
        holds(n, env) == IF n > 0 THEN dimacs.vs[n].id \in env
                         ELSE dimacs.vs[-n].id \notin env
    IN /\ IsConstant(cnf) \/ is_cnf(cnf)
       /\ \A env \in SUBSET {v.id : v \in ToSet(dimacs.vs)} :
            Holds(cnf, env) <=>
              \A c \in ToSet(dimacs.clauses) : \E i \in DOMAIN c : holds(c[i], env)
=============================================================================
