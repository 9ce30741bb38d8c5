---------------------------- MODULE GenericSolver ----------------------------
(***************************************************************************)
(* GenericSolver (src/generic_solver.cpp): a solver that turns every call  *)
(* into a command for an SMT-LIB binary and keeps, on its own side, the    *)
(* maps between terms and the names the binary knows them by.  A command   *)
(* and its reply are one step here (GenericPipe shows why they may be).    *)
(* A formula is the set of its models; assignments give the symbols and    *)
(* the parameters, all Boolean, their values.  Symbols, parameters and the *)
(* numbered names share one map and, in the binary, one name space.        *)
(***************************************************************************)
EXTENDS Naturals, Sequences, FiniteSets, Functions

CONSTANTS
  SymbolNames, ParamNames,   \* strings given to make_symbol and make_param
  SortNames,                 \* strings given to make_sort
  BoolValues,                \* values given to make_term(b)
  ValueSorts,                \* sorts asked for a value written 0
  Numbered,                  \* the strings "t_1", "t_2", ... of get_name
  Counts,                    \* how many levels one push or pop names
  MaxTerms,                  \* bound: names given by get_name
  MaxHeld,                   \* bound: terms and sorts in the maps when a
                             \* client makes another
  MaxLevel,                  \* bound: levels open in the binary, and one less
                             \* than those context_level_ counts
  MayRefuse                  \* the binary may refuse a declaration

ASSUME GenericBounds ==
  /\ Counts \subseteq Nat /\ MaxTerms \in Nat /\ MaxLevel \in Nat
  /\ \A i, j \in 1 .. MaxTerms : Numbered[i] = Numbered[j] => i = j

VARIABLES
  name_term_map,       \* name -> term
  term_name_map,       \* text of a term -> name: terms compare by their text
  held,                \* the keys of that map: the terms a client was given
  sorts,               \* the domain of name_sort_map: declared sorts
  term_counter,
  context_level_,
  scopes,              \* binary: the identifiers declared, per level
  definition,          \* binary: what a declared identifier means
  levels,              \* binary: the models left by its assertions, per level
  global,              \* binary: its option :global-declarations
  answer,              \* of the last command, when it was a query
  assumed,             \* its assumptions
  core,                \* what get_unsat_assumptions returned for them
  history              \* what happened: "reset" and "refused"

maps == <<name_term_map, term_name_map, held, sorts, term_counter>>
stack == <<context_level_, levels>>
vars == <<maps, stack, answer, assumed, core, scopes, definition, global, history>>

(* map[key] = value                                                        *)
Enter(map, key, value) ==
  [k \in DOMAIN map \cup {key} |-> IF k = key THEN value ELSE map[k]]

-----------------------------------------------------------------------------
(* Names are the strings that key name_term_map: a symbol's is between     *)
(* bars, a parameter's and a numbered one are the bare string, and an open *)
(* term is its own name.                                                   *)

Piped(s) == <<"|", s>>             \* "always put pipes around name"
Plain(s) == <<"plain", s>>
Generated(i) == Plain(Numbered[i]) \* get_name

(* In SMT-LIB |s| and s are one identifier; sorts have a space of their own*)
Identifier(name) == Plain(name[2])
SortIdentifier(s) == <<"sort", s>>

(* Terms.  A term is [text, sort, ground, means]: its repr, which consists *)
(* of an operator and the names of its children, and the formula a client  *)
(* asked for.                                                              *)
Atoms == {Piped(s) : s \in SymbolNames} \cup {Plain(s) : s \in ParamNames}
Models == [Atoms -> BOOLEAN]
IsTerm(t) == DOMAIN t = {"text", "sort", "ground", "means"}

Leaf(text, sort, ground, means) ==
  [text |-> text, sort |-> sort, ground |-> ground, means |-> means]
Where(atom) == {m \in Models : m[atom]}
SymbolTerm(s) == Leaf(Piped(s), "Bool", TRUE, Where(Piped(s)))
ParamTerm(s) == Leaf(Plain(s), "Bool", FALSE, Where(Plain(s)))

(* make_value *)
BoolValue(b) == Leaf(<<"value", b>>, "Bool", TRUE, IF b THEN Models ELSE {})
ZeroValue(s) == Leaf(<<"value", 0>>, s, TRUE, {})

(* the operators a client uses; a quantifier binds its first child *)
Operators == {"not", "and", "forall"}
Arity == [not |-> 1, and |-> 2, forall |-> 2]
Meaning(op, args, bound) ==
  CASE op = "not" -> Models \ args[1]
    [] op = "and" -> args[1] \cap args[2]
    [] op = "forall" ->
         {m \in Models : \A b \in BOOLEAN : [m EXCEPT ![bound] = b] \in args[2]}

NameOf(t) == term_name_map[t.text]
Bound(op, names) == IF op = "forall" THEN names[1] ELSE <<>>

(* make_term(op, terms); compute_ground: an open child makes a term open,  *)
(* the variable of a quantifier too                                        *)
Compound(op, args) ==
  LET names == [i \in DOMAIN args |-> NameOf(args[i])]
  IN Leaf(<<op, names>>, "Bool", \A i \in DOMAIN args : args[i].ground,
          Meaning(op, [i \in DOMAIN args |-> args[i].means], Bound(op, names)))

BoolTerms == {t \in held : t.sort = "Bool"}
Arguments(op) ==
  {a \in [1 .. Arity[op] -> BoolTerms] :
     op = "forall" => a[1].text \in {Plain(s) : s \in ParamNames}}

-----------------------------------------------------------------------------
(* The binary.  It replaces an identifier that a quantifier around it binds*)
(* by the variable, any other by its definition, and an open term, which   *)
(* is sent as its text, by what the text says.  env: identifiers bound.    *)

Visible == UNION Range(scopes)
IsOpen(name) == name[1] = "text"
Parts(name) == IF IsOpen(name) THEN Range(name[2][2]) ELSE {name}
Binds(name) ==
  IF IsOpen(name) /\ name[2][1] = "forall" THEN {name[2][2][1]} ELSE {}

(* the identifiers free in a name; bound: open terms are two texts deep    *)
InnerFree(name, env) == {Identifier(p) : p \in Parts(name)} \ (env \cup Binds(name))
Free(name, env) == UNION {InnerFree(p, env \cup Binds(name)) : p \in Parts(name)}
TwoDeep(name) == \A p \in Parts(name) : \A q \in Parts(p) : ~IsOpen(q)

AtomMeans(name, env) ==
  IF Identifier(name) \in env THEN Where(Identifier(name))
  ELSE definition[Identifier(name)]
TextMeans(name, env, Means(_, _)) ==
  IF IsOpen(name)
  THEN LET op == name[2][1]
           names == name[2][2]
       IN Meaning(op, [i \in DOMAIN names |-> Means(names[i], env \cup Binds(name))],
                  Bound(op, names))
  ELSE AtomMeans(name, env)
InnerMeans(name, env) == TextMeans(name, env, AtomMeans)
BinaryMeans(name, env) == TextMeans(name, env, InnerMeans)

Understands(name, env) == Free(name, env) \subseteq Visible
Top == levels[Len(levels)]

Declare(identifier, means) ==
  /\ scopes' = IF global THEN [scopes EXCEPT ![1] = @ \cup {identifier}]
               ELSE [scopes EXCEPT ![Len(scopes)] = @ \cup {identifier}]
  /\ definition' = Enter(definition, identifier, means)

(* The reply to a declaration is success or, when the identifier is taken  *)
(* or for a reason of the binary's own, an error, which run_command throws.*)
Declares(identifier, means) ==
  \/ /\ identifier \notin Visible
     /\ Declare(identifier, means) /\ UNCHANGED history
  \/ /\ MayRefuse \/ identifier \in Visible
     /\ history' = history \cup {"refused"}
     /\ UNCHANGED <<scopes, definition>>

-----------------------------------------------------------------------------
TypeOK ==
  /\ Range(name_term_map) \subseteq held
  /\ Range(term_name_map) \subseteq DOMAIN name_term_map
  /\ \A t \in held : IsTerm(t) /\ t.text \in DOMAIN term_name_map
  /\ sorts \subseteq SortNames
  /\ term_counter \in 0 .. MaxTerms
  /\ context_level_ \in Nat
  /\ Len(scopes) = Len(levels) /\ Len(levels) \in 1 .. MaxLevel + 1
  /\ Visible \subseteq DOMAIN definition
  /\ \A i \in 1 .. Len(levels) : levels[i] \subseteq Models
  /\ global \in BOOLEAN
  /\ answer \in {"none", "sat", "unsat", "unknown"}
  /\ assumed \subseteq held /\ core \subseteq held
  /\ history \subseteq {"reset", "refused"}

(* set_opt("global-declarations", ...) comes first or not at all *)
Init ==
  /\ name_term_map = <<>> /\ term_name_map = <<>> /\ held = {}
  /\ sorts = {} /\ term_counter = 0 /\ context_level_ = 0
  /\ scopes = <<{}>> /\ definition = <<>> /\ levels = <<Models>>
  /\ global \in BOOLEAN
  /\ answer = "none" /\ assumed = {} /\ core = {} /\ history = {}

Room == Cardinality(DOMAIN term_name_map) + Cardinality(sorts) < MaxHeld

(* after any other command the binary has no core to give *)
NoQuery == answer' = "none" /\ assumed' = {} /\ core' = {}

(* make_sort(name, arity): the maps are filled before the binary has said  *)
(* anything; make_sort_silently sends no command                           *)
make_sort_silently(s) ==
  /\ s \notin sorts /\ Room
  /\ sorts' = sorts \cup {s}
  /\ NoQuery
  /\ UNCHANGED <<name_term_map, term_name_map, held, term_counter, stack, scopes, definition, global, history>>

make_sort(s) ==
  /\ s \notin sorts /\ Room
  /\ sorts' = sorts \cup {s}
  /\ Declares(SortIdentifier(s), {})
  /\ NoQuery
  /\ UNCHANGED <<name_term_map, term_name_map, held, term_counter, stack, global>>

(* name_term_map[name] = t, also when the name leads to another term       *)
Map(name, t) ==
  /\ name_term_map' = Enter(name_term_map, name, t)
  /\ term_name_map' = Enter(term_name_map, t.text, name)
  /\ held' = held \cup {t}

make_symbol(s) ==
  /\ Piped(s) \notin DOMAIN name_term_map /\ Room
  /\ Map(Piped(s), SymbolTerm(s))
  /\ Declares(Identifier(Piped(s)), SymbolTerm(s).means)
  /\ NoQuery
  /\ UNCHANGED <<sorts, term_counter, stack, global>>

(* A parameter is no command.  Its name is looked for as it is, without    *)
(* bars: among parameters and numbered names, not among symbols.           *)
make_param(s) ==
  /\ Plain(s) \notin DOMAIN name_term_map /\ Room
  /\ Map(Plain(s), ParamTerm(s))
  /\ NoQuery
  /\ UNCHANGED <<sorts, term_counter, stack, scopes, definition, global, history>>

(* store_term of a term that is not in the map: a ground one is defined in *)
(* the binary under a new name, an open one is its own name.  The counter  *)
(* has moved also when define_fun throws, for an identifier in the text    *)
(* that the binary does not see or for the name, which it does; the binary *)
(* defines the name as what the text says to it.                           *)
StoreGround(t, uses, means) ==
  /\ t.text \notin DOMAIN term_name_map /\ t.ground
  /\ term_counter < MaxTerms
  /\ term_counter' = term_counter + 1
  /\ \/ /\ uses \subseteq Visible /\ Generated(term_counter') \notin Visible
        /\ Map(Generated(term_counter'), t)
        /\ Declare(Generated(term_counter'), means)
     \/ /\ ~(uses \subseteq Visible) \/ Generated(term_counter') \in Visible
        /\ UNCHANGED <<name_term_map, term_name_map, held, scopes, definition>>

StoreOpen(t) ==
  /\ t.text \notin DOMAIN term_name_map /\ ~t.ground
  /\ TwoDeep(<<"text", t.text>>)
  /\ Map(<<"text", t.text>>, t)
  /\ UNCHANGED <<term_counter, scopes, definition>>

store_term(op, args) ==
  LET t == Compound(op, args)
      names == t.text[2]
  IN /\ \/ StoreGround(t, UNION {Free(n, {}) : n \in Range(names)},
                       Meaning(op, [i \in DOMAIN names |-> BinaryMeans(names[i], {})],
                               Bound(op, names)))
        \/ StoreOpen(t)
     /\ UNCHANGED <<sorts, stack, global, history>>

(* make_term(b), make_term(i, sort) *)
make_value(v) ==
  /\ Room
  /\ StoreGround(v, {}, v.means)
  /\ NoQuery
  /\ UNCHANGED <<sorts, stack, global, history>>

(* make_term(op, terms) *)
make_term(op, args) == Room /\ store_term(op, args) /\ NoQuery

-----------------------------------------------------------------------------
(* Commands about assertions.  A name the binary does not see, or a        *)
(* parameter that no quantifier binds, is an error and an exception:       *)
(* nothing happens.                                                        *)

assert_formula(t) ==
  /\ Understands(NameOf(t), {})
  /\ levels' = [levels EXCEPT ![Len(levels)] = @ \cap BinaryMeans(NameOf(t), {})]
  /\ NoQuery
  /\ UNCHANGED <<maps, context_level_, scopes, definition, global, history>>

push(num) ==
  /\ Len(levels) + num <= MaxLevel + 1 /\ context_level_ + num <= MaxLevel + 1
  /\ levels' = levels \o [i \in 1 .. num |-> Top]
  /\ scopes' = scopes \o [i \in 1 .. num |-> {}]
  /\ context_level_' = context_level_ + num
  /\ NoQuery
  /\ UNCHANGED <<maps, definition, global, history>>

(* The level is lowered only after the binary has popped: when it has no   *)
(* num levels it answers with an error.  pop_unverified does not look at   *)
(* the reply.                                                              *)
pop_unverified(num) ==
  /\ context_level_' = context_level_ - num
  /\ IF num < Len(levels)
     THEN /\ levels' = SubSeq(levels, 1, Len(levels) - num)
          /\ scopes' = SubSeq(scopes, 1, Len(scopes) - num)
     ELSE UNCHANGED <<levels, scopes>>
  /\ NoQuery
  /\ UNCHANGED <<maps, definition, global, history>>

pop(num) ==
  /\ num < Len(levels)
  /\ levels' = SubSeq(levels, 1, Len(levels) - num)
  /\ scopes' = SubSeq(scopes, 1, Len(scopes) - num)
  /\ context_level_' = context_level_ - num
  /\ NoQuery
  /\ UNCHANGED <<maps, definition, global, history>>

check_sat ==
  /\ answer' \in {"unknown", IF Top = {} THEN "unsat" ELSE "sat"}
  /\ assumed' = {} /\ core' = {}
  /\ UNCHANGED <<maps, stack, scopes, definition, global, history>>

(* the assumptions have to be literals, which the text of a term is not    *)
check_sat_assuming(A) ==
  /\ \A t \in A : ~IsOpen(NameOf(t)) /\ Understands(NameOf(t), {})
  /\ LET left == Top \cap {m \in Models : \A t \in A : m \in BinaryMeans(NameOf(t), {})}
     IN answer' \in {"unknown", IF left = {} THEN "unsat" ELSE "sat"}
  /\ assumed' = A /\ core' = {}
  /\ UNCHANGED <<maps, stack, scopes, definition, global, history>>

(* The binary prints an assumption of a core as the name it was given or,  *)
(* when it keeps no abbreviations, as the literal this stands for; with    *)
(* the bars of the name or without.                                        *)
Literals(t) ==
  LET written == {[positive |-> TRUE, name |-> NameOf(t)]} \cup
                 {[positive |-> FALSE, name |-> u.text[2][1]] :
                    u \in {u \in {t} : u.text[1] = "not"}}
  IN written \cup {[l EXCEPT !.name = Identifier(@)] : l \in written}

(* "solvers don't always print with the pipes need to add those back in"   *)
Atom(name) ==
  name_term_map[IF name \in DOMAIN name_term_map THEN name ELSE Piped(name[2])]

(* make_term(Not, atom), which finds the term or stores it                 *)
Negate(atom) ==
  LET t == Compound("not", <<atom>>)
  IN \/ /\ t.text \in DOMAIN term_name_map
        /\ core' = {name_term_map[NameOf(t)]}
        /\ UNCHANGED <<maps, scopes, definition>>
     \/ /\ store_term("not", <<atom>>)
        /\ core' = {u \in {t} : u \in held'}

get_assumption_unsigned(literal) ==
  core' = {Atom(literal.name)} /\ UNCHANGED <<maps, scopes, definition>>

get_assumption(literal) ==
  \/ /\ literal.positive
     /\ core' = {Atom(literal.name)}
     /\ UNCHANGED <<maps, scopes, definition>>
  \/ /\ ~literal.positive /\ Atom(literal.name) \in BoolTerms
     /\ Negate(Atom(literal.name))

(* A query has one assumption here, and its core is that or empty, which   *)
(* changes nothing.                                                        *)
get_unsat_assumptions ==
  /\ answer = "unsat" /\ core = {}
  /\ \E t \in assumed : \E literal \in Literals(t) : get_assumption(literal)
  /\ UNCHANGED <<stack, global, history, answer, assumed>>

(* Neither reset function touches the maps or context_level_.  (reset)     *)
(* also forgets the options.  reset_counting names terms from t_1 again.   *)
reset_counting ==
  /\ levels' = <<Models>> /\ scopes' = <<{}>> /\ global' = FALSE
  /\ NoQuery
  /\ history' = history \cup {"reset"}
  /\ term_counter' = 0
  /\ UNCHANGED <<name_term_map, term_name_map, held, sorts, context_level_, definition>>

reset ==
  /\ levels' = <<Models>> /\ scopes' = <<{}>> /\ global' = FALSE
  /\ NoQuery
  /\ history' = history \cup {"reset"}
  /\ UNCHANGED <<maps, context_level_, definition>>

reset_assertions ==
  /\ levels' = <<Models>>
  /\ scopes' = <<IF global THEN Visible ELSE {}>>
  /\ NoQuery
  /\ history' = history \cup {"reset"}
  /\ UNCHANGED <<maps, context_level_, definition, global>>

Next ==
  \/ \E s \in SortNames : make_sort(s)
  \/ \E s \in SymbolNames : make_symbol(s)
  \/ \E s \in ParamNames : make_param(s)
  \/ \E b \in BoolValues : make_value(BoolValue(b))
  \/ \E s \in ValueSorts : make_value(ZeroValue(s))
  \/ \E op \in Operators : \E args \in Arguments(op) : make_term(op, args)
  \/ \E t \in BoolTerms : assert_formula(t)
  \/ \E n \in Counts : push(n) \/ pop(n)
  \/ check_sat
  \/ \E A \in {{t} : t \in BoolTerms} : check_sat_assuming(A)
  \/ get_unsat_assumptions
  \/ reset \/ reset_assertions

Spec == Init /\ [][Next]_vars

-----------------------------------------------------------------------------
(* The names taken by symbols, by parameters and by get_name               *)
SymbolsMade == {s \in SymbolNames : Piped(s) \in DOMAIN term_name_map}
ParamsMade == {s \in ParamNames : Plain(s) \in DOMAIN term_name_map}
Params == {Plain(s) : s \in ParamsMade}
NumbersGiven == {Numbered[i] : i \in 1 .. term_counter}
NamesApart ==
  /\ SymbolsMade \cap ParamsMade = {}
  /\ (SymbolsMade \cup ParamsMade) \cap NumbersGiven = {}

(* The two maps agree and the binary's names mean what the client asked    *)
(* for.  The name kept for a text leads to the term with this text, except *)
(* for a parameter whose name get_name has given away.  And as long as no  *)
(* string is the name of two of them, wherever the binary still knows a    *)
(* name, or all the names in an open term, it stands for the formula of    *)
(* its term, under any of the quantifiers that may surround it; whatever   *)
(* was popped, reset or refused meanwhile.                                 *)
NamesMean ==
  \A text \in DOMAIN term_name_map :
    LET name == term_name_map[text]
        t == name_term_map[name]
    IN /\ t.text = text \/ text \in {Plain(s) : s \in NumbersGiven}
       /\ NamesApart =>
            \A env \in SUBSET Params :
              Understands(name, env) => BinaryMeans(name, env) = t.means

(* With :global-declarations, and as long as neither reset function was    *)
(* called and no declaration was refused, the binary knows every name      *)
(* GenericSolver keeps, parameters where they are bound: no command fails  *)
(* for a name lost at a pop.                                               *)
GlobalNamesKnown ==
  global /\ history = {} =>
    /\ \A n \in DOMAIN name_term_map : Understands(n, Params)
    /\ {SortIdentifier(s) : s \in sorts} \subseteq Visible

(* context_level_ is the binary's level until a reset function is called:  *)
(* a refused pop leaves both alone.                                        *)
LevelsAgree == "reset" \in history \/ context_level_ = Len(levels) - 1

(* get_unsat_assumptions gives back assumptions of the last check, however *)
(* the binary spells them, as long as no string names two things.          *)
CoreFromAssumptions == NamesApart => core \subseteq assumed

(* "maps between Term name and actual Term and vice versa"                 *)
(* (src/include/generic_solver.h:258): without NamesMean's exception, that *)
(* get_name gives no name which is in the map (src/generic_solver.cpp:735).*)
MapsInverse ==
  \A text \in DOMAIN term_name_map : name_term_map[term_name_map[text]].text = text

(* "symbol name ... already taken, either by another symbol or by a param" *)
(* (src/generic_solver.cpp:941): no symbol and parameter have one name.    *)
SymbolsApartFromParams == SymbolsMade \cap ParamsMade = {}

(* "@return a value term with Sort sort and value i" (include/solver.h:211) *)
(* of make_term(0, sort): the term it finds under that text has the sort.   *)
ValuesHaveSort ==
  \A s \in ValueSorts :
    LET text == ZeroValue(s).text
    IN text \in DOMAIN term_name_map => name_term_map[term_name_map[text]].sort = s
=============================================================================
