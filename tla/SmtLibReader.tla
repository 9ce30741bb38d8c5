----------------------------- MODULE SmtLibReader -----------------------------
(***************************************************************************)
(* SmtLibReader (src/src/smtlib_reader.cpp) as its parser drives it        *)
(* (src/src/smtlibparser.yy): the scopes of global symbols beside the      *)
(* levels of the solver, the scopes of arguments, parameters and let       *)
(* bindings, and the definitions with arguments, which are not scoped.     *)
(* Any handler may throw and any term may be a syntax error: parse() ends  *)
(* there, nothing is undone, and the reader may be used again.             *)
(*                                                                         *)
(* A term is the set of the symbols, arguments and parameters that occur   *)
(* free in it.  The commands that take terms are one, "assert".            *)
(***************************************************************************)
EXTENDS Naturals, Sequences, FiniteSets

CONSTANTS
  Names, Sorts,
  DefinedNames,  \* bound of the model: the names of define-fun
  NoName,
  NDEBUG,        \* TRUE in a build without assertions
  MaxLevel,      \* bound of the model: context levels
  MaxNesting,    \* bound of the model: terms and commands that are open
  MaxArgs,       \* bound of the model: arguments of a definition
  MaxLeaves,     \* bound of the model: leaves of a term
  MaxDefs,       \* bound of the model: definitions with arguments
  MaxParams,     \* bound of the model: parameters of one name and sort
  MaxLeaked      \* bound of the model: scopes left open by failed parses

ASSUME ReaderAssumption ==
  /\ NoName \notin Names /\ DefinedNames \subseteq Names
  /\ NDEBUG \in BOOLEAN
  /\ {MaxLevel, MaxNesting, MaxArgs, MaxLeaves, MaxDefs, MaxParams,
      MaxLeaked} \subseteq Nat
  /\ MaxLeaves > 0

VARIABLES
  global_symbols,    \* UnorderedScopedSymbolMap: the scopes, and the terms
  arg_param_map,     \* another one
  all_symbols,       \* name -> sort of every symbol ever declared
  defs,              \* name -> body and arguments
  sort_arg_ids,      \* per scope: sort -> argument variables in use
  stack,             \* what the parser has open, outermost first
  level,             \* the solver: its context level,
  declared,          \* and the names of its symbols
  leaked,            \* history: scopes that failed parses left open
  dangling,          \* history: a symbol in a definition was popped
  refused,           \* history: the solver refused a declaration
  down               \* an assertion failed, or the behaviour is undefined

solver == <<level, declared>>
history == <<leaked, dangling, refused>>
scopes == <<arg_param_map, sort_arg_ids>>
vars == <<global_symbols, all_symbols, defs, scopes, stack, solver, history,
          down>>

Symbol(n, s) == [kind |-> "symbol", name |-> n, sort |-> s, id |-> 0]
Arg(s, i) == [kind |-> "arg", name |-> NoName, sort |-> s, id |-> i]
Param(n, s, i) == [kind |-> "param", name |-> n, sort |-> s, id |-> i]

Leaves ==
  {Symbol(n, s) : n \in Names, s \in Sorts}
  \cup {Arg(s, i) : s \in Sorts, i \in 0 .. MaxArgs - 1}
  \cup {Param(n, s, i) : n \in Names, s \in Sorts, i \in 0 .. MaxParams - 1}

Terms == {t \in SUBSET Leaves : Cardinality(t) <= MaxLeaves}

-----------------------------------------------------------------------------
(* UnorderedScopedSymbolMap *)

EmptyMap == [scopes |-> <<{}>>, map |-> [n \in {} |-> {}]]

push_scopes(m, k) == [m EXCEPT !.scopes = @ \o [i \in 1 .. k |-> {}]]

Erased(m, k) == UNION {m.scopes[i] : i \in Len(m.scopes) - k + 1 .. Len(m.scopes)}

(* Mutant of pop_scopes: the terms are kept. *)
pop_scopes_kept(m, k) == [m EXCEPT !.scopes = SubSeq(@, 1, Len(@) - k)]

(* erases the names of the scopes that are left from the one map *)
pop_scopes(m, k) ==
  [scopes |-> SubSeq(m.scopes, 1, Len(m.scopes) - k),
   map |-> [n \in DOMAIN m.map \ Erased(m, k) |-> m.map[n]]]

Bound(m) == DOMAIN m.map

(* m with n bound to t in scope i *)
Added(m, i, n, t) ==
  [scopes |-> [m.scopes EXCEPT ![i] = @ \cup {n}],
   map |-> [x \in Bound(m) \cup {n} |-> IF x = n THEN t ELSE m.map[x]]]

(* Mutant of add_mapping: a name may be bound again. *)
add_mapping_again(m, n, t, m2) == m2 = Added(m, Len(m.scopes), n, t)

(* m2 is m with n bound to t: a name that is bound in any scope throws *)
add_mapping(m, n, t, m2) == n \notin Bound(m) /\ m2 = Added(m, Len(m.scopes), n, t)

-----------------------------------------------------------------------------
Init ==
  /\ global_symbols = EmptyMap /\ arg_param_map = EmptyMap
  /\ all_symbols = [n \in {} |-> 0]
  /\ defs = [n \in {} |-> 0]
  /\ sort_arg_ids = <<>>
  /\ stack = <<>>
  /\ level = 0 /\ declared = {}
  /\ leaked = 0 /\ dangling = FALSE /\ refused = FALSE
  /\ down = FALSE

(* What the parser has open: a command or a term, its head (arguments,     *)
(* parameters, bindings) or its body, and the term it has so far.          *)
Frame(kind, part, name) ==
  [kind |-> kind, part |-> part, name |-> name, args |-> <<>>, term |-> {}]

Inner == stack[Len(stack)]

(* a term may stand here *)
InTerm ==
  /\ ~down /\ stack # <<>>
  /\ Inner.part = "body" \/ Inner.kind = "let"

(* push_scope and pop_scope of the reader *)
push_scope ==
  /\ arg_param_map' = push_scopes(arg_param_map, 1)
  /\ sort_arg_ids' = Append(sort_arg_ids, [s \in Sorts |-> 0])

(* Mutant of pop_scope: the indices of the arguments stay. *)
pop_scope_ids ==
  /\ arg_param_map' = pop_scopes(arg_param_map, 1)
  /\ UNCHANGED sort_arg_ids

pop_scope ==
  /\ arg_param_map' = pop_scopes(arg_param_map, 1)
  /\ sort_arg_ids' = SubSeq(sort_arg_ids, 1, Len(sort_arg_ids) - 1)

current_scope == Len(arg_param_map.scopes) - 1

(* parse() ends, by an exception or a syntax error *)
Failed ==
  /\ stack' = <<>>
  /\ leaked' = leaked + Len(stack) - (IF stack[1].kind = "assert" THEN 1 ELSE 0)
  /\ leaked' <= MaxLeaked
  /\ UNCHANGED <<dangling, refused, down>>

(* at any point of a term: the sort is wrong, make_term throws, the file   *)
(* ends, an unknown sort is named, assert_formula throws                   *)
Fail ==
  /\ ~down /\ stack # <<>>
  /\ Failed
  /\ UNCHANGED <<global_symbols, all_symbols, defs, scopes, solver>>

-----------------------------------------------------------------------------
(* Commands without terms; one that throws before it changes anything is   *)
(* no step.                                                                *)

Ready == ~down /\ stack = <<>>

(* Mutant of new_symbol: all_symbols_ is not looked up. *)
new_symbol_always(n, s) ==
  /\ Ready
  /\ IF n \in declared
     THEN refused' = TRUE /\ UNCHANGED <<global_symbols, all_symbols, declared>>
     ELSE /\ add_mapping(global_symbols, n, {Symbol(n, s)}, global_symbols')
          /\ all_symbols' = [x \in DOMAIN all_symbols \cup {n} |->
                               IF x = n THEN s ELSE all_symbols[x]]
          /\ declared' = declared \cup {n}
          /\ UNCHANGED refused
  /\ UNCHANGED <<defs, scopes, stack, level, leaked, dangling, down>>

(* A name that is visible throws, and so does one that was declared with   *)
(* another sort.                                                           *)
new_symbol(n, s) ==
  /\ Ready
  /\ n \notin Bound(global_symbols)
  /\ \/ /\ n \in DOMAIN all_symbols /\ all_symbols[n] = s
        /\ add_mapping(global_symbols, n, {Symbol(n, s)}, global_symbols')
        /\ UNCHANGED <<all_symbols, declared, refused>>
     \/ /\ n \notin DOMAIN all_symbols
        /\ IF n \in declared
           THEN refused' = TRUE /\ UNCHANGED <<global_symbols, all_symbols, declared>>
           ELSE /\ add_mapping(global_symbols, n, {Symbol(n, s)}, global_symbols')
                /\ all_symbols' = [x \in DOMAIN all_symbols \cup {n} |->
                                     IF x = n THEN s ELSE all_symbols[x]]
                /\ declared' = declared \cup {n}
                /\ UNCHANGED refused
  /\ UNCHANGED <<defs, scopes, stack, level, leaked, dangling, down>>

(* The scopes first, then the solver.  When it throws (it does not support *)
(* push, or has an error of its own) the levels differ for good, and the   *)
(* model stops.                                                            *)
push(k) ==
  /\ Ready
  /\ Len(global_symbols.scopes) - 1 + k <= MaxLevel
  /\ global_symbols' = push_scopes(global_symbols, k)
  /\ \/ level' = level + k /\ UNCHANGED down
     \/ down' = TRUE /\ UNCHANGED level
  /\ UNCHANGED <<all_symbols, defs, scopes, stack, declared, leaked,
                 dangling, refused>>

SymbolsOf(t) == {x.name : x \in {y \in t : y.kind = "symbol"}}

(* More pops than there are scopes: assert(current_scope()) fails, and     *)
(* without assertions the map is left with no scope to use; the model      *)
(* stops at either.                                                        *)
pop(k) ==
  /\ Ready
  /\ \/ /\ k >= Len(global_symbols.scopes)
        /\ down' = TRUE
        /\ UNCHANGED <<global_symbols, level, dangling>>
     \/ /\ k < Len(global_symbols.scopes)
        /\ global_symbols' = pop_scopes(global_symbols, k)
        /\ dangling' = (dangling \/ \E f \in DOMAIN defs :
                           SymbolsOf(defs[f].body) \cap Erased(global_symbols, k) # {})
        /\ \/ k <= level /\ level' = level - k /\ UNCHANGED down
           \/ down' = TRUE /\ UNCHANGED level
  /\ UNCHANGED <<all_symbols, defs, scopes, stack, declared, leaked, refused>>

-----------------------------------------------------------------------------
(* assert and define-fun *)

BeginAssert ==
  /\ Ready
  /\ stack' = <<Frame("assert", "body", NoName)>>
  /\ UNCHANGED <<global_symbols, all_symbols, defs, scopes, solver, history, down>>

EndAssert ==
  /\ ~down /\ Len(stack) = 1 /\ Inner.kind = "assert"
  /\ stack' = <<>>
  /\ UNCHANGED <<global_symbols, all_symbols, defs, scopes, solver, history, down>>

BeginDefine(n) ==
  /\ Ready
  /\ push_scope
  /\ stack' = <<Frame("define", "head", n)>>
  /\ UNCHANGED <<global_symbols, all_symbols, defs, solver, history, down>>

(* The first variable of the sort that this definition does not use yet;   *)
(* tmp_args_ keeps them, to be used by other definitions too, and one that *)
(* it lacks is made.                                                       *)
register_arg(n, s) ==
  LET id == sort_arg_ids[Len(sort_arg_ids)][s]
      x  == Arg(s, id)
  IN  /\ ~down /\ stack # <<>> /\ Inner.kind = "define" /\ Inner.part = "head"
      /\ \/ /\ Len(Inner.args) < MaxArgs
            /\ add_mapping(arg_param_map, n, {x}, arg_param_map')
            /\ sort_arg_ids' = [sort_arg_ids EXCEPT ![Len(sort_arg_ids)][s] = @ + 1]
            /\ stack' = [stack EXCEPT ![Len(stack)].args = Append(@, x)]
            /\ UNCHANGED <<history, down>>
         \/ /\ n \in Bound(arg_param_map)
            /\ Failed
            /\ UNCHANGED scopes
      /\ UNCHANGED <<global_symbols, all_symbols, defs, solver>>

(* Mutant of alias: it belongs to the outermost scope. *)
alias_outermost(n, t) ==
  /\ n \notin Bound(global_symbols)
  /\ global_symbols' = Added(global_symbols, 1, n, t)

(* a definition without arguments *)
alias(n, t) == add_mapping(global_symbols, n, t, global_symbols')

(* define_fun, pop_scope and then the assertion that no scope is open.     *)
(* Without arguments it is an alias, scoped like a symbol; with arguments  *)
(* it replaces a definition of the same name and is not scoped.            *)
EndDefine ==
  /\ ~down /\ Len(stack) = 1 /\ Inner.kind = "define" /\ Inner.part = "body"
  /\ \/ /\ Inner.args # <<>>
        /\ Cardinality(DOMAIN defs \cup {Inner.name}) <= MaxDefs
        /\ defs' = [f \in DOMAIN defs \cup {Inner.name} |->
                      IF f = Inner.name THEN [body |-> Inner.term, args |-> Inner.args]
                      ELSE defs[f]]
        /\ pop_scope
        /\ stack' = <<>>
        /\ down' = (~NDEBUG /\ current_scope > 1)
        /\ UNCHANGED <<global_symbols, history>>
     \/ /\ Inner.args = <<>>
        /\ alias(Inner.name, Inner.term)
        /\ pop_scope
        /\ stack' = <<>>
        /\ down' = (~NDEBUG /\ current_scope > 1)
        /\ UNCHANGED <<defs, history>>
     \/ /\ Inner.args = <<>> /\ Inner.name \in Bound(global_symbols)
        /\ Failed
        /\ UNCHANGED <<global_symbols, defs, scopes>>
  /\ UNCHANGED <<all_symbols, solver>>

-----------------------------------------------------------------------------
(* Terms *)

(* lookup_symbol: arguments, parameters and bindings before the symbols.   *)
Known == Bound(arg_param_map) \cup Bound(global_symbols)

lookup_symbol(n) ==
  IF current_scope > 0 /\ n \in Bound(arg_param_map) THEN arg_param_map.map[n]
  ELSE global_symbols.map[n]

Built(t) ==
  /\ Cardinality(Inner.term \cup t) <= MaxLeaves
  /\ stack' = [stack EXCEPT ![Len(stack)].term = @ \cup t]
  /\ UNCHANGED <<history, down>>

Atom(n) ==
  /\ InTerm
  /\ \/ n \in Known /\ Built(lookup_symbol(n))
     \/ n \notin Known /\ Failed
  /\ UNCHANGED <<global_symbols, all_symbols, defs, scopes, solver>>

(* Mutant of apply_define_fun: the arguments are not substituted. *)
apply_define_fun_raw(f, ts) ==
  defs[f].body \cup UNION {ts[i] : i \in DOMAIN ts}

(* substitute(def, subs_map) *)
apply_define_fun(f, ts) ==
  LET args == defs[f].args
  IN  (defs[f].body \ {args[i] : i \in DOMAIN args})
      \cup UNION {ts[i] : i \in {j \in DOMAIN args : args[j] \in defs[f].body}}

(* (f n1 ... nk).  A let binding stands for an argument that is no name.   *)
(* A symbol hides a definition of the same name.                           *)
Application(f, ns) ==
  LET ts == [i \in DOMAIN ns |-> lookup_symbol(ns[i])]
      fits == f \in DOMAIN defs /\ Len(defs[f].args) = Len(ns)
  IN  /\ InTerm
      /\ \/ /\ {ns[i] : i \in DOMAIN ns} \subseteq Known
            /\ \/ f \in Known /\ Built(lookup_symbol(f) \cup UNION {ts[i] : i \in DOMAIN ts})
               \/ f \notin Known /\ fits /\ Built(apply_define_fun(f, ts))
               \/ f \notin Known /\ ~fits /\ Failed
         \/ ~({ns[i] : i \in DOMAIN ns} \subseteq Known) /\ Failed
      /\ UNCHANGED <<global_symbols, all_symbols, defs, scopes, solver>>

(* a let or a quantifier begins *)
Open(kind) ==
  /\ InTerm
  /\ Len(stack) < MaxNesting
  /\ push_scope
  /\ stack' = Append(stack, Frame(kind, "head", NoName))
  /\ UNCHANGED <<global_symbols, all_symbols, defs, solver, history, down>>

(* its head, or that of a definition, ends *)
EndHead ==
  /\ ~down /\ stack # <<>> /\ Inner.part = "head"
  /\ Inner.kind = "let" => Inner.term = {}
  /\ stack' = [stack EXCEPT ![Len(stack)].part = "body"]
  /\ UNCHANGED <<global_symbols, all_symbols, defs, scopes, solver,
                 history, down>>

(* A binding sees the bindings before it. *)
let_binding(n) ==
  /\ ~down /\ stack # <<>> /\ Inner.kind = "let" /\ Inner.part = "head"
  /\ \/ /\ add_mapping(arg_param_map, n, Inner.term, arg_param_map')
        /\ stack' = [stack EXCEPT ![Len(stack)].term = {}]
        /\ UNCHANGED <<history, down>>
     \/ /\ n \in Bound(arg_param_map)
        /\ Failed
        /\ UNCHANGED arg_param_map
  /\ UNCHANGED <<global_symbols, all_symbols, defs, sort_arg_ids, solver>>

(* Some solvers do not make a parameter of one name twice and throw, and   *)
(* the next id is tried; others do: any id may be the one.                 *)
create_param(n, s) ==
  \E id \in 0 .. MaxParams - 1 :
    LET x == Param(n, s, id)
    IN  /\ ~down /\ stack # <<>> /\ Inner.kind = "quantifier" /\ Inner.part = "head"
        /\ \/ /\ add_mapping(arg_param_map, n, {x}, arg_param_map')
              /\ stack' = [stack EXCEPT ![Len(stack)].args = Append(@, x)]
              /\ UNCHANGED <<history, down>>
           \/ /\ n \in Bound(arg_param_map)
              /\ Failed
              /\ UNCHANGED arg_param_map
        /\ UNCHANGED <<global_symbols, all_symbols, defs, sort_arg_ids, solver>>

(* The term of a let is its body; that of a quantifier binds the           *)
(* parameters.  The scope is closed after the term is made.                *)
Close ==
  /\ ~down /\ stack # <<>> /\ Inner.part = "body"
  /\ Inner.kind \in {"let", "quantifier"}
  /\ pop_scope
  /\ LET t == Inner.term \ {Inner.args[i] : i \in DOMAIN Inner.args}
         outer == stack[Len(stack) - 1].term \cup t
     IN  /\ Cardinality(outer) <= MaxLeaves
         /\ stack' = [SubSeq(stack, 1, Len(stack) - 1) EXCEPT ![Len(stack) - 1].term = outer]
  /\ UNCHANGED <<global_symbols, all_symbols, defs, solver, history, down>>

Next ==
  \/ \E n \in Names, s \in Sorts : new_symbol(n, s)
  \/ \E k \in 1 .. MaxLevel : push(k) \/ pop(k)
  \/ BeginAssert \/ EndAssert
  \/ \E n \in DefinedNames : BeginDefine(n)
  \/ \E n \in Names, s \in Sorts : register_arg(n, s)
  \/ EndDefine
  \/ \E n \in Names : Atom(n)
  \/ \E f \in Names, k \in 1 .. MaxArgs : \E ns \in [1 .. k -> Names] : Application(f, ns)
  \/ Open("let") \/ Open("quantifier") \/ EndHead
  \/ \E n \in Names : let_binding(n)
  \/ \E n \in Names, s \in Sorts : create_param(n, s)
  \/ Close
  \/ Fail

Spec == Init /\ [][Next]_vars

-----------------------------------------------------------------------------
(* Properties *)

MapOK(m) ==
  /\ m.scopes \in Seq(SUBSET Names) /\ Len(m.scopes) > 0
  /\ Bound(m) = UNION {m.scopes[i] : i \in DOMAIN m.scopes}
  /\ \A i, j \in DOMAIN m.scopes : i # j => m.scopes[i] \cap m.scopes[j] = {}
  /\ \A n \in Bound(m) : m.map[n] \subseteq Leaves

(* Types, and every name that a map holds belongs to one of its scopes, as *)
(* pop_scope supposes.                                                     *)
TypeOK ==
  /\ MapOK(global_symbols) /\ MapOK(arg_param_map)
  /\ DOMAIN all_symbols \subseteq Names /\ \A n \in DOMAIN all_symbols : all_symbols[n] \in Sorts
  /\ DOMAIN defs \subseteq Names
  /\ \A f \in DOMAIN defs : defs[f].body \subseteq Leaves /\ defs[f].args \in Seq(Leaves)
  /\ sort_arg_ids \in Seq([Sorts -> Nat])
  /\ \A i \in DOMAIN stack :
       /\ stack[i].kind \in {"assert", "define", "let", "quantifier"}
       /\ stack[i].part \in {"head", "body"} /\ stack[i].name \in Names \cup {NoName}
       /\ stack[i].args \in Seq(Leaves) /\ stack[i].term \subseteq Leaves
  /\ level \in Nat /\ declared \subseteq Names
  /\ leaked \in 0 .. MaxLeaked
  /\ {dangling, refused, down} \subseteq BOOLEAN

(* The scopes of the reader follow those of the text: one for every level  *)
(* of the solver until it refuses a push or a pop; one for every let,      *)
(* quantifier and definition that is open, and those of failed parses.     *)
InStep ==
  /\ ~down => Len(global_symbols.scopes) = level + 1
  /\ current_scope = leaked + Len(stack)
                     - (IF stack # <<>> /\ stack[1].kind = "assert" THEN 1 ELSE 0)
  /\ Len(sort_arg_ids) = current_scope

(* the term that assert gives the solver *)
Given == IF Len(stack) = 1 /\ Inner.kind = "assert" THEN Inner.term ELSE {}

(* What reaches the solver has no argument of a definition and no free     *)
(* parameter in it, through any nesting of definitions, lets and           *)
(* quantifiers, unless a parse failed inside of one.                       *)
ClosedFormulas ==
  leaked = 0 => \A x \in Given : x.kind = "symbol"

(* Nor a symbol that is not visible any more, unless a definition outlived *)
(* one of its symbols.                                                     *)
FormulasInScope ==
  leaked = 0 /\ ~dangling => SymbolsOf(Given) \subseteq Bound(global_symbols)

(* A symbol can be declared again after a pop: the reader never asks the   *)
(* solver for a symbol that it has.                                        *)
NeverRefused == ~refused

(* Both maps are environments with one level per scope, although each      *)
(* keeps the terms of all scopes in one map.                               *)
Levels(m) ==
  [i \in 1 .. Len(m.scopes) |-> [n \in m.scopes[i] |-> m.map[n]]]

Globals == INSTANCE ScopedEnv WITH
  env <- Levels(global_symbols), Counts <- 1 .. MaxLevel

Locals == INSTANCE ScopedEnv WITH
  env <- Levels(arg_param_map), Counts <- {1}

Implements == Globals!Spec /\ Locals!Spec

(* "These aren't used except in the definition and will always be          *)
(* substituted for" (include/smtlib_reader.h, of argument variables).      *)
ArgumentsSubstituted == \A x \in Given : x.kind # "arg"
=============================================================================
