------------------------------- MODULE Routines -------------------------------
(***************************************************************************)
(* The routines that need no back end of their own, beside one another: a  *)
(* caller uses one of them, on an object or a solver of its own, as often  *)
(* as the bounds allow.  To those of Utilities come the ones that walk or  *)
(* build terms; they share no state either, so the choice of one is made   *)
(* at the start.                                                           *)
(***************************************************************************)
EXTENDS Utilities

CONSTANTS
  \* the walkers (TermWalkers)
  Formulas, Substitutions, Derivations, Aborts, ValueOps, SortOf(_), MaxVisits,
  \* the conversion to conjunctive normal form (CnfConversion)
  BooleanFormulas, Declared, MaxConverted,
  \* translation
  Sources, Targets, Declarable, Kinds, Debug, MaxTransfers

VARIABLES routine,
  kind, walker, visits, running, root, to_visit, visited, cache, tree_path, pass,
  pending, out,
  symbols, converted, dimacs,
  source, aliases, target_symbols, translations, request, answer

walkVars == <<kind, walker, visits, running, root, to_visit, visited, cache,
              tree_path, pass, pending, out>>
cnfVars == <<symbols, converted, dimacs>>
transVars == <<source, aliases, target_symbols, translations, request, answer>>
routineVars == <<routine, walkVars, cnfVars, transVars, vars>>

W == INSTANCE TermWalkers
C == INSTANCE CnfConversion WITH Formulas <- BooleanFormulas
T == INSTANCE TermTranslator WITH symbols <- target_symbols, cache <- translations

Choices == {"walk", "cnf", "core", "sets", "network", "translate", "infer"}

RoutineInit ==
  /\ routine \in Choices
  /\ Init /\ W!Init /\ C!Init
  /\ T!Init
  /\ routine # "translate" =>
       aliases = (CHOOSE b \in Targets : TRUE) /\ source = (CHOOSE s \in Sources : TRUE)

RoutineNext ==
  /\ \/ routine = "walk" /\ W!Next /\ UNCHANGED <<cnfVars, transVars, vars>>
     \/ routine = "cnf" /\ C!Next /\ UNCHANGED <<walkVars, transVars, vars>>
     \/ routine = "translate" /\ T!Next /\ UNCHANGED <<walkVars, cnfVars, vars>>
     \/ /\ \/ routine = "core" /\ Reduce
           \/ routine = "sets" /\ Unite
           \/ routine = "network" /\ Sort
           \/ routine = "infer" /\ Ask
        /\ UNCHANGED <<walkVars, cnfVars, transVars>>
  /\ UNCHANGED routine

\* A call that was made goes on: nothing else runs in its thread.
Busy == running \/ pc # "idle"
Works == Busy /\ RoutineNext

RoutineSpec ==
  RoutineInit /\ [][RoutineNext]_routineVars /\ WF_routineVars(Works)

----------------------------------------------------------------------------
\* Walkers and substitute() replace every occurrence of every mapped term at
\* once and nothing else, in the result and in the cache a later visit trusts;
\* every path that a tree walk caches leads to its term; a search by a stack
\* finds each part, symbol and operator (identity_walker.cpp,
\* substitution_walker.cpp, tree_walker.cpp, solver.cpp, utils.cpp).
Walked == W!Substituted /\ W!PathsLead /\ W!Searched

\* to_cnf keeps what a formula allows, invents names that are new, and the
\* clauses printed are those of its result (utils.cpp).
CnfFaithful == C!Equisatisfiable /\ C!NamesNew /\ C!DimacsAgrees
Equisatisfiable == C!Equisatisfiable


\* Every traversal and every reduction comes to an end.
CallsEnd == Busy ~> ~Busy
=============================================================================
