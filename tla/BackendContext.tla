---------------------------- MODULE BackendContext ----------------------------
(***************************************************************************)
(* Assertions, levels, checks and unsat cores of the back ends that wrap a *)
(* solver with its own push and pop: Boolector, Bitwuzla, cvc5, MathSAT,   *)
(* its interpolating variant, and Z3 (btor/, bitwuzla/, cvc5/, msat/, z3/  *)
(* src/*_solver.cpp).  Each keeps something beside the wrapped solver: a   *)
(* level counter (all but MathSAT), a lowest level of its own (Boolector), *)
(* the kind of the last query (MathSAT and Z3), and MathSAT, which can     *)
(* only assume literals, a label with a clause  label => assumption  for   *)
(* every other assumption; a reset of the environment sweeps the clauses   *)
(* when there are many, and asserts again what is asserted at level 0.     *)
(*                                                                         *)
(* The wrapped solver is external: trail[i] is the set of the models of    *)
(* what it holds at the levels 1 .. i (labels are fresh, the clauses alone *)
(* cost no model), native the assumptions of its last query.               *)
(***************************************************************************)
EXTENDS Naturals, Sequences, FiniteSets

CONSTANTS
  Backends,        \* a subset of the names below
  Models,          \* the assignments to the symbols
  Formulas,        \* the formulas a client uses: sets of models
  Literals,        \* those that are a Boolean symbol or its negation
  Assumptions,     \* sets of formulas a client assumes in one query
  max_assump_clauses_,
  MaxDepth,        \* bound of the model: context levels the client opens
  MaxLevel,        \* bound of the model: context_level and levels of trail
  MaxClauses       \* bound of the model: assumption clauses counted

ASSUME BackendAssumption ==
  /\ Backends \subseteq {"btor", "bitwuzla", "cvc5", "msat", "msat_itp", "z3"}
  /\ Literals \subseteq Formulas /\ Formulas \subseteq SUBSET Models
  /\ Assumptions \subseteq SUBSET Formulas
  /\ max_assump_clauses_ \in Nat \ {0}
  /\ {MaxDepth, MaxLevel, MaxClauses} \subseteq Nat

VARIABLES
  backend,
  trail, native,            \* the wrapped solver
  context_level, base_context_1,
  last_query_assuming,      \* MathSAT and Z3
  clauses,                  \* MathSAT: the assumptions with a clause, per level
  base_assertions_,         \* MathSAT: the models of the base assertions
  num_assump_clauses_, assumption_map_,
  query,                    \* what the client asked last, if it is answered
  answer,                   \* what a check function returned last
  core,                     \* what get_unsat_assumptions returned
  depth,                    \* history: the levels the client has open
  drift                     \* history: calls that lose track of a level

counters == <<context_level, base_context_1>>
msat == <<clauses, base_assertions_, num_assump_clauses_, assumption_map_>>
asked == <<native, query, answer>>
vars == <<backend, trail, counters, last_query_assuming, msat, asked, core,
          depth, drift>>

Top == trail[Len(trail)]
Meet(A) == {m \in Models : \A a \in A : m \in a}
Nothing == [kind |-> "none", of |-> {}]
Threw == [kind |-> "threw", of |-> {}]

Init ==
  /\ backend \in Backends
  /\ trail = <<Models>> /\ native = {}
  /\ context_level = 0 /\ base_context_1 = FALSE
  /\ last_query_assuming = (backend \in {"msat", "msat_itp"})
  /\ clauses = <<{}>> /\ base_assertions_ = Models
  /\ num_assump_clauses_ = 0 /\ assumption_map_ = {}
  /\ query = Nothing /\ answer = "none" /\ core = Nothing
  /\ depth = 0 /\ drift = {}

(* the core and the model of a query are gone with the next call *)
Forgotten == query' = Nothing /\ core' = Nothing /\ UNCHANGED <<native, answer>>

Answered(left, A) ==
  /\ native' = A /\ core' = Nothing
  /\ answer' \in {"unknown", IF left \cap Meet(A) = {} THEN "unsat" ELSE "sat"}

Opened(n, s, new) == s \o [i \in 1 .. n |-> new]
Closed(n, s) == SubSeq(s, 1, Len(s) - n)

-----------------------------------------------------------------------------
(* What the wrappers of Boolector, Bitwuzla, cvc5 and Z3 share: the call   *)
(* is handed on and the counter follows.                                   *)
Counted == backend \in {"btor", "bitwuzla", "cvc5", "z3"}

assert_formula(f) ==
  /\ Counted
  /\ trail' = [trail EXCEPT ![Len(trail)] = @ \cap f]
  /\ Forgotten
  /\ UNCHANGED <<backend, counters, last_query_assuming, msat, depth, drift>>

(* bounds of the model *)
Room(n) == depth + n <= MaxDepth /\ context_level + n <= MaxLevel

push(n) ==
  /\ Counted /\ Room(n)
  /\ trail' = Opened(n, trail, Top)
  /\ context_level' = context_level + n
  /\ depth' = depth + n
  /\ Forgotten
  /\ UNCHANGED <<backend, base_context_1, last_query_assuming, msat, drift>>

(* The client pops what it pushed; a wrapped solver that has fewer levels  *)
(* throws before the counter changes.                                      *)
pop(n) ==
  /\ Counted /\ n <= depth /\ n < Len(trail)
  /\ trail' = Closed(n, trail)
  /\ context_level' = context_level - n
  /\ depth' = depth - n
  /\ Forgotten
  /\ UNCHANGED <<backend, base_context_1, last_query_assuming, msat, drift>>

(* Z3Solver remembers which kind of query was the last. *)
Query(kind, A) ==
  /\ Counted
  /\ Answered(Top, A)
  /\ query' = [kind |-> kind, of |-> A]
  /\ last_query_assuming' = IF backend = "z3" THEN kind # "check" ELSE last_query_assuming
  /\ UNCHANGED <<backend, trail, counters, msat, depth, drift>>

check_sat == Query("check", {})

check_sat_assuming(A) == \E kind \in {"vector", "list"} : Query(kind, A)

-----------------------------------------------------------------------------
(* Boolector.  With base-context-1 the client's level 0 is Boolector's     *)
(* level 1, so that it can be popped; every such set_opt opens one more.   *)
btor_set_opt ==
  /\ backend = "btor" /\ context_level < MaxLevel
  /\ base_context_1' = TRUE
  /\ trail' = Append(trail, Top)
  /\ context_level' = context_level + 1
  /\ drift' = drift \cup (IF trail # <<Models>> THEN {"late_option"} ELSE {})
                    \cup (IF base_context_1 THEN {"level"} ELSE {})
  /\ Forgotten
  /\ UNCHANGED <<backend, last_query_assuming, msat, depth>>

(* Mutant of btor_reset_assertions: pops one level only. *)
btor_reset_assertions_once ==
  /\ backend = "btor" /\ base_context_1
  /\ context_level < Len(trail)
  /\ trail' = LET below == Closed(1, trail) IN Append(below, below[Len(below)])
  /\ depth' = 0
  /\ Forgotten
  /\ UNCHANGED <<backend, counters, last_query_assuming, msat, drift>>

(* pop(context_level), then push(1); Boolector refuses to pop more than it *)
(* holds, and without the option the wrapper throws *)
btor_reset_assertions ==
  /\ backend = "btor" /\ base_context_1
  /\ context_level < Len(trail)
  /\ trail' = LET below == Closed(context_level, trail) IN Append(below, below[Len(below)])
  /\ context_level' = 1
  /\ depth' = 0
  /\ Forgotten
  /\ UNCHANGED <<backend, base_context_1, last_query_assuming, msat, drift>>

(* a new Boolector; the wrapper's fields stay as they are *)
btor_reset ==
  /\ backend = "btor"
  /\ trail' = <<Models>>
  /\ depth' = 0
  /\ drift' = drift \cup (IF context_level > 0 THEN {"level"} ELSE {})
  /\ Forgotten
  /\ UNCHANGED <<backend, counters, last_query_assuming, msat>>

(* Bitwuzla throws in reset and reset_assertions, cvc5 in reset; cvc5's    *)
(* reset_assertions closes all levels and does not count them.             *)
cvc5_reset_assertions ==
  /\ backend = "cvc5"
  /\ trail' = <<Models>>
  /\ depth' = 0
  /\ drift' = drift \cup (IF context_level > 0 THEN {"level"} ELSE {})
  /\ Forgotten
  /\ UNCHANGED <<backend, counters, last_query_assuming, msat>>

(* Z3: reset and reset_assertions are slv.reset(), set_logic makes a new   *)
(* slv and drops what the old one held; the counter stays *)
z3_reset ==
  /\ backend = "z3"
  /\ trail' = <<Models>>
  /\ depth' = 0
  /\ drift' = drift \cup (IF context_level > 0 THEN {"level"} ELSE {})
  /\ Forgotten
  /\ UNCHANGED <<backend, counters, last_query_assuming, msat>>

z3_set_logic ==
  /\ backend = "z3"
  /\ trail' = <<Models>>
  /\ drift' = drift \cup (IF trail # <<Models>> THEN {"late_option"} ELSE {})
  /\ Forgotten
  /\ UNCHANGED <<backend, counters, last_query_assuming, msat, depth>>

-----------------------------------------------------------------------------
(* MathSAT *)
IsMsat == backend \in {"msat", "msat_itp"}

msat_assert_formula(f) ==
  /\ backend = "msat"
  /\ trail' = [trail EXCEPT ![Len(trail)] = @ \cap f]
  /\ base_assertions_' = IF Len(trail) = 1 THEN base_assertions_ \cap f
                         ELSE base_assertions_
  /\ Forgotten
  /\ UNCHANGED <<backend, counters, last_query_assuming, clauses,
                 num_assump_clauses_, assumption_map_, depth, drift>>

msat_push(n) ==
  /\ IsMsat /\ depth + n <= MaxDepth
  /\ trail' = Opened(n, trail, Top)
  /\ clauses' = Opened(n, clauses, {})
  /\ depth' = depth + n
  /\ Forgotten
  /\ UNCHANGED <<backend, counters, last_query_assuming, base_assertions_,
                 num_assump_clauses_, assumption_map_, drift>>

msat_pop(n) ==
  /\ IsMsat /\ n <= depth
  /\ trail' = Closed(n, trail)
  /\ clauses' = Closed(n, clauses)
  /\ depth' = depth - n
  /\ Forgotten
  /\ UNCHANGED <<backend, counters, last_query_assuming, base_assertions_,
                 num_assump_clauses_, assumption_map_, drift>>

Sweep == Len(trail) = 1 /\ num_assump_clauses_ >= max_assump_clauses_

(* Mutant of clear_assumption_clauses: the base assertions are forgotten. *)
clear_everything ==
  IF Sweep
  THEN [trail |-> <<Models>>, clauses |-> <<{}>>, num |-> 0]
  ELSE [trail |-> trail, clauses |-> clauses, num |-> num_assump_clauses_]

(* Mutant of clear_assumption_clauses: sweeps above level 0 too. *)
clear_at_any_level ==
  IF num_assump_clauses_ >= max_assump_clauses_
  THEN [trail |-> <<base_assertions_>>, clauses |-> <<{}>>, num |-> 0]
  ELSE [trail |-> trail, clauses |-> clauses, num |-> num_assump_clauses_]

(* msat_reset_env, and the base assertions again *)
clear_assumption_clauses ==
  IF Sweep
  THEN [trail |-> <<base_assertions_>>, clauses |-> <<{}>>, num |-> 0]
  ELSE [trail |-> trail, clauses |-> clauses, num |-> num_assump_clauses_]

msat_check_sat ==
  LET env == clear_assumption_clauses IN
  /\ backend = "msat"
  /\ last_query_assuming' = FALSE
  /\ trail' = env.trail /\ clauses' = env.clauses
  /\ num_assump_clauses_' = env.num
  /\ Answered(env.trail[Len(env.trail)], {})
  /\ query' = [kind |-> "check", of |-> {}]
  /\ UNCHANGED <<backend, counters, base_assertions_, assumption_map_, depth, drift>>

(* check_sat_assuming_msatvec: a clause per assumption at the top level,   *)
(* then a query with the labels; a label without a clause assumes nothing. *)
check_sat_assuming_msatvec(env, A) ==
  LET top == Len(env.trail)
      held == [env.clauses EXCEPT ![top] = @ \cup A] IN
  /\ env.num + Cardinality(A) <= MaxClauses
  /\ trail' = env.trail /\ clauses' = held
  /\ num_assump_clauses_' = env.num + Cardinality(A)
  /\ assumption_map_' = A
  /\ Answered(env.trail[top], {a \in A : \E i \in 1 .. top : a \in held[i]})
  /\ UNCHANGED <<backend, counters, base_assertions_, depth, drift>>

(* Mutant of msat_check_sat_assuming: does not tell last_query_assuming. *)
msat_check_sat_assuming_unrecorded(A) ==
  /\ backend = "msat"
  /\ query' = [kind |-> "vector", of |-> A]
  /\ check_sat_assuming_msatvec(clear_assumption_clauses, A)
  /\ UNCHANGED last_query_assuming

msat_check_sat_assuming(A) ==
  /\ backend = "msat"
  /\ last_query_assuming' = TRUE
  /\ query' = [kind |-> "vector", of |-> A]
  /\ check_sat_assuming_msatvec(clear_assumption_clauses, A)

(* _list and _set take literals only and do not tell last_query_assuming;  *)
(* the interpolating solver inherits them                                  *)
msat_check_sat_assuming_list(A) ==
  /\ IsMsat /\ A \subseteq Literals
  /\ query' = [kind |-> "list", of |-> A]
  /\ check_sat_assuming_msatvec(clear_assumption_clauses, A)
  /\ UNCHANGED last_query_assuming

msat_refuse_list(A) ==
  LET env == clear_assumption_clauses IN
  /\ IsMsat /\ ~(A \subseteq Literals)
  /\ trail' = env.trail /\ clauses' = env.clauses
  /\ num_assump_clauses_' = env.num
  /\ Forgotten
  /\ UNCHANGED <<backend, counters, last_query_assuming, base_assertions_,
                 assumption_map_, depth, drift>>

msat_reset_assertions ==
  /\ IsMsat
  /\ trail' = <<Models>> /\ clauses' = <<{}>>
  /\ base_assertions_' = Models
  /\ depth' = 0
  /\ Forgotten
  /\ UNCHANGED <<backend, counters, last_query_assuming, num_assump_clauses_,
                 assumption_map_, drift>>

(* a new environment; none of the wrapper's fields is reset, so a later    *)
(* sweep asserts what was asserted before the reset *)
msat_reset ==
  /\ IsMsat
  /\ trail' = <<Models>> /\ clauses' = <<{}>>
  /\ depth' = 0
  /\ drift' = drift \cup IF base_assertions_ # Models THEN {"stale_base"} ELSE {}
  /\ Forgotten
  /\ UNCHANGED <<backend, counters, last_query_assuming, base_assertions_,
                 num_assump_clauses_, assumption_map_>>

(* Mutant of get_interpolant: on top of what the environment holds. *)
get_interpolant_on_top(A, B) ==
  /\ backend = "msat_itp"
  /\ trail' = [trail EXCEPT ![Len(trail)] = @ \cap A \cap B]
  /\ Answered(Top \cap A \cap B, {})
  /\ query' = [kind |-> "interpolant", of |-> {A, B}]
  /\ UNCHANGED <<backend, counters, last_query_assuming, msat, depth, drift>>

(* msat_reset_env, two groups and a query; get_sequence_interpolants does  *)
(* the same with a group per formula.  All levels are gone.                *)
get_interpolant(A, B) ==
  /\ backend = "msat_itp"
  /\ trail' = <<A \cap B>> /\ clauses' = <<{}>>
  /\ depth' = 0
  /\ Answered(A \cap B, {})
  /\ query' = [kind |-> "interpolant", of |-> {A, B}]
  /\ UNCHANGED <<backend, counters, last_query_assuming, base_assertions_,
                 num_assump_clauses_, assumption_map_, drift>>

-----------------------------------------------------------------------------
(* A client asks for a core right after an unsat answer, and not an        *)
(* interpolating solver.  MathSAT maps the labels back.                    *)
Refuses == backend \in {"msat", "z3"} /\ ~last_query_assuming

get_unsat_assumptions ==
  /\ query # Nothing /\ answer = "unsat" /\ core = Nothing
  /\ backend # "msat_itp"
  /\ \/ Refuses /\ core' = Threw
     \/ /\ ~Refuses
        /\ \E C \in SUBSET native :
             /\ Top \cap Meet(C) = {}
             /\ backend = "msat" => C \subseteq assumption_map_
             /\ core' = [kind |-> "core", of |-> C]
  /\ UNCHANGED <<backend, trail, counters, last_query_assuming, msat, asked, depth, drift>>

-----------------------------------------------------------------------------
BoolectorSolver == btor_set_opt \/ btor_reset_assertions \/ btor_reset

Z3Solver == z3_reset \/ z3_set_logic

MsatSolver ==
  \/ \E f \in Formulas : msat_assert_formula(f)
  \/ \E n \in 1 .. MaxDepth : msat_push(n) \/ msat_pop(n)
  \/ msat_check_sat
  \/ \E A \in Assumptions :
       \/ msat_check_sat_assuming(A)
       \/ msat_check_sat_assuming_list(A)
       \/ msat_refuse_list(A)
  \/ msat_reset_assertions
  \/ msat_reset
  \/ \E A, B \in Formulas : get_interpolant(A, B)

Next ==
  \/ \E f \in Formulas : assert_formula(f)
  \/ \E n \in 1 .. MaxDepth : push(n) \/ pop(n)
  \/ check_sat
  \/ \E A \in Assumptions : check_sat_assuming(A)
  \/ get_unsat_assumptions
  \/ BoolectorSolver \/ cvc5_reset_assertions \/ Z3Solver \/ MsatSolver

Spec == Init /\ [][Next]_vars

-----------------------------------------------------------------------------
(* Properties *)

(* Types.  The trail is long enough for the client's levels, unless        *)
(* set_logic has closed them.                                              *)
TypeOK ==
  /\ trail \in Seq(SUBSET Models) /\ Len(trail) > 0
  /\ native \subseteq Formulas
  /\ context_level \in 0 .. MaxLevel
  /\ clauses \in Seq(SUBSET Formulas)
  /\ IsMsat => Len(clauses) = Len(trail)
  /\ answer \in {"none", "sat", "unsat", "unknown"}
  /\ core.kind \in {"none", "threw", "core"} /\ core.of \subseteq Formulas
  /\ depth \in 0 .. MaxDepth
  /\ "late_option" \notin drift => depth < Len(trail)

(* get_context_level of the back ends with a counter is the number of      *)
(* levels the client has open - one more with base-context-1 - until a     *)
(* reset above level 0.                                                    *)
LevelRight ==
  drift = {} /\ Counted =>
    context_level = depth + IF base_context_1 THEN 1 ELSE 0

(* As long as the client sets options and logic first and does not reset   *)
(* a MathSAT solver with assertions, all back ends are the same SMT-LIB    *)
(* assertion stack: sweeping the assumption clauses is not visible, a      *)
(* label assumes what it stands for, Boolector's own level is not seen.    *)
InStep == drift \subseteq {"level"} /\ backend # "msat_itp"

Levels == SubSeq(trail, Len(trail) - depth, Len(trail))

Meets == Formulas \cup {Meet(A) : A \in Assumptions}

Stack == INSTANCE AssertionStack WITH
  levels <- Levels,
  Formulas <- Meets,
  Counts <- 1 .. MaxDepth

Implements ==
  [][InStep' => Stack!Next]_<<Levels, answer>>

(* A core is a subset of what this query assumed and unsat with what is    *)
(* asserted; and no query whose kind was recorded is refused its core.     *)
CoreRight ==
  /\ core.kind = "core" => core.of \subseteq query.of /\ Top \cap Meet(core.of) = {}
  /\ core.kind = "threw" => query.kind # "vector"

(* An interpolation query is about its two formulas and nothing that       *)
(* happened before.                                                        *)
InterpolantsIndependent ==
  query.kind = "interpolant" /\ answer # "unknown" =>
    answer = IF Meet(query.of) = {} THEN "unsat" ELSE "sat"

(* "set to true if last query was check-sat-assuming (as opposed to just   *)
(* check-sat)" (msat/include/msat_solver.h): not by _list and _set.        *)
AssumingRecorded ==
  query.kind \in {"vector", "list"} /\ backend \in {"msat", "z3"} => last_query_assuming

(* "assertions at context level 0 to be re-added after resetting to clear  *)
(* old clauses added for assumptions" (msat/include/msat_solver.h): reset  *)
(* keeps those of the environment it destroys, and a sweep adds them.      *)
BaseIsBase == backend = "msat" => trail[1] = base_assertions_
=============================================================================
