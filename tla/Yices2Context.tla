---------------------------- MODULE Yices2Context ----------------------------
(***************************************************************************)
(* The assertion stack of Yices2Solver (yices2/src/yices2_solver.cpp).     *)
(* Yices refuses yices_push in a context that is unsat already, so push    *)
(* counts such pushes in pushes_after_unsat and pop takes them back first; *)
(* context_level is kept beside, in 64 bits.                               *)
(*                                                                         *)
(* The Yices context is external: ytrail[i] is the set of the models of    *)
(* what it holds at the levels 1 .. i, and status its context status.      *)
(* "ASSUMED" is STATUS_UNSAT after yices_check_context_with_assumptions;   *)
(* the code asserts and checks again after it without any workaround, so   *)
(* those calls must drop the assumptions first.  The context is            *)
(* incremental ("push-pop") and no time limit is set.                      *)
(***************************************************************************)
EXTENDS Naturals, Sequences

CONSTANTS
  Models,        \* the assignments to the symbols
  Formulas,      \* the formulas a client asserts or assumes: sets of models
  Wrap,          \* 2^64, the modulus of context_level
  MaxDepth,      \* bound of the model: context levels the client opens
  MaxLevels      \* bound of the model: those of Yices and the counted ones

ASSUME ContextAssumption ==
  /\ Formulas \subseteq SUBSET Models
  /\ Wrap \in Nat /\ Wrap > 0
  /\ MaxDepth \in Nat /\ MaxLevels \in Nat

VARIABLES
  ytrail, status,           \* the Yices context
  yices_error,              \* yices_error_code() != 0; nobody clears it
  pushes_after_unsat,
  context_level,
  answer,                   \* what the last check returned, or threw
  depth,                    \* history: the levels the client has open
  drift                     \* history: the calls after which client and
                            \* solver may disagree on the assertions

vars == <<ytrail, status, yices_error, pushes_after_unsat, context_level,
          answer, depth, drift>>

Top == ytrail[Len(ytrail)]

Unsat == status \in {"UNSAT", "ASSUMED"}

Init ==
  /\ ytrail = <<Models>>
  /\ status = "IDLE"
  /\ yices_error = FALSE
  /\ pushes_after_unsat = 0
  /\ context_level = 0
  /\ answer = "none"
  /\ depth = 0
  /\ drift = {}

-----------------------------------------------------------------------------
(* yices_assert_formula does nothing in an unsat context, and notices at   *)
(* once when the formula is trivially false.  The error is thrown last.    *)
assert_formula(f) ==
  /\ IF status = "UNSAT"
     THEN UNCHANGED <<ytrail, status>>
     ELSE /\ ytrail' = [ytrail EXCEPT ![Len(ytrail)] = @ \cap f]
          /\ status' \in {"IDLE"} \cup IF Top \cap f = {} THEN {"UNSAT"} ELSE {}
  /\ answer' = IF yices_error THEN "throws" ELSE answer
  /\ UNCHANGED <<yices_error, pushes_after_unsat, context_level, depth, drift>>

Verdict(s) ==
  CASE yices_error -> "throws"
    [] s = "SAT" -> "sat"
    [] s \in {"UNSAT", "ASSUMED"} -> "unsat"
    [] OTHER -> "unknown"

(* yices_check_context; it may give up *)
check_sat ==
  /\ status' \in IF status = "UNSAT" THEN {"UNSAT"}
                 ELSE {"UNKNOWN", IF Top = {} THEN "UNSAT" ELSE "SAT"}
  /\ answer' = Verdict(status')
  /\ UNCHANGED <<ytrail, yices_error, pushes_after_unsat, context_level, depth, drift>>

(* Yices may see that the assertions are unsat without the assumptions. *)
check_sat_assuming(A) ==
  /\ status' \in IF status = "UNSAT" THEN {"UNSAT"}
                 ELSE {"UNKNOWN"} \cup IF Top \cap A = {} THEN {"ASSUMED"} ELSE {"SAT"}
                                  \cup IF Top = {} THEN {"UNSAT"} ELSE {}
  /\ answer' = Verdict(status')
  /\ UNCHANGED <<ytrail, yices_error, pushes_after_unsat, context_level, depth, drift>>

(* n times yices_push: the level opened holds what the one below holds *)
Pushed(n) == ytrail \o [i \in 1 .. n |-> Top]

(* bounds of the model *)
Room(n) ==
  /\ depth + n <= MaxDepth
  /\ Len(ytrail) - 1 + pushes_after_unsat + n <= MaxLevels

(* Mutant of push: no workaround, yices_push fails in an unsat context. *)
push_anyway(n) ==
  /\ Room(n)
  /\ depth' = depth + n
  /\ IF Unsat THEN yices_error' = TRUE /\ UNCHANGED <<ytrail, status>>
     ELSE ytrail' = Pushed(n) /\ status' = "IDLE" /\ UNCHANGED yices_error
  /\ context_level' = (context_level + n) % Wrap
  /\ UNCHANGED <<pushes_after_unsat, drift, answer>>

(* Mutant of push: counts unless the last check was sat. *)
push_unless_sat(n) ==
  /\ Room(n)
  /\ depth' = depth + n
  /\ \/ /\ Unsat \/ status = "UNKNOWN"
        /\ pushes_after_unsat' = pushes_after_unsat + n
        /\ drift' = drift \cup {"swallowed"} \cup IF Unsat /\ Top # {} THEN {"assumptions"} ELSE {}
        /\ UNCHANGED <<ytrail, status, context_level>>
     \/ /\ ~(Unsat \/ status = "UNKNOWN")
        /\ ytrail' = Pushed(n)
        /\ status' = "IDLE"
        /\ context_level' = (context_level + n) % Wrap
        /\ UNCHANGED <<pushes_after_unsat, drift>>
  /\ UNCHANGED <<yices_error, answer>>

(* Mutant of push: one call counts as one level. *)
push_one(n) ==
  /\ Room(n)
  /\ depth' = depth + n
  /\ \/ /\ Unsat
        /\ pushes_after_unsat' = pushes_after_unsat + 1
        /\ drift' = drift \cup {"swallowed"} \cup IF Top # {} THEN {"assumptions"} ELSE {}
        /\ UNCHANGED <<ytrail, status, context_level>>
     \/ /\ ~Unsat
        /\ ytrail' = Pushed(n)
        /\ status' = "IDLE"
        /\ context_level' = (context_level + 1) % Wrap
        /\ UNCHANGED <<pushes_after_unsat, drift>>
  /\ UNCHANGED <<yices_error, answer>>

push(n) ==
  /\ Room(n)
  /\ depth' = depth + n
  /\ \/ /\ Unsat
        /\ pushes_after_unsat' = pushes_after_unsat + n
        /\ drift' = drift \cup {"swallowed"} \cup IF Top # {} THEN {"assumptions"} ELSE {}
        /\ UNCHANGED <<ytrail, status, context_level>>
     \/ /\ ~Unsat
        /\ ytrail' = Pushed(n)
        /\ status' = "IDLE"
        /\ context_level' = (context_level + n) % Wrap
        /\ UNCHANGED <<pushes_after_unsat, drift>>
  /\ UNCHANGED <<yices_error, answer>>

Smaller(a, b) == IF a < b THEN a ELSE b

(* Mutant of pop: every round calls yices_pop, the counted pushes stay. *)
pop_through(n) ==
  LET open   == Len(ytrail) - 1
      popped == Smaller(n, open)
  IN  /\ n <= depth
      /\ depth' = depth - n
      /\ ytrail' = SubSeq(ytrail, 1, Len(ytrail) - popped)
      /\ status' = IF popped > 0 THEN "IDLE" ELSE status
      /\ yices_error' = (yices_error \/ n > open)
      /\ context_level' = (context_level + Wrap - (n % Wrap)) % Wrap
      /\ UNCHANGED <<pushes_after_unsat, answer, drift>>

(* Mutant of pop: context_level is not wrapped. *)
pop_unwrapped(n) ==
  LET counted == Smaller(n, pushes_after_unsat)
      open    == Len(ytrail) - 1
      popped  == Smaller(n - counted, open)
  IN  /\ n <= depth
      /\ depth' = depth - n
      /\ pushes_after_unsat' = pushes_after_unsat - counted
      /\ ytrail' = SubSeq(ytrail, 1, Len(ytrail) - popped)
      /\ status' = IF popped > 0 THEN "IDLE" ELSE status
      /\ yices_error' = (yices_error \/ n - counted > open)
      /\ context_level' = context_level - n
      /\ UNCHANGED <<answer, drift>>

(* n rounds: a counted push is taken back, else yices_pop, which fails at  *)
(* its lowest level.  The client pops what it pushed.                      *)
pop(n) ==
  LET counted == Smaller(n, pushes_after_unsat)
      open    == Len(ytrail) - 1
      popped  == Smaller(n - counted, open)
  IN  /\ n <= depth
      /\ depth' = depth - n
      /\ pushes_after_unsat' = pushes_after_unsat - counted
      /\ ytrail' = SubSeq(ytrail, 1, Len(ytrail) - popped)
      /\ status' = IF popped > 0 THEN "IDLE" ELSE status
      /\ yices_error' = (yices_error \/ n - counted > open)
      /\ context_level' = (context_level + Wrap - (n % Wrap)) % Wrap
      /\ UNCHANGED <<answer, drift>>

NewContext == ytrail' = <<Models>> /\ status' = "IDLE"

(* reset_assertions, and reset with a new context: neither of the counters *)
(* is reset                                                                *)
reset_assertions ==
  /\ NewContext
  /\ depth' = 0
  /\ drift' = drift \cup (IF pushes_after_unsat > 0 THEN {"reset"} ELSE {})
                    \cup (IF context_level # 0 THEN {"level"} ELSE {})
  /\ UNCHANGED <<yices_error, pushes_after_unsat, context_level, answer>>

(* set_opt and set_logic end with ctx = yices_new_context(config), the     *)
(* assertions and levels of the old context are gone                       *)
set_opt ==
  /\ NewContext
  /\ drift' = drift \cup IF ytrail # <<Models>> \/ pushes_after_unsat > 0
                         THEN {"option"} ELSE {}
  /\ UNCHANGED <<yices_error, pushes_after_unsat, context_level, answer, depth>>

Next ==
  \/ \E f \in Formulas : assert_formula(f) \/ check_sat_assuming(f)
  \/ check_sat
  \/ \E n \in 1 .. MaxDepth : push(n) \/ pop(n)
  \/ reset_assertions
  \/ set_opt

Spec == Init /\ [][Next]_vars

-----------------------------------------------------------------------------
(* Properties *)

(* After these calls the levels of the client and of Yices may differ: a   *)
(* push was counted although the context was unsat only under assumptions; *)
(* the context was replaced while a counted push was open; set_opt or      *)
(* set_logic dropped a context that was in use.                            *)
Unsound == {"assumptions", "reset", "option"}

InStep == drift \cap Unsound = {}

(* Types.  context_level is an uint64_t: it wraps around. *)
TypeOK ==
  /\ ytrail \in Seq(SUBSET Models) /\ Len(ytrail) > 0
  /\ status \in {"IDLE", "SAT", "UNSAT", "ASSUMED", "UNKNOWN"}
  /\ yices_error \in BOOLEAN
  /\ pushes_after_unsat \in Nat
  /\ context_level \in 0 .. Wrap - 1
  /\ answer \in {"none", "sat", "unsat", "unknown", "throws"}
  /\ depth \in 0 .. MaxDepth
  /\ drift \subseteq Unsound \cup {"swallowed", "level"}

(* Yices and the counter together have as many levels open as the client,  *)
(* however pushes were split between them and in whatever portions they    *)
(* are popped.                                                             *)
LevelsAgree ==
  InStep => depth = Len(ytrail) - 1 + pushes_after_unsat

(* A push is only ever counted over assertions that have no model, and the *)
(* count is back to 0 by the time one of them is popped.                   *)
CountedOverUnsat ==
  InStep /\ pushes_after_unsat > 0 => Top = {}

(* A client that pops no more than it pushed never makes yices_pop fail,   *)
(* not even after a reset, unless set_opt replaced the context: no call    *)
(* throws the InternalSolverException of a sticky Yices error.             *)
NoYicesError == "option" \notin drift => ~yices_error

(* get_context_level is right until the first push in an unsat context or  *)
(* the first reset above level 0.                                          *)
ContextLevelRight ==
  drift = {} => context_level = depth % Wrap

(* As long as InStep holds, Yices2Solver is an SMT-LIB assertion stack: a  *)
(* counted push is a level without models.                                 *)
Levels == ytrail \o [i \in 1 .. pushes_after_unsat |-> {}]

Stack == INSTANCE AssertionStack WITH
  levels <- Levels,
  Counts <- 1 .. MaxDepth

Implements ==
  Stack!Init /\ [][InStep' => Stack!Next]_(Stack!vars)

(* The invariant behind them. *)
UnsatIsUnsat == status = "UNSAT" => Top = {}

IInv ==
  /\ TypeOK
  /\ UnsatIsUnsat
  /\ "option" \notin drift => depth <= Len(ytrail) - 1 + pushes_after_unsat /\ ~yices_error
  /\ LevelsAgree
  /\ CountedOverUnsat

(* "Returns the current context level of the solver based on the number of *)
(* pushes/pops" (include/solver.h).                                        *)
ContextLevelIsDepth == context_level = depth % Wrap
=============================================================================
