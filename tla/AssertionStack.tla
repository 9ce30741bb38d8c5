---------------------------- MODULE AssertionStack ----------------------------
(***************************************************************************)
(* What assert_formula, push, pop, reset_assertions and the check_sat      *)
(* functions of AbsSmtSolver (include/solver.h) promise to a client that   *)
(* pops no more than it pushed: an SMT-LIB assertion stack.  A formula is  *)
(* the set of its models; levels[i] is the set of the models of everything *)
(* that is asserted at the levels 1 .. i.                                  *)
(***************************************************************************)
EXTENDS Naturals, Sequences

CONSTANTS
  Models,        \* the assignments to the symbols
  Formulas,      \* the formulas a client uses: sets of models
  Counts         \* how many levels one call pushes or pops

VARIABLES
  levels,        \* the models that are left, per context level
  answer         \* what the last call of a check_sat function returned

vars == <<levels, answer>>

Top == levels[Len(levels)]

Init ==
  /\ levels = <<Models>>
  /\ answer = "none"

Assert(f) ==
  /\ levels' = [levels EXCEPT ![Len(levels)] = @ \cap f]
  /\ UNCHANGED answer

Push(n) ==
  /\ levels' = levels \o [i \in 1 .. n |-> Top]
  /\ UNCHANGED answer

Pop(n) ==
  /\ n < Len(levels)
  /\ levels' = SubSeq(levels, 1, Len(levels) - n)
  /\ UNCHANGED answer

(* check_sat with A = Models; else the assumptions have the models A *)
Check(A) ==
  /\ answer' \in {"unknown", IF Top \cap A = {} THEN "unsat" ELSE "sat"}
  /\ UNCHANGED levels

Reset ==
  /\ levels' = <<Models>>
  /\ UNCHANGED answer

Next ==
  \/ \E f \in Formulas : Assert(f)
  \/ \E n \in Counts : Push(n) \/ Pop(n)
  \/ \E A \in Formulas \cup {Models} : Check(A)
  \/ Reset

Spec == Init /\ [][Next]_vars
=============================================================================
