------------------------------ MODULE Utilities ------------------------------
(***************************************************************************)
(* The routines of the library that keep no terms of their own: cores,     *)
(* sets of equal terms, sorting networks and sorts.  They share no state:  *)
(* each has its variables, and their calls come in any order.              *)
(***************************************************************************)
EXTENDS Integers, Sequences

CONSTANTS
  \* the reduction of unsatisfiable cores (CoreReducer)
  Assumptions, Conflicts, Transfer(_), Hash(_), Iterations, MaxCalls,
  \* disjoint sets and sorting networks
  Members, comp(_, _), MaxAdds, MaxLength,
  \* sort inference
  Operators, ArgumentSorts

VARIABLES
  calls, pc, job, level, asserted, labels, cand_res, bool_assump, position, cur_iter,
  out_red, out_rem, result,
  leader_, group_, added, unsorted, sorted,
  query

coreVars == <<calls, pc, job, level, asserted, labels, cand_res, bool_assump,
              position, cur_iter, out_red, out_rem, result>>
setVars == <<leader_, group_, added>>
netVars == <<unsorted, sorted>>
vars == <<coreVars, setVars, netVars, query>>

R == INSTANCE CoreReducer
D == INSTANCE DisjointSet WITH Terms <- Members
N == INSTANCE SortingNetwork
S == INSTANCE SortInference

\* A caller passes sequences of assumptions, and sorts and operators that
\* the library knows; the sets are those of the least conflicts.
ASSUME UtilitiesAssumption ==
  /\ \A a \in Assumptions : S!IsSequence(a)
  /\ Iterations \subseteq Nat
  /\ \A op \in Operators : S!IsOperator(op)
  /\ \A s \in ArgumentSorts : S!AreSorts(s)

Init == R!Init /\ D!Init /\ N!Init /\ query = <<>>

Reduce == R!Next /\ UNCHANGED <<setVars, netVars, query>>
Unite == D!Next /\ UNCHANGED <<coreVars, netVars, query>>
Sort == N!Next /\ UNCHANGED <<coreVars, setVars, query>>

\* A sort is asked for, of some operator and arguments.
Ask ==
  /\ \E op \in Operators, s \in ArgumentSorts : query = <<>> /\ query' = <<op, s>>
  /\ UNCHANGED <<coreVars, setVars, netVars>>

Next == Reduce \/ Unite \/ Sort \/ Ask
Spec == Init /\ [][Next]_vars

----------------------------------------------------------------------------
\* A reduced core is still unsatisfiable, nothing is lost, and the linear
\* method without a limit keeps nothing it can do without (utils.cpp).
Reduced == R!Reduced /\ R!LinearMinimal

\* DisjointSet: one leader for the terms that the added pairs connect, and a
\* sorting network's n-th output says that n inputs are true.
SetsAndNetworks == D!SameLeader /\ N!CountsTrue

\* What check_sortedness accepts has in SMT-LIB the sort compute_sort gives,
\* and it accepts what SMT-LIB does, but for the differences SortInference
\* names (sort_inference.cpp, ops.cpp).
Inferred == query # <<>> => S!InferenceRight(query[1], query[2])
=============================================================================
