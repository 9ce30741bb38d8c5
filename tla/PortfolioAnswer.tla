--------------------------- MODULE PortfolioAnswer ---------------------------
(***************************************************************************)
(* What PortfolioSolver::portfolio_solve promises, without threads, mutex  *)
(* or condition variable: solvers report results one after the other, and  *)
(* one answer is given.  The kind of the answer (sat, unsat, unknown) is   *)
(* one that some solver reported, never the null Result the object starts  *)
(* with; the explanation is one that some solver reported, or Torn when it *)
(* was copied while another thread was replacing the string.  Once a       *)
(* report is there, an answer follows unless the process has terminated    *)
(* (an exception left a solver's thread).                                  *)
(***************************************************************************)
CONSTANTS
  Reports,       \* the Results a solver's check_sat may return
  NoAnswer,      \* the value of `answer' before portfolio_solve returns
  Torn           \* an explanation read while it is being written

VARIABLES
  reports,       \* the Results reported so far
  answer,        \* what portfolio_solve returned
  aborted        \* std::terminate was called

vars == <<reports, answer, aborted>>

Init ==
  /\ reports = {}
  /\ answer = NoAnswer
  /\ aborted = FALSE

Report(r) ==
  /\ ~aborted
  /\ reports' = reports \cup {r}
  /\ UNCHANGED <<answer, aborted>>

Answer ==
  /\ ~aborted
  /\ answer = NoAnswer
  /\ \E r, e \in reports :
       \E text \in {e.explanation, Torn} :
         answer' = [result |-> r.result, explanation |-> text]
  /\ UNCHANGED <<reports, aborted>>

Abort ==
  /\ ~aborted
  /\ aborted' = TRUE
  /\ UNCHANGED <<reports, answer>>

Next == Answer \/ Abort \/ \E r \in Reports : Report(r)

SafetySpec == Init /\ [][Next]_vars

Spec == SafetySpec /\ WF_vars(Answer)
=============================================================================
