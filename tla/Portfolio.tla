------------------------------ MODULE Portfolio ------------------------------
(***************************************************************************)
(* PortfolioSolver (src/src/portfolio_solver.cpp): portfolio_solve starts  *)
(* one detached thread per solver and sleeps on a condition variable until *)
(* a thread sets a_solver_is_done; then it returns the shared member       *)
(* `result'.                                                               *)
(*                                                                         *)
(* A step is what a thread does between two points where another thread    *)
(* can be observed: the assignment result = s->check_sat() is made without *)
(* the mutex and member by member (the enum, then the string), and so is   *)
(* the copy that `return result' makes; the flag and the notification are  *)
(* under the mutex.  The string is Torn while its assignment is under way. *)
(***************************************************************************)
CONSTANTS
  Solvers,       \* the solvers of the portfolio: one thread each
  CanReport,     \* CanReport[s]: the Results check_sat of s may return
  CanThrow,      \* the solvers whose translation or check may throw
  Hangs,         \* the solvers whose check_sat may never return
  Main,          \* the thread that calls portfolio_solve
  Nobody,        \* the owner of an unlocked mutex
  NoAnswer,      \* no Result yet (nothing reported, nothing returned)
  Null,          \* the enum of a default-constructed Result (NUM_RESULTS)
  Torn           \* a string in the middle of its assignment

AllReports == UNION {CanReport[s] : s \in Solvers}

Kinds == {r.result : r \in AllReports}
Texts == {r.explanation : r \in AllReports}

ASSUME PortfolioAssumption ==
  /\ Main \notin Solvers
  /\ Nobody \notin Solvers \cup {Main}
  /\ NoAnswer \notin AllReports
  /\ \A r \in AllReports : r = [result |-> r.result, explanation |-> r.explanation]
  /\ Null \notin Kinds
  /\ Torn \notin Texts
  /\ NoAnswer \notin [result : Kinds \cup {Null}, explanation : Texts \cup {Null, Torn}]

VARIABLES
  pc,            \* where each solver's thread, and the main thread, stands
  report,        \* what check_sat returned in each thread (a temporary)
  result,        \* PortfolioSolver::result
  a_solver_is_done,
  m,             \* the owner of PortfolioSolver::m
  copy,          \* the Result that `return result' is building
  answer,        \* what portfolio_solve returned
  first,         \* history: the first solver whose assignment was complete
  aborted        \* an exception left a thread: std::terminate

vars == <<pc, report, result, a_solver_is_done, m, copy, answer, first, aborted>>

ThreadSteps == {"unstarted", "check", "assign_enum", "assign_string", "assigning",
                "lock", "set_done", "notify", "unlock", "exited"}
MainSteps   == {"spawn", "test", "wait", "waiting", "relock", "copy_enum",
                "copy_string", "unlock", "returned"}

Init ==
  /\ pc = [t \in Solvers \cup {Main} |-> IF t = Main THEN "spawn" ELSE "unstarted"]
  /\ report = [s \in Solvers |-> NoAnswer]
  /\ result = [result |-> Null, explanation |-> Null]
  /\ a_solver_is_done = FALSE
  /\ m = Nobody
  /\ copy = [result |-> Null, explanation |-> Null]
  /\ answer = NoAnswer
  /\ first = Nobody
  /\ aborted = FALSE

Goto(t, from, to) ==
  /\ ~aborted
  /\ pc[t] = from
  /\ pc' = [pc EXCEPT ![t] = to]
  /\ UNCHANGED aborted

-----------------------------------------------------------------------------
(* run_solver, in the thread of solver s *)

(* Mutant of CheckSat: the flag is raised without the assignment. *)
CheckSatDropped(s) ==
  /\ Goto(s, "check", "lock")
  /\ \E r \in CanReport[s] : report' = [report EXCEPT ![s] = r]
  /\ UNCHANGED <<result, a_solver_is_done, m, copy, answer, first>>

(* transfer_term, assert_formula and check_sat: the Result is a temporary *)
CheckSat(s) ==
  /\ Goto(s, "check", "assign_enum")
  /\ \E r \in CanReport[s] : report' = [report EXCEPT ![s] = r]
  /\ UNCHANGED <<result, a_solver_is_done, m, copy, answer, first>>

(* any of the three throws: nothing catches it in the thread *)
Throw(s) ==
  /\ s \in CanThrow
  /\ ~aborted
  /\ pc[s] = "check"
  /\ aborted' = TRUE
  /\ UNCHANGED <<pc, report, result, a_solver_is_done, m, copy, answer, first>>

AssignEnum(s) ==
  /\ Goto(s, "assign_enum", "assign_string")
  /\ result' = [result EXCEPT !.result = report[s].result]
  /\ UNCHANGED <<report, a_solver_is_done, m, copy, answer, first>>

BeginAssignString(s) ==
  /\ Goto(s, "assign_string", "assigning")
  /\ result' = [result EXCEPT !.explanation = Torn]
  /\ UNCHANGED <<report, a_solver_is_done, m, copy, answer, first>>

EndAssignString(s) ==
  /\ Goto(s, "assigning", "lock")
  /\ result' = [result EXCEPT !.explanation = report[s].explanation]
  /\ first' = IF first = Nobody THEN s ELSE first
  /\ UNCHANGED <<report, a_solver_is_done, m, copy, answer>>

Lock(t, from, to) ==
  /\ Goto(t, from, to)
  /\ m = Nobody
  /\ m' = t
  /\ UNCHANGED <<report, result, a_solver_is_done, copy, answer, first>>

(* Mutant of LockGuard: the flag is set and notified without the mutex. *)
NoLockGuard(s) ==
  /\ Goto(s, "lock", "set_done")
  /\ UNCHANGED <<report, result, a_solver_is_done, m, copy, answer, first>>

LockGuard(s) == Lock(s, "lock", "set_done")

SetDone(s) ==
  /\ Goto(s, "set_done", "notify")
  /\ a_solver_is_done' = TRUE
  /\ UNCHANGED <<report, result, m, copy, answer, first>>

(* Mutant of NotifyAll: the notification is missing. *)
NotifyNobody(s) ==
  /\ Goto(s, "notify", "unlock")
  /\ UNCHANGED <<report, result, a_solver_is_done, m, copy, answer, first>>

(* cv.notify_all: a main thread asleep in cv.wait now competes for m *)
NotifyAll(s) ==
  /\ ~aborted
  /\ pc[s] = "notify"
  /\ pc' = [pc EXCEPT ![s] = "unlock",
                      ![Main] = IF @ = "waiting" THEN "relock" ELSE @]
  /\ UNCHANGED <<report, result, a_solver_is_done, m, copy, answer, first, aborted>>

UnlockGuard(s) ==
  /\ Goto(s, "unlock", "exited")
  /\ m' = Nobody
  /\ UNCHANGED <<report, result, a_solver_is_done, copy, answer, first>>

run_solver(s) ==
  \/ CheckSat(s) \/ Throw(s)
  \/ AssignEnum(s) \/ BeginAssignString(s) \/ EndAssignString(s)
  \/ LockGuard(s) \/ SetDone(s) \/ NotifyAll(s) \/ UnlockGuard(s)

-----------------------------------------------------------------------------
(* portfolio_solve, in the main thread *)

(* one turn of the loop over the solvers: create a thread and detach it *)
Spawn(s) ==
  /\ ~aborted
  /\ pc[Main] = "spawn"
  /\ pc[s] = "unstarted"
  /\ pc' = [pc EXCEPT ![s] = "check"]
  /\ UNCHANGED <<report, result, a_solver_is_done, m, copy, answer, first, aborted>>

(* after the loop: std::unique_lock lk(m) *)
LockMain ==
  /\ \A s \in Solvers : pc[s] # "unstarted"
  /\ Lock(Main, "spawn", "test")

(* while (!a_solver_is_done) *)
TestDone ==
  /\ Goto(Main, "test", IF a_solver_is_done THEN "copy_enum" ELSE "wait")
  /\ UNCHANGED <<report, result, a_solver_is_done, m, copy, answer, first>>

(* Mutant of Wait: sleeps with the mutex locked. *)
WaitHoldingLock ==
  /\ Goto(Main, "wait", "waiting")
  /\ UNCHANGED <<report, result, a_solver_is_done, m, copy, answer, first>>

(* cv.wait(lk): releases m and falls asleep in one step *)
Wait ==
  /\ Goto(Main, "wait", "waiting")
  /\ m' = Nobody
  /\ UNCHANGED <<report, result, a_solver_is_done, copy, answer, first>>

SpuriousWakeup ==
  /\ Goto(Main, "waiting", "relock")
  /\ UNCHANGED <<report, result, a_solver_is_done, m, copy, answer, first>>

(* Mutant of Relock: `if (!a_solver_is_done)' instead of `while'. *)
RelockNoRetest == Lock(Main, "relock", "copy_enum")

Relock == Lock(Main, "relock", "test")

CopyEnum ==
  /\ Goto(Main, "copy_enum", "copy_string")
  /\ copy' = [copy EXCEPT !.result = result.result]
  /\ UNCHANGED <<report, result, a_solver_is_done, m, answer, first>>

CopyString ==
  /\ Goto(Main, "copy_string", "unlock")
  /\ copy' = [copy EXCEPT !.explanation = result.explanation]
  /\ UNCHANGED <<report, result, a_solver_is_done, m, answer, first>>

(* lk is destroyed after the return value was copied *)
Return ==
  /\ Goto(Main, "unlock", "returned")
  /\ m' = Nobody
  /\ answer' = copy
  /\ UNCHANGED <<report, result, a_solver_is_done, copy, first>>

portfolio_solve ==
  \/ \E s \in Solvers : Spawn(s)
  \/ LockMain \/ TestDone \/ Wait \/ SpuriousWakeup \/ Relock
  \/ CopyEnum \/ CopyString \/ Return

-----------------------------------------------------------------------------
Next == portfolio_solve \/ \E s \in Solvers : run_solver(s)

(* The operating system runs every thread that can run.  The main thread   *)
(* competes for m with one lock per solver, so weak fairness gives it m;   *)
(* a solver's thread may find m taken again and again by a main thread     *)
(* that wakes up spuriously, and is granted it eventually (SF).  A solver  *)
(* of Hangs may stay in check_sat forever, nothing has to throw, and no    *)
(* spurious wakeup is owed.                                                *)
Fairness ==
  /\ \A s \in Solvers \ Hangs : WF_vars(CheckSat(s))
  /\ \A s \in Solvers :
       /\ WF_vars(Spawn(s))
       /\ WF_vars(AssignEnum(s)) /\ WF_vars(BeginAssignString(s))
       /\ WF_vars(EndAssignString(s))
       /\ SF_vars(LockGuard(s))
       /\ WF_vars(SetDone(s)) /\ WF_vars(NotifyAll(s)) /\ WF_vars(UnlockGuard(s))
  /\ WF_vars(LockMain) /\ WF_vars(TestDone) /\ WF_vars(Wait) /\ WF_vars(Relock)
  /\ WF_vars(CopyEnum) /\ WF_vars(CopyString) /\ WF_vars(Return)

SafetySpec == Init /\ [][Next]_vars
Spec == SafetySpec /\ Fairness

-----------------------------------------------------------------------------
(* Properties *)

Owner(t) == IF t = Main THEN pc[t] \in {"test", "wait", "copy_enum", "copy_string", "unlock"}
                        ELSE pc[t] \in {"set_done", "notify", "unlock"}

(* Types, and the mutex is owned by the one thread that stands between a   *)
(* lock and its release (lock_guard of run_solver, unique_lock of          *)
(* portfolio_solve).                                                       *)
TypeOK ==
  /\ pc \in [Solvers \cup {Main} -> ThreadSteps \cup MainSteps]
  /\ pc[Main] \in MainSteps
  /\ \A s \in Solvers : pc[s] \in ThreadSteps
  /\ report \in [Solvers -> AllReports \cup {NoAnswer}]
  /\ result \in [result : Kinds \cup {Null}, explanation : Texts \cup {Null, Torn}]
  /\ copy \in [result : Kinds \cup {Null}, explanation : Texts \cup {Null, Torn}]
  /\ answer \in [result : Kinds \cup {Null}, explanation : Texts \cup {Null, Torn}]
                 \cup {NoAnswer}
  /\ a_solver_is_done \in BOOLEAN
  /\ aborted \in BOOLEAN
  /\ first \in Solvers \cup {Nobody}
  /\ \A t \in Solvers \cup {Main} : Owner(t) <=> m = t

Reported == {report[s] : s \in {t \in Solvers : report[t] # NoAnswer}}

(* "Once a solver is done, result has been set" (portfolio_solver.h): as   *)
(* soon as the flag can be seen, the enum in `result' is one that some     *)
(* solver's check_sat returned, whoever else is overwriting it meanwhile.  *)
DoneMeansResultSet ==
  a_solver_is_done =>
    /\ \E r \in Reported : r.result = result.result
    /\ result.explanation = Torn \/ \E r \in Reported : r.explanation = result.explanation

(* No lost wakeup: a main thread asleep in cv.wait although the flag is    *)
(* set is about to be notified.                                            *)
NoMissedWakeup ==
  pc[Main] = "waiting" /\ a_solver_is_done =>
    \E s \in Solvers : pc[s] = "notify"

(* One solver that cannot hang is enough: portfolio_solve returns, or an   *)
(* exception that left a solver's thread ended the process.                *)
EventuallyAnswers ==
  Solvers \ Hangs # {} => <>(answer # NoAnswer \/ aborted)

(* The invariant behind them: what each program counter says of the report *)
(* of its thread, of the shared result, of the flag and of the copy.       *)
Started(s) == pc[s] \notin {"unstarted", "check"}
Flagged(s) == pc[s] \in {"notify", "unlock", "exited"}

ThreadInv ==
  /\ \A s \in Solvers : Started(s) <=> report[s] # NoAnswer
  /\ a_solver_is_done <=> \E s \in Solvers : Flagged(s)

ResultInv ==
  \A s \in Solvers :
    /\ Started(s) /\ pc[s] # "assign_enum" =>
         \E r \in Reported : r.result = result.result
    /\ Started(s) /\ pc[s] \notin {"assign_enum", "assign_string"} =>
         \/ result.explanation = Torn
         \/ \E r \in Reported : r.explanation = result.explanation

CopyInv ==
  /\ pc[Main] = "wait" => ~a_solver_is_done
  /\ pc[Main] \in {"copy_enum", "copy_string", "unlock", "returned"} => a_solver_is_done
  /\ pc[Main] \in {"copy_string", "unlock", "returned"} =>
       \E r \in Reported : r.result = copy.result
  /\ pc[Main] \in {"unlock", "returned"} =>
       copy.explanation = Torn \/ \E r \in Reported : r.explanation = copy.explanation
  /\ pc[Main] # "returned" => answer = NoAnswer
  /\ pc[Main] = "returned" => answer = copy

IInv == TypeOK /\ ThreadInv /\ ResultInv /\ CopyInv /\ NoMissedWakeup

(* The promise of PortfolioAnswer: the answer is built from what solvers   *)
(* reported, and follows once there is a report.                           *)
Promise == INSTANCE PortfolioAnswer WITH
  Reports <- AllReports,
  reports <- Reported

Implements == Promise!Spec

(* "returns check_sat from the first solver that finishes"                 *)
(* (portfolio_solver.cpp, file comment): the verdict of the answer is that  *)
(* of the first thread whose assignment to `result' was complete.          *)
FirstFinisherWins == answer # NoAnswer => answer.result = report[first].result
=============================================================================
