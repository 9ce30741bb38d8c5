--------------------------- MODULE PortfolioProofs ---------------------------
(***************************************************************************)
(* Proofs about Portfolio, for any set of solvers and whatever each of     *)
(* them may report, throw or do without returning.                         *)
(***************************************************************************)
EXTENDS Portfolio, TLAPS

(* A result that a solver can report is made of a kind and a text.        *)
LEMMA KindsAndTexts ==
  ASSUME NEW s \in Solvers, NEW r \in CanReport[s]
  PROVE  r \in AllReports /\ r.result \in Kinds /\ r.explanation \in Texts
BY DEF AllReports, Kinds, Texts

(* So is the result that a thread has reported.                           *)
LEMMA ReportedKinds ==
  ASSUME TypeOK, ThreadInv, NEW s \in Solvers, Started(s)
  PROVE  report[s] \in AllReports /\ report[s].result \in Kinds /\ report[s].explanation \in Texts
BY KindsAndTexts DEF TypeOK, ThreadInv, AllReports, Kinds, Texts

(* Every step preserves the types.                                        *)
LEMMA TypePreserved ==
  ASSUME TypeOK, ThreadInv, [Next]_vars
  PROVE  TypeOK'
<1> USE PortfolioAssumption DEF PortfolioAssumption, TypeOK, ThreadSteps, MainSteps, Owner
<1>1. ASSUME NEW s \in Solvers, CheckSat(s) PROVE TypeOK'
  <2>1. PICK r \in CanReport[s] : report' = [report EXCEPT ![s] = r]
    BY <1>1 DEF CheckSat
  <2>2. r \in AllReports
    BY KindsAndTexts
  <2>3. QED
    BY <1>1, <2>1, <2>2 DEF CheckSat, Goto
<1>2. ASSUME NEW s \in Solvers, Throw(s) PROVE TypeOK'
  BY <1>2 DEF Throw
<1>3. ASSUME NEW s \in Solvers, AssignEnum(s) PROVE TypeOK'
  <2>1. report[s].result \in Kinds
    BY <1>3, ReportedKinds DEF AssignEnum, Goto, Started
  <2>2. QED
    BY <1>3, <2>1 DEF AssignEnum, Goto
<1>4. ASSUME NEW s \in Solvers, BeginAssignString(s) PROVE TypeOK'
  BY <1>4 DEF BeginAssignString, Goto
<1>5. ASSUME NEW s \in Solvers, EndAssignString(s) PROVE TypeOK'
  <2>1. report[s].explanation \in Texts
    BY <1>5, ReportedKinds DEF EndAssignString, Goto, Started
  <2>2. QED
    BY <1>5, <2>1 DEF EndAssignString, Goto
<1>6. ASSUME NEW s \in Solvers, LockGuard(s) PROVE TypeOK'
  BY <1>6 DEF LockGuard, Lock, Goto
<1>7. ASSUME NEW s \in Solvers, SetDone(s) PROVE TypeOK'
  BY <1>7 DEF SetDone, Goto
<1>8. ASSUME NEW s \in Solvers, NotifyAll(s) PROVE TypeOK'
  BY <1>8 DEF NotifyAll
<1>9. ASSUME NEW s \in Solvers, UnlockGuard(s) PROVE TypeOK'
  BY <1>9 DEF UnlockGuard, Goto
<1>10. ASSUME NEW s \in Solvers, Spawn(s) PROVE TypeOK'
  BY <1>10 DEF Spawn
<1>11. CASE LockMain
  BY <1>11 DEF LockMain, Lock, Goto
<1>12. CASE TestDone
  BY <1>12 DEF TestDone, Goto
<1>13. CASE Wait
  BY <1>13 DEF Wait, Goto
<1>14. CASE SpuriousWakeup
  BY <1>14 DEF SpuriousWakeup, Goto
<1>15. CASE Relock
  BY <1>15 DEF Relock, Lock, Goto
<1>16. CASE CopyEnum
  BY <1>16 DEF CopyEnum, Goto
<1>17. CASE CopyString
  BY <1>17 DEF CopyString, Goto
<1>18. CASE Return
  BY <1>18 DEF Return, Goto
<1>19. CASE UNCHANGED vars
  BY <1>19 DEF vars
<1>20. QED
  BY <1>1, <1>2, <1>3, <1>4, <1>5, <1>6, <1>7, <1>8, <1>9, <1>10, <1>11, <1>12,
     <1>13, <1>14, <1>15, <1>16, <1>17, <1>18, <1>19
  DEF Next, run_solver, portfolio_solve

(* Every step preserves what the program counter of a thread says of its  *)
(* report, of the flag and of the mutex.                                  *)
LEMMA ThreadPreserved ==
  ASSUME TypeOK, ThreadInv, [Next]_vars
  PROVE  ThreadInv'
<1> USE PortfolioAssumption DEF PortfolioAssumption, TypeOK, ThreadSteps, MainSteps, ThreadInv, Started, Flagged
<1>1. ASSUME NEW s \in Solvers, CheckSat(s) PROVE ThreadInv'
  <2>1. PICK r \in CanReport[s] : report' = [report EXCEPT ![s] = r]
    BY <1>1 DEF CheckSat
  <2>2. r \in AllReports /\ r # NoAnswer
    BY KindsAndTexts
  <2>3. QED
    BY <1>1, <2>1, <2>2 DEF CheckSat, Goto
<1>2. ASSUME NEW s \in Solvers, Throw(s) PROVE ThreadInv'
  BY <1>2 DEF Throw
<1>3. ASSUME NEW s \in Solvers, AssignEnum(s) PROVE ThreadInv'
  BY <1>3 DEF AssignEnum, Goto
<1>4. ASSUME NEW s \in Solvers, BeginAssignString(s) PROVE ThreadInv'
  BY <1>4 DEF BeginAssignString, Goto
<1>5. ASSUME NEW s \in Solvers, EndAssignString(s) PROVE ThreadInv'
  BY <1>5 DEF EndAssignString, Goto
<1>6. ASSUME NEW s \in Solvers, LockGuard(s) PROVE ThreadInv'
  BY <1>6 DEF LockGuard, Lock, Goto
<1>7. ASSUME NEW s \in Solvers, SetDone(s) PROVE ThreadInv'
  BY <1>7 DEF SetDone, Goto
<1>8. ASSUME NEW s \in Solvers, NotifyAll(s) PROVE ThreadInv'
  BY <1>8 DEF NotifyAll
<1>9. ASSUME NEW s \in Solvers, UnlockGuard(s) PROVE ThreadInv'
  BY <1>9 DEF UnlockGuard, Goto
<1>10. ASSUME NEW s \in Solvers, Spawn(s) PROVE ThreadInv'
  BY <1>10 DEF Spawn
<1>11. CASE LockMain
  BY <1>11 DEF LockMain, Lock, Goto
<1>12. CASE TestDone
  BY <1>12 DEF TestDone, Goto
<1>13. CASE Wait
  BY <1>13 DEF Wait, Goto
<1>14. CASE SpuriousWakeup
  BY <1>14 DEF SpuriousWakeup, Goto
<1>15. CASE Relock
  BY <1>15 DEF Relock, Lock, Goto
<1>16. CASE CopyEnum
  BY <1>16 DEF CopyEnum, Goto
<1>17. CASE CopyString
  BY <1>17 DEF CopyString, Goto
<1>18. CASE Return
  BY <1>18 DEF Return, Goto
<1>19. CASE UNCHANGED vars
  BY <1>19 DEF vars
<1>20. QED
  BY <1>1, <1>2, <1>3, <1>4, <1>5, <1>6, <1>7, <1>8, <1>9, <1>10, <1>11, <1>12,
     <1>13, <1>14, <1>15, <1>16, <1>17, <1>18, <1>19
  DEF Next, run_solver, portfolio_solve

(* What a thread reported stays reported. *)
LEMMA ReportedGrows ==
  ASSUME TypeOK, ThreadInv, [Next]_vars
  PROVE  Reported \subseteq Reported'
<1>1. CASE UNCHANGED report
  BY <1>1 DEF Reported
<1>2. ASSUME NEW s \in Solvers, CheckSat(s) PROVE Reported \subseteq Reported'
  <2>1. report[s] = NoAnswer
    BY <1>2 DEF CheckSat, Goto, ThreadInv, Started
  <2>2. \A t \in Solvers : report[t] # NoAnswer => report'[t] = report[t]
    BY <1>2, <2>1 DEF CheckSat, TypeOK
  <2>3. QED
    BY <2>2 DEF Reported
<1>3. QED
  BY <1>1, <1>2
     DEF Next, run_solver, portfolio_solve, Throw, AssignEnum, BeginAssignString,
         EndAssignString, LockGuard, Lock, SetDone, NotifyAll, UnlockGuard, Spawn,
         LockMain, TestDone, Wait, SpuriousWakeup, Relock, CopyEnum, CopyString,
         Return, vars

(* A thread that is past check_sat has reported.                          *)
LEMMA OwnReport ==
  ASSUME TypeOK, ThreadInv, NEW s \in Solvers, Started(s)
  PROVE  report[s] \in Reported
BY DEF ThreadInv, Reported

(* Every step preserves that the two fields of result are reported ones.  *)
LEMMA ResultPreserved ==
  ASSUME TypeOK, ThreadInv, ResultInv, [Next]_vars
  PROVE  ResultInv'
<1> USE ReportedGrows DEF TypeOK, ResultInv, Started
<1>1. ASSUME NEW s \in Solvers, CheckSat(s) PROVE ResultInv'
  BY <1>1 DEF CheckSat, Goto
<1>2. ASSUME NEW s \in Solvers, Throw(s) PROVE ResultInv'
  BY <1>2 DEF Throw
<1>3. ASSUME NEW s \in Solvers, AssignEnum(s) PROVE ResultInv'
  <2>1. report[s] \in Reported
    BY <1>3, OwnReport DEF AssignEnum, Goto, Started
  <2>2. QED
    BY <1>3, <2>1, ReportedGrows DEF AssignEnum, Goto
<1>4. ASSUME NEW s \in Solvers, BeginAssignString(s) PROVE ResultInv'
  <2>1. report[s] \in Reported
    BY <1>4, OwnReport DEF BeginAssignString, Goto, Started
  <2>2. QED
    BY <1>4, <2>1, ReportedGrows DEF BeginAssignString, Goto
<1>5. ASSUME NEW s \in Solvers, EndAssignString(s) PROVE ResultInv'
  <2>1. report[s] \in Reported
    BY <1>5, OwnReport DEF EndAssignString, Goto, Started
  <2>2. QED
    BY <1>5, <2>1, ReportedGrows DEF EndAssignString, Goto
<1>6. ASSUME NEW s \in Solvers, LockGuard(s) PROVE ResultInv'
  BY <1>6 DEF LockGuard, Lock, Goto
<1>7. ASSUME NEW s \in Solvers, SetDone(s) PROVE ResultInv'
  BY <1>7 DEF SetDone, Goto
<1>8. ASSUME NEW s \in Solvers, NotifyAll(s) PROVE ResultInv'
  BY <1>8 DEF NotifyAll
<1>9. ASSUME NEW s \in Solvers, UnlockGuard(s) PROVE ResultInv'
  BY <1>9 DEF UnlockGuard, Goto
<1>10. ASSUME NEW s \in Solvers, Spawn(s) PROVE ResultInv'
  BY <1>10 DEF Spawn
<1>11. CASE LockMain
  BY <1>11 DEF LockMain, Lock, Goto
<1>12. CASE TestDone
  BY <1>12 DEF TestDone, Goto
<1>13. CASE Wait
  BY <1>13 DEF Wait, Goto
<1>14. CASE SpuriousWakeup
  BY <1>14 DEF SpuriousWakeup, Goto
<1>15. CASE Relock
  BY <1>15 DEF Relock, Lock, Goto
<1>16. CASE CopyEnum
  BY <1>16 DEF CopyEnum, Goto
<1>17. CASE CopyString
  BY <1>17 DEF CopyString, Goto
<1>18. CASE Return
  BY <1>18 DEF Return, Goto
<1>19. CASE UNCHANGED vars
  BY <1>19 DEF vars
<1>20. QED
  BY <1>1, <1>2, <1>3, <1>4, <1>5, <1>6, <1>7, <1>8, <1>9, <1>10, <1>11, <1>12,
     <1>13, <1>14, <1>15, <1>16, <1>17, <1>18, <1>19
  DEF Next, run_solver, portfolio_solve

(* The threads past their assignment make the flag trustworthy. *)
LEMMA FlagIsTrue ==
  ASSUME TypeOK, ThreadInv, ResultInv
  PROVE  DoneMeansResultSet
BY DEF ThreadInv, ResultInv, DoneMeansResultSet, Started, Flagged

(* Every step preserves that the main thread copies the result only under *)
(* the flag.                                                              *)
LEMMA CopyPreserved ==
  ASSUME TypeOK, ThreadInv, ResultInv, CopyInv, [Next]_vars
  PROVE  CopyInv'
<1> USE PortfolioAssumption, ReportedGrows DEF PortfolioAssumption, TypeOK, MainSteps, Owner, CopyInv
<1>1. ASSUME NEW s \in Solvers, CheckSat(s) PROVE CopyInv'
  BY <1>1 DEF CheckSat, Goto
<1>2. ASSUME NEW s \in Solvers, Throw(s) PROVE CopyInv'
  BY <1>2 DEF Throw
<1>3. ASSUME NEW s \in Solvers, AssignEnum(s) PROVE CopyInv'
  BY <1>3 DEF AssignEnum, Goto
<1>4. ASSUME NEW s \in Solvers, BeginAssignString(s) PROVE CopyInv'
  BY <1>4 DEF BeginAssignString, Goto
<1>5. ASSUME NEW s \in Solvers, EndAssignString(s) PROVE CopyInv'
  BY <1>5 DEF EndAssignString, Goto
<1>6. ASSUME NEW s \in Solvers, LockGuard(s) PROVE CopyInv'
  BY <1>6 DEF LockGuard, Lock, Goto
<1>7. ASSUME NEW s \in Solvers, SetDone(s) PROVE CopyInv'
  BY <1>7 DEF SetDone, Goto
<1>8. ASSUME NEW s \in Solvers, NotifyAll(s) PROVE CopyInv'
  BY <1>8 DEF NotifyAll
<1>9. ASSUME NEW s \in Solvers, UnlockGuard(s) PROVE CopyInv'
  BY <1>9 DEF UnlockGuard, Goto
<1>10. ASSUME NEW s \in Solvers, Spawn(s) PROVE CopyInv'
  BY <1>10 DEF Spawn
<1>11. CASE LockMain
  BY <1>11 DEF LockMain, Lock, Goto
<1>12. CASE TestDone
  BY <1>12 DEF TestDone, Goto
<1>13. CASE Wait
  BY <1>13 DEF Wait, Goto
<1>14. CASE SpuriousWakeup
  BY <1>14 DEF SpuriousWakeup, Goto
<1>15. CASE Relock
  BY <1>15 DEF Relock, Lock, Goto
<1>16. CASE CopyEnum
  <2>1. DoneMeansResultSet /\ a_solver_is_done
    BY <1>16, FlagIsTrue DEF CopyEnum, Goto
  <2>2. UNCHANGED Reported
    BY <1>16 DEF CopyEnum, Reported
  <2>3. QED
    BY <1>16, <2>1, <2>2 DEF CopyEnum, Goto, DoneMeansResultSet
<1>17. CASE CopyString
  <2>1. DoneMeansResultSet /\ a_solver_is_done
    BY <1>17, FlagIsTrue DEF CopyString, Goto
  <2>2. UNCHANGED Reported
    BY <1>17 DEF CopyString, Reported
  <2>3. QED
    BY <1>17, <2>1, <2>2 DEF CopyString, Goto, DoneMeansResultSet
<1>18. CASE Return
  BY <1>18 DEF Return, Goto
<1>19. CASE UNCHANGED vars
  BY <1>19 DEF vars
<1>20. QED
  BY <1>1, <1>2, <1>3, <1>4, <1>5, <1>6, <1>7, <1>8, <1>9, <1>10, <1>11, <1>12,
     <1>13, <1>14, <1>15, <1>16, <1>17, <1>18, <1>19
  DEF Next, run_solver, portfolio_solve

(* Every step preserves that the main thread sleeps only while somebody   *)
(* is still to wake it.                                                   *)
LEMMA WakeupPreserved ==
  ASSUME TypeOK, CopyInv, NoMissedWakeup, [Next]_vars
  PROVE  NoMissedWakeup'
<1> USE PortfolioAssumption DEF PortfolioAssumption, TypeOK, MainSteps, Owner, CopyInv, NoMissedWakeup
<1>1. ASSUME NEW s \in Solvers, CheckSat(s) PROVE NoMissedWakeup'
  BY <1>1 DEF CheckSat, Goto
<1>2. ASSUME NEW s \in Solvers, Throw(s) PROVE NoMissedWakeup'
  BY <1>2 DEF Throw
<1>3. ASSUME NEW s \in Solvers, AssignEnum(s) PROVE NoMissedWakeup'
  BY <1>3 DEF AssignEnum, Goto
<1>4. ASSUME NEW s \in Solvers, BeginAssignString(s) PROVE NoMissedWakeup'
  BY <1>4 DEF BeginAssignString, Goto
<1>5. ASSUME NEW s \in Solvers, EndAssignString(s) PROVE NoMissedWakeup'
  BY <1>5 DEF EndAssignString, Goto
<1>6. ASSUME NEW s \in Solvers, LockGuard(s) PROVE NoMissedWakeup'
  BY <1>6 DEF LockGuard, Lock, Goto
<1>7. ASSUME NEW s \in Solvers, SetDone(s) PROVE NoMissedWakeup'
  BY <1>7 DEF SetDone, Goto
<1>8. ASSUME NEW s \in Solvers, NotifyAll(s) PROVE NoMissedWakeup'
  BY <1>8 DEF NotifyAll
<1>9. ASSUME NEW s \in Solvers, UnlockGuard(s) PROVE NoMissedWakeup'
  BY <1>9 DEF UnlockGuard, Goto
<1>10. ASSUME NEW s \in Solvers, Spawn(s) PROVE NoMissedWakeup'
  BY <1>10 DEF Spawn
<1>11. CASE LockMain
  BY <1>11 DEF LockMain, Lock, Goto
<1>12. CASE TestDone
  BY <1>12 DEF TestDone, Goto
<1>13. CASE Wait
  BY <1>13 DEF Wait, Goto
<1>14. CASE SpuriousWakeup
  BY <1>14 DEF SpuriousWakeup, Goto
<1>15. CASE Relock
  BY <1>15 DEF Relock, Lock, Goto
<1>16. CASE CopyEnum
  BY <1>16 DEF CopyEnum, Goto
<1>17. CASE CopyString
  BY <1>17 DEF CopyString, Goto
<1>18. CASE Return
  BY <1>18 DEF Return, Goto
<1>19. CASE UNCHANGED vars
  BY <1>19 DEF vars
<1>20. QED
  BY <1>1, <1>2, <1>3, <1>4, <1>5, <1>6, <1>7, <1>8, <1>9, <1>10, <1>11, <1>12,
     <1>13, <1>14, <1>15, <1>16, <1>17, <1>18, <1>19
  DEF Next, run_solver, portfolio_solve

-----------------------------------------------------------------------------
(* The invariant holds before the first thread starts.                    *)
LEMMA InitIInv == Init => IInv
<1> SUFFICES ASSUME Init PROVE IInv
  OBVIOUS
<1> USE PortfolioAssumption DEF PortfolioAssumption, Init, ThreadSteps, MainSteps
<1>1. TypeOK
  BY DEF TypeOK, Owner
<1>2. ThreadInv /\ ResultInv
  BY DEF ThreadInv, ResultInv, Started, Flagged
<1>3. CopyInv /\ NoMissedWakeup
  BY DEF CopyInv, NoMissedWakeup
<1>4. QED
  BY <1>1, <1>2, <1>3 DEF IInv

(* The inductive invariant holds in every reachable state. *)
THEOREM Invariance == SafetySpec => []IInv
<1>1. IInv /\ [Next]_vars => IInv'
  BY TypePreserved, ThreadPreserved, ResultPreserved, CopyPreserved,
     WakeupPreserved DEF IInv
<1>2. QED
  BY InitIInv, <1>1, PTL DEF SafetySpec

(* Types and mutex ownership: m is owned exactly by the thread that stands *)
(* between a lock and its release in run_solver or portfolio_solve.        *)
THEOREM TypeCorrect == SafetySpec => []TypeOK
<1>1. IInv => TypeOK
  BY DEF IInv
<1>2. QED
  BY Invariance, <1>1, PTL

(* a_solver_is_done is never seen before `result' holds a verdict that a   *)
(* solver's check_sat returned in run_solver.                              *)
THEOREM FlagImpliesResult == SafetySpec => []DoneMeansResultSet
<1>1. IInv => DoneMeansResultSet
  BY FlagIsTrue DEF IInv
<1>2. QED
  BY Invariance, <1>1, PTL

(* cv.wait in portfolio_solve never sleeps through the only notification.  *)
THEOREM WakeupNotLost == SafetySpec => []NoMissedWakeup
<1>1. IInv => NoMissedWakeup
  BY DEF IInv
<1>2. QED
  BY Invariance, <1>1, PTL

-----------------------------------------------------------------------------
(* Refinement: a step of the threads is a report, an answer, the end of    *)
(* the process, or nothing that PortfolioAnswer can see.                   *)
LEMMA StepRefines ==
  ASSUME IInv, [Next]_vars
  PROVE  [Promise!Next]_(Promise!vars)
<1> USE DEF IInv
<1>1. ASSUME NEW s \in Solvers, CheckSat(s) PROVE Promise!Next
  <2>1. PICK r \in CanReport[s] : report' = [report EXCEPT ![s] = r]
    BY <1>1 DEF CheckSat
  <2>2. r \in AllReports /\ r # NoAnswer
    BY KindsAndTexts, PortfolioAssumption DEF PortfolioAssumption
  <2>3. report[s] = NoAnswer
    BY <1>1 DEF CheckSat, Goto, ThreadInv, Started
  <2>4. \A t \in Solvers : report'[t] = IF t = s THEN r ELSE report[t]
    BY <2>1 DEF TypeOK
  <2>5. Reported' = Reported \cup {r}
    BY <2>2, <2>3, <2>4 DEF Reported
  <2>6. Promise!Report(r)
    BY <1>1, <2>5 DEF CheckSat, Goto, Promise!Report
  <2>7. QED
    BY <2>2, <2>6 DEF Promise!Next
<1>2. ASSUME NEW s \in Solvers, Throw(s) PROVE Promise!Next
  BY <1>2 DEF Throw, Promise!Next, Promise!Abort, Reported
<1>3. CASE Return
  <2>1. PICK r \in Reported : r.result = copy.result
    BY <1>3 DEF Return, Goto, CopyInv
  <2>2. PICK e \in Reported : copy.explanation \in {e.explanation, Torn}
    BY <1>3, <2>1 DEF Return, Goto, CopyInv
  <2>3. copy = [result |-> r.result, explanation |-> copy.explanation]
    BY <2>1 DEF TypeOK
  <2>4. answer = NoAnswer /\ ~aborted /\ UNCHANGED <<Reported, aborted>>
    BY <1>3 DEF Return, Goto, CopyInv, Reported
  <2>5. QED
    BY <1>3, <2>1, <2>2, <2>3, <2>4 DEF Return, Promise!Next, Promise!Answer
<1>4. CASE UNCHANGED <<report, answer, aborted>>
  BY <1>4 DEF Promise!vars, Reported
<1>5. QED
  BY <1>1, <1>2, <1>3, <1>4
     DEF Next, run_solver, portfolio_solve, AssignEnum, BeginAssignString,
         EndAssignString, LockGuard, Lock, SetDone, NotifyAll, UnlockGuard, Spawn,
         LockMain, TestDone, Wait, SpuriousWakeup, Relock, CopyEnum, CopyString,
         Goto, vars

(* Safety half of Implements: whatever the interleaving, portfolio_solve   *)
(* answers with a verdict that some solver reported.                       *)
THEOREM Refinement == SafetySpec => Promise!SafetySpec
<1>1. Init => Promise!Init
  BY DEF Init, Promise!Init, Reported
<1>2. QED
  BY <1>1, StepRefines, Invariance, PTL DEF SafetySpec, Promise!SafetySpec
=============================================================================
