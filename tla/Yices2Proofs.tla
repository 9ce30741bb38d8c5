---------------------------- MODULE Yices2Proofs ----------------------------
(***************************************************************************)
(* The workaround of Yices2Solver::push and pop, for every set of          *)
(* formulas and any number of levels: while client and solver are in step, *)
(* Yices2Solver implements AssertionStack.  Then its time limit, for any   *)
(* number of solvers that share the handler.                               *)
(***************************************************************************)
EXTENDS Yices2Context, Yices2TimeLimit, TLAPS, SequenceTheorems

Trails == Seq(SUBSET Models)

-----------------------------------------------------------------------------
(* Sequences of levels *)

(* n more levels that all hold e.                                          *)
LEMMA Extended ==
  ASSUME NEW t \in Trails, NEW e \in SUBSET Models, NEW n \in Nat
  PROVE  LET u == t \o [i \in 1 .. n |-> e]
         IN  /\ u \in Trails
             /\ Len(u) = Len(t) + n
             /\ \A i \in 1 .. Len(t) : u[i] = t[i]
             /\ \A i \in Len(t) + 1 .. Len(t) + n : u[i] = e
<1> DEFINE r == [i \in 1 .. n |-> e]
<1>1. r \in Trails /\ Len(r) = n /\ \A i \in 1 .. n : r[i] = e
  BY DEF Trails
<1>2. Len(t) \in Nat
  BY DEF Trails
<1> HIDE DEF r
<1>3. /\ t \o r \in Trails
      /\ Len(t \o r) = Len(t) + Len(r)
      /\ \A i \in 1 .. Len(t) + Len(r) : (t \o r)[i] = IF i <= Len(t) THEN t[i] ELSE r[i - Len(t)]
  BY <1>1, ConcatProperties DEF Trails
<1> QED BY <1>1, <1>2, <1>3 DEF r

(* The levels left when the upper ones are popped.                         *)
LEMMA Shortened ==
  ASSUME NEW t \in Trails, NEW n \in 1 .. Len(t)
  PROVE  /\ SubSeq(t, 1, n) \in Trails
         /\ Len(SubSeq(t, 1, n)) = n
         /\ \A i \in 1 .. n : SubSeq(t, 1, n)[i] = t[i]
<1>1. Len(t) \in Nat /\ n \in Int /\ 1 \in Int /\ 1 <= n
  BY DEF Trails
<1>2. \A i \in 1 .. n : t[i] \in SUBSET Models
  BY <1>1 DEF Trails
<1> QED BY <1>1, <1>2, SubSeqProperties DEF Trails

(* Two sequences of levels with the same levels are one.                  *)
LEMMA SameTrail ==
  ASSUME NEW t \in Trails, NEW u \in Trails, Len(t) = Len(u),
         \A i \in 1 .. Len(t) : t[i] = u[i]
  PROVE  t = u
BY SeqEqual DEF Trails

(* The top level, and the levels of AssertionStack.                        *)
LEMMA TopType ==
  ASSUME TypeOK
  PROVE  /\ ytrail \in Trails /\ Len(ytrail) \in Nat /\ Len(ytrail) > 0
         /\ Top \in SUBSET Models
         /\ pushes_after_unsat \in Nat
BY DEF TypeOK, Top, Trails

(* The levels of AssertionStack: those of Yices, then one without models  *)
(* for each counted push.                                                 *)
LEMMA LevelsShape ==
  ASSUME TypeOK
  PROVE  /\ Levels \in Trails
         /\ Len(Levels) = Len(ytrail) + pushes_after_unsat
         /\ \A i \in 1 .. Len(ytrail) : Levels[i] = ytrail[i]
         /\ \A i \in Len(ytrail) + 1 .. Len(Levels) : Levels[i] = {}
<1>1. ytrail \in Trails /\ pushes_after_unsat \in Nat /\ {} \in SUBSET Models
  BY TopType
<1> DEFINE u == ytrail \o [i \in 1 .. pushes_after_unsat |-> {}]
<1>2. /\ u \in Trails
      /\ Len(u) = Len(ytrail) + pushes_after_unsat
      /\ \A i \in 1 .. Len(ytrail) : u[i] = ytrail[i]
      /\ \A i \in Len(ytrail) + 1 .. Len(ytrail) + pushes_after_unsat : u[i] = {}
  BY <1>1, Extended
<1>3. Levels = u
  BY DEF Levels
<1> HIDE DEF u
<1> QED BY <1>2, <1>3

-----------------------------------------------------------------------------
(* Invariance, one lemma per call *)

(* A new solver satisfies the invariant.                                  *)
LEMMA InitInvariant == Init => IInv
<1> SUFFICES ASSUME Init PROVE IInv
  OBVIOUS
<1>1. <<Models>> \in Seq(SUBSET Models) /\ Len(<<Models>>) = 1
  OBVIOUS
<1>2. Wrap \in Nat /\ Wrap > 0 /\ MaxDepth \in Nat
  BY ContextAssumption DEF ContextAssumption
<1>3. TypeOK
  <2>1. ytrail \in Seq(SUBSET Models) /\ Len(ytrail) > 0
    BY <1>1 DEF Init
  <2>2. 0 \in 0 .. Wrap - 1 /\ 0 \in 0 .. MaxDepth
    BY <1>2
  <2> QED BY <2>1, <2>2 DEF Init, TypeOK
<1> QED
  BY <1>1, <1>3 DEF Init, IInv, UnsatIsUnsat, LevelsAgree, CountedOverUnsat, Unsound, InStep

(* An assertion only ever shrinks the top level.                          *)
LEMMA AssertInvariant ==
  ASSUME IInv, NEW f \in Formulas, assert_formula(f)
  PROVE  IInv'
<1>1. f \in SUBSET Models
  BY ContextAssumption DEF ContextAssumption
<1>2. /\ ytrail \in Trails /\ Len(ytrail) \in Nat /\ Len(ytrail) > 0
      /\ Top \in SUBSET Models
  BY TopType DEF IInv
<1>3. UNCHANGED <<yices_error, pushes_after_unsat, context_level, depth, drift>>
  BY DEF assert_formula
<1>4. answer' \in {"none", "sat", "unsat", "unknown", "throws"}
  BY DEF assert_formula, IInv, TypeOK
<1>5. CASE status = "UNSAT"
  <2>1. UNCHANGED <<ytrail, status>>
    BY <1>5 DEF assert_formula
  <2> QED
    BY <1>3, <1>4, <2>1
       DEF IInv, TypeOK, UnsatIsUnsat, LevelsAgree, CountedOverUnsat, InStep, Unsound, Top
<1>6. CASE status # "UNSAT"
  <2>1. /\ ytrail' = [ytrail EXCEPT ![Len(ytrail)] = @ \cap f]
        /\ status' \in {"IDLE"} \cup IF Top \cap f = {} THEN {"UNSAT"} ELSE {}
    BY <1>6 DEF assert_formula
  <2>2. ytrail[Len(ytrail)] \cap f \in SUBSET Models /\ Len(ytrail) \in 1 .. Len(ytrail)
    BY <1>1, <1>2 DEF Top
  <2>3. /\ ytrail' \in Trails /\ Len(ytrail') = Len(ytrail)
        /\ ytrail'[Len(ytrail)] = Top \cap f
    BY <1>2, <2>1, <2>2, ExceptSeq DEF Trails, Top
  <2>4. Top' = Top \cap f
    BY <2>3 DEF Top
  <2>5. status' \in {"IDLE", "UNSAT"} /\ (status' = "UNSAT" => Top' = {})
    BY <2>1, <2>4
  <2>6. TypeOK'
    BY <1>2, <1>3, <1>4, <2>3, <2>5 DEF IInv, TypeOK, Trails
  <2>7. CountedOverUnsat'
    BY <1>3, <2>4 DEF IInv, CountedOverUnsat, InStep
  <2> QED
    BY <1>3, <2>3, <2>5, <2>6, <2>7 DEF IInv, UnsatIsUnsat, LevelsAgree, InStep
<1> QED BY <1>5, <1>6

(* What a check leaves behind.                                             *)
LEMMA CheckInvariant ==
  ASSUME IInv, status' \in {"SAT", "UNSAT", "ASSUMED", "UNKNOWN"},
         status' = "UNSAT" => Top = {}, answer' = Verdict(status'),
         UNCHANGED <<ytrail, yices_error, pushes_after_unsat, context_level, depth, drift>>
  PROVE  IInv'
<1>1. answer' \in {"none", "sat", "unsat", "unknown", "throws"}
  BY DEF Verdict
<1>2. TypeOK'
  BY <1>1 DEF IInv, TypeOK
<1> QED BY <1>2 DEF IInv, UnsatIsUnsat, LevelsAgree, CountedOverUnsat, InStep, Top

(* A push goes to Yices, or is counted over assertions without models.    *)
LEMMA PushInvariant ==
  ASSUME IInv, NEW n \in 1 .. MaxDepth, push(n)
  PROVE  IInv'
<1>1. /\ ytrail \in Trails /\ Len(ytrail) \in Nat /\ Len(ytrail) > 0
      /\ Top \in SUBSET Models /\ pushes_after_unsat \in Nat
  BY TopType DEF IInv
<1>2. n \in Nat /\ Wrap \in Nat /\ Wrap > 0 /\ MaxDepth \in Nat
  BY ContextAssumption DEF ContextAssumption
<1>3. depth' = depth + n /\ depth' \in 0 .. MaxDepth /\ UNCHANGED <<yices_error, answer>>
  BY <1>2 DEF push, Room, IInv, TypeOK
<1>4. CASE Unsat
  <2>1. CASE /\ pushes_after_unsat' = pushes_after_unsat + n
             /\ drift' = drift \cup {"swallowed"} \cup IF Top # {} THEN {"assumptions"} ELSE {}
             /\ UNCHANGED <<ytrail, status, context_level>>
    <3>1. TypeOK'
      BY <1>1, <1>2, <1>3, <2>1 DEF IInv, TypeOK, Unsound
    <3>2. InStep' => InStep /\ Top = {}
      BY <2>1 DEF InStep, Unsound
    <3>3. LevelsAgree'
      BY <1>1, <1>2, <1>3, <2>1, <3>2 DEF IInv, TypeOK, LevelsAgree
    <3>4. CountedOverUnsat'
      BY <2>1, <3>2 DEF CountedOverUnsat, Top
    <3>5. "option" \notin drift' => depth' <= Len(ytrail') - 1 + pushes_after_unsat' /\ ~yices_error'
      BY <1>1, <1>2, <1>3, <2>1 DEF IInv, TypeOK
    <3> QED BY <2>1, <3>1, <3>3, <3>4, <3>5 DEF IInv, UnsatIsUnsat, Top
  <2> QED BY <1>4, <2>1 DEF push
<1>5. CASE ~Unsat
  <2>1. /\ ytrail' = Pushed(n) /\ status' = "IDLE"
        /\ context_level' = (context_level + n) % Wrap
        /\ UNCHANGED <<pushes_after_unsat, drift>>
    BY <1>5 DEF push
  <2>2. /\ ytrail' \in Trails /\ Len(ytrail') = Len(ytrail) + n
        /\ ytrail'[Len(ytrail) + n] = Top
    <3> DEFINE u == ytrail \o [i \in 1 .. n |-> Top]
    <3>1. /\ u \in Trails /\ Len(u) = Len(ytrail) + n
          /\ \A i \in Len(ytrail) + 1 .. Len(ytrail) + n : u[i] = Top
      BY <1>1, <1>2, Extended
    <3>2. ytrail' = u
      BY <2>1 DEF Pushed
    <3> HIDE DEF u
    <3> QED BY <1>1, <1>2, <3>1, <3>2
  <2>3. Top' = Top
    BY <2>2 DEF Top
  <2>4. context_level' \in 0 .. Wrap - 1
    BY <1>2, <2>1 DEF IInv, TypeOK
  <2>5. TypeOK'
    BY <1>1, <1>2, <1>3, <2>1, <2>2, <2>4 DEF IInv, TypeOK, Trails
  <2>6. LevelsAgree' /\ CountedOverUnsat'
    BY <1>1, <1>2, <1>3, <2>1, <2>2, <2>3
       DEF IInv, TypeOK, LevelsAgree, CountedOverUnsat, InStep
  <2>7. "option" \notin drift' => depth' <= Len(ytrail') - 1 + pushes_after_unsat' /\ ~yices_error'
    <3>1. /\ Len(ytrail') = Len(ytrail) + n /\ drift' = drift
          /\ pushes_after_unsat' = pushes_after_unsat
      BY <2>1, <2>2
    <3>2. Len(ytrail) \in Nat /\ pushes_after_unsat \in Nat /\ depth \in Nat
      BY <1>2, <1>1 DEF IInv, TypeOK
    <3>3. "option" \notin drift => depth <= Len(ytrail) - 1 + pushes_after_unsat /\ ~yices_error
      BY DEF IInv
    <3> QED BY <1>1, <1>3, <3>1, <3>2, <3>3
  <2> QED BY <2>1, <2>5, <2>6, <2>7 DEF IInv, UnsatIsUnsat
<1> QED BY <1>4, <1>5

(* A pop takes from the counter first: Yices is asked only for levels it  *)
(* has.                                                                   *)
LEMMA PopInvariant ==
  ASSUME IInv, NEW n \in 1 .. MaxDepth, pop(n)
  PROVE  IInv'
<1> DEFINE counted == Smaller(n, pushes_after_unsat)
           open    == Len(ytrail) - 1
           popped  == Smaller(n - counted, open)
<1>1. /\ ytrail \in Trails /\ Len(ytrail) \in Nat /\ Len(ytrail) > 0
      /\ Top \in SUBSET Models /\ pushes_after_unsat \in Nat
  BY TopType DEF IInv
<1>2. n \in Nat /\ Wrap \in Nat /\ Wrap > 0 /\ MaxDepth \in Nat /\ depth \in Nat
  BY ContextAssumption DEF ContextAssumption, IInv, TypeOK
<1>3. /\ n <= depth /\ depth' = depth - n
      /\ pushes_after_unsat' = pushes_after_unsat - counted
      /\ ytrail' = SubSeq(ytrail, 1, Len(ytrail) - popped)
      /\ status' = IF popped > 0 THEN "IDLE" ELSE status
      /\ yices_error' = (yices_error \/ n - counted > open)
      /\ context_level' = (context_level + Wrap - (n % Wrap)) % Wrap
      /\ UNCHANGED <<answer, drift>>
  BY DEF pop
<1>4. /\ counted \in Nat /\ counted <= n /\ counted <= pushes_after_unsat
      /\ popped \in Nat /\ popped <= n - counted /\ popped <= open /\ open \in Nat
      /\ popped > 0 => counted = pushes_after_unsat
      /\ n - counted <= open => popped = n - counted
      /\ n - counted > 0 => counted = pushes_after_unsat
  <2>1. /\ counted \in Nat /\ counted <= n /\ counted <= pushes_after_unsat
        /\ n - counted > 0 => counted = pushes_after_unsat
    BY <1>1, <1>2 DEF Smaller
  <2>2. open \in Nat
    BY <1>1
  <2> HIDE DEF counted, open
  <2>3. /\ popped \in Nat /\ popped <= n - counted /\ popped <= open
        /\ n - counted <= open => popped = n - counted
    BY <1>2, <2>1, <2>2 DEF Smaller
  <2> QED BY <1>1, <1>2, <2>1, <2>2, <2>3
<1>5. /\ ytrail' \in Trails /\ Len(ytrail') = Len(ytrail) - popped
      /\ \A i \in 1 .. Len(ytrail) - popped : ytrail'[i] = ytrail[i]
  <2>1. Len(ytrail) - popped \in 1 .. Len(ytrail)
    BY <1>1, <1>4
  <2> HIDE DEF popped
  <2> QED BY <1>1, <1>3, <2>1, Shortened
<1>6. (n % Wrap) \in 0 .. Wrap - 1 /\ context_level' \in 0 .. Wrap - 1
  <2>1. (n % Wrap) \in 0 .. Wrap - 1
    BY <1>2
  <2>2. context_level + Wrap - (n % Wrap) \in Int
    BY <1>2, <2>1 DEF IInv, TypeOK
  <2>3. \A x \in Int : x % Wrap \in 0 .. Wrap - 1
    BY <1>2
  <2> QED BY <1>3, <2>1, <2>2, <2>3
<1> HIDE DEF counted, open, popped
<1>7. TypeOK'
  <2>1. ytrail' \in Seq(SUBSET Models) /\ Len(ytrail') > 0
    BY <1>1, <1>4, <1>5 DEF Trails, open
  <2>2. pushes_after_unsat' \in Nat /\ depth' \in 0 .. MaxDepth
    BY <1>1, <1>2, <1>3, <1>4 DEF IInv, TypeOK
  <2>3. yices_error' \in BOOLEAN /\ status' \in {"IDLE", "SAT", "UNSAT", "ASSUMED", "UNKNOWN"}
    BY <1>3 DEF IInv, TypeOK
  <2> QED BY <1>3, <1>6, <2>1, <2>2, <2>3 DEF IInv, TypeOK
<1>8. popped = 0 => ytrail' = ytrail /\ Top' = Top /\ status' = status
  <2> SUFFICES ASSUME popped = 0 PROVE ytrail' = ytrail /\ Top' = Top /\ status' = status
    OBVIOUS
  <2>1. ytrail' = ytrail
    BY <1>1, <1>5, SameTrail
  <2>2. Top' = Top
    BY <2>1 DEF Top
  <2>3. status' = status
    <3>1. ~(popped > 0)
      OBVIOUS
    <3> QED BY <1>3, <3>1
  <2> QED BY <2>1, <2>2, <2>3
<1>9. UnsatIsUnsat'
  <2>1. CASE popped = 0
    BY <1>8, <2>1 DEF IInv, UnsatIsUnsat
  <2>2. CASE popped # 0
    <3>1. status' = "IDLE"
      BY <1>3, <1>4, <2>2
    <3> QED BY <3>1 DEF UnsatIsUnsat
  <2> QED BY <2>1, <2>2
<1>10. InStep' = InStep /\ (InStep => "option" \notin drift)
  BY <1>3 DEF InStep, Unsound
<1>11. ASSUME "option" \notin drift
       PROVE  /\ n - counted <= open
              /\ depth' <= Len(ytrail') - 1 + pushes_after_unsat'
              /\ ~yices_error'
  <2>1. depth <= Len(ytrail) - 1 + pushes_after_unsat /\ ~yices_error
    BY <1>11 DEF IInv
  <2>2. n - counted <= open
    <3>1. CASE n - counted > 0
      BY <1>1, <1>2, <1>3, <1>4, <2>1, <3>1 DEF open
    <3>2. CASE ~(n - counted > 0)
      BY <1>2, <1>4, <3>2
    <3> QED BY <3>1, <3>2
  <2>3. popped = n - counted
    BY <1>4, <2>2
  <2>4. ~yices_error'
    <3>1. ~(n - counted > open)
      BY <1>1, <1>2, <1>4, <2>2
    <3> QED BY <1>3, <2>1, <3>1
  <2>5. depth' <= Len(ytrail') - 1 + pushes_after_unsat'
    BY <1>1, <1>2, <1>3, <1>4, <1>5, <2>1, <2>3
  <2> QED BY <2>2, <2>4, <2>5
<1>12. LevelsAgree'
  <2> SUFFICES ASSUME InStep PROVE depth' = Len(ytrail') - 1 + pushes_after_unsat'
    BY <1>10 DEF LevelsAgree
  <2>1. n - counted <= open /\ depth = Len(ytrail) - 1 + pushes_after_unsat
    BY <1>10, <1>11 DEF IInv, LevelsAgree
  <2>2. popped = n - counted
    BY <1>4, <2>1
  <2> QED BY <1>1, <1>2, <1>3, <1>4, <1>5, <2>1, <2>2
<1>13. CountedOverUnsat'
  <2> SUFFICES ASSUME InStep, pushes_after_unsat' > 0 PROVE Top' = {}
    BY <1>10 DEF CountedOverUnsat
  <2>1. popped = 0
    BY <1>1, <1>3, <1>4
  <2>2. pushes_after_unsat > 0
    BY <1>1, <1>3, <1>4
  <2> QED BY <1>8, <2>1, <2>2 DEF IInv, CountedOverUnsat
<1>14. "option" \notin drift' => depth' <= Len(ytrail') - 1 + pushes_after_unsat' /\ ~yices_error'
  BY <1>3, <1>11
<1> QED BY <1>7, <1>9, <1>12, <1>13, <1>14 DEF IInv

(* A fresh context: the client is at level 0 again, or out of step.        *)
LEMMA ResetInvariant ==
  ASSUME IInv, reset_assertions
  PROVE  IInv'
<1>1. /\ ytrail' = <<Models>> /\ status' = "IDLE" /\ depth' = 0
      /\ drift' = drift \cup (IF pushes_after_unsat > 0 THEN {"reset"} ELSE {})
                        \cup (IF context_level # 0 THEN {"level"} ELSE {})
      /\ UNCHANGED <<yices_error, pushes_after_unsat, context_level, answer>>
  BY DEF reset_assertions, NewContext
<1>2. <<Models>> \in Seq(SUBSET Models) /\ Len(<<Models>>) = 1
  OBVIOUS
<1>3. MaxDepth \in Nat /\ pushes_after_unsat \in Nat
  BY ContextAssumption DEF ContextAssumption, IInv, TypeOK
<1>4. TypeOK'
  <2>1. 0 \in 0 .. MaxDepth
    BY <1>3
  <2> QED BY <1>1, <1>2, <2>1 DEF IInv, TypeOK, Unsound
<1>5. InStep' => pushes_after_unsat' = 0
  <2>1. CASE pushes_after_unsat > 0
    BY <1>1, <2>1 DEF InStep, Unsound
  <2>2. CASE ~(pushes_after_unsat > 0)
    BY <1>1, <1>3, <2>2
  <2> QED BY <2>1, <2>2
<1>6. LevelsAgree' /\ CountedOverUnsat'
  <2>1. Len(ytrail') = 1
    BY <1>1, <1>2
  <2> QED BY <1>1, <1>5, <2>1 DEF LevelsAgree, CountedOverUnsat
<1>7. "option" \notin drift' => depth' <= Len(ytrail') - 1 + pushes_after_unsat' /\ ~yices_error'
  <2>1. Len(ytrail') = 1
    BY <1>1, <1>2
  <2> QED BY <1>1, <1>3, <2>1 DEF IInv
<1> QED BY <1>1, <1>4, <1>6, <1>7 DEF IInv, UnsatIsUnsat

(* set_opt and set_logic drop the context, and with it, if it was in use, *)
(* what the client and Yices agreed on.                                   *)
LEMMA SetOptInvariant ==
  ASSUME IInv, set_opt
  PROVE  IInv'
<1>1. /\ ytrail' = <<Models>> /\ status' = "IDLE"
      /\ drift' = drift \cup IF ytrail # <<Models>> \/ pushes_after_unsat > 0
                             THEN {"option"} ELSE {}
      /\ UNCHANGED <<yices_error, pushes_after_unsat, context_level, answer, depth>>
  BY DEF set_opt, NewContext
<1>2. <<Models>> \in Seq(SUBSET Models) /\ Len(<<Models>>) = 1
  OBVIOUS
<1>3. pushes_after_unsat \in Nat
  BY DEF IInv, TypeOK
<1>4. TypeOK'
  BY <1>1, <1>2 DEF IInv, TypeOK, Unsound
<1>5. "option" \notin drift' => ytrail' = ytrail /\ pushes_after_unsat' = 0
  <2>1. CASE ytrail # <<Models>> \/ pushes_after_unsat > 0
    BY <1>1, <2>1
  <2>2. CASE ~(ytrail # <<Models>> \/ pushes_after_unsat > 0)
    BY <1>1, <1>3, <2>2
  <2> QED BY <2>1, <2>2
<1>6. InStep' => InStep /\ "option" \notin drift'
  BY <1>1 DEF InStep, Unsound
<1>7. LevelsAgree' /\ CountedOverUnsat'
  BY <1>1, <1>5, <1>6 DEF IInv, LevelsAgree, CountedOverUnsat
<1>8. "option" \notin drift' => depth' <= Len(ytrail') - 1 + pushes_after_unsat' /\ ~yices_error'
  BY <1>1, <1>5 DEF IInv
<1> QED BY <1>1, <1>4, <1>7, <1>8 DEF IInv, UnsatIsUnsat

(* The invariant is inductive.                                            *)
LEMMA NextInvariant == IInv /\ [Next]_vars => IInv'
<1> SUFFICES ASSUME IInv, [Next]_vars PROVE IInv'
  OBVIOUS
<1>1. CASE \E f \in Formulas : assert_formula(f)
  BY <1>1, AssertInvariant
<1>2. CASE \E f \in Formulas : check_sat_assuming(f)
  <2>1. PICK f \in Formulas : check_sat_assuming(f)
    BY <1>2
  <2>2. status' \in {"SAT", "UNSAT", "ASSUMED", "UNKNOWN"} /\ (status' = "UNSAT" => Top = {})
    BY <2>1 DEF check_sat_assuming, IInv, UnsatIsUnsat
  <2>3. answer' = Verdict(status')
        /\ UNCHANGED <<ytrail, yices_error, pushes_after_unsat, context_level, depth, drift>>
    BY <2>1 DEF check_sat_assuming
  <2> QED BY <2>2, <2>3, CheckInvariant
<1>3. CASE check_sat
  <2>1. status' \in {"SAT", "UNSAT", "ASSUMED", "UNKNOWN"} /\ (status' = "UNSAT" => Top = {})
    BY <1>3 DEF check_sat, IInv, UnsatIsUnsat
  <2>2. answer' = Verdict(status')
        /\ UNCHANGED <<ytrail, yices_error, pushes_after_unsat, context_level, depth, drift>>
    BY <1>3 DEF check_sat
  <2> QED BY <2>1, <2>2, CheckInvariant
<1>4. CASE \E n \in 1 .. MaxDepth : push(n)
  BY <1>4, PushInvariant
<1>5. CASE \E n \in 1 .. MaxDepth : pop(n)
  BY <1>5, PopInvariant
<1>6. CASE reset_assertions
  BY <1>6, ResetInvariant
<1>7. CASE set_opt
  BY <1>7, SetOptInvariant
<1>8. CASE UNCHANGED vars
  BY <1>8 DEF vars, IInv, TypeOK, UnsatIsUnsat, LevelsAgree, CountedOverUnsat, InStep, Top
<1> QED BY <1>1, <1>2, <1>3, <1>4, <1>5, <1>6, <1>7, <1>8 DEF Next

-----------------------------------------------------------------------------
(* Refinement: every call is a call of AssertionStack, or changes nothing  *)

(* The levels of AssertionStack before and after a step.                   *)
LEMMA LevelsShapeNext ==
  ASSUME TypeOK'
  PROVE  /\ Levels' \in Trails
         /\ Len(Levels') = Len(ytrail') + pushes_after_unsat'
         /\ \A i \in 1 .. Len(ytrail') : Levels'[i] = ytrail'[i]
         /\ \A i \in Len(ytrail') + 1 .. Len(Levels') : Levels'[i] = {}
         /\ Len(ytrail') \in Nat /\ Len(ytrail') > 0 /\ pushes_after_unsat' \in Nat
<1>1. ytrail' \in Trails /\ pushes_after_unsat' \in Nat /\ {} \in SUBSET Models
      /\ Len(ytrail') \in Nat /\ Len(ytrail') > 0
  BY DEF TypeOK, Trails
<1> DEFINE u == ytrail' \o [i \in 1 .. pushes_after_unsat' |-> {}]
<1>2. /\ u \in Trails
      /\ Len(u) = Len(ytrail') + pushes_after_unsat'
      /\ \A i \in 1 .. Len(ytrail') : u[i] = ytrail'[i]
      /\ \A i \in Len(ytrail') + 1 .. Len(ytrail') + pushes_after_unsat' : u[i] = {}
  BY <1>1, Extended
<1>3. Levels' = u
  BY DEF Levels
<1> HIDE DEF u
<1> QED BY <1>1, <1>2, <1>3

(* The top of the stack is the top of Yices, counted pushes or not.        *)
LEMMA StackTop ==
  ASSUME IInv, InStep
  PROVE  Levels[Len(Levels)] = Top
<1>1. /\ Len(Levels) = Len(ytrail) + pushes_after_unsat
      /\ \A i \in 1 .. Len(ytrail) : Levels[i] = ytrail[i]
      /\ \A i \in Len(ytrail) + 1 .. Len(Levels) : Levels[i] = {}
  BY LevelsShape DEF IInv
<1>2. Len(ytrail) \in Nat /\ Len(ytrail) > 0 /\ pushes_after_unsat \in Nat
  BY TopType DEF IInv
<1>3. CASE pushes_after_unsat = 0
  <2>1. Len(Levels) = Len(ytrail) /\ Len(ytrail) \in 1 .. Len(ytrail)
    BY <1>1, <1>2, <1>3
  <2> QED BY <1>1, <2>1 DEF Top
<1>4. CASE pushes_after_unsat > 0
  <2>1. Len(Levels) \in Len(ytrail) + 1 .. Len(Levels)
    BY <1>1, <1>2, <1>4
  <2>2. Top = {}
    BY <1>4 DEF IInv, CountedOverUnsat
  <2> QED BY <1>1, <2>1, <2>2
<1> QED BY <1>2, <1>3, <1>4

(* A new solver is an empty stack.                                        *)
LEMMA InitRefines == Init => Stack!Init
<1> SUFFICES ASSUME Init PROVE Stack!Init
  OBVIOUS
<1>1. IInv
  BY InitInvariant
<1>2. ytrail = <<Models>> /\ pushes_after_unsat = 0 /\ answer = "none"
  BY DEF Init
<1>3. /\ Levels \in Trails /\ Len(Levels) = Len(ytrail) + pushes_after_unsat
      /\ \A i \in 1 .. Len(ytrail) : Levels[i] = ytrail[i]
  BY <1>1, LevelsShape DEF IInv
<1>4. <<Models>> \in Trails /\ Len(<<Models>>) = 1
  BY DEF Trails
<1>5. Levels = <<Models>>
  BY <1>2, <1>3, <1>4, SameTrail
<1> QED BY <1>2, <1>5 DEF Stack!Init

(* A formula asserted in an unsat context, and ignored by Yices, changes   *)
(* nothing that a model could tell.                                        *)
LEMMA AssertRefines ==
  ASSUME IInv, IInv', InStep, NEW f \in Formulas, assert_formula(f)
  PROVE  Stack!Assert(f)
<1>1. /\ Levels \in Trails
      /\ Len(Levels) = Len(ytrail) + pushes_after_unsat
      /\ \A i \in 1 .. Len(ytrail) : Levels[i] = ytrail[i]
      /\ \A i \in Len(ytrail) + 1 .. Len(Levels) : Levels[i] = {}
  BY LevelsShape DEF IInv
<1>2. /\ Levels' \in Trails
      /\ Len(Levels') = Len(ytrail') + pushes_after_unsat'
      /\ \A i \in 1 .. Len(ytrail') : Levels'[i] = ytrail'[i]
      /\ \A i \in Len(ytrail') + 1 .. Len(Levels') : Levels'[i] = {}
      /\ Len(ytrail') \in Nat /\ Len(ytrail') > 0 /\ pushes_after_unsat' \in Nat
  BY LevelsShapeNext DEF IInv
<1>3. /\ Len(ytrail) \in Nat /\ Len(ytrail) > 0 /\ pushes_after_unsat \in Nat
      /\ ytrail \in Trails /\ Top \in SUBSET Models
  BY TopType DEF IInv
<1>4. f \in SUBSET Models /\ pushes_after_unsat' = pushes_after_unsat
  BY ContextAssumption DEF ContextAssumption, assert_formula
<1>5. answer' = answer
  BY DEF assert_formula, IInv, InStep, Unsound
<1> DEFINE n == Len(Levels)
           v == [Levels EXCEPT ![n] = @ \cap f]
<1>6. Levels[n] = Top
  BY StackTop
<1>7. n \in 1 .. Len(Levels) /\ Levels[n] \cap f \in SUBSET Models
  BY <1>1, <1>3, <1>4, <1>6
<1>8. /\ v \in Trails /\ Len(v) = n
      /\ \A i \in 1 .. n : v[i] = IF i = n THEN Top \cap f ELSE Levels[i]
  BY <1>1, <1>6, <1>7, ExceptSeq DEF Trails
<1>9. /\ Len(ytrail') = Len(ytrail)
      /\ \A i \in 1 .. Len(ytrail) : ytrail'[i] = IF i = Len(ytrail) THEN Top \cap f ELSE ytrail[i]
  <2>1. CASE status = "UNSAT"
    BY <1>3, <2>1 DEF assert_formula, IInv, UnsatIsUnsat, Top
  <2>2. CASE status # "UNSAT"
    <3>1. ytrail' = [ytrail EXCEPT ![Len(ytrail)] = @ \cap f]
      BY <2>2 DEF assert_formula
    <3>2. ytrail[Len(ytrail)] \cap f \in SUBSET Models /\ Len(ytrail) \in 1 .. Len(ytrail)
      BY <1>3, <1>4
    <3> QED BY <1>3, <3>1, <3>2, ExceptSeq DEF Trails, Top
  <2> QED BY <2>1, <2>2
<1> HIDE DEF n, v
<1>10. Len(Levels') = n
  BY <1>1, <1>2, <1>4, <1>9 DEF n
<1>11. ASSUME NEW i \in 1 .. n
       PROVE  Levels'[i] = v[i]
  <2>1. n = Len(ytrail) + pushes_after_unsat
    BY <1>1 DEF n
  <2>2. CASE i \in 1 .. Len(ytrail)
    <3>1. Levels'[i] = IF i = Len(ytrail) THEN Top \cap f ELSE Levels[i]
      BY <1>1, <1>2, <1>9, <2>2
    <3>2. CASE i # Len(ytrail)
      BY <1>3, <1>8, <2>1, <2>2, <3>1, <3>2
    <3>3. CASE i = Len(ytrail) /\ pushes_after_unsat = 0
      BY <1>3, <1>8, <2>1, <3>1, <3>3
    <3>4. CASE i = Len(ytrail) /\ pushes_after_unsat > 0
      <4>1. Top = {}
        BY <3>4 DEF IInv, CountedOverUnsat
      <4>2. Levels[i] = Top
        BY <1>1, <1>3, <3>4 DEF Top
      <4> QED BY <1>8, <3>1, <4>1, <4>2
    <3> QED BY <1>3, <3>2, <3>3, <3>4
  <2>3. CASE i \in Len(ytrail) + 1 .. n
    <3>1. Levels'[i] = {} /\ Levels[i] = {}
      BY <1>1, <1>2, <1>9, <1>10, <2>3 DEF n
    <3>2. Top = {}
      <4>1. pushes_after_unsat > 0
        BY <1>3, <2>1, <2>3
      <4> QED BY <4>1 DEF IInv, CountedOverUnsat
    <3> QED BY <1>8, <3>1, <3>2
  <2> QED BY <1>3, <2>1, <2>2, <2>3
<1>12. Levels' = v
  BY <1>2, <1>8, <1>10, <1>11, SameTrail
<1> QED BY <1>5, <1>12 DEF Stack!Assert, v, n

(* A verdict is right for the stack.                                       *)
LEMMA CheckRefines ==
  ASSUME IInv, InStep, NEW A \in Formulas \cup {Models},
         status' \in {"UNSAT", "UNKNOWN", "SAT", "ASSUMED"},
         status' \in {"UNSAT", "ASSUMED"} => Top \cap A = {},
         status' = "SAT" => Top \cap A # {},
         answer' = Verdict(status'),
         UNCHANGED <<ytrail, pushes_after_unsat>>
  PROVE  Stack!Check(A)
<1>1. ~yices_error
  BY DEF IInv, InStep, Unsound
<1>2. answer' \in {"unknown", IF Top \cap A = {} THEN "unsat" ELSE "sat"}
  <2>1. CASE status' \in {"UNSAT", "ASSUMED"}
    BY <1>1, <2>1 DEF Verdict
  <2>2. CASE status' = "SAT"
    BY <1>1, <2>2 DEF Verdict
  <2>3. CASE status' = "UNKNOWN"
    BY <1>1, <2>3 DEF Verdict
  <2> QED BY <2>1, <2>2, <2>3
<1>3. Stack!Top = Top
  BY StackTop DEF Stack!Top
<1>4. Levels' = Levels
  BY DEF Levels
<1> QED BY <1>2, <1>3, <1>4 DEF Stack!Check

(* A swallowed push opens levels without models, over a top without any.   *)
LEMMA PushRefines ==
  ASSUME IInv, IInv', InStep, InStep', NEW n \in 1 .. MaxDepth, push(n)
  PROVE  Stack!Push(n)
<1>1. /\ Levels \in Trails
      /\ Len(Levels) = Len(ytrail) + pushes_after_unsat
      /\ \A i \in 1 .. Len(ytrail) : Levels[i] = ytrail[i]
      /\ \A i \in Len(ytrail) + 1 .. Len(Levels) : Levels[i] = {}
  BY LevelsShape DEF IInv
<1>2. /\ Levels' \in Trails
      /\ Len(Levels') = Len(ytrail') + pushes_after_unsat'
      /\ \A i \in 1 .. Len(ytrail') : Levels'[i] = ytrail'[i]
      /\ \A i \in Len(ytrail') + 1 .. Len(Levels') : Levels'[i] = {}
  BY LevelsShapeNext DEF IInv
<1>3. /\ Len(ytrail) \in Nat /\ Len(ytrail) > 0 /\ pushes_after_unsat \in Nat
      /\ ytrail \in Trails /\ Top \in SUBSET Models
  BY TopType DEF IInv
<1>4. n \in Nat /\ answer' = answer
  BY ContextAssumption DEF ContextAssumption, push
<1>5. Stack!Top = Top
  BY StackTop DEF Stack!Top
<1> DEFINE v == Levels \o [i \in 1 .. n |-> Top]
<1>6. /\ v \in Trails /\ Len(v) = Len(Levels) + n
      /\ \A i \in 1 .. Len(Levels) : v[i] = Levels[i]
      /\ \A i \in Len(Levels) + 1 .. Len(Levels) + n : v[i] = Top
  <2>1. Levels \in Trails /\ Top \in SUBSET Models /\ n \in Nat
    BY <1>1, <1>3, <1>4
  <2> QED BY <2>1, Extended
<1> HIDE DEF v
<1>7. Len(Levels') = Len(v) /\ \A i \in 1 .. Len(Levels') : Levels'[i] = v[i]
  <2>1. CASE Unsat
    <3>1. /\ pushes_after_unsat' = pushes_after_unsat + n
          /\ drift' = drift \cup {"swallowed"} \cup IF Top # {} THEN {"assumptions"} ELSE {}
          /\ ytrail' = ytrail
      BY <2>1 DEF push
    <3>2. Top = {}
      BY <3>1 DEF InStep, Unsound
    <3> QED BY <1>1, <1>2, <1>3, <1>4, <1>6, <3>1, <3>2
  <2>2. CASE ~Unsat
    <3>1. ytrail' = Pushed(n) /\ pushes_after_unsat' = pushes_after_unsat
      BY <2>2 DEF push
    <3> DEFINE u == ytrail \o [i \in 1 .. n |-> Top]
    <3>2. /\ Len(u) = Len(ytrail) + n
          /\ \A i \in 1 .. Len(ytrail) : u[i] = ytrail[i]
          /\ \A i \in Len(ytrail) + 1 .. Len(ytrail) + n : u[i] = Top
      BY <1>3, <1>4, Extended
    <3>3. ytrail' = u
      BY <3>1 DEF Pushed
    <3> HIDE DEF u
    <3>4. /\ Len(Levels) = Len(ytrail) + pushes_after_unsat
          /\ Len(ytrail') = Len(ytrail) + n
          /\ Len(Levels') = Len(Levels) + n
          /\ Len(Levels') = Len(v)
      <4>1. Len(ytrail') = Len(ytrail) + n
        BY <3>2, <3>3
      <4>2. Len(Levels') = Len(ytrail') + pushes_after_unsat
        BY <1>2, <3>1
      <4>3. Len(Levels) = Len(ytrail) + pushes_after_unsat /\ Len(v) = Len(Levels) + n
        BY <1>1, <1>6
      <4> QED BY <1>3, <1>4, <4>1, <4>2, <4>3
    <3>5. CASE pushes_after_unsat = 0
      <4>1. Len(Levels) = Len(ytrail) /\ Len(Levels') = Len(ytrail')
        BY <1>1, <1>2, <1>3, <3>1, <3>5
      <4>2. \A i \in 1 .. Len(ytrail') : Levels'[i] = u[i]
        BY <1>2, <3>3
      <4>3. \A i \in 1 .. Len(ytrail) : u[i] = v[i]
        BY <1>1, <1>6, <3>2, <4>1
      <4>4. \A i \in Len(ytrail) + 1 .. Len(ytrail) + n : u[i] = v[i]
        BY <1>6, <3>2, <4>1
      <4>5. ASSUME NEW i \in 1 .. Len(Levels') PROVE Levels'[i] = v[i]
        <5>1. i \in 1 .. Len(ytrail) \/ i \in Len(ytrail) + 1 .. Len(ytrail) + n
          BY <1>3, <1>4, <3>4, <4>1
        <5>2. Levels'[i] = u[i]
          BY <4>1, <4>2
        <5> QED BY <4>3, <4>4, <5>1, <5>2
      <4> QED BY <3>4, <4>5
    <3>6. CASE pushes_after_unsat > 0
      <4>1. Top = {} /\ ytrail[Len(ytrail)] = {}
        BY <3>6 DEF IInv, CountedOverUnsat, Top
      <4>2. \A i \in 1 .. Len(ytrail) : Levels'[i] = u[i] /\ v[i] = u[i]
        BY <1>1, <1>2, <1>3, <1>4, <1>6, <3>2, <3>3, <3>4
      <4>3. \A i \in Len(ytrail) + 1 .. Len(Levels) : v[i] = {}
        BY <1>1, <1>3, <1>6, <3>4
      <4>4. \A i \in Len(Levels) + 1 .. Len(Levels') : v[i] = {}
        BY <1>6, <3>4, <4>1
      <4>5. \A i \in Len(ytrail) + 1 .. Len(ytrail') : Levels'[i] = {}
        <5>1. \A i \in Len(ytrail) + 1 .. Len(ytrail') : u[i] = {}
          BY <3>2, <3>4, <4>1
        <5> QED BY <1>2, <1>3, <1>4, <3>3, <3>4, <5>1
      <4>6. \A i \in Len(ytrail') + 1 .. Len(Levels') : Levels'[i] = {}
        BY <1>2
      <4>7. ASSUME NEW i \in 1 .. Len(Levels') PROVE Levels'[i] = v[i]
        <5>1. CASE i \in 1 .. Len(ytrail)
          BY <4>2, <5>1
        <5>2. CASE i \notin 1 .. Len(ytrail)
          <6>1. \/ i \in Len(ytrail) + 1 .. Len(Levels)
                \/ i \in Len(Levels) + 1 .. Len(Levels')
            BY <1>3, <1>4, <3>4, <5>2
          <6>2. \/ i \in Len(ytrail) + 1 .. Len(ytrail')
                \/ i \in Len(ytrail') + 1 .. Len(Levels')
            BY <1>3, <1>4, <3>4, <5>2
          <6> QED BY <4>3, <4>4, <4>5, <4>6, <6>1, <6>2
        <5> QED BY <5>1, <5>2
      <4> QED BY <3>4, <4>7
    <3> QED BY <1>3, <3>4, <3>5, <3>6
  <2> QED BY <2>1, <2>2
<1>8. Levels' = v
  BY <1>2, <1>6, <1>7, SameTrail
<1> QED BY <1>4, <1>5, <1>8 DEF Stack!Push, v

(* A pop takes the counted levels, which are on top, and then those of     *)
(* Yices.                                                                  *)
LEMMA PopRefines ==
  ASSUME IInv, IInv', InStep, NEW n \in 1 .. MaxDepth, pop(n)
  PROVE  Stack!Pop(n)
<1> DEFINE counted == Smaller(n, pushes_after_unsat)
           open    == Len(ytrail) - 1
           popped  == Smaller(n - counted, open)
<1>1. /\ Levels \in Trails
      /\ Len(Levels) = Len(ytrail) + pushes_after_unsat
      /\ \A i \in 1 .. Len(ytrail) : Levels[i] = ytrail[i]
      /\ \A i \in Len(ytrail) + 1 .. Len(Levels) : Levels[i] = {}
  BY LevelsShape DEF IInv
<1>2. /\ Levels' \in Trails
      /\ Len(Levels') = Len(ytrail') + pushes_after_unsat'
      /\ \A i \in 1 .. Len(ytrail') : Levels'[i] = ytrail'[i]
      /\ \A i \in Len(ytrail') + 1 .. Len(Levels') : Levels'[i] = {}
  BY LevelsShapeNext DEF IInv
<1>3. /\ Len(ytrail) \in Nat /\ Len(ytrail) > 0 /\ pushes_after_unsat \in Nat
      /\ ytrail \in Trails
  BY TopType DEF IInv
<1>4. n \in Nat /\ n > 0 /\ depth \in Nat
  BY ContextAssumption DEF ContextAssumption, IInv, TypeOK
<1>5. /\ n <= depth
      /\ pushes_after_unsat' = pushes_after_unsat - counted
      /\ ytrail' = SubSeq(ytrail, 1, Len(ytrail) - popped)
      /\ answer' = answer
  BY DEF pop
<1>6. depth = Len(ytrail) - 1 + pushes_after_unsat
  BY DEF IInv, LevelsAgree
<1>7. /\ counted \in Nat /\ counted <= n /\ counted <= pushes_after_unsat
      /\ counted < n => counted = pushes_after_unsat
  BY <1>3, <1>4 DEF Smaller
<1> HIDE DEF counted
<1>8. popped = n - counted /\ popped \in Nat /\ popped < Len(ytrail)
  BY <1>3, <1>4, <1>5, <1>6, <1>7 DEF Smaller
<1> HIDE DEF popped
<1>9. /\ Len(ytrail') = Len(ytrail) - popped
      /\ \A i \in 1 .. Len(ytrail) - popped : ytrail'[i] = ytrail[i]
  <2>1. Len(ytrail) - popped \in 1 .. Len(ytrail)
    BY <1>3, <1>8
  <2> QED BY <1>3, <1>5, <2>1, Shortened
<1>10. n < Len(Levels)
  BY <1>1, <1>3, <1>4, <1>5, <1>6
<1> DEFINE m == Len(Levels) - n
           v == SubSeq(Levels, 1, m)
<1>11. m \in 1 .. Len(Levels) /\ m \in Nat
  BY <1>1, <1>3, <1>4, <1>10
<1>12. /\ v \in Trails /\ Len(v) = m
       /\ \A i \in 1 .. m : v[i] = Levels[i]
  <2> HIDE DEF m
  <2> QED BY <1>1, <1>11, Shortened
<1> HIDE DEF v
<1>13. Len(Levels') = m
  BY <1>1, <1>2, <1>3, <1>4, <1>5, <1>7, <1>8, <1>9
<1>14. ASSUME NEW i \in 1 .. m
       PROVE  Levels'[i] = v[i]
  <2>1. CASE i \in 1 .. Len(ytrail')
    <3>1. i \in 1 .. Len(ytrail)
      BY <1>3, <1>8, <1>9, <2>1
    <3> QED BY <1>1, <1>2, <1>9, <1>12, <2>1, <3>1
  <2>2. CASE i \in Len(ytrail') + 1 .. m
    <3>1. counted = n
      BY <1>1, <1>3, <1>4, <1>7, <1>8, <1>9, <2>2
    <3>2. i \in Len(ytrail) + 1 .. Len(Levels)
      BY <1>1, <1>3, <1>4, <1>8, <1>9, <1>11, <2>2, <3>1
    <3>3. i \in Len(ytrail') + 1 .. Len(Levels')
      BY <1>13, <2>2
    <3> QED BY <1>1, <1>2, <1>12, <3>2, <3>3
  <2> QED BY <1>3, <1>8, <1>9, <1>11, <2>1, <2>2
<1>15. Levels' = v
  <2> HIDE DEF m
  <2> QED BY <1>2, <1>12, <1>13, <1>14, SameTrail
<1> QED BY <1>5, <1>10, <1>15 DEF Stack!Pop, v, m

(* A new context is the empty stack, unless counted pushes are left over.  *)
LEMMA ResetRefines ==
  ASSUME IInv, IInv', InStep', reset_assertions
  PROVE  Stack!Reset
<1>1. /\ ytrail' = <<Models>> /\ answer' = answer
      /\ drift' = drift \cup (IF pushes_after_unsat > 0 THEN {"reset"} ELSE {})
                        \cup (IF context_level # 0 THEN {"level"} ELSE {})
      /\ pushes_after_unsat' = pushes_after_unsat
  BY DEF reset_assertions, NewContext
<1>2. pushes_after_unsat \in Nat
  BY TopType DEF IInv
<1>3. pushes_after_unsat' = 0
  <2>1. CASE pushes_after_unsat > 0
    BY <1>1, <2>1 DEF InStep, Unsound
  <2>2. CASE ~(pushes_after_unsat > 0)
    BY <1>1, <1>2, <2>2
  <2> QED BY <2>1, <2>2
<1>4. /\ Levels' \in Trails
      /\ Len(Levels') = Len(ytrail') + pushes_after_unsat'
      /\ \A i \in 1 .. Len(ytrail') : Levels'[i] = ytrail'[i]
  BY LevelsShapeNext DEF IInv
<1>5. <<Models>> \in Trails /\ Len(<<Models>>) = 1
  BY DEF Trails
<1>6. Levels' = <<Models>>
  BY <1>1, <1>3, <1>4, <1>5, SameTrail
<1> QED BY <1>1, <1>6 DEF Stack!Reset

(* Replacing a context that is still as new is no step of the stack.       *)
LEMMA SetOptRefines ==
  ASSUME IInv, InStep', set_opt
  PROVE  UNCHANGED Stack!vars
<1>1. /\ ytrail' = <<Models>>
      /\ drift' = drift \cup IF ytrail # <<Models>> \/ pushes_after_unsat > 0
                             THEN {"option"} ELSE {}
      /\ pushes_after_unsat' = pushes_after_unsat /\ answer' = answer
  BY DEF set_opt, NewContext
<1>2. ytrail' = ytrail
  BY <1>1 DEF InStep, Unsound
<1>3. Levels' = Levels
  BY <1>1, <1>2 DEF Levels
<1> QED BY <1>1, <1>3 DEF Stack!vars

(* Drift is never made up for.                                             *)
LEMMA DriftGrows == [Next]_vars => (InStep' => InStep)
<1> SUFFICES ASSUME [Next]_vars PROVE drift \subseteq drift'
  BY DEF InStep
<1> QED
  BY DEF Next, vars, assert_formula, check_sat, check_sat_assuming, push, pop,
         reset_assertions, set_opt

(* Every step that leaves client and solver in step is one of             *)
(* AssertionStack, or stutters.                                           *)
LEMMA StepRefines ==
  IInv /\ IInv' /\ [Next]_vars => [InStep' => Stack!Next]_(Stack!vars)
<1> SUFFICES ASSUME IInv, IInv', [Next]_vars, InStep'
             PROVE  Stack!Next \/ UNCHANGED Stack!vars
  OBVIOUS
<1>1. InStep
  BY DriftGrows
<1>2. CASE \E f \in Formulas : assert_formula(f)
  BY <1>1, <1>2, AssertRefines DEF Stack!Next
<1>3. CASE \E f \in Formulas : check_sat_assuming(f)
  <2>1. PICK f \in Formulas : check_sat_assuming(f)
    BY <1>3
  <2>2. f \in SUBSET Models /\ f \in Formulas \cup {Models}
    BY ContextAssumption DEF ContextAssumption
  <2>3. /\ status' \in {"UNSAT", "UNKNOWN", "SAT", "ASSUMED"}
        /\ status' \in {"UNSAT", "ASSUMED"} => Top \cap f = {}
        /\ status' = "SAT" => Top \cap f # {}
    BY <2>1 DEF check_sat_assuming, IInv, UnsatIsUnsat
  <2>4. answer' = Verdict(status') /\ UNCHANGED <<ytrail, pushes_after_unsat>>
    BY <2>1 DEF check_sat_assuming
  <2>5. Stack!Check(f)
    BY <1>1, <2>2, <2>3, <2>4, CheckRefines
  <2> QED BY <2>2, <2>5 DEF Stack!Next
<1>4. CASE check_sat
  <2>1. Top \cap Models = Top
    BY TopType DEF IInv
  <2>2. /\ status' \in {"UNSAT", "UNKNOWN", "SAT", "ASSUMED"}
        /\ status' \in {"UNSAT", "ASSUMED"} => Top \cap Models = {}
        /\ status' = "SAT" => Top \cap Models # {}
    BY <1>4, <2>1 DEF check_sat, IInv, UnsatIsUnsat
  <2>3. answer' = Verdict(status') /\ UNCHANGED <<ytrail, pushes_after_unsat>>
    BY <1>4 DEF check_sat
  <2>4. Stack!Check(Models)
    BY <1>1, <2>2, <2>3, CheckRefines
  <2> QED BY <2>4 DEF Stack!Next
<1>5. CASE \E n \in 1 .. MaxDepth : push(n)
  BY <1>1, <1>5, PushRefines DEF Stack!Next
<1>6. CASE \E n \in 1 .. MaxDepth : pop(n)
  BY <1>1, <1>6, PopRefines DEF Stack!Next
<1>7. CASE reset_assertions
  BY <1>7, ResetRefines DEF Stack!Next
<1>8. CASE set_opt
  BY <1>8, SetOptRefines
<1>9. CASE UNCHANGED vars
  BY <1>9 DEF vars, Stack!vars, Levels
<1> QED BY <1>2, <1>3, <1>4, <1>5, <1>6, <1>7, <1>8, <1>9 DEF Next

-----------------------------------------------------------------------------
(* Counting modulo 2^64 *)

(* Division with remainder.                                                *)
LEMMA Divided ==
  ASSUME NEW a \in Nat, NEW w \in Nat, w > 0
  PROVE  a % w \in 0 .. w - 1 /\ \E q \in Nat : a = q * w + (a % w)
<1>1. a = (a \div w) * w + (a % w) /\ a % w \in 0 .. w - 1
  OBVIOUS
<1>2. a \div w \in Nat
  OBVIOUS
<1> QED BY <1>1, <1>2

(* The remainder is the only one.                                          *)
LEMMA OneRemainder ==
  ASSUME NEW k \in Int, NEW l \in Int, NEW w \in Nat, w > 0,
         NEW r \in 0 .. w - 1, NEW s \in 0 .. w - 1, k * w + r = l * w + s
  PROVE  r = s
OBVIOUS

(* Levels added to a wrapped count.                                        *)
LEMMA WrappedSum ==
  ASSUME NEW a \in Nat, NEW n \in Nat, NEW w \in Nat, w > 0
  PROVE  ((a % w) + n) % w = (a + n) % w
<1>1. PICK r : r = a % w
  OBVIOUS
<1>2. r \in 0 .. w - 1 /\ \E q \in Nat : a = q * w + r
  BY <1>1, Divided
<1>3. PICK q \in Nat : a = q * w + r
  BY <1>2
<1>4. PICK s : s = (r + n) % w
  OBVIOUS
<1>5. r + n \in Nat /\ a + n \in Nat
  BY <1>2
<1>6. s \in 0 .. w - 1 /\ \E p \in Nat : r + n = p * w + s
  BY <1>4, <1>5, Divided
<1>7. PICK p \in Nat : r + n = p * w + s
  BY <1>6
<1>8. PICK u : u = (a + n) % w
  OBVIOUS
<1>9. u \in 0 .. w - 1 /\ \E t \in Nat : a + n = t * w + u
  BY <1>5, <1>8, Divided
<1>10. PICK t \in Nat : a + n = t * w + u
  BY <1>9
<1>11. (q + p) * w + s = t * w + u /\ q + p \in Int /\ t \in Int
  <2>1. (q + p) * w = q * w + p * w
    OBVIOUS
  <2> DEFINE qw == q * w
             pw == p * w
             tw == t * w
             sw == (q + p) * w
  <2>2. qw \in Int /\ pw \in Int /\ tw \in Int /\ sw \in Int
    OBVIOUS
  <2>3. sw = qw + pw /\ a = qw + r /\ r + n = pw + s /\ a + n = tw + u
    BY <2>1, <1>3, <1>7, <1>10
  <2> HIDE DEF qw, pw, tw, sw
  <2>4. sw + s = tw + u
    BY <1>2, <1>6, <1>9, <2>2, <2>3
  <2> QED BY <2>4 DEF sw, tw
<1>12. s = u
  BY <1>6, <1>9, <1>11, OneRemainder
<1> QED BY <1>1, <1>4, <1>8, <1>12

(* Levels taken from a wrapped count, which wraps below 0.                 *)
LEMMA WrappedDifference ==
  ASSUME NEW a \in Nat, NEW n \in Nat, n <= a, NEW w \in Nat, w > 0
  PROVE  ((a % w) + w - (n % w)) % w = (a - n) % w
<1>1. PICK r : r = a % w
  OBVIOUS
<1>2. r \in 0 .. w - 1 /\ \E q \in Nat : a = q * w + r
  BY <1>1, Divided
<1>3. PICK q \in Nat : a = q * w + r
  BY <1>2
<1>4. PICK m : m = n % w
  OBVIOUS
<1>5. m \in 0 .. w - 1 /\ \E k \in Nat : n = k * w + m
  BY <1>4, Divided
<1>6. PICK k \in Nat : n = k * w + m
  BY <1>5
<1>7. r + w - m \in Nat /\ a - n \in Nat
  BY <1>2, <1>5
<1>8. PICK s : s = (r + w - m) % w
  OBVIOUS
<1>9. s \in 0 .. w - 1 /\ \E p \in Nat : r + w - m = p * w + s
  BY <1>7, <1>8, Divided
<1>10. PICK p \in Nat : r + w - m = p * w + s
  BY <1>9
<1>11. PICK u : u = (a - n) % w
  OBVIOUS
<1>12. u \in 0 .. w - 1 /\ \E t \in Nat : a - n = t * w + u
  BY <1>7, <1>11, Divided
<1>13. PICK t \in Nat : a - n = t * w + u
  BY <1>12
<1>14. (q - k - 1 + p) * w + s = t * w + u /\ q - k - 1 + p \in Int /\ t \in Int
  <2>1. (q - k - 1 + p) * w = q * w - k * w - w + p * w
    OBVIOUS
  <2> DEFINE qw == q * w
             kw == k * w
             pw == p * w
             tw == t * w
             sw == (q - k - 1 + p) * w
  <2>2. qw \in Int /\ kw \in Int /\ pw \in Int /\ tw \in Int /\ sw \in Int
    OBVIOUS
  <2>3. /\ sw = qw - kw - w + pw /\ a = qw + r /\ n = kw + m
        /\ r + w - m = pw + s /\ a - n = tw + u
    BY <2>1, <1>3, <1>6, <1>10, <1>13
  <2> HIDE DEF qw, kw, pw, tw, sw
  <2>4. sw + s = tw + u
    BY <1>2, <1>5, <1>9, <1>12, <2>2, <2>3
  <2> QED BY <2>4 DEF sw, tw
<1>15. s = u
  BY <1>9, <1>12, <1>14, OneRemainder
<1> QED BY <1>1, <1>4, <1>8, <1>11, <1>15

(* The level counter.  Without drift no push is counted, so that every push *)
(* and pop of the client moves context_level.                              *)
LevelInv ==
  drift = {} => pushes_after_unsat = 0 /\ context_level = depth % Wrap

(* Each step moves context_level with the depth, in 64 bits, or drifts.    *)
LEMMA LevelStep ==
  ASSUME IInv, LevelInv, [Next]_vars
  PROVE  LevelInv'
<1> SUFFICES ASSUME drift' = {}
             PROVE  pushes_after_unsat' = 0 /\ context_level' = depth' % Wrap
  BY DEF LevelInv
<1>1. /\ Wrap \in Nat /\ Wrap > 0 /\ MaxDepth \in Nat /\ depth \in Nat
      /\ context_level \in 0 .. Wrap - 1
  BY ContextAssumption DEF ContextAssumption, IInv, TypeOK
<1>2. drift = {} => pushes_after_unsat = 0 /\ context_level = depth % Wrap
  BY DEF LevelInv
<1>3. CASE UNCHANGED <<pushes_after_unsat, context_level, depth, drift>>
  BY <1>2, <1>3
<1>4. ASSUME NEW n \in 1 .. MaxDepth, push(n)
      PROVE  pushes_after_unsat' = 0 /\ context_level' = depth' % Wrap
  <2>1. n \in Nat /\ depth' = depth + n
    BY <1>1, <1>4 DEF push
  <2>2. /\ context_level' = (context_level + n) % Wrap
        /\ pushes_after_unsat' = pushes_after_unsat /\ drift' = drift
    BY <1>4 DEF push
  <2>3. ((depth % Wrap) + n) % Wrap = (depth + n) % Wrap
    BY <1>1, <2>1, WrappedSum
  <2> QED BY <1>2, <2>1, <2>2, <2>3
<1>5. ASSUME NEW n \in 1 .. MaxDepth, pop(n)
      PROVE  pushes_after_unsat' = 0 /\ context_level' = depth' % Wrap
  <2>1. n \in Nat /\ n <= depth /\ depth' = depth - n
    BY <1>1, <1>5 DEF pop
  <2>2. /\ context_level' = (context_level + Wrap - (n % Wrap)) % Wrap
        /\ pushes_after_unsat' = pushes_after_unsat - Smaller(n, pushes_after_unsat)
        /\ drift' = drift
    BY <1>5 DEF pop
  <2>3. pushes_after_unsat' = 0
    BY <1>2, <2>1, <2>2 DEF Smaller
  <2>4. ((depth % Wrap) + Wrap - (n % Wrap)) % Wrap = (depth - n) % Wrap
    BY <1>1, <2>1, WrappedDifference
  <2> QED BY <1>2, <2>1, <2>2, <2>3, <2>4
<1>6. CASE reset_assertions
  <2>1. /\ depth' = 0
        /\ drift' = drift \cup (IF pushes_after_unsat > 0 THEN {"reset"} ELSE {})
                          \cup (IF context_level # 0 THEN {"level"} ELSE {})
        /\ UNCHANGED <<pushes_after_unsat, context_level>>
    BY <1>6 DEF reset_assertions
  <2>2. drift = {} /\ context_level = 0
    BY <2>1
  <2>3. 0 % Wrap = 0
    BY <1>1
  <2> QED BY <1>2, <2>1, <2>2, <2>3
<1>7. CASE set_opt
  <2>1. /\ drift' = drift \cup IF ytrail # <<Models>> \/ pushes_after_unsat > 0
                               THEN {"option"} ELSE {}
        /\ UNCHANGED <<pushes_after_unsat, context_level, depth>>
    BY <1>7 DEF set_opt
  <2>2. drift = {}
    BY <2>1
  <2> QED BY <1>2, <2>1, <2>2
<1>8. CASE \E f \in Formulas : assert_formula(f) \/ check_sat_assuming(f)
  BY <1>3, <1>8 DEF assert_formula, check_sat_assuming
<1>9. CASE check_sat
  BY <1>3, <1>9 DEF check_sat
<1>10. CASE UNCHANGED vars
  BY <1>3, <1>10 DEF vars
<1> QED BY <1>4, <1>5, <1>6, <1>7, <1>8, <1>9, <1>10 DEF Next

-----------------------------------------------------------------------------
(* The theorems *)

(* The invariant holds in every reachable state: it adds to the properties *)
(* that Yices says UNSAT only over assertions without models, and that     *)
(* client levels never exceed the levels there are to pop, which resets    *)
(* keep true and only set_opt breaks.                                      *)
THEOREM Invariance == Spec => []IInv
<1>1. Init => IInv
  BY InitInvariant
<1>2. IInv /\ [Next]_vars => IInv'
  BY NextInvariant
<1> QED BY <1>1, <1>2, PTL DEF Spec

(* The types, context_level within 64 bits and never an empty trail.       *)
THEOREM TypeCorrect == Spec => []TypeOK
<1>1. IInv => TypeOK
  BY DEF IInv
<1> QED BY <1>1, Invariance, PTL

(* push and pop keep Yices and the counter at the level of the client.     *)
THEOREM LevelsTogether == Spec => []LevelsAgree
<1>1. IInv => LevelsAgree
  BY DEF IInv
<1> QED BY <1>1, Invariance, PTL

(* A push that Yices never saw lies over assertions without models.        *)
THEOREM CountedSafe == Spec => []CountedOverUnsat
<1>1. IInv => CountedOverUnsat
  BY DEF IInv
<1> QED BY <1>1, Invariance, PTL

(* pop never asks Yices to pop a level that it does not have.              *)
THEOREM NeverYicesError == Spec => []NoYicesError
<1>1. IInv => NoYicesError
  BY DEF IInv, NoYicesError
<1> QED BY <1>1, Invariance, PTL

(* get_context_level is the depth of the client, in 64 bits, until a push  *)
(* is counted or a reset drops open levels.                                *)
THEOREM ContextLevel == Spec => []ContextLevelRight
<1>1. Init => LevelInv
  <2>1. 0 % Wrap = 0
    BY ContextAssumption DEF ContextAssumption
  <2> QED BY <2>1 DEF Init, LevelInv
<1>2. IInv /\ LevelInv /\ [Next]_vars => LevelInv'
  BY LevelStep
<1>3. LevelInv => ContextLevelRight
  BY DEF LevelInv, ContextLevelRight
<1> QED BY <1>1, <1>2, <1>3, Invariance, PTL DEF Spec

(* Yices2Solver implements AssertionStack for as long as none of the calls *)
(* that put client and solver out of step has happened.                    *)
THEOREM Refinement == Spec => Implements
<1>1. Init => Stack!Init
  BY InitRefines
<1>2. IInv /\ IInv' /\ [Next]_vars => [InStep' => Stack!Next]_(Stack!vars)
  BY StepRefines
<1> QED BY <1>1, <1>2, Invariance, PTL DEF Spec, Implements

-----------------------------------------------------------------------------
(* The time limit *)

(* Before the first check there is no alarm.                               *)
LEMMA InitOK == LimitInit => LimitIInv
<1> SUFFICES ASSUME LimitInit PROVE LimitIInv
  OBVIOUS
<1>1. LimitTypeOK
  BY DEF LimitInit, LimitTypeOK, Calls
<1>2. AlarmOK /\ FlagOK /\ DownOnlyLate
  BY DEF LimitInit, AlarmOK, FlagOK, DownOnlyLate
<1> QED BY <1>1, <1>2 DEF LimitIInv

(* One lemma per step; first the types.                                    *)
LEMMA TypeKept ==
  ASSUME LimitTypeOK, AlarmOK, [LimitNext]_limit_vars
  PROVE  LimitTypeOK'
<1> USE DEF LimitTypeOK, globals, Calls, End
<1>1. ASSUME NEW s \in Solvers, NEW b \in BOOLEAN, set_opt_time_limit(s, b), UNCHANGED NDEBUG PROVE LimitTypeOK'
  BY <1>1 DEF set_opt_time_limit
<1>2. ASSUME NEW s \in Solvers, NEW c \in Calls, Call(s, c), UNCHANGED NDEBUG PROVE LimitTypeOK'
  BY <1>2 DEF Call
<1>3. ASSUME timelimit_start, UNCHANGED NDEBUG PROVE LimitTypeOK'
  BY <1>3 DEF timelimit_start
<1>4. ASSUME Arm, UNCHANGED NDEBUG PROVE LimitTypeOK'
  BY <1>4 DEF Arm
<1>5. ASSUME Search, UNCHANGED NDEBUG PROVE LimitTypeOK'
  BY <1>5 DEF Search
<1>6. ASSUME Found, UNCHANGED NDEBUG PROVE LimitTypeOK'
  BY <1>6 DEF Found
<1>7. ASSUME NEW x \in End, timelimit_end(x), UNCHANGED NDEBUG PROVE LimitTypeOK'
  BY <1>7 DEF timelimit_end
<1>8. ASSUME Disarm, UNCHANGED NDEBUG PROVE LimitTypeOK'
  BY <1>8 DEF Disarm
<1>9. ASSUME Return, UNCHANGED NDEBUG PROVE LimitTypeOK'
  BY <1>9 DEF Return
<1>10. ASSUME yices2_timelimit_handler, UNCHANGED NDEBUG PROVE LimitTypeOK'
  <2>1. /\ alarm' = FALSE /\ expired' = TRUE /\ late' = (late \/ pc = "end")
        /\ UNCHANGED <<NDEBUG, time_limit, running_ctx, pc, cur, call, todo, tl_triggered, outcome>>
    BY <1>10 DEF yices2_timelimit_handler
  <2>2. late' \in BOOLEAN
    BY <2>1
  <2>3. /\ {yices2_terminated', down'} \subseteq BOOLEAN
        /\ res' \in {"none", "sat", "unsat", "unknown", "interrupted"}
    BY <1>10 DEF yices2_timelimit_handler
  <2> QED BY <2>1, <2>2, <2>3
<1>11. ASSUME UNCHANGED limit_vars PROVE LimitTypeOK'
  BY <1>11 DEF limit_vars
<1> QED
  BY <1>1, <1>2, <1>3, <1>4, <1>5, <1>6, <1>7, <1>8, <1>9, <1>10, <1>11 DEF LimitNext, Step, Client

(* An alarm never outlives the check that set it.                          *)
LEMMA AlarmKept ==
  ASSUME LimitTypeOK, AlarmOK, [LimitNext]_limit_vars
  PROVE  AlarmOK'
<1> USE TimeLimitAssumption DEF TimeLimitAssumption, LimitTypeOK, AlarmOK, globals, End
<1>1. ASSUME NEW s \in Solvers, NEW b \in BOOLEAN, set_opt_time_limit(s, b) PROVE AlarmOK'
  BY <1>1 DEF set_opt_time_limit
<1>2. ASSUME NEW s \in Solvers, NEW c \in Calls, Call(s, c) PROVE AlarmOK'
  BY <1>2 DEF Call
<1>3. ASSUME timelimit_start PROVE AlarmOK'
  BY <1>3 DEF timelimit_start
<1>4. ASSUME Arm PROVE AlarmOK'
  BY <1>4 DEF Arm
<1>5. ASSUME Search PROVE AlarmOK'
  BY <1>5 DEF Search
<1>6. ASSUME Found PROVE AlarmOK'
  BY <1>6 DEF Found
<1>7. ASSUME NEW x \in End, timelimit_end(x) PROVE AlarmOK'
  BY <1>7 DEF timelimit_end
<1>8. ASSUME Disarm PROVE AlarmOK'
  BY <1>8 DEF Disarm
<1>9. ASSUME Return PROVE AlarmOK'
  BY <1>9 DEF Return
<1>10. ASSUME yices2_timelimit_handler PROVE AlarmOK'
  BY <1>10 DEF yices2_timelimit_handler
<1>11. ASSUME UNCHANGED limit_vars PROVE AlarmOK'
  BY <1>11 DEF limit_vars
<1> QED
  BY <1>1, <1>2, <1>3, <1>4, <1>5, <1>6, <1>7, <1>8, <1>9, <1>10, <1>11 DEF LimitNext, Step, Client

(* The flag of a search that was stopped reaches the answer, and no flag    *)
(* stays behind.                                                           *)
LEMMA FlagKept ==
  ASSUME LimitTypeOK, AlarmOK, FlagOK, [LimitNext]_limit_vars
  PROVE  FlagOK'
<1> USE TimeLimitAssumption DEF TimeLimitAssumption, LimitTypeOK, AlarmOK, FlagOK, globals, End
<1>1. ASSUME NEW s \in Solvers, NEW b \in BOOLEAN, set_opt_time_limit(s, b) PROVE FlagOK'
  BY <1>1 DEF set_opt_time_limit
<1>2. ASSUME NEW s \in Solvers, NEW c \in Calls, Call(s, c) PROVE FlagOK'
  BY <1>2 DEF Call
<1>3. ASSUME timelimit_start PROVE FlagOK'
  BY <1>3 DEF timelimit_start
<1>4. ASSUME Arm PROVE FlagOK'
  BY <1>4 DEF Arm
<1>5. ASSUME Search PROVE FlagOK'
  BY <1>5 DEF Search
<1>6. ASSUME Found PROVE FlagOK'
  BY <1>6 DEF Found
<1>7. ASSUME NEW x \in End, timelimit_end(x) PROVE FlagOK'
  BY <1>7 DEF timelimit_end
<1>8. ASSUME Disarm PROVE FlagOK'
  BY <1>8 DEF Disarm
<1>9. ASSUME Return PROVE FlagOK'
  BY <1>9 DEF Return
<1>10. ASSUME yices2_timelimit_handler PROVE FlagOK'
  BY <1>10 DEF yices2_timelimit_handler
<1>11. ASSUME UNCHANGED limit_vars PROVE FlagOK'
  BY <1>11 DEF limit_vars
<1> QED
  BY <1>1, <1>2, <1>3, <1>4, <1>5, <1>6, <1>7, <1>8, <1>9, <1>10, <1>11 DEF LimitNext, Step, Client

(* The process ends in the handler without a context, or at an assertion   *)
(* of timelimit_start: both take an alarm that came late.                  *)
LEMMA DownKept ==
  ASSUME LimitTypeOK, AlarmOK, FlagOK, DownOnlyLate, [LimitNext]_limit_vars
  PROVE  DownOnlyLate'
<1> USE TimeLimitAssumption DEF TimeLimitAssumption, LimitTypeOK, AlarmOK, DownOnlyLate, globals
<1>1. CASE yices2_timelimit_handler
  BY <1>1 DEF yices2_timelimit_handler
<1>2. CASE timelimit_start
  <2>1. yices2_terminated => late
    BY <1>2 DEF timelimit_start, FlagOK
  <2> QED BY <1>2, <2>1 DEF timelimit_start
<1>3. CASE UNCHANGED <<down, late>>
  BY <1>3
<1>4. yices2_timelimit_handler \/ timelimit_start \/ UNCHANGED <<down, late>>
  BY DEF LimitNext, Step, Client, limit_vars, set_opt_time_limit, Call, Arm, Search, Found, timelimit_end,
         Disarm, Return
<1> QED BY <1>1, <1>2, <1>3, <1>4

-----------------------------------------------------------------------------
(* The theorems *)

(* The invariant: pending alarms and their news are where they belong.     *)
THEOREM LimitInvariance == LimitSpec => []LimitIInv
<1>1. LimitInit => LimitIInv
  BY InitOK
<1>2. LimitIInv /\ [LimitNext]_limit_vars => LimitIInv'
  BY TypeKept, AlarmKept, FlagKept, DownKept DEF LimitIInv
<1> QED BY <1>1, <1>2, PTL DEF LimitSpec

(* The types.                                                              *)
THEOREM LimitTypeCorrect == LimitSpec => []LimitTypeOK
<1>1. LimitIInv => LimitTypeOK
  BY DEF LimitIInv
<1> QED BY <1>1, LimitInvariance, PTL

(* A check_sat that the handler stopped answers "Time limit reached.".     *)
THEOREM TimeoutIsReported == LimitSpec => []StoppedIsReported
<1>1. LimitIInv => StoppedIsReported
  BY DEF LimitIInv, FlagOK, StoppedIsReported
<1> QED BY <1>1, LimitInvariance, PTL

(* The answer is given only where the alarm went off, unless one was late. *)
THEOREM ReportIsTrue == LimitSpec => []ReportedIsExpired
<1>1. LimitIInv => ReportedIsExpired
  BY DEF LimitIInv, FlagOK, ReportedIsExpired
<1> QED BY <1>1, LimitInvariance, PTL

(* An alarm ends the process only from within timelimit_end, or after one  *)
(* that did not.                                                           *)
THEOREM OnlyLateAlarmsKill == LimitSpec => []DownOnlyLate
<1>1. LimitIInv => DownOnlyLate
  BY DEF LimitIInv
<1> QED BY <1>1, LimitInvariance, PTL
=============================================================================
